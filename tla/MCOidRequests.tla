--------------------------- MODULE MCOidRequests ---------------------------
(* OidRequests for TLC: one OID for each kind of answer, those that can be *)
(* set, two that get no answer; buffers of every length at which an answer *)
(* starts to fit and of one byte less.                                     *)
EXTENDS OidRequests

MCDevices ==
    {<<>>, <<"out">>, <<"out", "in">>, <<"in", "out">>, <<"out", "other">>,
     <<"other", "in">>, <<"out", "in", "other">>}

MCAsked ==
    {"GEN_SUPPORTED_LIST", "GEN_MAC_OPTIONS", "GEN_RCV_OK", "GEN_XMIT_OK",
     "GEN_VENDOR_ID", "GEN_VENDOR_DESCRIPTION", "GEN_DRIVER_VERSION",
     "GEN_CURRENT_PACKET_FILTER", "GEN_CURRENT_LOOKAHEAD", "802_3_CURRENT_ADDRESS",
     "802_3_PERMANENT_ADDRESS", "PNP_QUERY_POWER", "PNP_SET_POWER",
     "GEN_MACHINE_NAME", "unknown"}

============================================================================
