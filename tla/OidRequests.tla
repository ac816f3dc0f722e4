---------------------------- MODULE OidRequests ----------------------------
(***************************************************************************)
(* What NDIS and the protocols learn about the adapter and set in it       *)
(* (info.c), on top of HardwareSetup: requests come to an adapter that has *)
(* been initialised and is not halted, one at a time, while its reads go   *)
(* on counting packets.                                                    *)
(*                                                                         *)
(* A query is two steps.  The switch chooses where the answer is and how   *)
(* long it is; the tail looks at the length of the caller's buffer and     *)
(* copies the answer from a local variable or from the adapter, as it is   *)
(* then.  A caller whose buffer is too short may ask again with as many    *)
(* bytes as it was told are needed.  Lengths are in bytes; of the answers  *)
(* only those that can differ are told apart.                              *)
(***************************************************************************)
EXTENDS HardwareSetup

CONSTANTS
    Asked,          \* bound: OIDs of requests, for instance one of each kind
    Lengths,        \* bound: lengths of buffers, besides those asked for
    Filters,        \* bound: packet filters that protocols set
    Modulus,        \* 2^32, at which the statistics wrap
    MaxArrivals     \* bound: packets received during a query

ASSUME OidAssumption ==
    /\ Lengths \subseteq Nat
    /\ Modulus \in Nat \ {0} /\ MaxArrivals \in 0 .. (Modulus - 1)

VARIABLES
    registry,               \* how reading the registry went
    CurrentAddress,         \* which station address it holds
    CurrentPacketFilter,
    CurrentPowerState,
    RcvOk,
    request,                \* the query NDIS has under way, or none
    since,                  \* history: values of RcvOk since it was called
    reply                   \* to the last request

settings == <<CurrentPacketFilter, CurrentPowerState>>
oidVars == <<registry, CurrentAddress, settings, RcvOk, request, since, reply>>
adapterVars == <<vars, oidVars>>

\* OIDs whose answer is a number or an enumeration of four bytes in a local variable.
\* MediaState is in the adapter, but only SaitInitialize writes it.
Constants ==
    {"GEN_HARDWARE_STATUS", "GEN_MEDIA_SUPPORTED", "GEN_MEDIA_IN_USE",
     "GEN_MAXIMUM_LOOKAHEAD", "GEN_CURRENT_LOOKAHEAD", "GEN_MAXIMUM_FRAME_SIZE",
     "GEN_MAXIMUM_TOTAL_SIZE", "GEN_TRANSMIT_BLOCK_SIZE", "GEN_RECEIVE_BLOCK_SIZE",
     "GEN_MAC_OPTIONS", "GEN_LINK_SPEED", "GEN_MEDIA_CONNECT_STATUS",
     "GEN_TRANSMIT_BUFFER_SPACE", "GEN_RECEIVE_BUFFER_SPACE",
     "GEN_VENDOR_DRIVER_VERSION", "GEN_MAXIMUM_SEND_PACKETS", "802_3_MAXIMUM_LIST_SIZE"}

\* Those whose answer is a counter of the adapter.  All but RcvOk stay 0: the one that
\* send.c increments is on the write path.
Statistics ==
    {"GEN_XMIT_OK", "GEN_RCV_OK", "GEN_XMIT_ERROR", "GEN_RCV_ERROR", "GEN_RCV_NO_BUFFER",
     "802_3_RCV_ERROR_ALIGNMENT", "802_3_XMIT_ONE_COLLISION",
     "802_3_XMIT_MORE_COLLISIONS", "802_3_XMIT_DEFERRED", "802_3_XMIT_MAX_COLLISIONS",
     "802_3_RCV_OVERRUN", "802_3_XMIT_UNDERRUN", "802_3_XMIT_HEARTBEAT_FAILURE",
     "802_3_XMIT_TIMES_CRS_LOST", "802_3_XMIT_LATE_COLLISIONS"}

Others ==
    {"GEN_SUPPORTED_LIST", "GEN_VENDOR_ID", "GEN_VENDOR_DESCRIPTION",
     "GEN_DRIVER_VERSION", "GEN_CURRENT_PACKET_FILTER", "802_3_PERMANENT_ADDRESS",
     "802_3_CURRENT_ADDRESS", "PNP_QUERY_POWER", "PNP_ENABLE_WAKE_UP"}

\* The cases of the switch that end in NDIS_STATUS_SUCCESS.
Answered == Constants \cup Statistics \cup Others

\* The list has some more, which no query is answered for.
SaitSupportedOids ==
    Answered \cup
    {"GEN_PROTOCOL_OPTIONS", "GEN_MACHINE_NAME", "GEN_RCV_CRC_ERROR",
     "GEN_TRANSMIT_QUEUE_LENGTH", "802_3_MULTICAST_LIST", "PNP_CAPABILITIES",
     "PNP_SET_POWER", "PNP_ADD_WAKE_UP_PATTERN", "PNP_REMOVE_WAKE_UP_PATTERN"}

InfoLength(oid) ==
    CASE oid = "GEN_SUPPORTED_LIST" -> 4 * Cardinality(SaitSupportedOids)
      [] oid = "GEN_VENDOR_ID" -> 3
      [] oid = "GEN_VENDOR_DESCRIPTION" -> 26
      [] oid = "GEN_DRIVER_VERSION" -> 2
      [] oid \in {"802_3_PERMANENT_ADDRESS", "802_3_CURRENT_ADDRESS"} -> 6
      [] oid \in {"PNP_QUERY_POWER", "PNP_ENABLE_WAKE_UP"} -> 0
      [] OTHER -> 4

\* Mutant: the wrong counter, copied from the case above.
Info_WrongCounter(oid) ==
    CASE oid \in Statistics -> 0
      [] oid = "GEN_CURRENT_PACKET_FILTER" -> CurrentPacketFilter
      [] oid = "802_3_CURRENT_ADDRESS" -> CurrentAddress
      [] oid \in {"802_3_PERMANENT_ADDRESS", "GEN_VENDOR_ID"} -> "permanent"
      [] OTHER -> "constant"

\* What the tail of the query finds where `info' points.
Info(oid) ==
    CASE oid = "GEN_RCV_OK" -> RcvOk
      [] oid \in Statistics \ {"GEN_RCV_OK"} -> 0
      [] oid = "GEN_CURRENT_PACKET_FILTER" -> CurrentPacketFilter
      [] oid = "802_3_CURRENT_ADDRESS" -> CurrentAddress
      [] oid \in {"802_3_PERMANENT_ADDRESS", "GEN_VENDOR_ID"} -> "permanent"
      [] OTHER -> "constant"

NoRequest == [oid |-> "none", length |-> 0, retry |-> FALSE]
Nothing == "nothing"

\* bytes is BytesWritten or BytesRead, needed is BytesNeeded.
Answer(kind, oid, length, retry, result, bytes, needed, value) ==
    [kind |-> kind, oid |-> oid, length |-> length, retry |-> retry, status |-> result,
     bytes |-> bytes, needed |-> needed, value |-> value]

NoReply == Answer("none", "none", 0, FALSE, "success", 0, 0, Nothing)

OidInit ==
    /\ Init
    /\ registry = "notRead" /\ CurrentAddress = "zero"
    /\ CurrentPacketFilter = "initial" /\ CurrentPowerState = "D0"
    /\ RcvOk = 0
    /\ request = NoRequest /\ since = {}
    /\ reply = NoReply

----------------------------------------------------------------------------
(* SaitInitialize *)

\* Mutant: the fall-back is only taken if there is no address at all.
ReadAddress_AnyLength ==
    /\ ReadRegistry
    /\ registry' \in {"closed", "noAddress", "wrongLength", "address"}
    /\ CurrentAddress' = CASE registry' = "closed" -> CurrentAddress
                           [] registry' = "noAddress" -> "permanent"
                           [] registry' = "wrongLength" -> "garbage"
                           [] registry' = "address" -> "network"
    /\ UNCHANGED <<settings, RcvOk, request, since, reply>>

\* NdisOpenConfiguration fails, NdisReadNetworkAddress fails, it gives an address of
\* a wrong length, or it gives one.
ReadAddress ==
    /\ ReadRegistry
    /\ registry' \in {"closed", "noAddress", "wrongLength", "address"}
    /\ CurrentAddress' = CASE registry' = "closed" -> CurrentAddress
                           [] registry' \in {"noAddress", "wrongLength"} -> "permanent"
                           [] registry' = "address" -> "network"
    /\ UNCHANGED <<settings, RcvOk, request, since, reply>>

Running == pc = "returned" /\ status = "success"

----------------------------------------------------------------------------
(* SaitUsbPacketReadCompletionRoutine *)

CountReceived ==
    /\ Running
    /\ RcvOk' = (RcvOk + 1) % Modulus
    /\ IF request = NoRequest
       THEN UNCHANGED since
       ELSE Cardinality(since) <= MaxArrivals /\ since' = since \cup {RcvOk'}
    /\ UNCHANGED <<vars, registry, CurrentAddress, settings, request, reply>>

----------------------------------------------------------------------------
(* SaitQueryInformation *)

\* The switch.  An OID that has no answer is refused there and then.
Query(oid, length, retry) ==
    /\ Running /\ request = NoRequest
    /\ IF oid \in Answered
       THEN /\ request' = [oid |-> oid, length |-> length, retry |-> retry]
            /\ since' = {RcvOk}
            /\ reply' = NoReply
       ELSE /\ reply' = Answer("query", oid, length, retry, "notSupported", 0, 0, Nothing)
            /\ UNCHANGED <<request, since>>
    /\ UNCHANGED <<vars, registry, CurrentAddress, settings, RcvOk>>

FirstQuery == \E oid \in Asked, length \in Lengths : Query(oid, length, FALSE)

QueryAgain ==
    /\ reply.kind = "query" /\ reply.status = "tooShort"
    /\ Query(reply.oid, reply.needed, TRUE)

\* Mutant: BytesNeeded is set with BytesWritten.
CopyAnswer_NeedsNothing ==
    /\ request # NoRequest
    /\ LET fits == InfoLength(request.oid) <= request.length
           bytes == IF fits THEN InfoLength(request.oid) ELSE 0
       IN reply' = Answer("query", request.oid, request.length, request.retry,
                          IF fits THEN "success" ELSE "tooShort", bytes, bytes,
                          IF fits /\ bytes # 0 THEN Info(request.oid) ELSE Nothing)
    /\ request' = NoRequest /\ since' = {}
    /\ UNCHANGED <<vars, registry, CurrentAddress, settings, RcvOk>>

\* Mutant: the answer is copied whatever the length of the buffer.
CopyAnswer_Unchecked ==
    /\ request # NoRequest
    /\ reply' = Answer("query", request.oid, request.length, request.retry, "success",
                       InfoLength(request.oid), InfoLength(request.oid), Info(request.oid))
    /\ request' = NoRequest /\ since' = {}
    /\ UNCHANGED <<vars, registry, CurrentAddress, settings, RcvOk>>

\* The tail: the length of the answer is always told, the answer copied if it fits.
CopyAnswer ==
    /\ request # NoRequest
    /\ LET fits == InfoLength(request.oid) <= request.length
           bytes == IF fits THEN InfoLength(request.oid) ELSE 0
       IN reply' = Answer("query", request.oid, request.length, request.retry,
                          IF fits THEN "success" ELSE "tooShort", bytes,
                          InfoLength(request.oid),
                          IF fits /\ bytes # 0 THEN Info(request.oid) ELSE Nothing)
    /\ request' = NoRequest /\ since' = {}
    /\ UNCHANGED <<vars, registry, CurrentAddress, settings, RcvOk>>

----------------------------------------------------------------------------
(* SaitSetInformation, one step: nothing else reads or writes what it sets. *)

SetReply(oid, length, result, bytes, needed) ==
    reply' = Answer("set", oid, length, FALSE, result, bytes, needed, Nothing)

\* The look-ahead size is accepted and not kept.
SetLookahead(length) ==
    /\ IF length >= 4
       THEN SetReply("GEN_CURRENT_LOOKAHEAD", length, "success", 4, 0)
       ELSE SetReply("GEN_CURRENT_LOOKAHEAD", length, "invalidLength", 0, 4)
    /\ UNCHANGED settings

\* Here and in SetPower a wrong length leaves BytesNeeded at 0.
SetPacketFilter(length) ==
    IF length = 4
    THEN /\ CurrentPacketFilter' \in Filters
         /\ SetReply("GEN_CURRENT_PACKET_FILTER", length, "success", 4, 0)
         /\ UNCHANGED CurrentPowerState
    ELSE /\ SetReply("GEN_CURRENT_PACKET_FILTER", length, "invalidLength", 0, 0)
         /\ UNCHANGED settings

SetPower(length) ==
    IF length = 4
    THEN /\ CurrentPowerState' \in {"D0", "D3"}
         /\ SetReply("PNP_SET_POWER", length, "success", 4, 0)
         /\ UNCHANGED CurrentPacketFilter
    ELSE /\ SetReply("PNP_SET_POWER", length, "invalidLength", 0, 0)
         /\ UNCHANGED settings

SetOther(oid, length) ==
    /\ oid \notin {"GEN_CURRENT_LOOKAHEAD", "GEN_CURRENT_PACKET_FILTER", "PNP_SET_POWER"}
    /\ SetReply(oid, length, "notSupported", 0, 0)
    /\ UNCHANGED settings

SetInformation ==
    /\ Running /\ request = NoRequest
    /\ \E length \in Lengths :
          \/ SetLookahead(length) \/ SetPacketFilter(length) \/ SetPower(length)
          \/ \E oid \in Asked : SetOther(oid, length)
    /\ UNCHANGED <<vars, registry, CurrentAddress, RcvOk, request, since>>

----------------------------------------------------------------------------
\* NDIS waits for a request it has made before it halts the adapter.
SetupStep ==
    /\ Next /\ pc # "registry" /\ request = NoRequest
    /\ reply' = NoReply
    /\ UNCHANGED <<registry, CurrentAddress, settings, RcvOk, request, since>>

OidNext ==
    \/ SetupStep \/ ReadAddress
    \/ CountReceived
    \/ FirstQuery \/ QueryAgain \/ CopyAnswer \/ SetInformation

OidSpec == OidInit /\ [][OidNext]_adapterVars

----------------------------------------------------------------------------
(* Properties *)

\* The types of HardwareSetup and of the requests; no reply has more bytes than the
\* caller's buffer.
AdapterTypeOK ==
    /\ TypeOK
    /\ registry \in {"notRead", "closed", "noAddress", "wrongLength", "address"}
    /\ CurrentAddress \in {"zero", "permanent", "network"}
    /\ CurrentPacketFilter \in Filters \cup {"initial"}
    /\ CurrentPowerState \in {"D0", "D3"}
    /\ RcvOk \in 0 .. (Modulus - 1) /\ since \subseteq 0 .. (Modulus - 1)
    /\ request = NoRequest \/ request.oid \in Answered
    /\ reply.bytes <= reply.length

\* A caller that was told its buffer is too short, and that asks again with a buffer
\* of the length it was told, gets its answer.
SecondTryAnswers ==
    reply.kind = "query" /\ reply.retry => reply.status = "success"

\* The number of received packets that a query returns is one that was true at some
\* time between the call and the return, however many packets arrive meanwhile and
\* wherever the counter wraps.
ReportedIsFresh ==
    [][request.oid = "GEN_RCV_OK" /\ request' = NoRequest /\ reply'.status = "success"
          => reply'.value \in since]_adapterVars

\* An adapter that runs says it has a station address: the one in the registry if there
\* is one of the right length, the permanent one if not.  When the registry could not
\* be opened the code takes neither, and the address stays zero.
AddressFallsBack ==
    reply.oid = "802_3_CURRENT_ADDRESS" /\ reply.kind = "query" /\ reply.status = "success"
        => CASE registry = "address" -> reply.value = "network"
             [] registry \in {"noAddress", "wrongLength"} -> reply.value = "permanent"
             [] registry = "closed" -> reply.value = "zero"

============================================================================
