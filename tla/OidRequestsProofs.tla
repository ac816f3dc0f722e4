------------------------- MODULE OidRequestsProofs -------------------------
(***************************************************************************)
(* The requests of NDIS for every set of OIDs, buffer lengths and filters, *)
(* and any modulus of the counters: what is proved of the set-up holds     *)
(* with requests going on, a second try is answered, and the address and   *)
(* the packet count that are reported are the right ones.                  *)
(***************************************************************************)
EXTENDS OidRequests, HardwareSetupProofs, FiniteSetTheorems

----------------------------------------------------------------------------
(* The set-up under it *)

\* A request or a packet leaves the set-up alone.
LEMMA OidNextIsNext == [OidNext]_adapterVars => [Next]_vars
  <1> SUFFICES ASSUME [OidNext]_adapterVars PROVE [Next]_vars
    OBVIOUS
  <1>1. CASE SetupStep
    BY <1>1 DEF SetupStep
  <1>2. CASE ReadAddress
    BY <1>2 DEF ReadAddress, Next
  <1>3. CASE CountReceived \/ CopyAnswer \/ SetInformation
    BY <1>3 DEF CountReceived, CopyAnswer, SetInformation
  <1>4. CASE FirstQuery \/ QueryAgain
    BY <1>4 DEF FirstQuery, QueryAgain, Query
  <1>5. CASE UNCHANGED adapterVars
    BY <1>5 DEF adapterVars
  <1> QED
    BY <1>1, <1>2, <1>3, <1>4, <1>5 DEF OidNext

\* What is proved of the set-up holds of the adapter that answers requests.
THEOREM AdapterIsSetUp == OidSpec => Spec
  <1>1. OidInit => Init
    BY DEF OidInit
  <1> QED
    BY <1>1, OidNextIsNext, PTL DEF OidSpec, Spec

\* No block has two owners or none, whatever fails, with requests going on.
THEOREM AdapterBlocksHaveOneOwner == OidSpec => []OneOwner
  BY AdapterIsSetUp, BlocksHaveOneOwner, PTL

\* No end of an adapter leaves memory.
THEOREM AdapterLeaksNothing == OidSpec => []NothingLeaks
  BY AdapterIsSetUp, NoMemoryLeaks, PTL

\* An adapter that answers requests is complete.
THEOREM AdapterRunsComplete == OidSpec => []RunningIsComplete
  BY AdapterIsSetUp, SuccessMeansComplete, PTL

\* Each end of it deselects the configuration, if it can.
THEOREM AdapterEndsDeselected == OidSpec => []EndDeselects
  BY AdapterIsSetUp, EndsDeselect, PTL

----------------------------------------------------------------------------
(* Lengths *)

\* Small enumerations are finite.
LEMMA FiniteFive ==
  ASSUME NEW a, NEW b, NEW c, NEW d, NEW e
  PROVE  IsFiniteSet({a, b, c, d, e})
  <1>1. \A S, x : IsFiniteSet(S) => IsFiniteSet(S \cup {x})
    BY FS_AddElement
  <1>2. IsFiniteSet((({a} \cup {b}) \cup {c}) \cup {d})
    BY <1>1, FS_Singleton
  <1>3. IsFiniteSet(((({a} \cup {b}) \cup {c}) \cup {d}) \cup {e})
    BY <1>1, <1>2
  <1>4. {a, b, c, d, e} = ((({a} \cup {b}) \cup {c}) \cup {d}) \cup {e}
    OBVIOUS
  <1> QED
    BY <1>3, <1>4

\* So are their unions.
LEMMA FiniteUnion ==
  ASSUME NEW S, NEW T, IsFiniteSet(S), IsFiniteSet(T)
  PROVE  IsFiniteSet(S \cup T)
  BY FS_Union

\* The list of supported OIDs has a length.
LEMMA SupportedFinite == IsFiniteSet(SaitSupportedOids)
  <1>1. IsFiniteSet(Constants)
    <2> DEFINE A == {"GEN_HARDWARE_STATUS", "GEN_MEDIA_SUPPORTED", "GEN_MEDIA_IN_USE",
                     "GEN_MAXIMUM_LOOKAHEAD", "GEN_CURRENT_LOOKAHEAD"}
               B == {"GEN_MAXIMUM_FRAME_SIZE", "GEN_MAXIMUM_TOTAL_SIZE",
                     "GEN_TRANSMIT_BLOCK_SIZE", "GEN_RECEIVE_BLOCK_SIZE",
                     "GEN_MAC_OPTIONS"}
               C == {"GEN_LINK_SPEED", "GEN_MEDIA_CONNECT_STATUS",
                     "GEN_TRANSMIT_BUFFER_SPACE", "GEN_RECEIVE_BUFFER_SPACE",
                     "GEN_VENDOR_DRIVER_VERSION"}
               D == {"GEN_MAXIMUM_SEND_PACKETS", "802_3_MAXIMUM_LIST_SIZE"}
    <2>1. IsFiniteSet(A) /\ IsFiniteSet(B) /\ IsFiniteSet(C)
      BY FiniteFive
    <2>2. IsFiniteSet({"GEN_MAXIMUM_SEND_PACKETS", "802_3_MAXIMUM_LIST_SIZE",
                       "802_3_MAXIMUM_LIST_SIZE", "802_3_MAXIMUM_LIST_SIZE",
                       "802_3_MAXIMUM_LIST_SIZE"})
      BY FiniteFive
    <2>3. IsFiniteSet(D)
      BY <2>2, FS_Subset
    <2> HIDE DEF A, B, C, D
    <2>4. IsFiniteSet(A \cup B) /\ IsFiniteSet(C \cup D)
      BY <2>1, <2>3, FiniteUnion
    <2>5. IsFiniteSet((A \cup B) \cup (C \cup D))
      BY <2>4, FiniteUnion
    <2>6. Constants \subseteq (A \cup B) \cup (C \cup D)
      BY DEF A, B, C, D, Constants
    <2> QED
      BY <2>5, <2>6, FS_Subset
  <1>2. IsFiniteSet(Statistics)
    <2> DEFINE A == {"GEN_XMIT_OK", "GEN_RCV_OK", "GEN_XMIT_ERROR", "GEN_RCV_ERROR",
                     "GEN_RCV_NO_BUFFER"}
               B == {"802_3_RCV_ERROR_ALIGNMENT", "802_3_XMIT_ONE_COLLISION",
                     "802_3_XMIT_MORE_COLLISIONS", "802_3_XMIT_DEFERRED",
                     "802_3_XMIT_MAX_COLLISIONS"}
               C == {"802_3_RCV_OVERRUN", "802_3_XMIT_UNDERRUN",
                     "802_3_XMIT_HEARTBEAT_FAILURE", "802_3_XMIT_TIMES_CRS_LOST",
                     "802_3_XMIT_LATE_COLLISIONS"}
    <2>1. IsFiniteSet(A) /\ IsFiniteSet(B) /\ IsFiniteSet(C)
      BY FiniteFive
    <2> HIDE DEF A, B, C
    <2>2. IsFiniteSet((A \cup B) \cup C)
      BY <2>1, FiniteUnion
    <2>3. Statistics \subseteq (A \cup B) \cup C
      BY DEF A, B, C, Statistics
    <2> QED
      BY <2>2, <2>3, FS_Subset
  <1>3. IsFiniteSet(SaitSupportedOids \ (Constants \cup Statistics))
    <2> DEFINE A == {"GEN_SUPPORTED_LIST", "GEN_VENDOR_ID", "GEN_VENDOR_DESCRIPTION",
                     "GEN_DRIVER_VERSION", "GEN_CURRENT_PACKET_FILTER"}
               B == {"802_3_PERMANENT_ADDRESS", "802_3_CURRENT_ADDRESS",
                     "PNP_QUERY_POWER", "PNP_ENABLE_WAKE_UP", "GEN_PROTOCOL_OPTIONS"}
               C == {"GEN_MACHINE_NAME", "GEN_RCV_CRC_ERROR", "GEN_TRANSMIT_QUEUE_LENGTH",
                     "802_3_MULTICAST_LIST", "PNP_CAPABILITIES"}
               D == {"PNP_SET_POWER", "PNP_ADD_WAKE_UP_PATTERN",
                     "PNP_REMOVE_WAKE_UP_PATTERN", "PNP_SET_POWER", "PNP_SET_POWER"}
    <2>1. IsFiniteSet(A) /\ IsFiniteSet(B) /\ IsFiniteSet(C) /\ IsFiniteSet(D)
      BY FiniteFive
    <2> HIDE DEF A, B, C, D
    <2>2. IsFiniteSet((A \cup B) \cup (C \cup D))
      BY <2>1, FiniteUnion
    <2>3. SaitSupportedOids \ (Constants \cup Statistics) \subseteq (A \cup B) \cup (C \cup D)
      BY DEF A, B, C, D, SaitSupportedOids, Answered, Others
    <2> QED
      BY <2>2, <2>3, FS_Subset
  <1>4. IsFiniteSet((Constants \cup Statistics)
                    \cup (SaitSupportedOids \ (Constants \cup Statistics)))
    BY <1>1, <1>2, <1>3, FiniteUnion
  <1> QED
    BY <1>4, FS_Subset

\* Each answer has a length.
LEMMA InfoLengthIsNat == \A oid : InfoLength(oid) \in Nat
  <1>1. Cardinality(SaitSupportedOids) \in Nat
    BY SupportedFinite, FS_CardinalityType
  <1>2. 4 * Cardinality(SaitSupportedOids) \in Nat
    BY <1>1
  <1> QED
    BY <1>2 DEF InfoLength

----------------------------------------------------------------------------
(* Where the registry is read *)

UpToRegistry == InFindHardware \cup {"cleanup", "registry"}
AddressRead == pc \in {"send", "receive"} \/ Runs

\* The registry is read once, on the only way to an adapter that runs.
LEMMA RegistryOnTheWay ==
  ASSUME Next
  PROVE  /\ pc' \in UpToRegistry => pc \in UpToRegistry
         /\ pc # "registry" /\ AddressRead' => AddressRead
  <1> USE DEF UpToRegistry, InFindHardware, BeforeSelect, AddressRead, Runs
  <1>1. CASE AllocUrb \/ AllocDevice \/ AllocHeader \/ AllocInterfaces \/ KeepInformation
    BY <1>1 DEF AllocUrb, AllocDevice, AllocHeader, AllocInterfaces, KeepInformation,
                Allocate
  <1>2. CASE AllocConfig \/ BuildRequest
    BY <1>2 DEF AllocConfig, BuildRequest, Replace
  <1>3. CASE GetDevice \/ GetHeader \/ GetConfig
    BY <1>3 DEF GetDevice, GetHeader, GetConfig, Submit
  <1>4. CASE CheckEndpoints \/ SelectConfiguration \/ StorePipes \/ Cleanup
    BY <1>4 DEF CheckEndpoints, SelectConfiguration, StorePipes, Cleanup
  <1>5. CASE CheckMedium \/ AllocAdapter
    BY <1>5 DEF CheckMedium, AllocAdapter, Allocate
  <1>6. CASE ReadRegistry \/ InitializeSend \/ InitializeReceive \/ EnableTail \/ Halt
    BY <1>6 DEF ReadRegistry, InitializeSend, InitializeReceive, EnableTail, Halt
  <1>7. CASE FreeResources
    BY <1>7 DEF FreeResources, FreeSend, FreeReceive, Deselect, FreeHardware, FreeAdapter
  <1> QED
    BY <1>1, <1>2, <1>3, <1>4, <1>5, <1>6, <1>7 DEF Next, FindHardware

----------------------------------------------------------------------------
(* The invariant *)

AddressOf(found) ==
    CASE found = "address" -> "network"
      [] found \in {"noAddress", "wrongLength"} -> "permanent"
      [] found \in {"notRead", "closed"} -> "zero"

\* Where the address comes from.
AddressInv ==
    /\ registry \in {"notRead", "closed", "noAddress", "wrongLength", "address"}
    /\ CurrentAddress = AddressOf(registry)
    /\ pc \in UpToRegistry => registry = "notRead"
    /\ AddressRead => registry # "notRead"

SettingsInv ==
    /\ CurrentPacketFilter \in Filters \cup {"initial"}
    /\ CurrentPowerState \in {"D0", "D3"}
    /\ RcvOk \in 0 .. (Modulus - 1) /\ since \subseteq 0 .. (Modulus - 1)

\* The query under way knows the present value of the counter, and a second try has
\* the length of its answer.
RequestInv ==
    \/ request = NoRequest
    \/ /\ request \in [oid : Answered, length : Nat, retry : BOOLEAN]
       /\ Running /\ RcvOk \in since
       /\ request.retry => request.length = InfoLength(request.oid)

\* What a caller has been told.
ReplyInv ==
    /\ reply.kind \in {"query", "set"} => Running
    /\ reply.bytes <= reply.length
    /\ reply.kind = "query" /\ reply.status = "tooShort"
          => reply.oid \in Answered /\ reply.needed = InfoLength(reply.oid)
    /\ reply.kind = "query" /\ reply.retry => reply.status = "success"
    /\ reply.kind = "query" /\ reply.status = "success"
       /\ reply.oid = "802_3_CURRENT_ADDRESS" => reply.value = CurrentAddress

OInv == HInv /\ AddressInv /\ SettingsInv /\ RequestInv /\ ReplyInv

\* No request has been made at the start.
LEMMA OInvInit == OidInit => OInv
  <1> SUFFICES ASSUME OidInit PROVE OInv
    OBVIOUS
  <1>1. HInv
    BY HInvInit DEF OidInit
  <1>2. AddressInv
    BY DEF OidInit, Init, AddressInv, AddressOf, AddressRead, Runs
  <1>3. SettingsInv
    <2>1. 0 \in 0 .. (Modulus - 1)
      BY OidAssumption
    <2> QED
      BY <2>1 DEF OidInit, SettingsInv
  <1>4. RequestInv /\ ReplyInv
    <2>1. reply.kind = "none" /\ reply.bytes = 0 /\ reply.length = 0
      BY DEF OidInit, NoReply, Answer
    <2> QED
      BY <2>1 DEF OidInit, RequestInv, ReplyInv
  <1> QED
    BY <1>1, <1>2, <1>3, <1>4 DEF OInv

\* Reading the registry sets the address to what was found.
LEMMA ReadAddressNext == OInv /\ ReadAddress => OInv'
  <1> SUFFICES ASSUME OInv, ReadAddress PROVE OInv'
    OBVIOUS
  <1>1. HInv'
    BY HInvNext DEF OInv, ReadAddress, Next
  <1>2. pc = "registry" /\ pc' = "send"
    BY DEF ReadAddress, ReadRegistry
  <1>3. registry = "notRead" /\ CurrentAddress = "zero"
    BY <1>2 DEF OInv, AddressInv, AddressOf, UpToRegistry
  <1>4. AddressInv'
    BY <1>2, <1>3
    DEF ReadAddress, AddressInv, AddressOf, UpToRegistry, InFindHardware, BeforeSelect
  <1>5. request = NoRequest /\ ~Running
    BY <1>2 DEF OInv, RequestInv, Running
  <1>6. SettingsInv' /\ RequestInv' /\ ReplyInv'
    BY <1>5 DEF OInv, ReadAddress, settings, SettingsInv, RequestInv, ReplyInv
  <1> QED
    BY <1>1, <1>4, <1>6 DEF OInv

\* Nor does another step of the set-up or the clean-up.
LEMMA SetupStepNext == OInv /\ SetupStep => OInv'
  <1> SUFFICES ASSUME OInv, SetupStep PROVE OInv'
    OBVIOUS
  <1>1. HInv'
    BY HInvNext DEF OInv, SetupStep
  <1>2. AddressInv'
    BY RegistryOnTheWay DEF OInv, SetupStep, AddressInv
  <1>3. SettingsInv' /\ RequestInv' /\ ReplyInv'
    BY DEF OInv, SetupStep, settings, SettingsInv, RequestInv, ReplyInv, NoReply, Answer
  <1> QED
    BY <1>1, <1>2, <1>3 DEF OInv

\* A packet is counted.
LEMMA CountReceivedNext == OInv /\ CountReceived => OInv'
  <1> SUFFICES ASSUME OInv, CountReceived PROVE OInv'
    OBVIOUS
  <1>1. UNCHANGED <<vars, registry, CurrentAddress, settings, request, reply>>
    BY DEF CountReceived
  <1>2. RcvOk' \in 0 .. (Modulus - 1)
    BY OidAssumption DEF CountReceived, OInv, SettingsInv
  <1>3. since' = since \/ (since' = since \cup {RcvOk'})
    BY DEF CountReceived
  <1>4. request # NoRequest => RcvOk' \in since'
    BY DEF CountReceived
  <1>5. HInv'
    BY <1>1, HInvNext DEF OInv
  <1>6. AddressInv' /\ Running' = Running
    BY <1>1 DEF vars, OInv, AddressInv, AddressRead, Runs, Running
  <1>7. SettingsInv'
    BY <1>1, <1>2, <1>3 DEF OInv, settings, SettingsInv
  <1>8. RequestInv' /\ ReplyInv'
    BY <1>1, <1>4, <1>6 DEF OInv, RequestInv, ReplyInv
  <1> QED
    BY <1>5, <1>6, <1>7, <1>8 DEF OInv

\* A request changes none of what the set-up and the address invariant speak of.
LEMMA RequestFrame ==
  ASSUME OInv, UNCHANGED <<vars, registry, CurrentAddress>>
  PROVE  HInv' /\ AddressInv' /\ Running' = Running
  <1>1. HInv'
    BY HInvNext DEF OInv
  <1>2. AddressInv' /\ Running' = Running
    BY DEF vars, OInv, AddressInv, AddressRead, Runs, Running
  <1> QED
    BY <1>1, <1>2

\* The switch of a query.
LEMMA QueryNext ==
  ASSUME OInv, NEW oid, NEW length \in Nat, NEW retry \in BOOLEAN,
         retry => oid \in Answered /\ length = InfoLength(oid),
         Query(oid, length, retry)
  PROVE  OInv'
  <1>1. /\ Running /\ request = NoRequest
        /\ UNCHANGED <<vars, registry, CurrentAddress, settings, RcvOk>>
    BY DEF Query
  <1>2. HInv' /\ AddressInv' /\ Running'
    BY <1>1, RequestFrame
  <1>3. CASE oid \in Answered
    <2>1. /\ request' = [oid |-> oid, length |-> length, retry |-> retry]
          /\ since' = {RcvOk} /\ reply' = NoReply
      BY <1>3 DEF Query
    <2>2. SettingsInv'
      BY <1>1, <2>1 DEF OInv, SettingsInv, settings
    <2>3. RequestInv'
      BY <1>1, <1>2, <1>3, <2>1 DEF RequestInv
    <2>4. ReplyInv'
      BY <2>1 DEF ReplyInv, NoReply, Answer
    <2> QED
      BY <1>2, <2>2, <2>3, <2>4 DEF OInv
  <1>4. CASE oid \notin Answered
    <2>1. /\ reply' = Answer("query", oid, length, retry, "notSupported", 0, 0, Nothing)
          /\ UNCHANGED <<request, since>>
      BY <1>4 DEF Query
    <2>2. SettingsInv' /\ RequestInv'
      BY <1>1, <2>1 DEF OInv, SettingsInv, RequestInv, settings
    <2>3. ReplyInv'
      BY <1>2, <1>4, <2>1 DEF ReplyInv, Answer
    <2> QED
      BY <1>2, <2>2, <2>3 DEF OInv
  <1> QED
    BY <1>3, <1>4

\* The tail of a query.
LEMMA CopyAnswerNext == OInv /\ CopyAnswer => OInv'
  <1> SUFFICES ASSUME OInv, CopyAnswer PROVE OInv'
    OBVIOUS
  <1> DEFINE fits == InfoLength(request.oid) <= request.length
             bytes == IF fits THEN InfoLength(request.oid) ELSE 0
  <1>1. /\ request # NoRequest /\ request' = NoRequest /\ since' = {}
        /\ reply' = Answer("query", request.oid, request.length, request.retry,
                           IF fits THEN "success" ELSE "tooShort", bytes,
                           InfoLength(request.oid),
                           IF fits /\ bytes # 0 THEN Info(request.oid) ELSE Nothing)
        /\ UNCHANGED <<vars, registry, CurrentAddress, settings, RcvOk>>
    BY DEF CopyAnswer
  <1>2. /\ request.oid \in Answered /\ request.length \in Nat /\ Running
        /\ request.retry => request.length = InfoLength(request.oid)
    BY <1>1 DEF OInv, RequestInv
  <1>3. InfoLength(request.oid) \in Nat
    BY InfoLengthIsNat
  <1>4. HInv' /\ AddressInv' /\ Running'
    BY <1>1, <1>2, RequestFrame
  <1>5. SettingsInv' /\ RequestInv'
    BY <1>1 DEF OInv, SettingsInv, RequestInv, settings
  <1>6. request.retry => fits
    BY <1>2, <1>3
  <1>7. request.oid = "802_3_CURRENT_ADDRESS"
           => InfoLength(request.oid) = 6 /\ Info(request.oid) = CurrentAddress
    BY DEF InfoLength, Info, Statistics
  <1>8. bytes <= request.length
    BY <1>2, <1>3
  <1> HIDE DEF fits, bytes
  <1>9. reply'.bytes <= reply'.length
    BY <1>1, <1>8 DEF Answer
  <1>10. reply'.status = "tooShort" => reply'.oid \in Answered
                                        /\ reply'.needed = InfoLength(reply'.oid)
    BY <1>1, <1>2 DEF Answer
  <1>11. reply'.retry => reply'.status = "success"
    BY <1>1, <1>6 DEF Answer
  <1>12. reply'.status = "success" /\ reply'.oid = "802_3_CURRENT_ADDRESS"
            => reply'.value = CurrentAddress'
    BY <1>1, <1>7 DEF Answer, fits, bytes
  <1>13. ReplyInv'
    BY <1>4, <1>9, <1>10, <1>11, <1>12 DEF ReplyInv
  <1> QED
    BY <1>4, <1>5, <1>13 DEF OInv

\* A setting is changed, or refused.
LEMMA SetInformationNext == OInv /\ SetInformation => OInv'
  <1> SUFFICES ASSUME OInv, SetInformation PROVE OInv'
    OBVIOUS
  <1>1. /\ Running /\ request = NoRequest
        /\ UNCHANGED <<vars, registry, CurrentAddress, RcvOk, request, since>>
    BY DEF SetInformation
  <1>2. HInv' /\ AddressInv' /\ Running'
    BY <1>1, RequestFrame
  <1>3. PICK length \in Lengths :
           \/ SetLookahead(length) \/ SetPacketFilter(length) \/ SetPower(length)
           \/ \E oid \in Asked : SetOther(oid, length)
    BY DEF SetInformation
  <1>4. length \in Nat
    BY OidAssumption
  <1>5. /\ reply'.kind = "set" /\ reply'.bytes <= reply'.length
        /\ CurrentPacketFilter' \in Filters \cup {"initial"}
        /\ CurrentPowerState' \in {"D0", "D3"}
    <2> USE DEF SetReply, Answer, settings, OInv, SettingsInv
    <2>1. CASE SetLookahead(length)
      BY <1>4, <2>1 DEF SetLookahead
    <2>2. CASE SetPacketFilter(length)
      BY <1>4, <2>2 DEF SetPacketFilter
    <2>3. CASE SetPower(length)
      BY <1>4, <2>3 DEF SetPower
    <2>4. CASE \E oid \in Asked : SetOther(oid, length)
      BY <1>4, <2>4 DEF SetOther
    <2> QED
      BY <1>3, <2>1, <2>2, <2>3, <2>4
  <1>6. SettingsInv' /\ RequestInv'
    BY <1>1, <1>5 DEF OInv, SettingsInv, RequestInv
  <1>7. ReplyInv'
    BY <1>2, <1>5 DEF ReplyInv
  <1> QED
    BY <1>2, <1>6, <1>7 DEF OInv

\* Every step keeps the invariant.
LEMMA OInvNext == OInv /\ [OidNext]_adapterVars => OInv'
  <1> SUFFICES ASSUME OInv, [OidNext]_adapterVars PROVE OInv'
    OBVIOUS
  <1>1. CASE FirstQuery
    BY <1>1, QueryNext, OidAssumption DEF FirstQuery
  <1>2. CASE QueryAgain
    <2>1. Query(reply.oid, reply.needed, TRUE)
      BY <1>2 DEF QueryAgain
    <2>2. reply.oid \in Answered /\ reply.needed = InfoLength(reply.oid)
      BY <1>2 DEF QueryAgain, OInv, ReplyInv
    <2> QED
      BY <2>1, <2>2, QueryNext, InfoLengthIsNat
  <1>3. CASE UNCHANGED adapterVars
    <2>1. HInv' /\ AddressInv' /\ Running' = Running
      BY <1>3, RequestFrame DEF adapterVars, oidVars
    <2>2. SettingsInv' /\ RequestInv' /\ ReplyInv'
      BY <1>3, <2>1
      DEF adapterVars, oidVars, settings, OInv, SettingsInv, RequestInv, ReplyInv
    <2> QED
      BY <2>1, <2>2 DEF OInv
  <1> QED
    BY <1>1, <1>2, <1>3, SetupStepNext, ReadAddressNext, CountReceivedNext,
       CopyAnswerNext, SetInformationNext DEF OidNext

----------------------------------------------------------------------------
\* The types, and no reply with more bytes than the caller has room for.
THEOREM AdapterTypeCorrect == OidSpec => []AdapterTypeOK
  <1>1. OInv => AdapterTypeOK
    BY DEF OInv, HInv, AddressInv, AddressOf, SettingsInv, RequestInv, ReplyInv,
           AdapterTypeOK
  <1> QED
    BY OInvInit, OInvNext, <1>1, PTL DEF OidSpec

\* A caller that asks again with what it was told is needed is answered.
THEOREM SecondTryIsAnswered == OidSpec => []SecondTryAnswers
  <1>1. OInv => SecondTryAnswers
    BY DEF OInv, ReplyInv, SecondTryAnswers
  <1> QED
    BY OInvInit, OInvNext, <1>1, PTL DEF OidSpec

\* The station address reported is the one that belongs to what the registry gave.
THEOREM AddressIsRight == OidSpec => []AddressFallsBack
  <1>1. OInv => AddressFallsBack
    BY DEF OInv, ReplyInv, AddressInv, AddressOf, AddressRead, Runs, Running,
           AddressFallsBack
  <1> QED
    BY OInvInit, OInvNext, <1>1, PTL DEF OidSpec

\* The packet count reported was true at some time during the query.
THEOREM CountIsFresh == OidSpec => ReportedIsFresh
  <1>1. OInv /\ [OidNext]_adapterVars
        => [request.oid = "GEN_RCV_OK" /\ request' = NoRequest /\ reply'.status = "success"
              => reply'.value \in since]_adapterVars
    <2> SUFFICES ASSUME OInv, OidNext, request.oid = "GEN_RCV_OK", request' = NoRequest,
                        reply'.status = "success"
                 PROVE  reply'.value \in since
      OBVIOUS
    <2>1. request # NoRequest
      BY DEF NoRequest
    <2>2. CASE CopyAnswer
      <3>1. InfoLength("GEN_RCV_OK") = 4 /\ Info("GEN_RCV_OK") = RcvOk
        BY DEF InfoLength, Info
      <3>2. reply'.value = RcvOk
        BY <2>2, <3>1 DEF CopyAnswer, Answer
      <3>3. RcvOk \in since
        BY <2>1 DEF OInv, RequestInv
      <3> QED
        BY <3>2, <3>3
    <2>3. CASE CountReceived \/ ReadAddress
      BY <2>1, <2>3 DEF CountReceived, ReadAddress
    <2>4. CASE SetupStep \/ FirstQuery \/ QueryAgain \/ SetInformation
      BY <2>1, <2>4 DEF SetupStep, FirstQuery, QueryAgain, Query, SetInformation
    <2> QED
      BY <2>2, <2>3, <2>4 DEF OidNext
  <1> QED
    BY OInvInit, OInvNext, <1>1, PTL DEF OidSpec, ReportedIsFresh
============================================================================
