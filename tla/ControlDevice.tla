--------------------------- MODULE ControlDevice ---------------------------
(***************************************************************************)
(* The state all adapters share (ioctl.c): the control device that is      *)
(* registered with the first adapter and deregistered with the last, the   *)
(* count of adapters and the hand-made mutex that protect it, and          *)
(* gdeviceExtension, through which an ioctl finds "the" adapter.           *)
(*                                                                         *)
(* NDIS initialises and halts adapters on worker threads of its own, so    *)
(* the steps of different adapters interleave, and those of programs that  *)
(* hold a handle of the control device with them.  One action is one       *)
(* access to a shared variable.  What an adapter does for itself between   *)
(* these accesses is one step here; modules HardwareSetup, SendPath and    *)
(* ReceivePath have it in detail.                                          *)
(***************************************************************************)
EXTENDS Integers, FiniteSets

CONSTANTS
    Adapters,       \* adapter structures, each used once
    Callers,        \* threads of programs that send ioctls
    NoAdapter,      \* gdeviceExtension before the first adapter
    MaxPresent,     \* bound: adapters plugged in at the same time
    Faults          \* what may fail: "hardware", "register", "receive"

ASSUME ControlAssumption ==
    /\ IsFiniteSet(Adapters) /\ NoAdapter \notin Adapters
    /\ MaxPresent \in Nat
    /\ Faults \subseteq {"hardware", "register", "receive"}

VARIABLES
    Counter,            \* of ControlDeviceMutex
    MiniportCount,
    NdisDeviceHandle,   \* is it non-NULL?  Then the device object exists.
    gdeviceExtension,
    freed,              \* adapters whose memory has been freed
    forgotten,          \* history: failed initialisations that were counted
    registerFailed,     \* history: has NdisMRegisterDevice failed?
    apc,                \* where SaitInitialize or SaitHalt of an adapter is
    uses,               \* the adapter each ioctl has read and will use
    cpc,                \* where each caller is
    heldOver            \* history: has an adapter been freed since the caller opened
                        \* its handle?

shared == <<Counter, MiniportCount, NdisDeviceHandle, gdeviceExtension, freed,
            forgotten, registerFailed>>
callers == <<uses, cpc, heldOver>>
vars == <<shared, apc, callers>>

RegisterPC == {"registerTry", "registerBackoff", "registerCount", "registerDevice",
               "registerRelease"}
DeregisterPC == {"deregisterTry", "deregisterBackoff", "deregisterCount",
                 "deregisterDevice", "deregisterRelease"}
AdapterPC == RegisterPC \cup DeregisterPC \cup
    {"absent", "hardware", "receive", "failed", "initTail", "running", "halting",
     "free", "gone"}
CallerPC == {"closed", "open", "build", "call", "wait"}

\* Adapters between their acquire and their release of the mutex.
Critical == {a \in Adapters : apc[a] \in
    {"registerCount", "registerDevice", "registerRelease",
     "deregisterCount", "deregisterDevice", "deregisterRelease"}}

\* Adapters that will take back an increment that came too late.
BackingOff == {a \in Adapters : apc[a] \in {"registerBackoff", "deregisterBackoff"}}

Present == {a \in Adapters : apc[a] \notin {"absent", "gone"}}

Goto(a, pc) == apc' = [apc EXCEPT ![a] = pc]

Init ==
    /\ Counter = 0 /\ MiniportCount = 0
    /\ NdisDeviceHandle = FALSE
    /\ gdeviceExtension = NoAdapter
    /\ freed = {} /\ forgotten = {} /\ registerFailed = FALSE
    /\ apc = [a \in Adapters |-> "absent"]
    /\ uses = [c \in Callers |-> NoAdapter]
    /\ cpc = [c \in Callers |-> "closed"]
    /\ heldOver = [c \in Callers |-> FALSE]

\* SaitFreeResources takes the memory of a; gdeviceExtension is left as it is.
FreeMemory(a) ==
    /\ freed' = freed \cup {a}
    /\ heldOver' = [c \in Callers |-> cpc[c] # "closed"]

----------------------------------------------------------------------------
(* NIC_ACQUIRE_MUTEX and NIC_RELEASE_MUTEX *)

\* Mutant: the increment is not looked at.
AcquireMutex_Unchecked(a, try, backoff, held) ==
    /\ apc[a] = try
    /\ Counter' = Counter + 1
    /\ Goto(a, held)
    /\ UNCHANGED <<MiniportCount, NdisDeviceHandle, gdeviceExtension, freed, forgotten,
                   registerFailed, callers>>

AcquireMutex(a, try, backoff, held) ==
    /\ apc[a] = try
    /\ Counter' = Counter + 1
    /\ Goto(a, IF Counter' = 1 THEN held ELSE backoff)
    /\ UNCHANGED <<MiniportCount, NdisDeviceHandle, gdeviceExtension, freed, forgotten,
                   registerFailed, callers>>

\* The decrement, and the sleep before the next try.
BackOff(a, backoff, try) ==
    /\ apc[a] = backoff
    /\ Counter' = Counter - 1
    /\ Goto(a, try)
    /\ UNCHANGED <<MiniportCount, NdisDeviceHandle, gdeviceExtension, freed, forgotten,
                   registerFailed, callers>>

\* Mutant: an early return that keeps the mutex.
ReleaseMutex_Forgotten(a, release, next) ==
    apc[a] = release /\ Goto(a, next) /\ UNCHANGED <<shared, callers>>

ReleaseMutex(a, release, next) ==
    /\ apc[a] = release
    /\ Counter' = Counter - 1
    /\ Goto(a, next)
    /\ UNCHANGED <<MiniportCount, NdisDeviceHandle, gdeviceExtension, freed, forgotten,
                   registerFailed, callers>>

----------------------------------------------------------------------------
(* SaitInitialize *)

\* The adapter is allocated, and SaitFindHardware makes it the one that ioctls
\* find before it has asked the device anything.
Plug(a) ==
    /\ apc[a] = "absent"
    /\ Cardinality(Present) < MaxPresent
    /\ gdeviceExtension' = a
    /\ Goto(a, "hardware")
    /\ UNCHANGED <<Counter, MiniportCount, NdisDeviceHandle, freed, forgotten,
                   registerFailed, callers>>

FindHardware(a) ==
    /\ apc[a] = "hardware"
    /\ \/ Goto(a, "registerTry")
       \/ "hardware" \in Faults /\ Goto(a, "failed")
    /\ UNCHANGED <<shared, callers>>

(* NICRegisterDevice, from SaitInitializeSend *)

RegisterAcquire(a) == AcquireMutex(a, "registerTry", "registerBackoff", "registerCount")
RegisterBackOff(a) == BackOff(a, "registerBackoff", "registerTry")

RegisterCount(a) ==
    /\ apc[a] = "registerCount"
    /\ MiniportCount' = MiniportCount + 1
    /\ Goto(a, IF MiniportCount' = 1 THEN "registerDevice" ELSE "registerRelease")
    /\ UNCHANGED <<Counter, NdisDeviceHandle, gdeviceExtension, freed, forgotten,
                   registerFailed, callers>>

\* SaitInitializeSend does not look at the status.
RegisterDevice(a) ==
    /\ apc[a] = "registerDevice"
    /\ \/ NdisDeviceHandle' = TRUE /\ UNCHANGED registerFailed
       \/ "register" \in Faults /\ registerFailed' = TRUE /\ UNCHANGED NdisDeviceHandle
    /\ Goto(a, "registerRelease")
    /\ UNCHANGED <<Counter, MiniportCount, gdeviceExtension, freed, forgotten, callers>>

RegisterRelease(a) == ReleaseMutex(a, "registerRelease", "receive")

InitializeReceive(a) ==
    /\ apc[a] = "receive"
    /\ \/ Goto(a, "initTail") /\ UNCHANGED forgotten
       \/ "receive" \in Faults /\ Goto(a, "failed") /\ forgotten' = forgotten \cup {a}
    /\ UNCHANGED <<Counter, MiniportCount, NdisDeviceHandle, gdeviceExtension, freed,
                   registerFailed, callers>>

\* SaitFreeResources for a failed initialisation.
FreeFailed(a) ==
    /\ apc[a] = "failed"
    /\ FreeMemory(a)
    /\ Goto(a, "initTail")
    /\ UNCHANGED <<Counter, MiniportCount, NdisDeviceHandle, gdeviceExtension, forgotten,
                   registerFailed, uses, cpc>>

\* adapter->bRunningPollingThread = TRUE, whatever has happened before.
InitTail(a) ==
    /\ apc[a] = "initTail"
    /\ Goto(a, IF a \in freed THEN "gone" ELSE "running")
    /\ UNCHANGED <<shared, callers>>

----------------------------------------------------------------------------
(* SaitHalt *)

Halt(a) ==
    /\ apc[a] = "running"
    /\ Goto(a, "halting")
    /\ UNCHANGED <<shared, callers>>

\* Mutant: the adapter is freed before it is deregistered.
HaltSafe_FreesFirst(a) ==
    /\ apc[a] = "halting"
    /\ FreeMemory(a)
    /\ Goto(a, "deregisterTry")
    /\ UNCHANGED <<Counter, MiniportCount, NdisDeviceHandle, gdeviceExtension, forgotten,
                   registerFailed, uses, cpc>>

\* SaitWaitForSafeHalt and the sleep are over.
HaltSafe(a) ==
    /\ apc[a] = "halting"
    /\ Goto(a, "deregisterTry")
    /\ UNCHANGED <<shared, callers>>

(* NICDeregisterDevice *)

DeregisterAcquire(a) ==
    AcquireMutex(a, "deregisterTry", "deregisterBackoff", "deregisterCount")
DeregisterBackOff(a) == BackOff(a, "deregisterBackoff", "deregisterTry")

\* Mutant: the adapter leaves without counting itself out.
DeregisterCount_Omitted(a) ==
    /\ apc[a] = "deregisterCount"
    /\ Goto(a, "deregisterRelease")
    /\ UNCHANGED <<shared, callers>>

\* Mutant: the device goes with the last but one adapter.
DeregisterCount_OffByOne(a) ==
    /\ apc[a] = "deregisterCount"
    /\ MiniportCount' = MiniportCount - 1
    /\ Goto(a, IF MiniportCount' <= 1 THEN "deregisterDevice" ELSE "deregisterRelease")
    /\ UNCHANGED <<Counter, NdisDeviceHandle, gdeviceExtension, freed, forgotten,
                   registerFailed, callers>>

DeregisterCount(a) ==
    /\ apc[a] = "deregisterCount"
    /\ MiniportCount' = MiniportCount - 1
    /\ Goto(a, IF MiniportCount' = 0 THEN "deregisterDevice" ELSE "deregisterRelease")
    /\ UNCHANGED <<Counter, NdisDeviceHandle, gdeviceExtension, freed, forgotten,
                   registerFailed, callers>>

\* If there is a handle; open handles of programs keep working.
DeregisterDevice(a) ==
    /\ apc[a] = "deregisterDevice"
    /\ NdisDeviceHandle' = FALSE
    /\ Goto(a, "deregisterRelease")
    /\ UNCHANGED <<Counter, MiniportCount, gdeviceExtension, freed, forgotten,
                   registerFailed, callers>>

DeregisterRelease(a) == ReleaseMutex(a, "deregisterRelease", "free")

\* SaitFreeResources, the last thing SaitHalt does.
FreeAdapter(a) ==
    /\ apc[a] = "free"
    /\ FreeMemory(a)
    /\ Goto(a, "gone")
    /\ UNCHANGED <<Counter, MiniportCount, NdisDeviceHandle, gdeviceExtension, forgotten,
                   registerFailed, uses, cpc>>

----------------------------------------------------------------------------
(* Programs and NICDispatch *)

Open(c) ==
    /\ cpc[c] = "closed"
    /\ NdisDeviceHandle
    /\ cpc' = [cpc EXCEPT ![c] = "open"]
    /\ UNCHANGED <<shared, apc, uses, heldOver>>

Close(c) ==
    /\ cpc[c] = "open"
    /\ cpc' = [cpc EXCEPT ![c] = "closed"]
    /\ heldOver' = [heldOver EXCEPT ![c] = FALSE]
    /\ UNCHANGED <<shared, apc, uses>>

\* IOCTL_SENDCMD1 or 2 with input of the right length, and memory for the URB.
\* Any other request is completed without a look at an adapter.  The vendor command
\* reads gdeviceExtension too, but only BulkUsb_CallUSBD1 or 2 uses what it reads.
SendCommand(c) ==
    /\ cpc[c] = "open"
    /\ uses' = [uses EXCEPT ![c] = gdeviceExtension]
    /\ cpc' = [cpc EXCEPT ![c] = "build"]
    /\ UNCHANGED <<shared, apc, heldOver>>

\* IoBuildDeviceIoControlRequest with the adapter's LowerDeviceObject: there is
\* memory for the IRP or not.
BuildRequest(c) ==
    /\ cpc[c] = "build"
    /\ \/ cpc' = [cpc EXCEPT ![c] = "call"] /\ UNCHANGED uses
       \/ cpc' = [cpc EXCEPT ![c] = "open"] /\ uses' = [uses EXCEPT ![c] = NoAdapter]
    /\ UNCHANGED <<shared, apc, heldOver>>

\* IoCallDriver with the adapter's LowerDeviceObject, read once more; the adapter
\* is not used after that.
CallDriver(c) ==
    /\ cpc[c] = "call"
    /\ uses' = [uses EXCEPT ![c] = NoAdapter]
    /\ cpc' = [cpc EXCEPT ![c] = "wait"]
    /\ UNCHANGED <<shared, apc, heldOver>>

\* KeWaitForSingleObject is over, the IRP of the ioctl is completed.
CommandDone(c) ==
    /\ cpc[c] = "wait"
    /\ cpc' = [cpc EXCEPT ![c] = "open"]
    /\ UNCHANGED <<shared, apc, uses, heldOver>>

----------------------------------------------------------------------------
AdapterStep(a) ==
    \/ FindHardware(a)
    \/ RegisterAcquire(a) \/ RegisterBackOff(a) \/ RegisterCount(a)
    \/ RegisterDevice(a) \/ RegisterRelease(a)
    \/ InitializeReceive(a) \/ FreeFailed(a) \/ InitTail(a)
    \/ HaltSafe(a)
    \/ DeregisterAcquire(a) \/ DeregisterBackOff(a) \/ DeregisterCount(a)
    \/ DeregisterDevice(a) \/ DeregisterRelease(a) \/ FreeAdapter(a)

CallerStep(c) ==
    \/ Open(c) \/ Close(c) \/ SendCommand(c)
    \/ BuildRequest(c) \/ CallDriver(c) \/ CommandDone(c)

Next ==
    \/ \E a \in Adapters : Plug(a) \/ Halt(a) \/ AdapterStep(a)
    \/ \E c \in Callers : CallerStep(c)

Spec == Init /\ [][Next]_vars

\* A worker that initialises or halts an adapter runs on.
FairSpec == Spec /\ \A a \in Adapters : WF_vars(AdapterStep(a))

----------------------------------------------------------------------------
(* Properties *)

\* The counters stay natural numbers: neither the mutex nor NICDeregisterDevice
\* (ASSERT of ioctl.c:608) takes one below 0.
TypeOK ==
    /\ Counter \in Nat /\ MiniportCount \in Nat
    /\ NdisDeviceHandle \in BOOLEAN /\ registerFailed \in BOOLEAN
    /\ gdeviceExtension \in Adapters \cup {NoAdapter}
    /\ freed \subseteq Adapters /\ forgotten \subseteq Adapters
    /\ apc \in [Adapters -> AdapterPC]
    /\ uses \in [Callers -> Adapters \cup {NoAdapter}]
    /\ cpc \in [Callers -> CallerPC]
    /\ heldOver \in [Callers -> BOOLEAN]

\* Counter is the adapters inside plus those with a late increment to take back.
CounterExact == Counter = Cardinality(Critical) + Cardinality(BackingOff)

\* The mutex excludes: late increments never let a second adapter in between the
\* acquire and the release of NICRegisterDevice and NICDeregisterDevice.
MutualExclusion == \A a, b \in Critical : a = b

\* MiniportCount is the number of adapters counted in and not yet out.  A failed
\* initialisation that had been counted in is never counted out.
Counted == {a \in Adapters : apc[a] \in
    {"registerDevice", "registerRelease", "receive", "initTail", "running", "halting",
     "deregisterTry", "deregisterBackoff", "deregisterCount"}} \ freed
MiniportCountExact == MiniportCount = Cardinality(Counted \cup forgotten)

\* The inductive invariant behind these adds where freed and forgotten adapters are:
\* a failed initialisation ends in the tail of SaitInitialize.
FailedInv ==
    /\ \A a \in freed : apc[a] \in {"initTail", "gone"}
    /\ \A a \in forgotten :
          /\ apc[a] \in {"failed", "initTail", "gone"}
          /\ apc[a] = "initTail" => a \in freed

IInv == TypeOK /\ CounterExact /\ MutualExclusion /\ MiniportCountExact /\ FailedInv

\* Whenever nobody is at work on it, the control device exists only with an
\* adapter counted in, and, unless its registration has failed, for every one.
DeviceFollowsCount ==
    Critical = {} =>
        /\ NdisDeviceHandle => MiniportCount > 0
        /\ MiniportCount > 0 /\ ~registerFailed => NdisDeviceHandle

\* Registration and deregistration look like one step each, although they change two
\* variables and race for both (ioctl.c:69): an adapter is registered from the last
\* change that NICRegisterDevice makes to the last that NICDeregisterDevice makes.
Registered ==
    ((Counted \cup forgotten) \ {a \in Adapters : apc[a] = "registerDevice"})
        \cup {a \in Adapters : apc[a] = "deregisterDevice"}

sharedDevice == INSTANCE SharedDevice WITH
    Miniports <- Adapters,
    members <- Registered,
    device <- NdisDeviceHandle

\* The first adapter makes the device, the last one to leave takes it along; one whose
\* initialisation has failed after it had joined is a member that never leaves.
RefinesSharedDevice == sharedDevice!Spec

\* Nothing keeps the adapter that an ioctl has read from being freed, and nothing resets
\* gdeviceExtension (sait.c:404).  What the code does see to, by setting it before
\* NICRegisterDevice and by NICDeregisterDevice before the memory goes, is that an
\* ioctl meets a freed adapter in three situations only: an adapter was freed while
\* the program had its handle; another adapter is there, and has kept the control
\* device; or a failed initialisation has.  Each of them does occur.
FreedOnlyIfHeldOrShared ==
    \A c \in Callers : uses[c] \in freed =>
        heldOver[c] \/ Present \ freed # {} \/ forgotten # {}

\* An adapter that is to be registered or deregistered gets the mutex, if late
\* increments do not collide for ever: two that back off in turn can keep Counter
\* above 0 although nobody holds the mutex.
CollisionsEnd == <>[](Cardinality(BackingOff) <= 1)

Trying == {"registerTry", "deregisterTry"}

MutexIsAcquired ==
    CollisionsEnd => \A a \in Adapters : apc[a] \in Trying ~> a \in Critical

----------------------------------------------------------------------------
(* What comments of the source say and the code does not keep.             *)

\* ioctl.c:589, "when the last miniport instance is halted, we request NDIS to
\* delete the device object": when SaitHalt is past NICDeregisterDevice and no other
\* adapter is there, neither is the device.
LastHaltDeletesDevice ==
    \A a \in Adapters : apc[a] = "free" /\ Present = {a} => ~NdisDeviceHandle

\* It is kept as long as no initialisation has failed after NICRegisterDevice, the
\* one way out of SaitInitialize that forgets to count the adapter out; and then
\* there is no device either when the last adapter went without a halt.
DeviceGoesUnlessForgotten ==
    forgotten = {} => LastHaltDeletesDevice /\ (Present = {} => ~NdisDeviceHandle)

\* After one such failure it is broken for good: MiniportCount never returns to 0,
\* so no later halt deletes a control device that is there, and none that is not
\* is ever registered again.
ForgottenIsForGood ==
    [][forgotten # {} =>
          forgotten' # {} /\ MiniportCount' > 0 /\ NdisDeviceHandle' = NdisDeviceHandle]_vars

=============================================================================
