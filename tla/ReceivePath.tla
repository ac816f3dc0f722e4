---------------------------- MODULE ReceivePath ----------------------------
(***************************************************************************)
(* The receive side of the Sait adapter, from the moment its thread is     *)
(* created until the adapter is freed: SaitReceiveThread and               *)
(* SaitUsbPacketRead, the completion routine of the reads, the descriptors *)
(* lent to NDIS and given back through SaitReturnPacket, and the calls     *)
(* that end it, SaitHalt and SaitAdapterShutdown.                          *)
(*                                                                         *)
(* Four kinds of activity touch the adapter concurrently: the one system   *)
(* thread, any number of completion routines, any number of SaitReturnPacket*)
(* calls, and the NDIS worker that initialises, halts or shuts down.  One  *)
(* action is one access to a shared field (a section under ReceiveLock is  *)
(* one action).  Thread and worker have a program counter.  Reads and      *)
(* packets have no identity the code looks at, so they are counted: at[s]  *)
(* is how many of them are at stage s of their life.                       *)
(***************************************************************************)
EXTENDS Integers

CONSTANTS
    MaxRecvPackets, \* SAIT_MAX_RECV_PACKETS, 4 in the code
    WakeBelow,      \* the 3 of receive.c:331 and receive.c:733
    PoolSizes,      \* how many descriptors SaitInitializeReceive may end with
    Concurrency,    \* bound: completion and return routines running at once
    MaxLost,        \* bound: read set-ups that fail for lack of memory
    Faults          \* which calls may fail: "alloc" in SaitUsbPacketRead,
                    \* "abort" in SaitAbortPipe

ASSUME SizesAssumption ==
    /\ MaxRecvPackets \in Nat \ {0}
    /\ WakeBelow \in 1 .. MaxRecvPackets
    /\ PoolSizes \subseteq 0 .. MaxRecvPackets
    /\ Concurrency \in Nat \ {0}
    /\ MaxLost \in Nat

ASSUME FaultsAssumption == Faults \subseteq {"alloc", "abort"}

VARIABLES
    RemoveCount, HaltPending, RemoveEvent,      \* the remove lock
    ReceiveUsbPacket,       \* slots in use, by reads and by lent packets
    ReceiveEvent,           \* wakes the receive thread
    ReceiveCount,           \* 1 + descriptors lent, under ReceiveLock
    ReceiveIdleEvent, ReceiveCloseEvent,
    hReceiveThread,         \* is the handle non-NULL?
    bRunningPollingThread,
    free,                   \* length of ReceiveDescriptorList
    pool,                   \* descriptors that exist
    at,                     \* reads and packets at each stage
    tpc,                    \* the receive thread
    hpc,                    \* the NDIS worker
    lostLocks,              \* history: failed reads that kept the remove lock
    lostSlots,              \* history: dropped packets that kept their slot
    lateClear,              \* history: the last KeClearEvent came after the slots
                            \* had already fallen below WakeBelow
    haltedSafely            \* history: SaitWaitForSafeHalt left with RemoveEvent set

lockVars == <<RemoveCount, HaltPending, RemoveEvent>>
eventVars == <<ReceiveEvent, ReceiveIdleEvent, ReceiveCloseEvent>>
poolVars == <<ReceiveCount, free, pool>>
threadVars == <<hReceiveThread, bRunningPollingThread>>
historyVars == <<lostLocks, lostSlots, lateClear, haltedSafely>>
vars == <<lockVars, ReceiveUsbPacket, eventVars, poolVars, threadVars, historyVars,
          at, tpc, hpc>>

\* Frames: all shared data, or all but one group of it.
data == <<lockVars, ReceiveUsbPacket, eventVars, poolVars, threadVars, historyVars>>
notLock == <<ReceiveUsbPacket, eventVars, poolVars, threadVars, historyVars>>
notSlots == <<lockVars, eventVars, poolVars, threadVars, historyVars>>
notEvents == <<lockVars, ReceiveUsbPacket, poolVars, threadVars, historyVars>>
notPool == <<lockVars, ReceiveUsbPacket, eventVars, threadVars, historyVars>>
notThread == <<lockVars, ReceiveUsbPacket, eventVars, poolVars, historyVars>>
notHistory == <<lockVars, ReceiveUsbPacket, eventVars, poolVars, threadVars>>

(* A read is on the bus, or cancelled there and not yet completed; its     *)
(* completion routine converts and indicates it, or handles its failure;   *)
(* both paths release the remove lock.  A lent packet is with NDIS until   *)
(* it comes back through SaitReturnPacket, stages "ret...".                *)
Completing ==
    {"convert", "indicate", "failDec", "failRead", "failSet", "release", "signal"}
Returning == {"retIdle", "retDec", "retRead", "retSet"}
Stage == {"bus", "cancelled", "withNdis"} \cup Completing \cup Returning

ThreadPC == {"loop", "acquire", "test", "backout", "signal", "alloc", "count",
             "submit", "check", "clear", "wait", "exit", "close", "gone"}
StartPC == {"storeHandle", "enable", "running"}
ShutdownPC == {"shutAbort", "shutWait", "shutDone"}
HaltPC == {"setPending", "dropBase", "signal", "abort", "waitRemove", "waitClose",
           "dropReceive", "waitIdle", "drain", "freeAdapter", "freed"}

\* One read or packet goes from stage s to stage t.
Move(s, t) ==
    /\ at[s] > 0
    /\ at' = [at EXCEPT ![s] = @ - 1, ![t] = @ + 1]

\* One read or packet is done with stage s, its last.
Finish(s) ==
    /\ at[s] > 0
    /\ at' = [at EXCEPT ![s] = @ - 1]

\* Routines of the driver running on some processor now.
Busy == at["convert"] + at["indicate"] + at["failDec"] + at["failRead"]
        + at["failSet"] + at["release"] + at["signal"]
        + at["retIdle"] + at["retDec"] + at["retRead"] + at["retSet"]

\* The adapter is there to be touched.  What a late routine does to freed
\* memory is undefined, so the model ends there.
Alive == hpc # "freed"

(* SaitInitializeReceive has just called PsCreateSystemThread: the thread  *)
(* can run.  Descriptors that could not be allocated are simply missing.   *)
Init ==
    /\ RemoveCount = 1 /\ HaltPending = FALSE /\ RemoveEvent = FALSE
    /\ ReceiveUsbPacket = 0
    /\ ReceiveEvent = FALSE /\ ReceiveIdleEvent = FALSE /\ ReceiveCloseEvent = FALSE
    /\ ReceiveCount = 1
    /\ pool \in PoolSizes /\ free = pool
    /\ hReceiveThread = FALSE /\ bRunningPollingThread = FALSE
    /\ at = [s \in Stage |-> 0]
    /\ tpc = "loop" /\ hpc = "storeHandle"
    /\ lostLocks = 0 /\ lostSlots = 0 /\ lateClear = FALSE /\ haltedSafely = FALSE

----------------------------------------------------------------------------
(* The receive thread: SaitReceiveThread calling SaitUsbPacketRead.        *)

\* while (bRunningPollingThread)
ThreadLoop ==
    /\ tpc = "loop"
    /\ tpc' = IF bRunningPollingThread THEN "acquire" ELSE "exit"
    /\ UNCHANGED <<data, at, hpc>>

\* SaitAcquireRemoveLock: increment, then test, then give back if refused.
ThreadAcquire ==
    /\ tpc = "acquire"
    /\ RemoveCount' = RemoveCount + 1
    /\ tpc' = "test"
    /\ UNCHANGED <<notLock, HaltPending, RemoveEvent, at, hpc>>

\* Mutant: a refused acquire keeps its count.
ThreadTest_KeepsCount ==
    /\ tpc = "test"
    /\ tpc' = IF HaltPending THEN "check" ELSE "alloc"
    /\ UNCHANGED <<data, at, hpc>>

\* Mutant: the acquire does not look at HaltPending.
ThreadTest_Ignores ==
    tpc = "test" /\ tpc' = "alloc" /\ UNCHANGED <<data, at, hpc>>

ThreadTest ==
    /\ tpc = "test"
    /\ tpc' = IF HaltPending THEN "backout" ELSE "alloc"
    /\ UNCHANGED <<data, at, hpc>>

ThreadBackout ==
    /\ tpc = "backout"
    /\ RemoveCount' = RemoveCount - 1
    /\ tpc' = IF RemoveCount' = 0 THEN "signal" ELSE "check"
    /\ UNCHANGED <<notLock, HaltPending, RemoveEvent, at, hpc>>

ThreadSignal ==
    /\ tpc = "signal"
    /\ RemoveEvent' = TRUE
    /\ tpc' = "check"
    /\ UNCHANGED <<notLock, RemoveCount, HaltPending, at, hpc>>

\* Context, buffer, URB and IRP are there ...
ThreadAlloc ==
    /\ tpc = "alloc"
    /\ tpc' = "count"
    /\ UNCHANGED <<data, at, hpc>>

\* ... or one of them is not: the error path frees the others and returns
\* without SaitReleaseRemoveLock.
ThreadAllocFails ==
    /\ tpc = "alloc"
    /\ "alloc" \in Faults
    /\ lostLocks < MaxLost
    /\ lostLocks' = lostLocks + 1
    /\ tpc' = "check"
    /\ UNCHANGED <<notHistory, lostSlots, lateClear, haltedSafely, at, hpc>>

\* Mutant: the read is not counted.
ThreadCount_Omitted ==
    tpc = "count" /\ tpc' = "submit" /\ UNCHANGED <<data, at, hpc>>

ThreadCount ==
    /\ tpc = "count"
    /\ ReceiveUsbPacket' = ReceiveUsbPacket + 1
    /\ tpc' = "submit"
    /\ UNCHANGED <<notSlots, at, hpc>>

\* IoCallDriver; its status is not looked at, the completion routine is.
ThreadSubmit ==
    /\ tpc = "submit"
    /\ at' = [at EXCEPT !["bus"] = @ + 1]
    /\ tpc' = "check"
    /\ UNCHANGED <<data, hpc>>

ThreadCheck ==
    /\ tpc = "check"
    /\ tpc' = IF ReceiveUsbPacket >= MaxRecvPackets THEN "clear" ELSE "loop"
    /\ UNCHANGED <<data, at, hpc>>

ThreadClear ==
    /\ tpc = "clear"
    /\ ReceiveEvent' = FALSE
    /\ lateClear' = (ReceiveUsbPacket < WakeBelow)
    /\ tpc' = "wait"
    /\ UNCHANGED <<lockVars, ReceiveUsbPacket, ReceiveIdleEvent, ReceiveCloseEvent,
                   poolVars, threadVars, lostLocks, lostSlots, haltedSafely, at, hpc>>

\* Mutant: the thread does not wait.
ThreadWait_Skipped ==
    tpc = "wait" /\ tpc' = "loop" /\ UNCHANGED <<data, at, hpc>>

\* A notification event: the wait does not reset it.
ThreadWait ==
    /\ tpc = "wait"
    /\ ReceiveEvent
    /\ tpc' = "loop"
    /\ UNCHANGED <<data, at, hpc>>

ThreadExit ==
    /\ tpc = "exit"
    /\ hReceiveThread' = FALSE
    /\ tpc' = "close"
    /\ UNCHANGED <<notThread, bRunningPollingThread, at, hpc>>

ThreadClose ==
    /\ tpc = "close"
    /\ ReceiveCloseEvent' = TRUE
    /\ tpc' = "gone"
    /\ UNCHANGED <<notEvents, ReceiveEvent, ReceiveIdleEvent, at, hpc>>

ThreadStep ==
    \/ ThreadLoop \/ ThreadAcquire \/ ThreadTest \/ ThreadBackout \/ ThreadSignal
    \/ ThreadAlloc \/ ThreadCount \/ ThreadSubmit \/ ThreadCheck \/ ThreadClear
    \/ ThreadWait \/ ThreadExit \/ ThreadClose

----------------------------------------------------------------------------
(* SaitUsbPacketReadCompletionRoutine, called by the bus driver at         *)
(* DISPATCH_LEVEL.  The sections of an invocation are the stages; Alive    *)
(* stops them when the memory they work on is gone.                        *)

\* The device answers, or the read fails or was cancelled.
CompleteOk ==
    /\ Alive /\ Busy < Concurrency
    /\ Move("bus", "convert")
    /\ UNCHANGED <<data, tpc, hpc>>

CompleteFailed ==
    /\ Alive /\ Busy < Concurrency
    /\ Move("bus", "failDec") \/ Move("cancelled", "failDec")
    /\ UNCHANGED <<data, tpc, hpc>>

\* SaitConvertUsbToNdis under ReceiveLock: take the first free descriptor.
ConvertTake ==
    /\ Alive
    /\ free > 0
    /\ Move("convert", "indicate")
    /\ free' = free - 1
    /\ ReceiveCount' = ReceiveCount + 1
    /\ UNCHANGED <<notPool, pool, tpc, hpc>>

\* There is none: the data are dropped, and nobody takes ReceiveUsbPacket down.  The
\* check of the length before it (receive.c:628) cannot fail, as a read asks for no
\* more than a descriptor holds.
ConvertDrop ==
    /\ Alive
    /\ free = 0
    /\ Move("convert", "release")
    /\ lostSlots' = lostSlots + 1
    /\ UNCHANGED <<notHistory, lostLocks, lateClear, haltedSafely, tpc, hpc>>

\* NdisMIndicateReceivePacket: the packet is with NDIS from now on, and the
\* routine goes on to free its buffers.
Indicate ==
    /\ Alive
    /\ at["indicate"] > 0
    /\ at' = [at EXCEPT !["indicate"] = @ - 1, !["withNdis"] = @ + 1,
                        !["release"] = @ + 1]
    /\ UNCHANGED <<data, tpc, hpc>>

FailDecrement ==
    /\ Alive
    /\ Move("failDec", "failRead")
    /\ ReceiveUsbPacket' = ReceiveUsbPacket - 1
    /\ UNCHANGED <<notSlots, tpc, hpc>>

FailRead ==
    /\ Alive
    /\ Move("failRead", IF ReceiveUsbPacket < WakeBelow THEN "failSet" ELSE "release")
    /\ UNCHANGED <<data, tpc, hpc>>

FailSet ==
    /\ Alive
    /\ Move("failSet", "release")
    /\ ReceiveEvent' = TRUE
    /\ UNCHANGED <<notEvents, ReceiveIdleEvent, ReceiveCloseEvent, tpc, hpc>>

\* SaitReleaseRemoveLock at the end of both paths.
CompletionRelease ==
    /\ Alive
    /\ IF RemoveCount = 1 THEN Move("release", "signal") ELSE Finish("release")
    /\ RemoveCount' = RemoveCount - 1
    /\ UNCHANGED <<notLock, HaltPending, RemoveEvent, tpc, hpc>>

CompletionSignal ==
    /\ Alive
    /\ Finish("signal")
    /\ RemoveEvent' = TRUE
    /\ UNCHANGED <<notLock, RemoveCount, HaltPending, tpc, hpc>>

----------------------------------------------------------------------------
(* SaitReturnPacket, called by NDIS at DISPATCH_LEVEL.                     *)

\* Mutant: the descriptor is neither counted down nor listed.
ReturnDescriptor_Forgets ==
    /\ Alive /\ Busy < Concurrency
    /\ Move("withNdis", "retDec")
    /\ UNCHANGED <<data, tpc, hpc>>

\* The section under ReceiveLock.  `count' is a local of the call.
ReturnDescriptor ==
    /\ Alive /\ Busy < Concurrency
    /\ Move("withNdis", IF ReceiveCount = 1 THEN "retIdle" ELSE "retDec")
    /\ ReceiveCount' = ReceiveCount - 1
    /\ free' = free + 1
    /\ UNCHANGED <<notPool, pool, tpc, hpc>>

ReturnIdle ==
    /\ Alive
    /\ Move("retIdle", "retDec")
    /\ ReceiveIdleEvent' = TRUE
    /\ UNCHANGED <<notEvents, ReceiveEvent, ReceiveCloseEvent, tpc, hpc>>

ReturnDecrement ==
    /\ Alive
    /\ Move("retDec", "retRead")
    /\ ReceiveUsbPacket' = ReceiveUsbPacket - 1
    /\ UNCHANGED <<notSlots, tpc, hpc>>

\* Mutant: a returned packet never wakes the thread.
ReturnRead_NeverWakes ==
    Alive /\ Finish("retRead") /\ UNCHANGED <<data, tpc, hpc>>

ReturnRead ==
    /\ Alive
    /\ IF ReceiveUsbPacket < WakeBelow THEN Move("retRead", "retSet")
                                       ELSE Finish("retRead")
    /\ UNCHANGED <<data, tpc, hpc>>

ReturnSet ==
    /\ Alive
    /\ Finish("retSet")
    /\ ReceiveEvent' = TRUE
    /\ UNCHANGED <<notEvents, ReceiveIdleEvent, ReceiveCloseEvent, tpc, hpc>>

RoutineStep ==
    \/ ConvertTake \/ ConvertDrop \/ Indicate
    \/ FailDecrement \/ FailRead \/ FailSet \/ CompletionRelease \/ CompletionSignal
    \/ ReturnIdle \/ ReturnDecrement \/ ReturnRead \/ ReturnSet

----------------------------------------------------------------------------
(* The NDIS worker: the end of SaitInitialize, then SaitHalt or, when the  *)
(* system goes down, SaitAdapterShutdown.                                  *)

\* PsCreateSystemThread stores the handle before it returns, not before the
\* thread may run.
StoreHandle ==
    /\ hpc = "storeHandle"
    /\ hReceiveThread' = TRUE
    /\ hpc' = "enable"
    /\ UNCHANGED <<notThread, bRunningPollingThread, at, tpc>>

EnableReceive ==
    /\ hpc = "enable"
    /\ bRunningPollingThread' = TRUE
    /\ hpc' = "running"
    /\ UNCHANGED <<notThread, hReceiveThread, at, tpc>>

\* SaitHalt's or SaitAdapterShutdown's first assignment.
StopThread(next) ==
    /\ hpc = "running"
    /\ bRunningPollingThread' = FALSE
    /\ hpc' = next
    /\ UNCHANGED <<notThread, hReceiveThread, at, tpc>>

HaltBegin == StopThread("setPending")

\* SaitWaitForSafeHalt.
HaltSetPending ==
    /\ hpc = "setPending"
    /\ HaltPending' = TRUE
    /\ hpc' = "dropBase"
    /\ UNCHANGED <<notLock, RemoveCount, RemoveEvent, at, tpc>>

HaltDropBase ==
    /\ hpc = "dropBase"
    /\ RemoveCount' = RemoveCount - 1
    /\ hpc' = IF RemoveCount' = 0 THEN "signal" ELSE "abort"
    /\ UNCHANGED <<notLock, HaltPending, RemoveEvent, at, tpc>>

HaltSignal ==
    /\ hpc = "signal"
    /\ RemoveEvent' = TRUE
    /\ hpc' = "abort"
    /\ UNCHANGED <<notLock, RemoveCount, HaltPending, at, tpc>>

\* SaitAbortPipe cancels what is on the bus now and waits for nothing else; if
\* it fails, nobody looks at its status.  The out pipe has no reads.
AbortReads(from, next) ==
    /\ hpc = from
    /\ \/ at' = [at EXCEPT !["bus"] = 0, !["cancelled"] = @ + at["bus"]]
       \/ "abort" \in Faults /\ at' = at
    /\ hpc' = next
    /\ UNCHANGED <<data, tpc>>

HaltAbort == AbortReads("abort", "waitRemove")

\* NdisWaitEvent(RemoveEvent, 1000): signalled or timed out, the code goes on.
HaltWaitRemove ==
    /\ hpc = "waitRemove"
    /\ hpc' = "waitClose"
    /\ UNCHANGED <<data, at, tpc>>

\* NdisWaitEvent(ReceiveCloseEvent, 1000) signalled: the way out of the loop,
\* through NdisMSleep, NICDeregisterDevice and SaitFreeSend to SaitFreeReceive.
HaltWaitClose ==
    /\ hpc = "waitClose"
    /\ ReceiveCloseEvent
    /\ hpc' = "dropReceive"
    /\ haltedSafely' = RemoveEvent
    /\ UNCHANGED <<notHistory, lostLocks, lostSlots, lateClear, at, tpc>>

\* It timed out: around again.
HaltWaitCloseTimesOut ==
    /\ hpc = "waitClose"
    /\ ~ReceiveCloseEvent
    /\ hpc' = "waitRemove"
    /\ UNCHANGED <<data, at, tpc>>

\* SaitFreeReceive.
HaltDropReceive ==
    /\ hpc = "dropReceive"
    /\ ReceiveCount' = ReceiveCount - 1
    /\ hpc' = IF ReceiveCount' = 0 THEN "drain" ELSE "waitIdle"
    /\ UNCHANGED <<notPool, free, pool, at, tpc>>

\* Mutant: SaitFreeReceive stops waiting after a second.
HaltWaitIdle_TimesOut ==
    hpc = "waitIdle" /\ hpc' = "drain" /\ UNCHANGED <<data, at, tpc>>

HaltWaitIdle ==
    /\ hpc = "waitIdle"
    /\ ReceiveIdleEvent
    /\ hpc' = "drain"
    /\ UNCHANGED <<data, at, tpc>>

\* One descriptor of the list, which is walked without ReceiveLock ...
HaltDrain ==
    /\ hpc = "drain"
    /\ free > 0
    /\ free' = free - 1
    /\ pool' = pool - 1
    /\ UNCHANGED <<notPool, ReceiveCount, at, tpc, hpc>>

\* ... until it is empty.
HaltDrained ==
    /\ hpc = "drain"
    /\ free = 0
    /\ hpc' = "freeAdapter"
    /\ UNCHANGED <<data, at, tpc>>

\* SaitFreeHardware, then NdisFreeMemory(Adapter).
HaltFreeAdapter ==
    /\ hpc = "freeAdapter"
    /\ hpc' = "freed"
    /\ UNCHANGED <<data, at, tpc>>

HaltStep ==
    \/ HaltSetPending \/ HaltDropBase \/ HaltSignal \/ HaltAbort \/ HaltWaitRemove
    \/ HaltWaitClose \/ HaltWaitCloseTimesOut \/ HaltDropReceive \/ HaltWaitIdle
    \/ HaltDrain \/ HaltDrained \/ HaltFreeAdapter

ShutdownBegin == StopThread("shutAbort")

\* Mutant: the reads are not aborted.
ShutdownAbort_Skipped ==
    hpc = "shutAbort" /\ hpc' = "shutWait" /\ UNCHANGED <<data, at, tpc>>

ShutdownAbort == AbortReads("shutAbort", "shutWait")

\* while (hReceiveThread != NULL) NdisMSleep
ShutdownWait ==
    /\ hpc = "shutWait"
    /\ ~hReceiveThread
    /\ hpc' = "shutDone"
    /\ UNCHANGED <<data, at, tpc>>

----------------------------------------------------------------------------
WorkerStep == StoreHandle \/ EnableReceive \/ HaltStep \/ ShutdownAbort \/ ShutdownWait

Environment ==
    \/ CompleteOk \/ CompleteFailed \/ ReturnDescriptor
    \/ HaltBegin \/ ShutdownBegin \/ ThreadAllocFails

Next == ThreadStep \/ RoutineStep \/ WorkerStep \/ Environment

Spec == Init /\ [][Next]_vars

\* The scheduler runs the thread, every routine and the worker; the bus driver
\* completes a cancelled read; NDIS gives every packet back, as it must.  No
\* device has to answer and nobody has to halt the adapter.
Fairness ==
    /\ WF_vars(ThreadStep)
    /\ WF_vars(WorkerStep)
    /\ WF_vars(ConvertTake) /\ WF_vars(ConvertDrop) /\ WF_vars(Indicate)
    /\ WF_vars(FailDecrement) /\ WF_vars(FailRead) /\ WF_vars(FailSet)
    /\ WF_vars(CompletionRelease) /\ WF_vars(CompletionSignal)
    /\ WF_vars(ReturnIdle) /\ WF_vars(ReturnDecrement) /\ WF_vars(ReturnRead)
    /\ WF_vars(ReturnSet)
    /\ SF_vars(ReturnDescriptor)
    /\ SF_vars(at["cancelled"] > 0 /\ CompleteFailed)

FairSpec == Spec /\ Fairness

----------------------------------------------------------------------------
(* Properties *)

NumbersOK ==
    /\ RemoveCount \in Nat /\ ReceiveUsbPacket \in Nat /\ ReceiveCount \in Nat
    /\ free \in Nat /\ pool \in Nat
    /\ at \in [Stage -> Nat]
    /\ tpc \in ThreadPC
    /\ hpc \in StartPC \cup ShutdownPC \cup HaltPC
    /\ lostLocks \in Nat /\ lostSlots \in Nat

FlagsOK ==
    /\ HaltPending \in BOOLEAN /\ RemoveEvent \in BOOLEAN
    /\ ReceiveEvent \in BOOLEAN /\ ReceiveIdleEvent \in BOOLEAN
    /\ ReceiveCloseEvent \in BOOLEAN
    /\ hReceiveThread \in BOOLEAN /\ bRunningPollingThread \in BOOLEAN
    /\ lateClear \in BOOLEAN /\ haltedSafely \in BOOLEAN

\* The counters stay natural numbers in every interleaving of their users.
TypeOK == NumbersOK /\ FlagsOK

\* Reads between SaitUsbPacketRead's successful acquire and their release.
ThreadHoldsLock == IF tpc \in {"alloc", "count", "submit"} THEN 1 ELSE 0
LockHolders ==
    ThreadHoldsLock + at["bus"] + at["cancelled"] + at["convert"] + at["indicate"]
    + at["failDec"] + at["failRead"] + at["failSet"] + at["release"]

ThreadProbesLock == IF tpc \in {"test", "backout"} THEN 1 ELSE 0
BaseLock == IF hpc \in StartPC \cup ShutdownPC \cup {"setPending", "dropBase"} THEN 1 ELSE 0

\* The remove count is the base count, the reads under way, the thread while it
\* is being refused, and the counts the error path of SaitUsbPacketRead lost.
RemoveCountExact ==
    RemoveCount = BaseLock + ThreadProbesLock + LockHolders + lostLocks

\* The count SaitFreeReceive gives up.
BaseReceive ==
    IF hpc \in {"waitIdle", "drain", "freeAdapter", "freed"} THEN 0 ELSE 1

\* ReceiveCount is 1 until SaitFreeReceive takes it, plus the descriptors that
\* are out of the list: the ASSERT of SaitReturnPacket (receive.c:314) holds and
\* the unsigned counter cannot wrap.
ReceiveCountExact == ReceiveCount = BaseReceive + at["indicate"] + at["withNdis"]

\* No descriptor is lost or used twice.
DescriptorsConserved == pool = free + at["indicate"] + at["withNdis"]

\* ReceiveUsbPacket counts every read from its submission and every packet until
\* SaitReturnPacket has counted it down, and the slots of dropped packets.
SlotsExact ==
    ReceiveUsbPacket =
        (IF tpc = "submit" THEN 1 ELSE 0) + at["bus"] + at["cancelled"]
        + at["convert"] + at["indicate"] + at["withNdis"] + at["failDec"]
        + at["retIdle"] + at["retDec"] + lostSlots

\* Stale wake-ups let the thread exceed its limit, but only by one for each
\* routine that was between its test of ReceiveUsbPacket and KeSetEvent.
OvershootBounded == ReceiveUsbPacket <= MaxRecvPackets + Concurrency

\* When the halt is told that the lock is free, no read is under way and none
\* will be submitted.
SignalledIsQuiet == RemoveEvent => HaltPending /\ LockHolders = 0

\* A halt that saw it set frees the adapter with every descriptor back in the
\* list and freed; the only routines that may still run are the tails of
\* SaitReturnPacket, after their last descriptor.
DrainIsComplete ==
    haltedSafely /\ hpc \in {"freeAdapter", "freed"} =>
        /\ pool = 0
        /\ LockHolders = 0 /\ at["withNdis"] = 0 /\ at["retIdle"] = 0

\* The inductive invariant behind these.  Somebody who has seen the count reach 0
\* has yet to set the event; by then the base count is gone, so HaltPending is
\* set and nobody gets in any more.
Signalling ==
    RemoveEvent \/ tpc = "signal" \/ hpc = "signal" \/ at["signal"] > 0

LockInv ==
    /\ HaltPending <=> hpc \in HaltPC \ {"setPending"}
    /\ Signalling => BaseLock = 0 /\ LockHolders = 0 /\ lostLocks = 0

\* Only a SaitFreeReceive that has dropped its count can see ReceiveCount reach
\* 0; after a safe halt nothing is lent any more, so it does so once.
Draining == hpc \in {"drain", "freeAdapter", "freed"}

IdleInv ==
    /\ ReceiveIdleEvent \/ at["retIdle"] > 0 => BaseReceive = 0
    /\ haltedSafely =>
        /\ RemoveEvent /\ hpc \in {"dropReceive", "waitIdle", "drain", "freeAdapter", "freed"}
        /\ ReceiveIdleEvent \/ at["retIdle"] > 0 \/ Draining => at["withNdis"] = 0
        /\ ReceiveIdleEvent \/ Draining => at["retIdle"] = 0
        /\ at["retIdle"] <= 1
        /\ hpc \in {"freeAdapter", "freed"} => pool = 0

\* A thread past its check or its wait will count one more read; a routine about
\* to set the event may let it do so again.
WillCount ==
    IF \/ tpc \in {"loop", "acquire", "test", "alloc", "count"}
       \/ tpc = "wait" /\ ReceiveEvent
    THEN 1 ELSE 0

BudgetInv ==
    /\ Busy <= Concurrency
    /\ ReceiveUsbPacket + WillCount + at["failSet"] + at["retSet"]
            <= MaxRecvPackets + Concurrency

CountsInv ==
    /\ NumbersOK
    /\ RemoveCountExact /\ ReceiveCountExact /\ DescriptorsConserved /\ SlotsExact

\* All of it, which ReceivePathProofs proves inductive.
IInv == FlagsOK /\ CountsInv /\ LockInv /\ IdleInv /\ BudgetInv

\* Seen through its users the counter is the lock of module Rundown; a read
\* whose error path kept the lock stays inside for good.
rundown == INSTANCE Rundown WITH
    open <- ~HaltPending,
    inside <- LockHolders + lostLocks,
    drained <- RemoveEvent

\* SaitUsbPacketRead and its completion routine use the lock as it prescribes.
RefinesRundown == rundown!Spec

\* No signal is lost.  With the base count, the thread's and every read's given back and
\* none lost on an error path, RemoveEvent is set or about to be.
EventIsOwed ==
    BaseLock + ThreadProbesLock + LockHolders + lostLocks = 0 => Signalling

\* A SaitFreeReceive that waits with no descriptor out will be told.
IdleIsOwed ==
    hpc = "waitIdle" /\ ReceiveCount = 0 => ReceiveIdleEvent \/ at["retIdle"] > 0

\* The thread waits, slots are below the threshold, and it did not clear the event after
\* they had fallen there: then the event is set, or a routine has still to test or to
\* set it.  However completions and returns interleave, the late clear is the one way to
\* lose a wake-up.
WakeupIsOwed ==
    tpc = "wait" /\ ReceiveUsbPacket < WakeBelow /\ ~lateClear =>
        \/ ReceiveEvent
        \/ \E s \in {"failRead", "failSet", "retRead", "retSet"} : at[s] > 0

\* SaitWaitForSafeHalt's loop has one exit, and the thread's last access to the adapter
\* is what opens it: from SaitFreeReceive on the thread is gone for good.
PastWaits == {"dropReceive", "waitIdle", "drain", "freeAdapter", "freed"}
FreedAfterThread == hpc \in PastWaits => tpc = "gone"

\* A thread that waits with nobody left to wake it: as many slots are lost with dropped
\* packets as the threshold asks to be free, or no read and no packet is out.
Stalled ==
    /\ tpc = "wait" /\ ~ReceiveEvent
    /\ at["failSet"] = 0 /\ at["retSet"] = 0
    /\ lostSlots >= WakeBelow \/ \A s \in Stage : at[s] = 0

\* It waits for ever, and a halt waits for it for ever.
StallIsForGood == [][Stalled => Stalled' /\ hpc' \notin PastWaits]_vars

\* The two ways the thread comes to wait for a wake-up nobody owes it: it has
\* cleared the event after the wake-up, or dropped packets have kept the slots
\* it waits for.
WaitsInVain == tpc = "wait" /\ (lateClear \/ lostSlots > 0)

\* A halt comes to an end.  Time-outs, refused acquires, a read that comes late
\* and packets that come back late do not keep it from freeing the adapter; a
\* receive thread that waits in vain does, and so would reads that an abort has
\* not reached and the device never answers.
HaltTerminates == hpc = "setPending" ~> hpc = "freed" \/ WaitsInVain

\* So does a shutdown, which in addition waits for ever if the handle was stored
\* after the thread had cleared it.
ShutdownTerminates ==
    hpc = "shutAbort" ~>
        hpc = "shutDone" \/ WaitsInVain \/ (tpc = "gone" /\ hReceiveThread)

\* Reception goes on if the device answers: a thread that waits for slots gets
\* them, in whatever order completions and returns count down, test and signal.
DeviceAnswers == SF_vars(CompleteOk)

ReceptionGoesOn ==
    DeviceAnswers =>
        (tpc = "wait" /\ hpc = "running"
            ~> tpc # "wait" \/ hpc # "running" \/ WaitsInVain)

----------------------------------------------------------------------------
(* What comments of the source say and the code does not keep.             *)

\* sait.c:298, "enables the receive thread": an enabled thread runs until it is
\* stopped.
EnabledThreadRuns == hpc = "running" => tpc \notin {"exit", "close", "gone"}

\* receive.c:732, "if fewer than 3 receive packets are in use, run the waiting
\* thread again": on an adapter that nobody halts, with no slot in use, every read
\* completed, every packet back and every routine past its wake-up, a waiting thread
\* has been woken.
WaitingThreadIsWoken ==
    /\ hpc = "running" /\ tpc = "wait"
    /\ ReceiveUsbPacket = 0 /\ \A s \in Stage : at[s] = 0
    => ReceiveEvent

\* sait.c:1044, "waits until the processing of all USB packets is complete":
\* SaitWaitForSafeHalt does not return with a read on the bus.
HaltWaitsForUsb ==
    hpc \in {"dropReceive", "waitIdle", "drain", "freeAdapter", "freed"} =>
        at["bus"] = 0

============================================================================
