------------------------------ MODULE SendPath ------------------------------
(***************************************************************************)
(* The send handlers NDIS knows of, SaitSendPackets and                    *)
(* SaitCancelSendPackets, against the halt that runs SaitFreeSend.         *)
(*                                                                         *)
(* SaitSendPackets holds SendLock while it goes through its array, but     *)
(* HaltPending is set by SaitWaitForSafeHalt without that lock, so the flag*)
(* may change between two packets of one array and between a test and the  *)
(* queueing it allowed.  One action is one packet's test or its handling;  *)
(* sections of other routines under SendLock are one action each.          *)
(*                                                                         *)
(* Nothing programs the hardware yet (send.c:303): a packet put in         *)
(* SendQueue stays there.  The transmission that does exist, SaitSend, is  *)
(* not registered with NDIS (sait.c:79).                                   *)
(***************************************************************************)
EXTENDS Integers, Sequences, FiniteSets

CONSTANTS
    Packets,        \* NDIS packets
    Calls,          \* SaitSendPackets calls that may run at once
    CancelIds,      \* values protocols use with NdisGeneratePartialCancelId
    CancelId,       \* the id of each packet
    MaxContexts,    \* write contexts SaitInitializeSend tries for, 32
    MaxSends,       \* bound: how often NDIS sends the same packet
    Nobody          \* SendLock when nobody holds it

ASSUME SendAssumption ==
    /\ IsFiniteSet(Packets) /\ IsFiniteSet(Calls)
    /\ CancelId \in [Packets -> CancelIds]
    /\ MaxContexts \in Nat /\ MaxSends \in Nat
    /\ Nobody \notin Calls

VARIABLES
    SendLock,           \* the call that holds it, or Nobody
    SendQueue, SendCount,
    SendPendingQueue, SendPendingCount,
    SendIdleEvent,
    contexts,           \* length of SendDescriptorListHead
    HaltPending,
    array,              \* what each call has still to look at
    cancelList,         \* taken from the pending queue, still to be completed
    freeList,           \* the same in SaitFreeSend
    completed,          \* how often NDIS got each packet back
    given,              \* how often NDIS gave each packet to the driver
    spc, hpc

queues == <<SendQueue, SendCount, SendPendingQueue, SendPendingCount>>
lists == <<cancelList, freeList>>
halting == <<SendIdleEvent, contexts, HaltPending, hpc>>
vars == <<SendLock, queues, lists, halting, array, completed, given, spc>>

SendPC == {"idle", "acquire", "test", "queue", "fail", "release"}
HaltPC == {"running", "drain", "failDrained", "drop", "waitIdle", "freeContexts", "freed"}

Members(s) == {s[i] : i \in DOMAIN s}

\* The memory is there: no lock to spin on once SaitFreeSend has freed it.
Alive == hpc # "freed"

\* SaitInitializeSend: contexts that could not be allocated are left out.
Init ==
    /\ SendLock = Nobody
    /\ SendQueue = <<>> /\ SendCount = 1
    /\ SendPendingQueue = <<>> /\ SendPendingCount = 0
    /\ SendIdleEvent = FALSE
    /\ contexts \in 0 .. MaxContexts
    /\ HaltPending = FALSE
    /\ array = [c \in Calls |-> <<>>]
    /\ cancelList = <<>> /\ freeList = <<>>
    /\ completed = [p \in Packets |-> 0] /\ given = [p \in Packets |-> 0]
    /\ spc = [c \in Calls |-> "idle"] /\ hpc = "running"

\* NdisMSendComplete for each packet of a list.
Complete(list) ==
    completed' = [p \in Packets |->
                     completed[p] + (IF p \in Members(list) THEN 1 ELSE 0)]

----------------------------------------------------------------------------
(* SaitSendPackets *)

\* NDIS sends one packet, or an array of two, of those it has.
Arrays ==
    {<<p>> : p \in Packets}
    \cup {a \in Packets \X Packets : a[1] # a[2]}

Send(c) ==
    /\ Alive
    /\ spc[c] = "idle"
    /\ \E a \in Arrays :
          /\ \A p \in Members(a) : given[p] = completed[p] /\ given[p] < MaxSends
          /\ array' = [array EXCEPT ![c] = a]
          /\ given' = [p \in Packets |-> given[p] + (IF p \in Members(a) THEN 1 ELSE 0)]
    /\ spc' = [spc EXCEPT ![c] = "acquire"]
    /\ UNCHANGED <<SendLock, queues, lists, halting, completed>>

Acquire(c) ==
    /\ Alive
    /\ spc[c] = "acquire"
    /\ SendLock = Nobody
    /\ SendLock' = c
    /\ spc' = [spc EXCEPT ![c] = "test"]
    /\ UNCHANGED <<queues, lists, halting, array, completed, given>>

\* Mutant: HaltPending is not looked at.
TestHaltPending_Ignores(c) ==
    /\ spc[c] = "test"
    /\ spc' = [spc EXCEPT ![c] = IF array[c] = <<>> THEN "release" ELSE "queue"]
    /\ UNCHANGED <<SendLock, queues, lists, halting, array, completed, given>>

TestHaltPending(c) ==
    /\ spc[c] = "test"
    /\ spc' = [spc EXCEPT ![c] = IF array[c] = <<>> THEN "release"
                                 ELSE IF HaltPending THEN "fail" ELSE "queue"]
    /\ UNCHANGED <<SendLock, queues, lists, halting, array, completed, given>>

\* Mutant: a refused packet is completed and queued.
Fail_AlsoQueues(c) ==
    /\ spc[c] = "fail"
    /\ Complete(<<Head(array[c])>>)
    /\ SendQueue' = Append(SendQueue, Head(array[c]))
    /\ array' = [array EXCEPT ![c] = Tail(@)]
    /\ spc' = [spc EXCEPT ![c] = "test"]
    /\ UNCHANGED <<SendLock, SendCount, SendPendingQueue, SendPendingCount, lists,
                   halting, given>>

\* NdisMSendComplete(NDIS_STATUS_FAILURE), SendLock held.
Fail(c) ==
    /\ spc[c] = "fail"
    /\ Complete(<<Head(array[c])>>)
    /\ array' = [array EXCEPT ![c] = Tail(@)]
    /\ spc' = [spc EXCEPT ![c] = "test"]
    /\ UNCHANGED <<SendLock, queues, lists, halting, given>>

\* Mutant: the packet is queued but not counted.
Queue_NotCounted(c) ==
    /\ spc[c] = "queue"
    /\ SendQueue' = Append(SendQueue, Head(array[c]))
    /\ array' = [array EXCEPT ![c] = Tail(@)]
    /\ spc' = [spc EXCEPT ![c] = "test"]
    /\ UNCHANGED <<SendLock, SendCount, SendPendingQueue, SendPendingCount, lists,
                   halting, completed, given>>

\* A packet may not overtake one that is pending; otherwise there always are
\* hardware resources for it.
Queue(c) ==
    /\ spc[c] = "queue"
    /\ IF SendPendingQueue = <<>>
       THEN /\ SendQueue' = Append(SendQueue, Head(array[c]))
            /\ SendCount' = SendCount + 1
            /\ UNCHANGED <<SendPendingQueue, SendPendingCount>>
       ELSE /\ SendPendingQueue' = Append(SendPendingQueue, Head(array[c]))
            /\ SendPendingCount' = SendPendingCount + 1
            /\ UNCHANGED <<SendQueue, SendCount>>
    /\ array' = [array EXCEPT ![c] = Tail(@)]
    /\ spc' = [spc EXCEPT ![c] = "test"]
    /\ UNCHANGED <<SendLock, lists, halting, completed, given>>

\* Mutant: an early return that keeps the lock.
Release_Forgotten(c) ==
    /\ spc[c] = "release"
    /\ spc' = [spc EXCEPT ![c] = "idle"]
    /\ UNCHANGED <<SendLock, queues, lists, halting, array, completed, given>>

Release(c) ==
    /\ spc[c] = "release"
    /\ SendLock' = Nobody
    /\ spc' = [spc EXCEPT ![c] = "idle"]
    /\ UNCHANGED <<queues, lists, halting, array, completed, given>>

SendStep(c) ==
    Acquire(c) \/ TestHaltPending(c) \/ Fail(c) \/ Queue(c) \/ Release(c)

----------------------------------------------------------------------------
(* SaitCancelSendPackets: under the lock the packets with the id leave the *)
(* pending queue, after it they are completed.                             *)

\* The packets of s that are in T, in their order: one walk along the list.
Sift(s, T) ==
    LET kept[n \in 0 .. Len(s)] ==
            IF n = 0 THEN <<>>
            ELSE IF s[n] \in T THEN Append(kept[n - 1], s[n]) ELSE kept[n - 1]
    IN  kept[Len(s)]

Cancel(id) ==
    /\ Alive
    /\ SendLock = Nobody
    /\ cancelList = <<>>
    /\ LET hit == {p \in Packets : CancelId[p] = id}
       IN /\ cancelList' = Sift(SendPendingQueue, hit)
          /\ SendPendingQueue' = Sift(SendPendingQueue, Packets \ hit)
          /\ SendPendingCount' = SendPendingCount - Len(cancelList')
    /\ UNCHANGED <<SendLock, SendQueue, SendCount, freeList, halting, array,
                   completed, given, spc>>

CompleteCancelled ==
    /\ Alive
    /\ Complete(cancelList)
    /\ cancelList' = <<>>
    /\ UNCHANGED <<SendLock, queues, freeList, halting, array, given, spc>>

----------------------------------------------------------------------------
(* SaitHalt: HaltPending is set by SaitWaitForSafeHalt; then SaitFreeSend. *)

HaltSetPending ==
    /\ hpc = "running"
    /\ HaltPending' = TRUE
    /\ hpc' = "drain"
    /\ UNCHANGED <<SendLock, queues, lists, SendIdleEvent, contexts, array, completed,
                   given, spc>>

DrainPending ==
    /\ hpc = "drain"
    /\ SendLock = Nobody
    /\ freeList' = SendPendingQueue
    /\ SendPendingQueue' = <<>>
    /\ SendPendingCount' = SendPendingCount - Len(SendPendingQueue)
    /\ hpc' = "failDrained"
    /\ UNCHANGED <<SendLock, SendQueue, SendCount, cancelList, SendIdleEvent, contexts,
                   HaltPending, array, completed, given, spc>>

FailDrained ==
    /\ hpc = "failDrained"
    /\ Complete(freeList)
    /\ freeList' = <<>>
    /\ hpc' = "drop"
    /\ UNCHANGED <<SendLock, queues, cancelList, SendIdleEvent, contexts, HaltPending,
                   array, given, spc>>

\* Mutant: the count is dropped and not looked at.
DropCount_IgnoresCount ==
    /\ hpc = "drop"
    /\ SendLock = Nobody
    /\ SendCount' = SendCount - 1
    /\ hpc' = "freeContexts"
    /\ UNCHANGED <<SendLock, SendQueue, SendPendingQueue, SendPendingCount, lists,
                   SendIdleEvent, contexts, HaltPending, array, completed, given, spc>>

DropCount ==
    /\ hpc = "drop"
    /\ SendLock = Nobody
    /\ SendCount' = SendCount - 1
    /\ hpc' = IF SendCount' = 0 THEN "freeContexts" ELSE "waitIdle"
    /\ UNCHANGED <<SendLock, SendQueue, SendPendingQueue, SendPendingCount, lists,
                   SendIdleEvent, contexts, HaltPending, array, completed, given, spc>>

\* NdisWaitEvent(SendIdleEvent, 1000) timed out: the loop goes around.  Success
\* would need somebody to set the event.
WaitIdleAgain ==
    /\ hpc = "waitIdle"
    /\ hpc' = IF SendIdleEvent THEN "freeContexts" ELSE "waitIdle"
    /\ UNCHANGED <<SendLock, queues, lists, SendIdleEvent, contexts, HaltPending,
                   array, completed, given, spc>>

\* The write contexts, the lock and, with the adapter, everything else.
FreeContexts ==
    /\ hpc = "freeContexts"
    /\ SendLock = Nobody
    /\ contexts' = 0
    /\ hpc' = "freed"
    /\ UNCHANGED <<SendLock, queues, lists, SendIdleEvent, HaltPending, array,
                   completed, given, spc>>

HaltStep == DrainPending \/ FailDrained \/ DropCount \/ WaitIdleAgain \/ FreeContexts

----------------------------------------------------------------------------
Next ==
    \/ \E c \in Calls : Send(c) \/ SendStep(c)
    \/ \E id \in CancelIds : Cancel(id)
    \/ CompleteCancelled
    \/ HaltSetPending \/ HaltStep

Spec == Init /\ [][Next]_vars

\* A call that has begun runs on, and gets the lock if it is free again and
\* again; so does a halt.  NDIS need not send, cancel or halt.
FairSpec ==
    /\ Spec
    /\ \A c \in Calls :
          WF_vars(SendStep(c)) /\ SF_vars(Acquire(c))
    /\ WF_vars(HaltStep) /\ SF_vars(DrainPending) /\ SF_vars(DropCount)
    /\ SF_vars(FreeContexts)
    /\ WF_vars(CompleteCancelled)

----------------------------------------------------------------------------
(* Properties *)

\* The counts stay natural numbers, the lists hold packets.
TypeOK ==
    /\ SendLock \in Calls \cup {Nobody}
    /\ SendQueue \in Seq(Packets) /\ SendPendingQueue \in Seq(Packets)
    /\ SendCount \in Nat /\ SendPendingCount \in Nat
    /\ SendIdleEvent \in BOOLEAN /\ HaltPending \in BOOLEAN
    /\ contexts \in 0 .. MaxContexts
    /\ array \in [Calls -> Seq(Packets)]
    /\ cancelList \in Seq(Packets) /\ freeList \in Seq(Packets)
    /\ completed \in [Packets -> Nat] /\ given \in [Packets -> Nat]
    /\ spc \in [Calls -> SendPC] /\ hpc \in HaltPC

\* SendCount is 1, until SaitFreeSend takes it, plus the packets in SendQueue.
SendCountExact ==
    SendCount = Len(SendQueue)
                + (IF hpc \in {"waitIdle", "freeContexts", "freed"} THEN 0 ELSE 1)

\* Every packet given to the driver is in exactly one place: still in a call's
\* array, in one of the queues or lists, or completed; NDIS never gets a packet
\* back twice, or one that stays queued.
Occurrences(s, p) == Cardinality({i \in DOMAIN s : s[i] = p})
Places(p) ==
    Cardinality({c \in Calls : p \in Members(array[c])})
    + Occurrences(SendQueue, p) + Occurrences(SendPendingQueue, p)
    + Occurrences(cancelList, p) + Occurrences(freeList, p)
OnePlacePerPacket == \A p \in Packets : given[p] = completed[p] + Places(p)

\* Calls that have found HaltPending clear and are about to queue a packet.
Accepting == {c \in Calls : spc[c] = "queue"}

\* A halt that gets past its wait for the sends leaves no packet behind, and
\* none is queued afterwards: a call that was about to queue one when HaltPending
\* was set holds the lock SaitFreeSend needs before it looks at the count, and
\* every later packet is refused.
FreedIsEmpty ==
    hpc \in {"freeContexts", "freed"} => SendQueue = <<>> /\ Accepting = {}

\* The inductive invariant behind it.  A call is past its acquire if and only if it
\* holds the lock, and has a packet in hand when it is about to queue or fail one.
\* Once SaitFreeSend has dropped its count no call is about to queue, and if the
\* count was 0 nothing is queued.
Types ==
    /\ SendLock \in Calls \cup {Nobody}
    /\ SendQueue \in Seq(Packets) /\ SendCount \in Nat
    /\ array \in [Calls -> Seq(Packets)]
    /\ spc \in [Calls -> SendPC] /\ hpc \in HaltPC

LockInv ==
    /\ \A c \in Calls : (SendLock = c) <=> (spc[c] \in {"test", "queue", "fail", "release"})
    /\ \A c \in Calls : spc[c] \in {"queue", "fail"} => array[c] # <<>>

HaltInv ==
    /\ HaltPending <=> hpc # "running"
    /\ ~SendIdleEvent
    /\ hpc \in {"waitIdle", "freeContexts", "freed"} => Accepting = {}
    /\ hpc \in {"freeContexts", "freed"} => SendQueue = <<>>

IInv == Types /\ SendCountExact /\ LockInv /\ HaltInv

\* What the places of the packets rest on: a packet that was given is not given again
\* before it has come back, an array names a packet once, a list is empty before
\* it is filled anew, and the pending queue is as long as its count says.
PlaceInv ==
    /\ OnePlacePerPacket
    /\ \A p \in Packets : given[p] <= completed[p] + 1
    /\ \A c \in Calls :
          /\ \A i, j \in DOMAIN array[c] : array[c][i] = array[c][j] => i = j
          /\ spc[c] \in {"idle", "release"} => array[c] = <<>>
    /\ hpc # "failDrained" => freeList = <<>>
    /\ SendPendingCount = Len(SendPendingQueue)

\* As the test for hardware resources always succeeds (send.c:288), no packet is ever
\* pending: SaitCancelSendPackets cancels nothing and SaitFreeSend fails nothing.
NothingPends ==
    SendPendingQueue = <<>> /\ cancelList = <<>> /\ freeList = <<>>

\* A packet that was accepted stays in SendQueue for good, and while it is there no
\* halt gets past its wait: SaitFreeSend neither frees under it nor ever ends.
AcceptedBlocksHalt ==
    [][SendQueue # <<>> =>
          SendQueue' # <<>> /\ hpc' \notin {"freeContexts", "freed"}]_vars

\* And only then does it wait.
WaitHasCause == hpc = "waitIdle" => SendQueue # <<>>

\* The queue of accepted packets keeps the promise of module Rundown: open until
\* HaltPending is set, drained when SaitFreeSend takes it for empty.
rundown == INSTANCE Rundown WITH
    open <- ~HaltPending,
    inside <- Len(SendQueue) + Cardinality(Accepting),
    drained <- hpc \in {"freeContexts", "freed"}

\* SaitSendPackets, SaitFreeSend and SendLock implement it.
RefinesRundown == rundown!Spec

\* Every call returns, unless the lock is gone before it got it.
CallsReturn == \A c \in Calls : spc[c] # "idle" ~> spc[c] = "idle" \/ ~Alive

\* A halt ends if no packet was ever accepted.
HaltEndsIfUnused == HaltPending ~> hpc = "freed" \/ SendQueue # <<>>

----------------------------------------------------------------------------
(* What a comment of the source says and the code does not keep.           *)

\* send.c:154, "waits until all send packets are completed": the wait comes to
\* an end.  Nothing completes a packet of SendQueue or sets SendIdleEvent.
SendsAreWaitedOut == hpc = "waitIdle" ~> hpc = "freed"

=============================================================================
