----------------------------- MODULE RemoveLock -----------------------------
(***************************************************************************)
(* The remove lock of the Sait adapter (sait.c): SaitAcquireRemoveLock,    *)
(* SaitReleaseRemoveLock and the part SaitWaitForSafeHalt plays in it.     *)
(*                                                                         *)
(* The lock is a counter that starts at 1, the flag HaltPending and a      *)
(* notification event.  No spin lock protects them: an acquirer increments *)
(* the counter, only then looks at the flag, and gives the count back if   *)
(* it is set; whoever brings the counter to 0 sets the event in a step of  *)
(* its own.  One action here is one access to the shared adapter fields,   *)
(* so that everything else may happen in between.                          *)
(*                                                                         *)
(* Users stands for whatever runs between an acquire and a release: an     *)
(* invocation of SaitUsbPacketRead or SaitUsbPacketWrite together with the *)
(* completion routine of the IRP it sent.  Module ReceivePath has the real *)
(* users of the receive side.                                              *)
(***************************************************************************)
EXTENDS Integers, FiniteSets

CONSTANT Users      \* activities that take the lock

ASSUME UsersAssumption == IsFiniteSet(Users)

VARIABLES
    RemoveCount,    \* LONG RemoveCount, "1-based reference count"
    HaltPending,    \* BOOLEAN HaltPending
    RemoveEvent,    \* NDIS_EVENT RemoveEvent: has it been set?
    upc,            \* where each user is
    hpc             \* where SaitHalt's SaitWaitForSafeHalt is

vars == <<RemoveCount, HaltPending, RemoveEvent, upc, hpc>>

UserPC == {"out", "test", "backout", "holding", "signal"}
HaltPC == {"running", "release", "signal", "waiting", "safe", "gaveUp"}

\* The adapter as SaitInitialize leaves it.
Init ==
    /\ RemoveCount = 1
    /\ HaltPending = FALSE
    /\ RemoveEvent = FALSE
    /\ upc = [u \in Users |-> "out"]
    /\ hpc = "running"

----------------------------------------------------------------------------
(* SaitAcquireRemoveLock *)

Increment(u) ==
    /\ upc[u] = "out"
    /\ RemoveCount' = RemoveCount + 1
    /\ upc' = [upc EXCEPT ![u] = "test"]
    /\ UNCHANGED <<HaltPending, RemoveEvent, hpc>>

\* Mutant: the refused acquirer does not give its count back.
TestHaltPending_KeepsCount(u) ==
    /\ upc[u] = "test"
    /\ upc' = [upc EXCEPT ![u] = IF HaltPending THEN "out" ELSE "holding"]
    /\ UNCHANGED <<RemoveCount, HaltPending, RemoveEvent, hpc>>

\* Mutant: the acquirer does not look at HaltPending.
TestHaltPending_Ignores(u) ==
    /\ upc[u] = "test"
    /\ upc' = [upc EXCEPT ![u] = "holding"]
    /\ UNCHANGED <<RemoveCount, HaltPending, RemoveEvent, hpc>>

TestHaltPending(u) ==
    /\ upc[u] = "test"
    /\ upc' = [upc EXCEPT ![u] = IF HaltPending THEN "backout" ELSE "holding"]
    /\ UNCHANGED <<RemoveCount, HaltPending, RemoveEvent, hpc>>

(* SaitReleaseRemoveLock, called by a holder or by a refused acquirer.  The *)
(* local `count' decides who signals.                                       *)

\* Mutant: the count is compared with the wrong bound.
Release_SignalsAtOne(u) ==
    /\ upc[u] \in {"holding", "backout"}
    /\ RemoveCount' = RemoveCount - 1
    /\ upc' = [upc EXCEPT ![u] = IF RemoveCount' <= 1 THEN "signal" ELSE "out"]
    /\ UNCHANGED <<HaltPending, RemoveEvent, hpc>>

Release(u) ==
    /\ upc[u] \in {"holding", "backout"}
    /\ RemoveCount' = RemoveCount - 1
    /\ upc' = [upc EXCEPT ![u] = IF RemoveCount' = 0 THEN "signal" ELSE "out"]
    /\ UNCHANGED <<HaltPending, RemoveEvent, hpc>>

Signal(u) ==
    /\ upc[u] = "signal"
    /\ RemoveEvent' = TRUE
    /\ upc' = [upc EXCEPT ![u] = "out"]
    /\ UNCHANGED <<RemoveCount, HaltPending, hpc>>

----------------------------------------------------------------------------
(* SaitWaitForSafeHalt *)

HaltSetPending ==
    /\ hpc = "running"
    /\ HaltPending' = TRUE
    /\ hpc' = "release"
    /\ UNCHANGED <<RemoveCount, RemoveEvent, upc>>

\* Mutant: the halt drops its count without SaitReleaseRemoveLock's test.
HaltRelease_NeverSignals ==
    /\ hpc = "release"
    /\ RemoveCount' = RemoveCount - 1
    /\ hpc' = "waiting"
    /\ UNCHANGED <<HaltPending, RemoveEvent, upc>>

HaltRelease ==
    /\ hpc = "release"
    /\ RemoveCount' = RemoveCount - 1
    /\ hpc' = IF RemoveCount' = 0 THEN "signal" ELSE "waiting"
    /\ UNCHANGED <<HaltPending, RemoveEvent, upc>>

HaltSignal ==
    /\ hpc = "signal"
    /\ RemoveEvent' = TRUE
    /\ hpc' = "waiting"
    /\ UNCHANGED <<RemoveCount, HaltPending, upc>>

\* NdisWaitEvent(RemoveEvent) succeeds.
HaltWait ==
    /\ hpc = "waiting"
    /\ RemoveEvent
    /\ hpc' = "safe"
    /\ UNCHANGED <<RemoveCount, HaltPending, RemoveEvent, upc>>

\* It times out, and the loop is left because the receive thread has closed:
\* the only exit the loop has, and it does not look at RemoveEvent.
HaltGiveUp ==
    /\ hpc = "waiting"
    /\ hpc' = "gaveUp"
    /\ UNCHANGED <<RemoveCount, HaltPending, RemoveEvent, upc>>

----------------------------------------------------------------------------
UserStep(u) == Increment(u) \/ TestHaltPending(u) \/ Release(u) \/ Signal(u)

HaltStep ==
    HaltSetPending \/ HaltRelease \/ HaltSignal \/ HaltWait \/ HaltGiveUp

Next == HaltStep \/ \E u \in Users : UserStep(u)

Spec == Init /\ [][Next]_vars

----------------------------------------------------------------------------
(* Properties *)

\* The counter stays a natural number, so neither ASSERT of the lock can fire.
TypeOK ==
    /\ RemoveCount \in Nat
    /\ HaltPending \in BOOLEAN
    /\ RemoveEvent \in BOOLEAN
    /\ upc \in [Users -> UserPC]
    /\ hpc \in HaltPC

\* Users whose increment has not been taken back.
Counted == {u \in Users : upc[u] \in {"test", "backout", "holding"}}

\* Users that were let in.
Holders == {u \in Users : upc[u] = "holding"}

\* 1 until SaitWaitForSafeHalt gives up the count SaitInitialize took.
Base == IF hpc \in {"running", "release"} THEN 1 ELSE 0

\* RemoveCount is exactly the base count plus one per user that has taken a
\* count: no interleaving of refused acquires and releases loses or invents
\* one, so neither ASSERT (sait.c:978, sait.c:1009) can fire.
RemoveCountExact == RemoveCount = Base + Cardinality(Counted)

\* RemoveEvent set means what the halt takes it to mean: a halt is pending and
\* nobody holds the lock, although acquirers may still be on their way to be
\* refused and the counter may be above 0 again.
SignalledIsEmpty == RemoveEvent => HaltPending /\ Holders = {}

\* The inductive invariant behind both: from the moment somebody has seen the
\* count reach 0 (and has yet to set the event) nobody is inside.  The base
\* count is gone by then, so HaltPending has been set and every later acquirer
\* is refused.
Signalling ==
    RemoveEvent \/ hpc = "signal" \/ \E u \in Users : upc[u] = "signal"

\* RemoveLock's inductive invariant, for RemoveLockProofs.
IInv ==
    /\ TypeOK
    /\ RemoveCountExact
    /\ HaltPending <=> hpc # "running"
    /\ Signalling => Base = 0 /\ Holders = {}

\* No signal is lost: when the base count and the last user's have been given back, the
\* event is set, or whoever took the counter to 0 is about to set it.  A halt that goes
\* on waiting therefore waits for a user that has not released.
EventIsOwed == Base = 0 /\ Counted = {} => Signalling

\* After a successful wait nobody enters any more: in no step does a user
\* become a holder once the event is set.
NobodyEntersAfterSignal ==
    [][RemoveEvent => Holders' \subseteq Holders]_vars

\* The lock keeps the promise of module Rundown.
rundown == INSTANCE Rundown WITH
    open <- ~HaltPending,
    inside <- Cardinality(Holders),
    drained <- RemoveEvent

\* SaitAcquireRemoveLock and SaitReleaseRemoveLock implement it.
RefinesRundown == rundown!Spec

============================================================================
