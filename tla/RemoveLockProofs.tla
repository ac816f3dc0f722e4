-------------------------- MODULE RemoveLockProofs --------------------------
(***************************************************************************)
(* The remove lock for every finite set of users: the counter is exact,    *)
(* the event is set only when nobody is inside, and the lock implements    *)
(* Rundown.                                                                *)
(***************************************************************************)
EXTENDS RemoveLock, FiniteSetTheorems, TLAPS

\* The sets the invariant counts are finite, since Users is.
LEMMA FiniteCounted == IsFiniteSet(Counted) /\ IsFiniteSet(Holders)
  BY FS_Subset, UsersAssumption DEF Counted, Holders

\* Who holds the lock has incremented the count.
LEMMA HoldersAreCounted == Holders \subseteq Counted
  BY DEF Holders, Counted

\* Their sizes are numbers, so the solver can calculate with them.
LEMMA CardinalitiesAreNat ==
  Cardinality(Counted) \in Nat /\ Cardinality(Holders) \in Nat
  BY FiniteCounted, FS_CardinalityType

\* Taking a count adds one user to Counted.
LEMMA CountedIncrement ==
  ASSUME TypeOK, NEW u \in Users, Increment(u)
  PROVE  Cardinality(Counted') = Cardinality(Counted) + 1
  <1>1. Counted' = Counted \cup {u}
    BY DEF TypeOK, Increment, Counted, UserPC
  <1>2. u \notin Counted
    BY DEF Increment, Counted
  <1> QED
    BY <1>1, <1>2, FiniteCounted, FS_AddElement

\* Giving it back removes that user, who was counted.
LEMMA CountedRelease ==
  ASSUME TypeOK, NEW u \in Users, Release(u)
  PROVE  /\ u \in Counted
         /\ Counted' = Counted \ {u}
         /\ Cardinality(Counted') = Cardinality(Counted) - 1
         /\ Cardinality(Counted) > 0
  <1>1. u \in Counted
    BY DEF Release, Counted
  <1>2. Counted' = Counted \ {u}
    BY DEF TypeOK, Release, Counted, UserPC
  <1>3. Cardinality(Counted') = Cardinality(Counted) - 1
    BY <1>1, <1>2, FiniteCounted, FS_RemoveElement
  <1>4. Cardinality(Counted) # 0
    BY <1>1, FiniteCounted, FS_EmptySet
  <1> QED
    BY <1>1, <1>2, <1>3, <1>4, CardinalitiesAreNat

----------------------------------------------------------------------------
\* At the start nobody is counted and only the base count is there.
LEMMA IInvInit == Init => IInv
  <1> SUFFICES ASSUME Init PROVE IInv
    OBVIOUS
  <1>1. TypeOK
    BY DEF Init, TypeOK, UserPC, HaltPC
  <1>2. Counted = {} /\ Holders = {}
    BY DEF Init, Counted, Holders
  <1>3. RemoveCountExact
    BY <1>2, FS_EmptySet DEF Init, RemoveCountExact, Base
  <1> QED
    BY <1>1, <1>3 DEF Init, IInv, Signalling

\* No step of a user or of the halt breaks the invariant.
LEMMA IInvNext == IInv /\ [Next]_vars => IInv'
  <1> SUFFICES ASSUME IInv, [Next]_vars PROVE IInv'
    OBVIOUS
  <1> USE CardinalitiesAreNat
  <1>1. ASSUME NEW u \in Users, Increment(u) PROVE IInv'
    <2>1. TypeOK'
      BY <1>1 DEF IInv, TypeOK, Increment, UserPC
    <2>2. RemoveCountExact'
      <3>1. Cardinality(Counted') = Cardinality(Counted) + 1
        BY <1>1, CountedIncrement DEF IInv
      <3> QED
        BY <1>1, <3>1 DEF IInv, TypeOK, RemoveCountExact, Increment, Base
    <2>3. Holders' = Holders
      BY <1>1 DEF IInv, TypeOK, Increment, Holders
    <2>4. Signalling' => Signalling
      BY <1>1 DEF IInv, TypeOK, Increment, Signalling
    <2> QED
      BY <1>1, <2>1, <2>2, <2>3, <2>4 DEF IInv, Increment, Base
  <1>2. ASSUME NEW u \in Users, TestHaltPending(u) PROVE IInv'
    <2>1. TypeOK'
      BY <1>2 DEF IInv, TypeOK, TestHaltPending, UserPC
    <2>2. Counted' = Counted
      BY <1>2 DEF IInv, TypeOK, TestHaltPending, Counted
    <2>3. RemoveCountExact'
      BY <1>2, <2>2 DEF IInv, RemoveCountExact, TestHaltPending, Base
    <2>4. Signalling' => Signalling
      BY <1>2 DEF IInv, TypeOK, TestHaltPending, Signalling
    <2>5. Signalling => Holders' = Holders
      BY <1>2 DEF IInv, TypeOK, TestHaltPending, Holders, Base
    <2> QED
      BY <1>2, <2>1, <2>3, <2>4, <2>5 DEF IInv, TestHaltPending, Base
  <1>3. ASSUME NEW u \in Users, Release(u) PROVE IInv'
    <2>0. /\ Cardinality(Counted') = Cardinality(Counted) - 1
          /\ Cardinality(Counted) > 0
      BY <1>3, CountedRelease DEF IInv
    <2>1. TypeOK'
      <3>1. RemoveCount - 1 \in Nat
        BY <2>0 DEF IInv, RemoveCountExact, Base
      <3> QED
        BY <1>3, <3>1 DEF IInv, TypeOK, Release, UserPC
    <2>2. RemoveCountExact'
      BY <1>3, <2>0 DEF IInv, RemoveCountExact, TypeOK, Release, Base
    <2>3. Holders' \subseteq Holders
      BY <1>3 DEF IInv, TypeOK, Release, Holders
    <2>4. CASE Signalling
      BY <1>3, <2>1, <2>2, <2>3, <2>4 DEF IInv, Release, Base
    <2>5. CASE ~Signalling /\ RemoveCount' = 0
      <3>1. Cardinality(Counted') = 0 /\ Base = 0
        BY <1>3, <2>0, <2>5 DEF IInv, TypeOK, RemoveCountExact, Release, Base
      <3>2. Counted' = {}
        <4>1. Counted' = Counted \ {u}
          BY <1>3, CountedRelease DEF IInv
        <4> QED
          BY <3>1, <4>1, FiniteCounted, FS_RemoveElement, FS_EmptySet
      <3>3. Holders' = {}
        BY <3>2 DEF Holders, Counted
      <3> QED
        BY <1>3, <2>1, <2>2, <3>1, <3>3 DEF IInv, Release, Base
    <2>6. CASE ~Signalling /\ RemoveCount' # 0
      <3>1. ~Signalling'
        BY <1>3, <2>6 DEF IInv, TypeOK, Release, Signalling
      <3> QED
        BY <1>3, <2>1, <2>2, <3>1 DEF IInv, Release
    <2> QED
      BY <2>4, <2>5, <2>6
  <1>4. ASSUME NEW u \in Users, Signal(u) PROVE IInv'
    <2>1. TypeOK'
      BY <1>4 DEF IInv, TypeOK, Signal, UserPC
    <2>2. Counted' = Counted /\ Holders' = Holders
      BY <1>4 DEF IInv, TypeOK, Signal, Counted, Holders
    <2>3. Signalling
      BY <1>4 DEF Signal, Signalling
    <2> QED
      BY <1>4, <2>1, <2>2, <2>3 DEF IInv, Signal, RemoveCountExact, Base
  <1>5. ASSUME HaltSetPending PROVE IInv'
    <2>1. TypeOK'
      BY <1>5 DEF IInv, TypeOK, HaltSetPending, HaltPC
    <2>2. Counted' = Counted
      BY <1>5 DEF HaltSetPending, Counted
    <2>3. ~Signalling'
      BY <1>5 DEF IInv, HaltSetPending, Signalling, Base
    <2> QED
      BY <1>5, <2>1, <2>2, <2>3 DEF IInv, HaltSetPending, RemoveCountExact, Base
  <1>6. ASSUME HaltRelease PROVE IInv'
    <2>1. Counted' = Counted /\ Holders' = Holders
      BY <1>6 DEF HaltRelease, Counted, Holders
    <2>2. RemoveCount' = Cardinality(Counted)
      BY <1>6 DEF IInv, TypeOK, RemoveCountExact, HaltRelease, Base
    <2>3. TypeOK'
      BY <1>6, <2>2 DEF IInv, TypeOK, HaltRelease, HaltPC
    <2>4. RemoveCountExact'
      BY <1>6, <2>1, <2>2 DEF HaltRelease, RemoveCountExact, Base
    <2>5. ~Signalling
      BY <1>6 DEF IInv, HaltRelease, Base
    <2>6. Signalling' => Holders' = {}
      <3>1. Signalling' => RemoveCount' = 0
        BY <1>6, <2>5 DEF HaltRelease, Signalling
      <3>2. RemoveCount' = 0 => Counted = {}
        BY <2>2, FiniteCounted, FS_EmptySet
      <3> QED
        BY <2>1, <3>1, <3>2, HoldersAreCounted
    <2> QED
      BY <1>6, <2>3, <2>4, <2>6 DEF IInv, HaltRelease, Base
  <1>7. ASSUME HaltSignal PROVE IInv'
    <2>1. Counted' = Counted /\ Holders' = Holders
      BY <1>7 DEF HaltSignal, Counted, Holders
    <2> QED
      BY <1>7, <2>1 DEF IInv, TypeOK, HaltSignal, HaltPC, RemoveCountExact, Base, Signalling
  <1>8. ASSUME HaltWait \/ HaltGiveUp PROVE IInv'
    <2>1. Counted' = Counted /\ Holders' = Holders
      BY <1>8 DEF HaltWait, HaltGiveUp, Counted, Holders
    <2> QED
      BY <1>8, <2>1
      DEF IInv, TypeOK, HaltWait, HaltGiveUp, HaltPC, RemoveCountExact, Base, Signalling
  <1>9. CASE UNCHANGED vars
    <2>1. Counted' = Counted /\ Holders' = Holders
      BY <1>9 DEF vars, Counted, Holders
    <2> QED
      BY <1>9, <2>1 DEF vars, IInv, TypeOK, RemoveCountExact, Base, Signalling
  <1> QED
    BY <1>1, <1>2, <1>3, <1>4, <1>5, <1>6, <1>7, <1>8, <1>9
    DEF Next, UserStep, HaltStep

\* The counter stays a natural number and every program counter in its range,
\* for every finite set of users.
THEOREM TypeCorrect == Spec => []TypeOK
  <1>1. IInv => TypeOK
    BY DEF IInv
  <1> QED
    BY IInvInit, IInvNext, <1>1, PTL DEF Spec

\* RemoveCount is exactly the base count plus the users that have taken one;
\* the assertions of SaitAcquireRemoveLock and SaitReleaseRemoveLock hold.
THEOREM CountIsExact == Spec => []RemoveCountExact
  <1>1. IInv => RemoveCountExact
    BY DEF IInv
  <1> QED
    BY IInvInit, IInvNext, <1>1, PTL DEF Spec

\* The invariant says more than that a set event means an empty lock.
LEMMA IInvSignalled == IInv => SignalledIsEmpty
  BY DEF IInv, Signalling, SignalledIsEmpty, Base

\* RemoveEvent is set only when a halt is pending and nobody holds the lock.
THEOREM SignalMeansEmpty == Spec => []SignalledIsEmpty
  BY IInvInit, IInvNext, IInvSignalled, PTL DEF Spec

\* No step makes a user a holder once RemoveEvent is set.
THEOREM SignalMeansClosed == Spec => NobodyEntersAfterSignal
  <1>1. IInv /\ [Next]_vars => [RemoveEvent => Holders' \subseteq Holders]_vars
    <2> SUFFICES ASSUME IInv, Next, RemoveEvent PROVE Holders' \subseteq Holders
      BY DEF vars
    <2>1. RemoveEvent'
      BY DEF Next, UserStep, HaltStep, Increment, TestHaltPending, Release, Signal,
             HaltSetPending, HaltRelease, HaltSignal, HaltWait, HaltGiveUp
    <2>2. IInv'
      BY IInvNext
    <2> QED
      BY <2>1, <2>2 DEF IInv, Signalling
  <1> QED
    BY IInvInit, IInvNext, <1>1, PTL DEF Spec, NobodyEntersAfterSignal

----------------------------------------------------------------------------
(* No signal is lost *)

\* The step that empties Counted, or gives the base count back with Counted empty, is
\* the one that takes the counter to 0 and has to signal.
LEMMA EventIsOwedNext == IInv /\ EventIsOwed /\ [Next]_vars => EventIsOwed'
  <1> SUFFICES ASSUME IInv, EventIsOwed, [Next]_vars, Base' = 0, Counted' = {}
               PROVE  Signalling'
    BY DEF EventIsOwed
  <1> USE CardinalitiesAreNat
  <1>1. CASE Signalling
    BY <1>1 DEF IInv, TypeOK, Signalling, Next, UserStep, HaltStep, vars, Increment,
                TestHaltPending, Release, Signal, HaltSetPending, HaltRelease, HaltSignal,
                HaltWait, HaltGiveUp
  <1>2. ASSUME NEW u \in Users, Increment(u) \/ TestHaltPending(u) PROVE FALSE
    BY <1>2 DEF IInv, TypeOK, Increment, TestHaltPending, Counted
  <1>3. ASSUME NEW u \in Users, Release(u) PROVE Signalling'
    <2>1. Cardinality(Counted) = 1 /\ Base = 0
      <3>1. Cardinality(Counted') = 0 /\ Cardinality(Counted') = Cardinality(Counted) - 1
        BY <1>3, CountedRelease, FS_EmptySet DEF IInv
      <3> QED
        BY <1>3, <3>1 DEF Release, Base
    <2>2. RemoveCount' = 0
      BY <1>3, <2>1 DEF IInv, RemoveCountExact, Release
    <2> QED
      BY <1>3, <2>2 DEF IInv, TypeOK, Release, Signalling
  <1>4. CASE HaltRelease
    <2>1. Counted = {} /\ Base = 1
      BY <1>4 DEF HaltRelease, Counted, Base
    <2>2. RemoveCount' = 0
      BY <1>4, <2>1, FS_EmptySet DEF IInv, RemoveCountExact, HaltRelease
    <2> QED
      BY <1>4, <2>2 DEF HaltRelease, Signalling
  <1>5. CASE \/ UNCHANGED vars \/ HaltSetPending \/ HaltSignal \/ HaltWait \/ HaltGiveUp
             \/ \E u \in Users : Signal(u)
    <2>1. CASE HaltSignal \/ \E u \in Users : Signal(u)
      BY <2>1 DEF HaltSignal, Signal, Signalling
    <2>2. CASE UNCHANGED vars \/ HaltSetPending \/ HaltWait \/ HaltGiveUp
      <3>1. Base = 0 /\ Counted = {}
        BY <2>2 DEF vars, HaltSetPending, HaltWait, HaltGiveUp, Base, Counted
      <3> QED
        BY <1>1, <3>1 DEF EventIsOwed
    <2> QED
      BY <1>5, <2>1, <2>2
  <1> QED
    BY <1>1, <1>2, <1>3, <1>4, <1>5 DEF Next, UserStep, HaltStep

\* The safety half of the halt's progress: with the base count and all users' counts
\* given back, RemoveEvent is set or somebody is between the decrement and the set.
THEOREM NoSignalIsLost == Spec => []EventIsOwed
  <1>1. Init => EventIsOwed
    BY DEF Init, EventIsOwed, Base
  <1> QED
    BY IInvInit, IInvNext, EventIsOwedNext, <1>1, PTL DEF Spec

----------------------------------------------------------------------------
(* Refinement *)

\* A test of HaltPending or a release moves one user in or out, or none.
LEMMA HoldersChange ==
  ASSUME IInv, NEW u \in Users, TestHaltPending(u) \/ Release(u)
  PROVE  \/ Holders' = Holders
         \/ ~HaltPending /\ Cardinality(Holders') = Cardinality(Holders) + 1
         \/ Cardinality(Holders) > 0 /\ Cardinality(Holders') = Cardinality(Holders) - 1
  <1>1. CASE upc[u] = "test" /\ HaltPending
    BY <1>1 DEF IInv, TypeOK, TestHaltPending, Release, Holders
  <1>2. CASE upc[u] = "test" /\ ~HaltPending
    <2>1. Holders' = Holders \cup {u} /\ u \notin Holders
      BY <1>2 DEF IInv, TypeOK, TestHaltPending, Release, Holders
    <2> QED
      BY <1>2, <2>1, FiniteCounted, FS_AddElement
  <1>3. CASE upc[u] = "backout"
    BY <1>3 DEF IInv, TypeOK, TestHaltPending, Release, Holders
  <1>4. CASE upc[u] = "holding"
    <2>1. Holders' = Holders \ {u} /\ u \in Holders
      BY <1>4 DEF IInv, TypeOK, TestHaltPending, Release, Holders
    <2>2. Cardinality(Holders) # 0
      BY <2>1, FiniteCounted, FS_EmptySet
    <2>3. Cardinality(Holders') = Cardinality(Holders) - 1
      BY <2>1, FiniteCounted, FS_RemoveElement
    <2> QED
      BY <2>2, <2>3, CardinalitiesAreNat
  <1> QED
    BY <1>1, <1>2, <1>3, <1>4 DEF TestHaltPending, Release

\* The lock implements Rundown: entering is the moment HaltPending is read as
\* FALSE, leaving the decrement, closing the assignment of HaltPending and the
\* drain each setting of RemoveEvent; everything else is a stutter.
THEOREM Refinement == Spec => RefinesRundown
  <1> DEFINE step == [rundown!Next]_(rundown!vars)
  <1>1. Init => rundown!Init
    <2> SUFFICES ASSUME Init PROVE rundown!Init
      OBVIOUS
    <2>1. Holders = {}
      BY DEF Init, Holders
    <2> QED
      BY <2>1, FS_EmptySet DEF Init, rundown!Init
  <1>2. IInv /\ [Next]_vars => step
    <2> SUFFICES ASSUME IInv, [Next]_vars PROVE step
      OBVIOUS
    <2>1. ASSUME NEW u \in Users, Increment(u) PROVE step
      <3>1. Holders' = Holders
        BY <2>1 DEF IInv, TypeOK, Increment, Holders
      <3> QED
        BY <2>1, <3>1 DEF Increment, rundown!vars
    <2>2. ASSUME NEW u \in Users, TestHaltPending(u) \/ Release(u) PROVE step
      <3>1. UNCHANGED <<HaltPending, RemoveEvent>>
        BY <2>2 DEF TestHaltPending, Release
      <3>2. CASE Holders' = Holders
        BY <3>1, <3>2 DEF rundown!vars
      <3>3. CASE ~HaltPending /\ Cardinality(Holders') = Cardinality(Holders) + 1
        BY <3>1, <3>3 DEF rundown!Next, rundown!Enter
      <3>4. CASE /\ Cardinality(Holders) > 0
                 /\ Cardinality(Holders') = Cardinality(Holders) - 1
        BY <3>1, <3>4 DEF rundown!Next, rundown!Leave
      <3> QED
        BY <2>2, <3>2, <3>3, <3>4, HoldersChange
    <2>3. ASSUME NEW u \in Users, Signal(u) PROVE step
      <3>1. Holders' = Holders
        BY <2>3 DEF IInv, TypeOK, Signal, Holders
      <3>2. HaltPending /\ Holders = {}
        BY <2>3 DEF IInv, Signal, Signalling, Base
      <3> QED
        BY <2>3, <3>1, <3>2, FS_EmptySet DEF Signal, rundown!Next, rundown!Drain
    <2>4. CASE HaltSetPending
      <3>1. Holders' = Holders
        BY <2>4 DEF HaltSetPending, Holders
      <3>2. ~HaltPending
        BY <2>4 DEF IInv, HaltSetPending
      <3> QED
        BY <2>4, <3>1, <3>2 DEF HaltSetPending, rundown!Next, rundown!Close
    <2>5. CASE HaltRelease \/ HaltWait \/ HaltGiveUp
      <3>1. Holders' = Holders
        BY <2>5 DEF HaltRelease, HaltWait, HaltGiveUp, Holders
      <3> QED
        BY <2>5, <3>1 DEF HaltRelease, HaltWait, HaltGiveUp, rundown!vars
    <2>6. CASE HaltSignal
      <3>1. Holders' = Holders
        BY <2>6 DEF HaltSignal, Holders
      <3>2. HaltPending /\ Holders = {}
        BY <2>6 DEF IInv, HaltSignal, Signalling, Base
      <3> QED
        BY <2>6, <3>1, <3>2, FS_EmptySet DEF HaltSignal, rundown!Next, rundown!Drain
    <2>7. CASE UNCHANGED vars
      <3>1. Holders' = Holders
        BY <2>7 DEF vars, Holders
      <3> QED
        BY <2>7, <3>1 DEF vars, rundown!vars
    <2> QED
      BY <2>1, <2>2, <2>3, <2>4, <2>5, <2>6, <2>7 DEF Next, UserStep, HaltStep
  <1> QED
    BY IInvInit, IInvNext, <1>1, <1>2, PTL DEF Spec, RefinesRundown, rundown!Spec
============================================================================
