--------------------------- MODULE SendPathProofs ---------------------------
(***************************************************************************)
(* The send path for any packets and calls: SendCount is exact, a halt     *)
(* that gets past its wait leaves no packet behind, and the queue of       *)
(* accepted packets implements module Rundown.                             *)
(***************************************************************************)
EXTENDS SendPath, FiniteSetTheorems, SequenceTheorems, WellFoundedInduction, TLAPS

USE SendAssumption

----------------------------------------------------------------------------
(* Lists *)

\* A non-empty set of naturals has a least element: finite sets have no infinite descent.
LEMMA NatMin ==
    ASSUME NEW T \in SUBSET Nat, T # {}
    PROVE  \E n \in T : \A m \in T : n <= m
<1> DEFINE Below(n) == 1 .. n
           Ts == {Below(n) : n \in T}
           R == StrictSubsetOrdering(Nat)
<1>1. \A n \in T : Below(n) \in FiniteSubsetsOf(Nat)
    BY FS_Interval DEF FiniteSubsetsOf
<1>2. Ts \subseteq FiniteSubsetsOf(Nat) /\ Ts # {}
    BY <1>1
<1>3. IsWellFoundedOn(R, FiniteSubsetsOf(Nat))
    BY FS_StrictSubsetOrderingWellFounded
<1> HIDE DEF R
<1>4. PICK x \in Ts : \A y \in Ts : ~ (<<y, x>> \in R)
    <2> HIDE DEF Ts
    <2> QED BY <1>2, <1>3, WFMin
<1>5. PICK n \in T : x = Below(n)
    OBVIOUS
<1>6. ASSUME NEW m \in T, m < n PROVE FALSE
    <2>1. Below(m) \subseteq Below(n) /\ Below(m) # Below(n)
        <3>1. n \in Below(n) /\ n \notin Below(m)
            BY <1>6
        <3> QED
            BY <1>6, <3>1
    <2>2. <<Below(m), Below(n)>> \in R
        <3>1. Below(m) \in SUBSET Nat /\ Below(n) \in SUBSET Nat
            OBVIOUS
        <3> HIDE DEF Below
        <3> QED
            BY <2>1, <3>1 DEF R, StrictSubsetOrdering
    <2> QED
        BY <1>4, <1>5, <2>2
<1> QED
    BY <1>6

\* Induction up to N for a set of numbers: what the proofs about lists rest on.
LEMMA Stepwise ==
    ASSUME NEW N \in Nat, NEW T \in SUBSET (0 .. N), 0 \in T,
           \A n \in 0 .. (N - 1) : n \in T => n + 1 \in T
    PROVE  T = 0 .. N
<1> SUFFICES ASSUME (0 .. N) \ T # {} PROVE FALSE
    OBVIOUS
<1>1. PICK n \in (0 .. N) \ T : \A m \in (0 .. N) \ T : n <= m
    <2>1. (0 .. N) \ T \in SUBSET Nat
        OBVIOUS
    <2> QED BY <2>1, NatMin
<1>2. n # 0 /\ n - 1 \in 0 .. (N - 1) /\ n - 1 \notin (0 .. N) \ T
    BY <1>1
<1>3. n - 1 \in T /\ (n - 1) + 1 = n
    BY <1>2
<1> QED
    BY <1>1, <1>2, <1>3

\* One step of the walk of Sift.
WalkStep(s, T, n, f) ==
    IF n = 0 THEN <<>> ELSE IF s[n] \in T THEN Append(f[n - 1], s[n]) ELSE f[n - 1]

\* The walk is well defined ...
LEMMA SiftWalk ==
    ASSUME NEW S, NEW s \in Seq(S), NEW T
    PROVE  \E f : f = [n \in 0 .. Len(s) |-> WalkStep(s, T, n, f)]
<1> DEFINE N == Len(s)
           Fits(f, m) == f = [n \in 0 .. m |-> WalkStep(s, T, n, f)]
           M == {m \in 0 .. N : \E f : Fits(f, m)}
<1>1. N \in Nat
    OBVIOUS
<1>2. 0 \in M
    <2>1. [n \in 0 .. 0 |-> <<>>] = [n \in 0 .. 0 |-> WalkStep(s, T, n, [k \in 0 .. 0 |-> <<>>])]
        BY DEF WalkStep
    <2> QED
        BY <1>1, <2>1
<1>3. ASSUME NEW m \in 0 .. (N - 1), m \in M PROVE m + 1 \in M
    <2>1. PICK f : Fits(f, m)
        BY <1>3
    <2> DEFINE g == [n \in 0 .. (m + 1) |-> WalkStep(s, T, n, f)]
    <2>2. \A n \in 0 .. m : g[n] = f[n]
        <3>1. \A n \in 0 .. m : f[n] = WalkStep(s, T, n, f)
            BY <2>1
        <3> QED
            BY <3>1, <1>1
    <2>3. \A n \in 0 .. (m + 1) : WalkStep(s, T, n, f) = WalkStep(s, T, n, g)
        <3> HIDE DEF g
        <3> QED BY <2>2, <1>1 DEF WalkStep
    <2>4. Fits(g, m + 1)
        <3>1. g = [n \in 0 .. (m + 1) |-> WalkStep(s, T, n, f)]
            OBVIOUS
        <3> HIDE DEF g
        <3> QED BY <2>3, <3>1
    <2>5. m + 1 \in 0 .. N
        BY <1>1
    <2> QED
        BY <2>4, <2>5
<1>4. M = 0 .. N
    <2> HIDE DEF M
    <2>1. M \subseteq 0 .. N
        BY DEF M
    <2> QED BY <1>1, <1>2, <1>3, <2>1, Stepwise
<1>5. N \in M
    BY <1>1, <1>4
<1> QED
    BY <1>5

\* ... and Sift is its result.
LEMMA SiftRec ==
    ASSUME NEW S, NEW s \in Seq(S), NEW T
    PROVE  \E f : /\ f = [n \in 0 .. Len(s) |-> WalkStep(s, T, n, f)]
                  /\ Sift(s, T) = f[Len(s)]
<1> DEFINE kept[n \in 0 .. Len(s)] ==
            IF n = 0 THEN <<>>
            ELSE IF s[n] \in T THEN Append(kept[n - 1], s[n]) ELSE kept[n - 1]
<1>1. Sift(s, T) = kept[Len(s)]
    BY DEF Sift
<1>2. \E f : f = [n \in 0 .. Len(s) |-> IF n = 0 THEN <<>>
            ELSE IF s[n] \in T THEN Append(f[n - 1], s[n]) ELSE f[n - 1]]
    <2>1. PICK f : f = [n \in 0 .. Len(s) |-> WalkStep(s, T, n, f)]
        BY SiftWalk
    <2>2. f = [n \in 0 .. Len(s) |-> IF n = 0 THEN <<>>
            ELSE IF s[n] \in T THEN Append(f[n - 1], s[n]) ELSE f[n - 1]]
        BY <2>1 DEF WalkStep
    <2> QED
        BY <2>2
<1>3. kept = [n \in 0 .. Len(s) |-> IF n = 0 THEN <<>>
            ELSE IF s[n] \in T THEN Append(kept[n - 1], s[n]) ELSE kept[n - 1]]
    BY <1>2
<1> HIDE DEF kept
<1>4. kept = [n \in 0 .. Len(s) |-> WalkStep(s, T, n, kept)]
    BY <1>3 DEF WalkStep
<1> QED
    BY <1>1, <1>4

\* A list with one more element at its end.
LEMMA OccurrencesAppend ==
    ASSUME NEW S, NEW s \in Seq(S), NEW e \in S, NEW p
    PROVE  /\ Occurrences(s, p) \in Nat
           /\ Occurrences(Append(s, e), p) = Occurrences(s, p) + (IF e = p THEN 1 ELSE 0)
<1> DEFINE A == {i \in DOMAIN s : s[i] = p}
           B == {i \in DOMAIN Append(s, e) : Append(s, e)[i] = p}
<1>1. /\ DOMAIN s = 1 .. Len(s) /\ Len(s) \in Nat
      /\ DOMAIN Append(s, e) = 1 .. (Len(s) + 1)
      /\ \A i \in 1 .. Len(s) : Append(s, e)[i] = s[i]
      /\ Append(s, e)[Len(s) + 1] = e
    BY AppendProperties
<1>2. IsFiniteSet(A) /\ Cardinality(A) \in Nat /\ Len(s) + 1 \notin A
    <2>1. IsFiniteSet(1 .. Len(s)) /\ A \subseteq 1 .. Len(s)
        BY <1>1, FS_Interval
    <2> QED
        BY <1>1, <2>1, FS_Subset, FS_CardinalityType
<1>3. B = IF e = p THEN A \cup {Len(s) + 1} ELSE A
    BY <1>1
<1>4. Cardinality(B) = Cardinality(A) + (IF e = p THEN 1 ELSE 0)
    <2> HIDE DEF A, B
    <2>1. Cardinality(A \cup {Len(s) + 1}) = Cardinality(A) + 1
        BY <1>2, FS_AddElement
    <2> QED
        BY <1>2, <1>3, <2>1
<1> QED
    BY <1>2, <1>4 DEF Occurrences

LEMMA OccurrencesEmpty == \A p : Occurrences(<<>>, p) = 0
  BY FS_EmptySet DEF Occurrences

\* Sift keeps each packet of T as often as it is in the list, and nothing else.
LEMMA SiftProperties ==
    ASSUME NEW S, NEW s \in Seq(S), NEW T
    PROVE  /\ Sift(s, T) \in Seq(S)
           /\ Len(Sift(s, T)) = Cardinality({i \in DOMAIN s : s[i] \in T})
           /\ \A p : Occurrences(Sift(s, T), p) =
                        IF p \in T THEN Occurrences(s, p) ELSE 0
<1> DEFINE N == Len(s)
           In(m) == {i \in 1 .. m : s[i] \in T}
           Of(m, p) == {i \in 1 .. m : s[i] = p}
<1>1. N \in Nat /\ DOMAIN s = 1 .. N
    OBVIOUS
<1>2. PICK f : /\ f = [n \in 0 .. N |-> WalkStep(s, T, n, f)]
               /\ Sift(s, T) = f[N]
    BY SiftRec
<1> DEFINE Good(m) == /\ f[m] \in Seq(S)
                      /\ Len(f[m]) = Cardinality(In(m))
                      /\ \A p : Occurrences(f[m], p) =
                                   IF p \in T THEN Cardinality(Of(m, p)) ELSE 0
           M == {m \in 0 .. N : Good(m)}
<1>3. 0 \in M
    <2>1. f[0] = <<>> /\ 0 \in 0 .. N
        BY <1>1, <1>2 DEF WalkStep
    <2>2. In(0) = {} /\ \A p : Of(0, p) = {}
        OBVIOUS
    <2>3. Good(0)
        BY <2>1, <2>2, OccurrencesEmpty, FS_EmptySet
    <2> QED
        BY <2>1, <2>3
<1>4. ASSUME NEW m \in 0 .. (N - 1), m \in M PROVE m + 1 \in M
    <2>1. m \in Nat /\ m + 1 \in 0 .. N /\ m + 1 \in 1 .. N /\ Good(m) /\ m + 1 # 0
        BY <1>1, <1>4
    <2>2. f[m + 1] = IF s[m + 1] \in T THEN Append(f[m], s[m + 1]) ELSE f[m]
        <3>1. f[m + 1] = WalkStep(s, T, m + 1, f)
            BY <1>2, <2>1
        <3>2. (m + 1) - 1 = m
            BY <2>1
        <3> QED
            BY <2>1, <3>1, <3>2 DEF WalkStep
    <2>3. s[m + 1] \in S
        BY <1>1, <2>1
    <2>4. /\ IsFiniteSet(In(m)) /\ Cardinality(In(m)) \in Nat /\ m + 1 \notin In(m)
          /\ In(m + 1) = IF s[m + 1] \in T THEN In(m) \cup {m + 1} ELSE In(m)
        <3>1. IsFiniteSet(1 .. m) /\ In(m) \subseteq 1 .. m
            BY <2>1, FS_Interval
        <3>2. IsFiniteSet(In(m)) /\ Cardinality(In(m)) \in Nat
            BY <3>1, FS_Subset, FS_CardinalityType
        <3> QED
            BY <2>1, <3>2
    <2>5. Cardinality(In(m + 1)) = Cardinality(In(m)) + (IF s[m + 1] \in T THEN 1 ELSE 0)
        <3> HIDE DEF In
        <3>1. Cardinality(In(m) \cup {m + 1}) = Cardinality(In(m)) + 1
            BY <2>4, FS_AddElement
        <3> QED
            BY <2>4, <3>1
    <2>6. ASSUME NEW p
          PROVE  Cardinality(Of(m + 1, p))
                    = Cardinality(Of(m, p)) + (IF s[m + 1] = p THEN 1 ELSE 0)
        <3>1. IsFiniteSet(1 .. m) /\ Of(m, p) \subseteq 1 .. m
            BY <2>1, FS_Interval
        <3>2. IsFiniteSet(Of(m, p)) /\ Cardinality(Of(m, p)) \in Nat
            BY <3>1, FS_Subset, FS_CardinalityType
        <3>3. /\ m + 1 \notin Of(m, p)
              /\ Of(m + 1, p) = IF s[m + 1] = p THEN Of(m, p) \cup {m + 1} ELSE Of(m, p)
            BY <2>1
        <3> HIDE DEF Of
        <3>4. Cardinality(Of(m, p) \cup {m + 1}) = Cardinality(Of(m, p)) + 1
            BY <3>2, <3>3, FS_AddElement
        <3> QED
            BY <3>2, <3>3, <3>4
    <2> HIDE DEF In, Of
    <2>7. f[m + 1] \in Seq(S) /\ Len(f[m + 1]) = Cardinality(In(m + 1))
        BY <2>1, <2>2, <2>3, <2>5
    <2>8. ASSUME NEW p
          PROVE  Occurrences(f[m + 1], p)
                    = IF p \in T THEN Cardinality(Of(m + 1, p)) ELSE 0
        <3>1. Occurrences(f[m], p) = IF p \in T THEN Cardinality(Of(m, p)) ELSE 0
            BY <2>1
        <3>2. CASE s[m + 1] \in T
            <4>1. Occurrences(f[m + 1], p)
                    = Occurrences(f[m], p) + (IF s[m + 1] = p THEN 1 ELSE 0)
                BY <2>1, <2>2, <2>3, <3>2, OccurrencesAppend
            <4> QED
                BY <2>6, <3>1, <3>2, <4>1
        <3>3. CASE s[m + 1] \notin T
            <4>1. p \in T => Cardinality(Of(m + 1, p)) = Cardinality(Of(m, p)) + 0
                BY <2>6, <3>3
            <4>2. Occurrences(f[m], p) \in Nat
                BY <2>1, <2>3, OccurrencesAppend
            <4> QED
                BY <2>2, <3>1, <3>3, <4>1, <4>2
        <3> QED
            BY <3>2, <3>3
    <2> QED
        BY <2>1, <2>7, <2>8
<1>5. M = 0 .. N
    <2>1. M \subseteq 0 .. N
        OBVIOUS
    <2> HIDE DEF M
    <2> QED
        BY <1>1, <1>3, <1>4, <2>1, Stepwise
<1>6. Good(N)
    <2>1. N \in M
        <3> HIDE DEF M
        <3> QED
            BY <1>1, <1>5
    <2> HIDE DEF Good
    <2> QED
        BY <2>1
<1>7. In(N) = {i \in DOMAIN s : s[i] \in T} /\ \A p : Of(N, p) = {i \in DOMAIN s : s[i] = p}
    BY <1>1
<1>8. \A p : Occurrences(s, p) = Cardinality(Of(N, p))
    BY <1>7 DEF Occurrences
<1> HIDE DEF In, Of, N
<1> QED
    BY <1>2, <1>6, <1>7, <1>8

\* What Sift keeps and what it leaves are the list, also by number.
LEMMA SiftSplits ==
    ASSUME NEW S, NEW s \in Seq(S), NEW T
    PROVE  Len(s) = Len(Sift(s, T)) + Len(Sift(s, S \ T))
<1> DEFINE A == {i \in DOMAIN s : s[i] \in T}
           B == {i \in DOMAIN s : s[i] \in S \ T}
<1>1. DOMAIN s = 1 .. Len(s) /\ Len(s) \in Nat /\ \A i \in DOMAIN s : s[i] \in S
    OBVIOUS
<1>2. A \cup B = 1 .. Len(s) /\ A \cap B = {}
    BY <1>1
<1>3. IsFiniteSet(1 .. Len(s)) /\ Cardinality(1 .. Len(s)) = Len(s)
    <2>1. /\ IsFiniteSet(1 .. Len(s))
          /\ Cardinality(1 .. Len(s)) = IF 1 > Len(s) THEN 0 ELSE Len(s) - 1 + 1
        BY <1>1, FS_Interval
    <2> QED
        BY <1>1, <2>1
<1>4. IsFiniteSet(A) /\ IsFiniteSet(B)
    BY <1>2, <1>3, FS_Subset
<1>5. Cardinality(A \cup B) = Cardinality(A) + Cardinality(B)
    <2> HIDE DEF A, B
    <2>1. Cardinality(A) \in Nat /\ Cardinality(B) \in Nat /\ Cardinality(A \cap B) = 0
        BY <1>2, <1>4, FS_EmptySet, FS_CardinalityType
    <2>2. Cardinality(A \cup B) = Cardinality(A) + Cardinality(B) - Cardinality(A \cap B)
        BY <1>4, FS_Union
    <2> QED
        BY <2>1, <2>2
<1>6. Len(Sift(s, T)) = Cardinality(A) /\ Len(Sift(s, S \ T)) = Cardinality(B)
    BY SiftProperties
<1> HIDE DEF A, B
<1> QED
    BY <1>2, <1>3, <1>5, <1>6

----------------------------------------------------------------------------
\* What NDIS passes to SaitSendPackets is a non-empty sequence of packets.
LEMMA ArraysAreSeqs == Arrays \subseteq Seq(Packets)
  <1>1. \A p \in Packets : <<p>> \in Seq(Packets)
    OBVIOUS
  <1>2. \A a \in Packets \X Packets : a \in Seq(Packets)
    <2> TAKE a \in Packets \X Packets
    <2>1. PICK p \in Packets, q \in Packets : a = <<p, q>>
      OBVIOUS
    <2>2. <<p, q>> \in Seq(Packets)
      OBVIOUS
    <2> QED
      BY <2>1, <2>2
  <1> QED
    BY <1>1, <1>2 DEF Arrays

LEMMA IInvInit == Init => IInv
  <1> SUFFICES ASSUME Init PROVE IInv
    OBVIOUS
  <1>1. Types
    BY DEF Init, Types, SendPC, HaltPC
  <1>2. SendCountExact
    BY DEF Init, SendCountExact
  <1>3. LockInv
    BY DEF Init, LockInv
  <1>4. HaltInv
    BY DEF Init, HaltInv, Accepting
  <1> QED
    BY <1>1, <1>2, <1>3, <1>4 DEF IInv

----------------------------------------------------------------------------
\* Types and LockInv: what one step of one call does.
LEMMA TypesNext == IInv /\ [Next]_vars => Types'
  <1> SUFFICES ASSUME IInv, [Next]_vars PROVE Types'
    OBVIOUS
  <1> USE DEF IInv, Types
  <1>1. CASE UNCHANGED vars
    BY <1>1 DEF vars, queues, halting
  <1>2. ASSUME NEW c \in Calls, Send(c) PROVE Types'
    BY <1>2, ArraysAreSeqs DEF Send, SendPC, queues, halting
  <1>3. ASSUME NEW c \in Calls, Acquire(c) PROVE Types'
    BY <1>3 DEF Acquire, SendPC, queues, halting
  <1>4. ASSUME NEW c \in Calls, TestHaltPending(c) PROVE Types'
    BY <1>4 DEF TestHaltPending, SendPC, queues, halting
  <1>5. ASSUME NEW c \in Calls, Fail(c) PROVE Types'
    <2>1. array[c] \in Seq(Packets) /\ array[c] # <<>>
      BY <1>5 DEF Fail, LockInv
    <2>2. Tail(array[c]) \in Seq(Packets)
      BY <2>1
    <2> QED
      BY <1>5, <2>2 DEF Fail, SendPC, queues, halting
  <1>6. ASSUME NEW c \in Calls, Queue(c) PROVE Types'
    <2>1. array[c] \in Seq(Packets) /\ array[c] # <<>>
      BY <1>6 DEF Queue, LockInv
    <2>2. Tail(array[c]) \in Seq(Packets) /\ Head(array[c]) \in Packets
      BY <2>1
    <2>3. Append(SendQueue, Head(array[c])) \in Seq(Packets) /\ SendCount + 1 \in Nat
      BY <2>2
    <2>4. SendQueue' \in Seq(Packets) /\ SendCount' \in Nat
      BY <1>6, <2>3 DEF Queue
    <2> QED
      BY <1>6, <2>2, <2>4 DEF Queue, SendPC, halting
  <1>7. ASSUME NEW c \in Calls, Release(c) PROVE Types'
    BY <1>7 DEF Release, SendPC, queues, halting
  <1>8. CASE CompleteCancelled \/ (\E id \in CancelIds : Cancel(id))
    BY <1>8 DEF CompleteCancelled, Cancel, queues, halting
  <1>9. CASE HaltSetPending \/ HaltStep
    <2>1. CASE DropCount
      BY <2>1 DEF DropCount, HaltPC, SendCountExact
    <2> QED
      BY <1>9, <2>1 DEF HaltSetPending, HaltStep, DrainPending, FailDrained,
                        WaitIdleAgain, FreeContexts, HaltPC, queues
  <1> QED
    BY <1>1, <1>2, <1>3, <1>4, <1>5, <1>6, <1>7, <1>8, <1>9 DEF Next, SendStep

\* SendLock: who passes Acquire holds it and nobody else does.
LEMMA LockInvNext == IInv /\ [Next]_vars => LockInv'
  <1> SUFFICES ASSUME IInv, [Next]_vars PROVE LockInv'
    OBVIOUS
  <1> USE DEF IInv, Types, LockInv
  <1>1. CASE UNCHANGED vars
    BY <1>1 DEF vars
  <1>2. ASSUME NEW c \in Calls, Send(c) PROVE LockInv'
    BY <1>2 DEF Send
  <1>3. ASSUME NEW c \in Calls, Acquire(c) PROVE LockInv'
    BY <1>3 DEF Acquire
  <1>4. ASSUME NEW c \in Calls, TestHaltPending(c) PROVE LockInv'
    BY <1>4 DEF TestHaltPending
  <1>5. ASSUME NEW c \in Calls, Fail(c) \/ Queue(c) PROVE LockInv'
    BY <1>5 DEF Fail, Queue
  <1>6. ASSUME NEW c \in Calls, Release(c) PROVE LockInv'
    BY <1>6 DEF Release
  <1>7. CASE CompleteCancelled \/ (\E id \in CancelIds : Cancel(id))
    BY <1>7 DEF CompleteCancelled, Cancel
  <1>8. CASE HaltSetPending \/ HaltStep
    BY <1>8 DEF HaltSetPending, HaltStep, DrainPending, FailDrained, DropCount,
                WaitIdleAgain, FreeContexts
  <1> QED
    BY <1>1, <1>2, <1>3, <1>4, <1>5, <1>6, <1>7, <1>8 DEF Next, SendStep

\* The count follows the queue.
LEMMA SendCountNext == IInv /\ [Next]_vars => SendCountExact'
  <1> SUFFICES ASSUME IInv, [Next]_vars PROVE SendCountExact'
    OBVIOUS
  <1> USE DEF IInv, Types, SendCountExact
  <1>1. CASE UNCHANGED vars
    BY <1>1 DEF vars, queues, halting
  <1>2. ASSUME NEW c \in Calls,
               \/ Send(c) \/ Acquire(c) \/ TestHaltPending(c) \/ Fail(c) \/ Release(c)
        PROVE  SendCountExact'
    BY <1>2 DEF Send, Acquire, TestHaltPending, Fail, Release, queues, halting
  <1>3. ASSUME NEW c \in Calls, Queue(c) PROVE SendCountExact'
    <2>1. Head(array[c]) \in Packets
      BY <1>3 DEF Queue, LockInv
    <2>2. Len(Append(SendQueue, Head(array[c]))) = Len(SendQueue) + 1
      BY <2>1
    <2> QED
      BY <1>3, <2>2 DEF Queue, halting
  <1>4. CASE CompleteCancelled \/ (\E id \in CancelIds : Cancel(id))
    BY <1>4 DEF CompleteCancelled, Cancel, queues, halting
  <1>5. CASE HaltSetPending \/ HaltStep
    BY <1>5 DEF HaltSetPending, HaltStep, DrainPending, FailDrained, DropCount,
                WaitIdleAgain, FreeContexts, queues
  <1> QED
    BY <1>1, <1>2, <1>3, <1>4, <1>5 DEF Next, SendStep

\* What a step of one call does to the set of those about to queue.
LEMMA AcceptingNext ==
  ASSUME IInv, NEW c \in Calls, Send(c) \/ SendStep(c)
  PROVE  Accepting' = IF spc'[c] = "queue" THEN Accepting \cup {c} ELSE Accepting \ {c}
  <1>1. \A d \in Calls : d # c => spc'[d] = spc[d]
    BY DEF IInv, Types, Send, SendStep, Acquire, TestHaltPending, Fail, Queue, Release
  <1> QED
    BY <1>1 DEF Accepting

\* Only the holder of SendLock is about to queue.
LEMMA LockFree == IInv /\ SendLock = Nobody => Accepting = {}
  BY DEF IInv, LockInv, Accepting

\* Behind the count nothing is queued any more: a call that tests HaltPending after
\* it was set refuses the packet, and one that tested before still holds SendLock.
LEMMA HaltInvNext == IInv /\ [Next]_vars => HaltInv'
  <1> SUFFICES ASSUME IInv, [Next]_vars PROVE HaltInv'
    OBVIOUS
  <1> USE DEF HaltInv
  <1>1. CASE UNCHANGED vars
    BY <1>1 DEF IInv, vars, queues, halting, Accepting
  <1>2. ASSUME NEW c \in Calls, Send(c) \/ SendStep(c) PROVE HaltInv'
    <2>1. UNCHANGED halting
      BY <1>2 DEF Send, SendStep, Acquire, TestHaltPending, Fail, Queue, Release
    <2>2. spc'[c] = "queue" => ~HaltPending
      BY <1>2 DEF IInv, Types, Send, SendStep, Acquire, TestHaltPending, Fail, Queue,
                  Release
    <2>3. hpc \in {"waitIdle", "freeContexts", "freed"} => Accepting' = {}
      BY <1>2, <2>2, AcceptingNext DEF IInv
    <2>4. hpc \in {"freeContexts", "freed"} => SendQueue' = SendQueue
      BY <1>2 DEF IInv, Accepting, Send, SendStep, Acquire, TestHaltPending, Fail, Queue,
                  Release, queues
    <2> QED
      BY <2>1, <2>3, <2>4 DEF IInv, halting
  <1>3. CASE CompleteCancelled \/ (\E id \in CancelIds : Cancel(id))
    <2>1. UNCHANGED <<halting, SendQueue, spc>>
      BY <1>3 DEF CompleteCancelled, Cancel, queues
    <2> QED
      BY <2>1 DEF IInv, halting, Accepting
  <1>4. CASE HaltSetPending
    BY <1>4 DEF IInv, HaltSetPending
  <1>5. CASE HaltStep
    <2>1. Accepting' = Accepting /\ SendQueue' = SendQueue
      BY <1>5 DEF HaltStep, DrainPending, FailDrained, DropCount, WaitIdleAgain,
                  FreeContexts, Accepting, queues
    <2>2. CASE DropCount
      <3>1. Accepting = {}
        BY <2>2, LockFree DEF DropCount
      <3>2. SendCount' = 0 => Len(SendQueue) = 0
        BY <2>2 DEF DropCount, IInv, Types, SendCountExact
      <3>3. SendCount' = 0 => SendQueue = <<>>
        BY <3>2 DEF IInv, Types
      <3> QED
        BY <2>1, <2>2, <3>1, <3>3 DEF DropCount, IInv
    <2>3. CASE DrainPending \/ FailDrained \/ WaitIdleAgain \/ FreeContexts
      BY <2>1, <2>3 DEF DrainPending, FailDrained, WaitIdleAgain, FreeContexts, IInv
    <2> QED
      BY <1>5, <2>2, <2>3 DEF HaltStep
  <1> QED
    BY <1>1, <1>2, <1>3, <1>4, <1>5 DEF Next

LEMMA IInvNext == IInv /\ [Next]_vars => IInv'
  BY TypesNext, LockInvNext, SendCountNext, HaltInvNext DEF IInv

LEMMA Invariance == Spec => []IInv
  BY IInvInit, IInvNext, PTL DEF Spec

----------------------------------------------------------------------------
\* SaitSendPackets counts what it queues, and SaitFreeSend takes the initial 1 back
\* exactly once (send.c).
THEOREM CountIsExact == Spec => []SendCountExact
  BY Invariance, PTL DEF IInv

\* A halt that finds SendCount 0 has no packet queued and will get none, although
\* SaitSendPackets and SaitWaitForSafeHalt share no lock for HaltPending.
THEOREM FreedMeansEmpty == Spec => []FreedIsEmpty
  <1>1. IInv => FreedIsEmpty
    BY DEF IInv, HaltInv, FreedIsEmpty
  <1> QED
    BY Invariance, <1>1, PTL

----------------------------------------------------------------------------
(* Types, and the places of the packets *)

\* A list of packets: who is a member, and how often.
LEMMA OccurrencesMembers ==
  ASSUME NEW s \in Seq(Packets), NEW p
  PROVE  Occurrences(s, p) \in Nat /\ (p \in Members(s) <=> Occurrences(s, p) # 0)
  <1> DEFINE A == {i \in DOMAIN s : s[i] = p}
  <1>1. IsFiniteSet(A)
    <2>1. IsFiniteSet(1 .. Len(s)) /\ A \subseteq 1 .. Len(s)
      BY FS_Interval
    <2> QED
      BY <2>1, FS_Subset
  <1>2. Cardinality(A) \in Nat /\ (Cardinality(A) = 0 <=> A = {})
    BY <1>1, FS_CardinalityType, FS_EmptySet
  <1> QED
    BY <1>2 DEF Occurrences, Members

\* What is left of an array when its first packet is done with.
LEMMA ArrayTail ==
  ASSUME NEW a \in Seq(Packets), a # <<>>,
         \A i, j \in DOMAIN a : a[i] = a[j] => i = j
  PROVE  /\ Tail(a) \in Seq(Packets) /\ Head(a) \in Packets
         /\ \A i, j \in DOMAIN Tail(a) : Tail(a)[i] = Tail(a)[j] => i = j
         /\ Members(Tail(a)) = Members(a) \ {Head(a)}
         /\ Head(a) \in Members(a)
  <1>1. /\ Tail(a) \in Seq(Packets) /\ Head(a) = a[1] /\ Head(a) \in Packets
        /\ Len(Tail(a)) = Len(a) - 1 /\ Len(a) \in Nat /\ Len(a) # 0
        /\ \A i \in 1 .. (Len(a) - 1) : Tail(a)[i] = a[i + 1]
    BY HeadTailProperties
  <1>2. DOMAIN Tail(a) = 1 .. (Len(a) - 1) /\ DOMAIN a = 1 .. Len(a)
    BY <1>1
  <1>3. \A i, j \in DOMAIN Tail(a) : Tail(a)[i] = Tail(a)[j] => i = j
    BY <1>1, <1>2
  <1>4. ASSUME NEW p \in Members(Tail(a)) PROVE p \in Members(a) /\ p # Head(a)
    <2>1. PICK i \in 1 .. (Len(a) - 1) : p = a[i + 1]
      BY <1>1, <1>2 DEF Members
    <2>2. i + 1 \in DOMAIN a /\ 1 \in DOMAIN a /\ i + 1 # 1
      BY <1>1, <1>2
    <2> QED
      BY <1>1, <2>1, <2>2 DEF Members
  <1>5. ASSUME NEW p \in Members(a), p # Head(a) PROVE p \in Members(Tail(a))
    <2>1. PICK i \in 1 .. Len(a) : p = a[i]
      BY <1>2 DEF Members
    <2>2. i # 1
      BY <1>1, <1>5, <2>1
    <2>3. i - 1 \in 1 .. (Len(a) - 1) /\ (i - 1) + 1 = i
      BY <1>1, <2>2
    <2>4. Tail(a)[i - 1] = p
      BY <1>1, <2>1, <2>3
    <2> QED
      BY <1>2, <2>3, <2>4 DEF Members
  <1>6. Head(a) \in Members(a)
    BY <1>1, <1>2 DEF Members
  <1> QED
    BY <1>1, <1>3, <1>4, <1>5, <1>6

\* Cancelling splits the pending queue.
LEMMA CancelSplits ==
  ASSUME NEW hit, NEW s \in Seq(Packets)
  PROVE  /\ Sift(s, hit) \in Seq(Packets) /\ Sift(s, Packets \ hit) \in Seq(Packets)
         /\ Len(s) - Len(Sift(s, hit)) = Len(Sift(s, Packets \ hit))
         /\ \A p \in Packets : Occurrences(s, p) =
               Occurrences(Sift(s, hit), p) + Occurrences(Sift(s, Packets \ hit), p)
  <1>1. Sift(s, hit) \in Seq(Packets) /\ Sift(s, Packets \ hit) \in Seq(Packets)
    BY SiftProperties
  <1>2. Len(s) = Len(Sift(s, hit)) + Len(Sift(s, Packets \ hit))
    BY SiftSplits
  <1>3. ASSUME NEW p \in Packets
        PROVE  Occurrences(s, p) =
                  Occurrences(Sift(s, hit), p) + Occurrences(Sift(s, Packets \ hit), p)
    <2>1. \A T : Occurrences(Sift(s, T), p) = IF p \in T THEN Occurrences(s, p) ELSE 0
      <3>1. ASSUME NEW T
            PROVE  \A q : Occurrences(Sift(s, T), q) =
                             IF q \in T THEN Occurrences(s, q) ELSE 0
        BY SiftProperties, ZenonT(40)
      <3> QED
        BY <3>1
    <2>2. Occurrences(s, p) \in Nat
      BY OccurrencesMembers
    <2> QED
      BY <2>1, <2>2
  <1>4. Len(s) \in Nat /\ Len(Sift(s, hit)) \in Nat /\ Len(Sift(s, Packets \ hit)) \in Nat
    BY <1>1
  <1>5. Len(s) - Len(Sift(s, hit)) = Len(Sift(s, Packets \ hit))
    BY <1>2, <1>4
  <1> QED
    BY <1>1, <1>3, <1>5

\* The invariant with which the places are inductive.
PInv == IInv /\ TypeOK /\ PlaceInv

\* How many calls have packet p still in their array.
Holds(p) == {c \in Calls : p \in Members(array[c])}

LEMMA HoldsFinite ==
  ASSUME NEW p
  PROVE  IsFiniteSet(Holds(p)) /\ Cardinality(Holds(p)) \in Nat
  <1>1. IsFiniteSet(Holds(p))
    BY FS_Subset DEF Holds
  <1> QED
    BY <1>1, FS_CardinalityType

\* The parts of Places are numbers, and at most one of them is not 0.
LEMMA PlacesOnce ==
  ASSUME PInv, NEW p \in Packets
  PROVE  /\ given[p] \in Nat /\ completed[p] \in Nat
         /\ Cardinality(Holds(p)) \in Nat /\ Occurrences(SendQueue, p) \in Nat
         /\ Occurrences(SendPendingQueue, p) \in Nat
         /\ Occurrences(cancelList, p) \in Nat /\ Occurrences(freeList, p) \in Nat
         /\ given[p] = completed[p] + Cardinality(Holds(p)) + Occurrences(SendQueue, p)
                       + Occurrences(SendPendingQueue, p)
                       + Occurrences(cancelList, p) + Occurrences(freeList, p)
         /\ given[p] <= completed[p] + 1
  <1>1. given[p] \in Nat /\ completed[p] \in Nat
    BY DEF PInv, TypeOK
  <1>2. /\ Occurrences(SendQueue, p) \in Nat /\ Occurrences(SendPendingQueue, p) \in Nat
        /\ Occurrences(cancelList, p) \in Nat /\ Occurrences(freeList, p) \in Nat
    BY OccurrencesMembers DEF PInv, TypeOK
  <1>3. Cardinality(Holds(p)) \in Nat
    BY HoldsFinite
  <1>4. given[p] = completed[p] + Places(p) /\ given[p] <= completed[p] + 1
    BY DEF PInv, PlaceInv, OnePlacePerPacket
  <1> QED
    BY <1>1, <1>2, <1>3, <1>4 DEF Places, Holds

\* Completing a list whose packets were given once takes each of them out of it.
LEMMA CompleteList ==
  ASSUME PInv, NEW list \in Seq(Packets), Complete(list),
         \A p \in Packets : Occurrences(list, p) <= 1
  PROVE  /\ completed' \in [Packets -> Nat]
         /\ \A p \in Packets : completed'[p] = completed[p] + Occurrences(list, p)
  <1>1. \A p \in Packets : /\ Occurrences(list, p) \in Nat
                           /\ p \in Members(list) <=> Occurrences(list, p) # 0
    BY OccurrencesMembers
  <1>2. \A p \in Packets : (IF p \in Members(list) THEN 1 ELSE 0) = Occurrences(list, p)
    BY <1>1
  <1>3. completed \in [Packets -> Nat]
    BY DEF PInv, TypeOK
  <1>4. completed' = [p \in Packets |-> completed[p] + Occurrences(list, p)]
    BY <1>2 DEF Complete
  <1> QED
    BY <1>1, <1>3, <1>4

LEMMA PInvInit == Init => PInv
  <1> SUFFICES ASSUME Init PROVE PInv
    OBVIOUS
  <1>1. TypeOK
    <2>1. completed \in [Packets -> Nat] /\ given \in [Packets -> Nat]
      BY DEF Init
    <2>2. Types
      BY IInvInit DEF IInv
    <2> QED
      BY <2>1, <2>2 DEF Init, TypeOK, Types
  <1>2. ASSUME NEW p \in Packets PROVE given[p] = completed[p] + Places(p)
    <2>1. {c \in Calls : p \in Members(array[c])} = {}
      BY DEF Init, Members
    <2>2. Cardinality({c \in Calls : p \in Members(array[c])}) = 0
      BY <2>1, FS_EmptySet
    <2> QED
      BY <2>2, OccurrencesEmpty DEF Init, Places
  <1>3. PlaceInv
    BY <1>2 DEF Init, PlaceInv, OnePlacePerPacket
  <1> QED
    BY <1>1, <1>3, IInvInit DEF PInv

\* To keep the places it is enough to keep, for each packet, the balance.
LEMMA PlacesKept ==
  ASSUME TypeOK', NEW p \in Packets,
         given[p]' = completed[p]' + Cardinality(Holds(p))' + Occurrences(SendQueue, p)'
                     + Occurrences(SendPendingQueue, p)' + Occurrences(cancelList, p)'
                     + Occurrences(freeList, p)'
  PROVE  given'[p] = completed'[p] + Places(p)'
  <1>1. /\ Occurrences(SendQueue, p)' \in Nat /\ Occurrences(SendPendingQueue, p)' \in Nat
        /\ Occurrences(cancelList, p)' \in Nat /\ Occurrences(freeList, p)' \in Nat
    BY OccurrencesMembers DEF TypeOK
  <1>2. Cardinality(Holds(p))' \in Nat
    <2>1. IsFiniteSet(Holds(p)')
      BY FS_Subset DEF Holds
    <2> QED
      BY <2>1, FS_CardinalityType
  <1>3. completed'[p] \in Nat
    BY DEF TypeOK
  <1>4. Places(p)' = Cardinality(Holds(p))' + Occurrences(SendQueue, p)'
                     + Occurrences(SendPendingQueue, p)' + Occurrences(cancelList, p)'
                     + Occurrences(freeList, p)'
    BY DEF Places, Holds
  <1> QED
    BY <1>1, <1>2, <1>3, <1>4

\* NDIS gives packets it has: a call's array is filled.
LEMMA PlacesSend ==
  ASSUME PInv, NEW c \in Calls, Send(c)
  PROVE  TypeOK' /\ PlaceInv'
  <1> USE DEF PInv
  <1>1. PICK a \in Arrays : /\ \A p \in Members(a) : given[p] = completed[p]
                            /\ array' = [array EXCEPT ![c] = a]
                            /\ given' = [p \in Packets |->
                                  given[p] + (IF p \in Members(a) THEN 1 ELSE 0)]
    BY DEF Send
  <1>2. UNCHANGED <<SendLock, queues, lists, halting, completed>> /\ spc[c] = "idle"
    BY DEF Send
  <1>3. TypeOK'
    BY <1>1, <1>2, ArraysAreSeqs DEF Send, TypeOK, SendPC, queues, lists, halting
  <1>4. \A i, j \in DOMAIN a : a[i] = a[j] => i = j
    <2>1. CASE a \in {<<p>> : p \in Packets}
      BY <2>1
    <2>2. CASE a \in Packets \X Packets /\ a[1] # a[2]
      <3>1. PICK p \in Packets, q \in Packets : a = <<p, q>>
        BY <2>2
      <3> QED
        BY <2>2, <3>1
    <2> QED
      BY <2>1, <2>2 DEF Arrays
  <1>5. array[c] = <<>>
    BY <1>2 DEF PlaceInv
  <1>6. ASSUME NEW p \in Packets
        PROVE  /\ given'[p] = completed'[p] + Places(p)'
               /\ given'[p] <= completed'[p] + 1
    <2>1. c \notin Holds(p)
      BY <1>5 DEF Holds, Members
    <2>2. Holds(p)' = IF p \in Members(a) THEN Holds(p) \cup {c} ELSE Holds(p)
      BY <1>1, <1>5, <2>1 DEF Holds, TypeOK
    <2>3. Cardinality(Holds(p)') =
             Cardinality(Holds(p)) + (IF p \in Members(a) THEN 1 ELSE 0)
      <3>1. Cardinality(Holds(p) \cup {c}) = Cardinality(Holds(p)) + 1
        BY <2>1, HoldsFinite, FS_AddElement
      <3> QED
        BY <2>2, <3>1, PlacesOnce
    <2>4. given'[p] = given[p] + (IF p \in Members(a) THEN 1 ELSE 0)
      BY <1>1
    <2>5. UNCHANGED <<completed, SendQueue, SendPendingQueue, cancelList, freeList>>
      BY <1>2 DEF queues, lists
    <2>6. p \in Members(a) => given[p] = completed[p]
      BY <1>1
    <2>7. given'[p] = completed'[p] + Cardinality(Holds(p))' + Occurrences(SendQueue, p)'
             + Occurrences(SendPendingQueue, p)' + Occurrences(cancelList, p)'
             + Occurrences(freeList, p)'
      BY <2>3, <2>4, <2>5, PlacesOnce
    <2>8. given'[p] <= completed'[p] + 1
      BY <2>4, <2>5, <2>6, PlacesOnce
    <2> QED
      BY <1>3, <2>7, <2>8, PlacesKept
  <1>7. \A d \in Calls : /\ \A i, j \in DOMAIN array'[d] : array'[d][i] = array'[d][j] => i = j
                         /\ spc'[d] \in {"idle", "release"} => array'[d] = <<>>
    <2>1. \A d \in Calls : array'[d] = (IF d = c THEN a ELSE array[d])
      BY <1>1 DEF TypeOK
    <2>2. \A d \in Calls : spc'[d] \in {"idle", "release"} =>
             d # c /\ spc[d] \in {"idle", "release"}
      BY DEF Send, TypeOK
    <2>3. \A d \in Calls :
             \A i, j \in DOMAIN array[d] : array[d][i] = array[d][j] => i = j
      BY DEF PlaceInv
    <2>4. \A d \in Calls : spc[d] \in {"idle", "release"} => array[d] = <<>>
      BY DEF PlaceInv
    <2> QED
      BY <1>4, <2>1, <2>2, <2>3, <2>4
  <1>8. /\ hpc' # "failDrained" => freeList' = <<>>
        /\ SendPendingCount' = Len(SendPendingQueue')
    BY <1>2 DEF PlaceInv, queues, lists, halting
  <1> QED
    BY <1>3, <1>6, <1>7, <1>8 DEF PlaceInv, OnePlacePerPacket

\* The call is done with the first packet of its array.
LEMMA HeadDone ==
  ASSUME PInv, NEW c \in Calls, spc[c] \in {"fail", "queue"},
         array' = [array EXCEPT ![c] = Tail(@)],
         spc' = [spc EXCEPT ![c] = "test"]
  PROVE  /\ Head(array[c]) \in Packets
         /\ array' \in [Calls -> Seq(Packets)]
         /\ \A d \in Calls :
               /\ \A i, j \in DOMAIN array'[d] : array'[d][i] = array'[d][j] => i = j
               /\ spc'[d] \in {"idle", "release"} => array'[d] = <<>>
         /\ \A p \in Packets : Cardinality(Holds(p)') =
               Cardinality(Holds(p)) - (IF p = Head(array[c]) THEN 1 ELSE 0)
  <1> USE DEF PInv
  <1>1. /\ array[c] \in Seq(Packets) /\ array[c] # <<>>
        /\ \A i, j \in DOMAIN array[c] : array[c][i] = array[c][j] => i = j
    BY DEF IInv, LockInv, TypeOK, PlaceInv
  <1>2. /\ Tail(array[c]) \in Seq(Packets) /\ Head(array[c]) \in Packets
        /\ \A i, j \in DOMAIN Tail(array[c]) :
              Tail(array[c])[i] = Tail(array[c])[j] => i = j
        /\ Members(Tail(array[c])) = Members(array[c]) \ {Head(array[c])}
        /\ Head(array[c]) \in Members(array[c])
    BY <1>1, ArrayTail
  <1>3. array \in [Calls -> Seq(Packets)] /\ spc \in [Calls -> SendPC]
    BY DEF TypeOK
  <1>4. /\ array' \in [Calls -> Seq(Packets)] /\ array'[c] = Tail(array[c])
        /\ \A d \in Calls \ {c} : array'[d] = array[d]
    BY <1>2, <1>3
  <1>5. \A d \in Calls :
          /\ \A i, j \in DOMAIN array'[d] : array'[d][i] = array'[d][j] => i = j
          /\ spc'[d] \in {"idle", "release"} => array'[d] = <<>>
    <2> SUFFICES ASSUME NEW d \in Calls
                 PROVE  /\ \A i, j \in DOMAIN array'[d] :
                              array'[d][i] = array'[d][j] => i = j
                        /\ spc'[d] \in {"idle", "release"} => array'[d] = <<>>
      OBVIOUS
    <2>1. CASE d = c
      BY <1>2, <1>3, <1>4, <2>1
    <2>2. CASE d # c
      BY <1>3, <1>4, <2>2 DEF PlaceInv
    <2> QED
      BY <2>1, <2>2
  <1>6. ASSUME NEW p \in Packets
        PROVE  Cardinality(Holds(p)') =
                  Cardinality(Holds(p)) - (IF p = Head(array[c]) THEN 1 ELSE 0)
    <2>1. Holds(p)' = IF p = Head(array[c]) THEN Holds(p) \ {c} ELSE Holds(p)
      BY <1>2, <1>4 DEF Holds
    <2>2. CASE p = Head(array[c])
      <3>1. c \in Holds(p)
        BY <1>2, <2>2 DEF Holds
      <3>2. Cardinality(Holds(p) \ {c}) = Cardinality(Holds(p)) - 1
        BY <3>1, HoldsFinite, FS_RemoveElement
      <3> QED
        BY <2>1, <2>2, <3>2
    <2>3. CASE p # Head(array[c])
      BY <2>1, <2>3, PlacesOnce
    <2> QED
      BY <2>2, <2>3
  <1> QED
    BY <1>2, <1>4, <1>5, <1>6

\* A packet refused: from the array back to NDIS.
LEMMA PlacesFail ==
  ASSUME PInv, NEW c \in Calls, Fail(c)
  PROVE  TypeOK' /\ PlaceInv'
  <1> DEFINE h == Head(array[c])
  <1>1. /\ spc[c] = "fail" /\ Complete(<<h>>)
        /\ array' = [array EXCEPT ![c] = Tail(@)]
        /\ spc' = [spc EXCEPT ![c] = "test"]
        /\ UNCHANGED <<SendLock, SendQueue, SendCount, SendPendingQueue, SendPendingCount,
                       cancelList, freeList, SendIdleEvent, contexts, HaltPending, hpc, given>>
    BY DEF Fail, queues, lists, halting
  <1>2. /\ h \in Packets /\ array' \in [Calls -> Seq(Packets)]
        /\ \A d \in Calls :
              /\ \A i, j \in DOMAIN array'[d] : array'[d][i] = array'[d][j] => i = j
              /\ spc'[d] \in {"idle", "release"} => array'[d] = <<>>
        /\ \A p \in Packets : Cardinality(Holds(p)') =
              Cardinality(Holds(p)) - (IF p = h THEN 1 ELSE 0)
    BY <1>1, HeadDone
  <1>3. Members(<<h>>) = {h}
    BY DEF Members
  <1> HIDE DEF h
  <1>4. /\ completed' \in [Packets -> Nat]
        /\ \A p \in Packets : completed'[p] = completed[p] + (IF p = h THEN 1 ELSE 0)
    <2>1. completed' = [p \in Packets |-> completed[p] + (IF p = h THEN 1 ELSE 0)]
      BY <1>1, <1>3 DEF Complete
    <2> QED
      BY <2>1 DEF PInv, TypeOK
  <1>5. TypeOK'
    BY <1>1, <1>2, <1>4 DEF PInv, TypeOK, SendPC
  <1>6. ASSUME NEW p \in Packets
        PROVE  /\ given'[p] = completed'[p] + Places(p)'
               /\ given'[p] <= completed'[p] + 1
    <2>1. UNCHANGED <<SendQueue, SendPendingQueue, cancelList, freeList, given>>
      BY <1>1
    <2>2. /\ completed'[p] = completed[p] + (IF p = h THEN 1 ELSE 0)
          /\ Cardinality(Holds(p)') = Cardinality(Holds(p)) - (IF p = h THEN 1 ELSE 0)
      BY <1>2, <1>4
    <2>3. given'[p] = completed'[p] + Cardinality(Holds(p))' + Occurrences(SendQueue, p)'
             + Occurrences(SendPendingQueue, p)' + Occurrences(cancelList, p)'
             + Occurrences(freeList, p)'
      BY <2>1, <2>2, PlacesOnce
    <2>4. given'[p] <= completed'[p] + 1
      BY <2>1, <2>2, PlacesOnce
    <2> QED
      BY <1>5, <2>3, <2>4, PlacesKept
  <1>7. /\ hpc' # "failDrained" => freeList' = <<>>
        /\ SendPendingCount' = Len(SendPendingQueue')
    BY <1>1 DEF PInv, PlaceInv
  <1> QED
    BY <1>2, <1>5, <1>6, <1>7 DEF PlaceInv, OnePlacePerPacket

\* A packet accepted: from the array to the end of a queue.
LEMMA PlacesQueue ==
  ASSUME PInv, NEW c \in Calls, Queue(c)
  PROVE  TypeOK' /\ PlaceInv'
  <1> DEFINE h == Head(array[c])
  <1>1. /\ spc[c] = "queue"
        /\ array' = [array EXCEPT ![c] = Tail(@)]
        /\ spc' = [spc EXCEPT ![c] = "test"]
        /\ \/ /\ SendQueue' = Append(SendQueue, h) /\ SendCount' = SendCount + 1
              /\ UNCHANGED <<SendPendingQueue, SendPendingCount>>
           \/ /\ SendPendingQueue' = Append(SendPendingQueue, h)
              /\ SendPendingCount' = SendPendingCount + 1
              /\ UNCHANGED <<SendQueue, SendCount>>
        /\ UNCHANGED <<SendLock, cancelList, freeList, SendIdleEvent, contexts,
                       HaltPending, hpc, completed, given>>
    BY DEF Queue, lists, halting
  <1>2. /\ h \in Packets /\ array' \in [Calls -> Seq(Packets)]
        /\ \A d \in Calls :
              /\ \A i, j \in DOMAIN array'[d] : array'[d][i] = array'[d][j] => i = j
              /\ spc'[d] \in {"idle", "release"} => array'[d] = <<>>
        /\ \A p \in Packets : Cardinality(Holds(p)') =
              Cardinality(Holds(p)) - (IF p = h THEN 1 ELSE 0)
    BY <1>1, HeadDone
  <1> HIDE DEF h
  <1>3. /\ SendQueue \in Seq(Packets) /\ SendPendingQueue \in Seq(Packets)
        /\ SendCount \in Nat /\ SendPendingCount = Len(SendPendingQueue)
    BY DEF PInv, TypeOK, PlaceInv
  <1>4. /\ SendQueue' \in Seq(Packets) /\ SendPendingQueue' \in Seq(Packets)
        /\ SendCount' \in Nat /\ SendPendingCount' = Len(SendPendingQueue')
        /\ SendPendingCount' \in Nat
    <2>1. /\ Append(SendQueue, h) \in Seq(Packets)
          /\ Append(SendPendingQueue, h) \in Seq(Packets)
          /\ Len(Append(SendPendingQueue, h)) = Len(SendPendingQueue) + 1
          /\ Len(SendPendingQueue) \in Nat
      BY <1>2, <1>3, AppendProperties
    <2>2. CASE /\ SendQueue' = Append(SendQueue, h) /\ SendCount' = SendCount + 1
               /\ UNCHANGED <<SendPendingQueue, SendPendingCount>>
      BY <1>3, <2>1, <2>2
    <2>3. CASE /\ SendPendingQueue' = Append(SendPendingQueue, h)
               /\ SendPendingCount' = SendPendingCount + 1
               /\ UNCHANGED <<SendQueue, SendCount>>
      BY <1>3, <2>1, <2>3
    <2> QED
      BY <1>1, <2>2, <2>3
  <1>5. TypeOK'
    BY <1>1, <1>2, <1>4 DEF PInv, TypeOK, SendPC
  <1>6. ASSUME NEW p \in Packets
        PROVE  /\ given'[p] = completed'[p] + Places(p)'
               /\ given'[p] <= completed'[p] + 1
    <2>1. UNCHANGED <<cancelList, freeList, given, completed>>
      BY <1>1
    <2>2. Cardinality(Holds(p)') = Cardinality(Holds(p)) - (IF p = h THEN 1 ELSE 0)
      BY <1>2
    <2>3. Occurrences(SendQueue, p)' + Occurrences(SendPendingQueue, p)'
            = Occurrences(SendQueue, p) + Occurrences(SendPendingQueue, p)
              + (IF p = h THEN 1 ELSE 0)
      <3>1. /\ Occurrences(Append(SendQueue, h), p)
                  = Occurrences(SendQueue, p) + (IF p = h THEN 1 ELSE 0)
            /\ Occurrences(Append(SendPendingQueue, h), p)
                  = Occurrences(SendPendingQueue, p) + (IF p = h THEN 1 ELSE 0)
        BY <1>2, <1>3, OccurrencesAppend
      <3>2. CASE SendQueue' = Append(SendQueue, h) /\ UNCHANGED SendPendingQueue
        BY <3>1, <3>2, PlacesOnce
      <3>3. CASE SendPendingQueue' = Append(SendPendingQueue, h) /\ UNCHANGED SendQueue
        BY <3>1, <3>3, PlacesOnce
      <3> QED
        BY <1>1, <3>2, <3>3
    <2>4. given'[p] = completed'[p] + Cardinality(Holds(p))' + Occurrences(SendQueue, p)'
             + Occurrences(SendPendingQueue, p)' + Occurrences(cancelList, p)'
             + Occurrences(freeList, p)'
      <3>1. Occurrences(SendQueue, p)' \in Nat /\ Occurrences(SendPendingQueue, p)' \in Nat
        BY <1>4, OccurrencesMembers
      <3> QED
        BY <2>1, <2>2, <2>3, <3>1, PlacesOnce
    <2>5. given'[p] <= completed'[p] + 1
      BY <2>1, PlacesOnce
    <2> QED
      BY <1>5, <2>4, <2>5, PlacesKept
  <1>7. hpc' # "failDrained" => freeList' = <<>>
    BY <1>1 DEF PInv, PlaceInv
  <1> QED
    BY <1>2, <1>4, <1>5, <1>6, <1>7 DEF PlaceInv, OnePlacePerPacket

\* How often packet p is in the lists Cancel and the halt work on, and how often
\* elsewhere in the driver.
Listed(p) == Occurrences(SendPendingQueue, p) + Occurrences(cancelList, p)
             + Occurrences(freeList, p)
Kept(p) == Cardinality(Holds(p)) + Occurrences(SendQueue, p)

PlacesAdd ==
  \A p \in Packets : /\ Listed(p) \in Nat /\ Kept(p) \in Nat
                     /\ Places(p) = Kept(p) + Listed(p)

LEMMA ListedType == TypeOK => PlacesAdd
  <1> SUFFICES ASSUME TypeOK, NEW p \in Packets
               PROVE  /\ Listed(p) \in Nat /\ Kept(p) \in Nat
                      /\ Places(p) = Kept(p) + Listed(p)
    BY DEF PlacesAdd
  <1>1. /\ Occurrences(SendPendingQueue, p) \in Nat /\ Occurrences(cancelList, p) \in Nat
        /\ Occurrences(freeList, p) \in Nat /\ Occurrences(SendQueue, p) \in Nat
    BY OccurrencesMembers DEF TypeOK
  <1>2. Cardinality(Holds(p)) \in Nat
    BY HoldsFinite
  <1>3. Places(p) = Cardinality(Holds(p)) + Occurrences(SendQueue, p)
                    + Occurrences(SendPendingQueue, p)
                    + Occurrences(cancelList, p) + Occurrences(freeList, p)
    BY DEF Places, Holds
  <1> QED
    BY <1>1, <1>2, <1>3 DEF Listed, Kept

\* Steps that only move packets between the lists, or from a list to NDIS.
ListsKeep ==
  \A p \in Packets : /\ completed'[p] + Listed(p)' = completed[p] + Listed(p)
                     /\ completed'[p] >= completed[p]

LEMMA PlacesLists ==
  ASSUME PInv, TypeOK',
         UNCHANGED <<SendQueue, array, spc, given>>,
         hpc' # "failDrained" => freeList' = <<>>,
         SendPendingCount' = Len(SendPendingQueue'),
         ListsKeep
  PROVE  PlaceInv'
  <1>1. ASSUME NEW p \in Packets
        PROVE  /\ given'[p] = completed'[p] + Places(p)'
               /\ given'[p] <= completed'[p] + 1
    <2>1. /\ Listed(p) \in Nat /\ Kept(p) \in Nat /\ Places(p) = Kept(p) + Listed(p)
          /\ completed[p] \in Nat /\ given[p] \in Nat
      BY ListedType DEF PInv, TypeOK, PlacesAdd
    <2>2. given[p] = completed[p] + Places(p) /\ given[p] <= completed[p] + 1
      BY DEF PInv, PlaceInv, OnePlacePerPacket
    <2>3. /\ Listed(p)' \in Nat /\ Kept(p)' \in Nat /\ Places(p)' = Kept(p)' + Listed(p)'
          /\ completed'[p] \in Nat
      <3>1. (TypeOK => PlacesAdd)'
        BY ListedType, PTL
      <3> QED
        BY <3>1 DEF PlacesAdd, TypeOK
    <2>4. Kept(p)' = Kept(p) /\ given'[p] = given[p]
      BY DEF Kept, Holds
    <2>5. /\ completed'[p] + Listed(p)' = completed[p] + Listed(p)
          /\ completed'[p] >= completed[p]
      BY DEF ListsKeep
    <2> QED
      BY <2>1, <2>2, <2>3, <2>4, <2>5, SMTT(40)
  <1> QED
    BY <1>1 DEF PInv, PlaceInv, OnePlacePerPacket

LEMMA PlacesCancel ==
  ASSUME PInv, NEW id \in CancelIds, Cancel(id)
  PROVE  TypeOK' /\ PlaceInv'
  <1> DEFINE hit == {p \in Packets : CancelId[p] = id}
  <1>1. /\ cancelList = <<>>
        /\ cancelList' = Sift(SendPendingQueue, hit)
        /\ SendPendingQueue' = Sift(SendPendingQueue, Packets \ hit)
        /\ SendPendingCount' = SendPendingCount - Len(cancelList')
        /\ UNCHANGED <<SendLock, SendQueue, SendCount, freeList, SendIdleEvent, contexts,
                       HaltPending, hpc, array, completed, given, spc>>
    BY DEF Cancel, halting
  <1> HIDE DEF hit
  <1>2. SendPendingQueue \in Seq(Packets) /\ SendPendingCount = Len(SendPendingQueue)
    BY DEF PInv, TypeOK, PlaceInv
  <1>3. /\ cancelList' \in Seq(Packets) /\ SendPendingQueue' \in Seq(Packets)
        /\ SendPendingCount' = Len(SendPendingQueue')
        /\ \A p \in Packets : Occurrences(SendPendingQueue, p) =
              Occurrences(cancelList', p) + Occurrences(SendPendingQueue', p)
    BY <1>1, <1>2, CancelSplits
  <1>4. TypeOK'
    BY <1>1, <1>3 DEF PInv, TypeOK
  <1>5. ListsKeep
    <2> SUFFICES ASSUME NEW p \in Packets
                 PROVE  /\ completed'[p] + Listed(p)' = completed[p] + Listed(p)
                        /\ completed'[p] >= completed[p]
      BY DEF ListsKeep
    <2>1. /\ Occurrences(cancelList', p) \in Nat /\ Occurrences(SendPendingQueue', p) \in Nat
          /\ Occurrences(cancelList, p) = 0
      BY <1>1, <1>3, OccurrencesMembers, OccurrencesEmpty
    <2>2. Occurrences(SendPendingQueue, p) =
              Occurrences(cancelList', p) + Occurrences(SendPendingQueue', p)
      BY <1>3
    <2>3. completed'[p] = completed[p] /\ completed[p] \in Nat
          /\ Occurrences(freeList, p)' = Occurrences(freeList, p)
          /\ Occurrences(freeList, p) \in Nat
      BY <1>1, PlacesOnce
    <2>4. Listed(p)' = Listed(p)
      BY <2>1, <2>2, <2>3 DEF Listed
    <2> QED
      BY <2>3, <2>4
  <1>6. hpc' # "failDrained" => freeList' = <<>>
    BY <1>1 DEF PInv, PlaceInv
  <1> QED
    BY <1>1, <1>3, <1>4, <1>5, <1>6, PlacesLists

\* The two loops that hand a list back to NDIS.
LEMMA PlacesComplete ==
  ASSUME PInv, CompleteCancelled \/ FailDrained
  PROVE  TypeOK' /\ PlaceInv'
  <1>1. /\ UNCHANGED <<SendLock, SendQueue, SendCount, SendPendingQueue, SendPendingCount,
                       SendIdleEvent, contexts, HaltPending, array, given, spc>>
        /\ \/ Complete(cancelList) /\ cancelList' = <<>> /\ UNCHANGED <<freeList, hpc>>
           \/ /\ Complete(freeList) /\ freeList' = <<>> /\ UNCHANGED cancelList
              /\ hpc' = "drop"
    BY DEF CompleteCancelled, FailDrained, queues, halting
  <1>2. cancelList \in Seq(Packets) /\ freeList \in Seq(Packets)
    BY DEF PInv, TypeOK
  <1>3. \A p \in Packets : Occurrences(cancelList, p) <= 1 /\ Occurrences(freeList, p) <= 1
    BY PlacesOnce
  <1>4. /\ completed' \in [Packets -> Nat]
        /\ \A p \in Packets :
              /\ completed'[p] >= completed[p]
              /\ completed'[p] + Occurrences(cancelList, p)' + Occurrences(freeList, p)'
                 = completed[p] + Occurrences(cancelList, p) + Occurrences(freeList, p)
    <2>1. CASE Complete(cancelList) /\ cancelList' = <<>> /\ UNCHANGED freeList
      <3>1. /\ completed' \in [Packets -> Nat]
            /\ \A p \in Packets : completed'[p] = completed[p] + Occurrences(cancelList, p)
        BY <1>2, <1>3, <2>1, CompleteList
      <3>2. \A p \in Packets : Occurrences(cancelList, p)' = 0
        BY <2>1, OccurrencesEmpty
      <3> QED
        BY <2>1, <3>1, <3>2, PlacesOnce, SMTT(40)
    <2>2. CASE Complete(freeList) /\ freeList' = <<>> /\ UNCHANGED cancelList
      <3>1. /\ completed' \in [Packets -> Nat]
            /\ \A p \in Packets : completed'[p] = completed[p] + Occurrences(freeList, p)
        BY <1>2, <1>3, <2>2, CompleteList
      <3>2. \A p \in Packets : Occurrences(freeList, p)' = 0
        BY <2>2, OccurrencesEmpty
      <3> QED
        BY <2>2, <3>1, <3>2, PlacesOnce, SMTT(40)
    <2> QED
      BY <1>1, <2>1, <2>2
  <1>5. TypeOK'
    <2>1. /\ cancelList' \in Seq(Packets) /\ freeList' \in Seq(Packets)
          /\ hpc' \in HaltPC
      <3>1. <<>> \in Seq(Packets)
        OBVIOUS
      <3> QED
        BY <1>1, <1>2, <3>1 DEF PInv, TypeOK, HaltPC
    <2> QED
      BY <1>1, <1>4, <2>1 DEF PInv, TypeOK
  <1>6. ListsKeep
    <2> SUFFICES ASSUME NEW p \in Packets
                 PROVE  /\ completed'[p] + Listed(p)' = completed[p] + Listed(p)
                        /\ completed'[p] >= completed[p]
      BY DEF ListsKeep
    <2>1. /\ Occurrences(SendPendingQueue, p)' = Occurrences(SendPendingQueue, p)
          /\ Occurrences(SendPendingQueue, p)' \in Nat
      BY <1>1, PlacesOnce
    <2>2. /\ Occurrences(cancelList, p)' \in Nat /\ Occurrences(freeList, p)' \in Nat
          /\ completed'[p] \in Nat
      BY <1>5, OccurrencesMembers DEF TypeOK
    <2>3. completed'[p] + Occurrences(cancelList, p)' + Occurrences(freeList, p)'
             = completed[p] + Occurrences(cancelList, p) + Occurrences(freeList, p)
      BY <1>4
    <2>4. /\ Occurrences(SendPendingQueue, p) \in Nat /\ completed[p] \in Nat
          /\ Occurrences(cancelList, p) \in Nat /\ Occurrences(freeList, p) \in Nat
      BY PlacesOnce
    <2> QED
      BY <1>4, <2>1, <2>2, <2>3, <2>4 DEF Listed
  <1>7. /\ hpc' # "failDrained" => freeList' = <<>>
        /\ SendPendingCount' = Len(SendPendingQueue')
    BY <1>1 DEF PInv, PlaceInv
  <1> QED
    BY <1>1, <1>5, <1>6, <1>7, PlacesLists

\* SaitFreeSend takes the whole pending queue.
LEMMA PlacesDrain ==
  ASSUME PInv, DrainPending
  PROVE  TypeOK' /\ PlaceInv'
  <1>1. /\ freeList' = SendPendingQueue /\ SendPendingQueue' = <<>>
        /\ SendPendingCount' = SendPendingCount - Len(SendPendingQueue)
        /\ hpc = "drain" /\ hpc' = "failDrained"
        /\ UNCHANGED <<SendLock, SendQueue, SendCount, cancelList, SendIdleEvent, contexts,
                       HaltPending, array, completed, given, spc>>
    BY DEF DrainPending
  <1>2. /\ SendPendingQueue \in Seq(Packets) /\ SendPendingCount = Len(SendPendingQueue)
        /\ freeList = <<>>
    BY <1>1 DEF PInv, TypeOK, PlaceInv
  <1>3. SendPendingCount' = 0 /\ SendPendingCount' = Len(SendPendingQueue')
    BY <1>1, <1>2
  <1>4. TypeOK'
    BY <1>1, <1>2, <1>3 DEF PInv, TypeOK, HaltPC
  <1>5. ListsKeep
    <2> SUFFICES ASSUME NEW p \in Packets
                 PROVE  /\ completed'[p] + Listed(p)' = completed[p] + Listed(p)
                        /\ completed'[p] >= completed[p]
      BY DEF ListsKeep
    <2>1. /\ Occurrences(SendPendingQueue, p)' = 0 /\ Occurrences(freeList, p) = 0
          /\ Occurrences(freeList, p)' = Occurrences(SendPendingQueue, p)
      BY <1>1, <1>2, OccurrencesEmpty
    <2>2. /\ completed'[p] = completed[p] /\ completed[p] \in Nat
          /\ Occurrences(cancelList, p)' = Occurrences(cancelList, p)
          /\ Occurrences(SendPendingQueue, p) \in Nat /\ Occurrences(cancelList, p) \in Nat
      BY <1>1, PlacesOnce
    <2>3. Listed(p)' = Listed(p)
      BY <2>1, <2>2 DEF Listed
    <2> QED
      BY <2>2, <2>3
  <1> QED
    BY <1>1, <1>2, <1>3, <1>4, <1>5, PlacesLists

LEMMA PInvNext == PInv /\ [Next]_vars => PInv'
  <1> SUFFICES ASSUME PInv, [Next]_vars PROVE TypeOK' /\ PlaceInv'
    BY IInvNext DEF PInv
  <1>1. CASE UNCHANGED vars
    BY <1>1 DEF PInv, TypeOK, PlaceInv, OnePlacePerPacket, Places, vars, queues, lists,
                halting
  <1>2. ASSUME NEW c \in Calls, Acquire(c) \/ TestHaltPending(c) \/ Release(c)
        PROVE  TypeOK' /\ PlaceInv'
    <2>1. Types' /\ UNCHANGED <<queues, lists, halting, array, completed, given>>
      BY <1>2, TypesNext DEF PInv, Acquire, TestHaltPending, Release
    <2>2. TypeOK'
      BY <2>1 DEF PInv, TypeOK, Types, queues, lists, halting
    <2>3. \A d \in Calls : spc'[d] \in {"idle", "release"} => array'[d] = <<>>
      <3>1. array' = array /\ spc \in [Calls -> SendPC]
        BY <2>1 DEF PInv, TypeOK
      <3>2. \/ spc[c] = "acquire" /\ spc' = [spc EXCEPT ![c] = "test"]
            \/ /\ spc[c] = "test"
               /\ spc' = [spc EXCEPT ![c] = IF array[c] = <<>> THEN "release"
                                            ELSE IF HaltPending THEN "fail" ELSE "queue"]
            \/ spc[c] = "release" /\ spc' = [spc EXCEPT ![c] = "idle"]
        BY <1>2 DEF Acquire, TestHaltPending, Release
      <3>3. spc'[c] \in {"idle", "release"} => array[c] = <<>>
        BY <3>1, <3>2 DEF PInv, PlaceInv
      <3>4. \A d \in Calls \ {c} : spc'[d] = spc[d]
        BY <3>1, <3>2
      <3> QED
        BY <3>1, <3>3, <3>4 DEF PInv, PlaceInv
    <2> QED
      BY <2>1, <2>2, <2>3
         DEF PInv, PlaceInv, OnePlacePerPacket, Places, queues, lists, halting
  <1>3. CASE HaltSetPending \/ DropCount \/ WaitIdleAgain \/ FreeContexts
    <2>1. /\ Types'
          /\ UNCHANGED <<SendQueue, SendPendingQueue, SendPendingCount, lists, array, spc,
                         completed, given, SendIdleEvent>>
          /\ hpc # "failDrained"
          /\ contexts' \in {contexts, 0} /\ HaltPending' \in {HaltPending, TRUE}
      BY <1>3, TypesNext DEF PInv, HaltSetPending, DropCount, WaitIdleAgain, FreeContexts,
                             queues
    <2>2. TypeOK'
      <3>1. contexts \in 0 .. MaxContexts /\ 0 \in 0 .. MaxContexts
            /\ HaltPending \in BOOLEAN
        BY SendAssumption DEF PInv, TypeOK
      <3>2. contexts' \in 0 .. MaxContexts /\ HaltPending' \in BOOLEAN
        BY <2>1, <3>1
      <3> QED
        BY <2>1, <3>2 DEF PInv, TypeOK, Types, lists
    <2> QED
      BY <2>1, <2>2 DEF PInv, PlaceInv, OnePlacePerPacket, Places, lists
  <1> QED
    BY <1>1, <1>2, <1>3, PlacesSend, PlacesFail, PlacesQueue, PlacesCancel,
       PlacesComplete, PlacesDrain DEF Next, SendStep, HaltStep

LEMMA PlaceInvariance == Spec => []PInv
  BY PInvInit, PInvNext, PTL DEF Spec

\* Every count of the send path stays a natural number and every list holds packets.
THEOREM TypeCorrect == Spec => []TypeOK
  BY PlaceInvariance, PTL DEF PInv

\* Each packet NDIS gave is in one place, or back with NDIS once: neither refusing,
\* nor queueing, nor cancelling, nor draining loses or doubles one, in any number of
\* concurrent calls, and whatever is in the pending queue.
THEOREM PacketsHaveOnePlace == Spec => []OnePlacePerPacket
  BY PlaceInvariance, PTL DEF PInv, PlaceInv

\* SaitCancelSendPackets finds nothing to cancel, SaitFreeSend nothing to fail.
THEOREM NothingEverPends == Spec => []NothingPends
  <1>1. Init => NothingPends
    BY DEF Init, NothingPends
  <1>2. PInv /\ NothingPends /\ [Next]_vars => NothingPends'
    <2> SUFFICES ASSUME PInv, NothingPends, [Next]_vars PROVE NothingPends'
      OBVIOUS
    <2> USE DEF NothingPends
    <2>1. ASSUME NEW T PROVE Sift(<<>>, T) = <<>>
      <3> DEFINE e == <<>>
      <3>1. e \in Seq(Packets) /\ {i \in DOMAIN e : e[i] \in T} = {}
        OBVIOUS
      <3>2. Cardinality({i \in DOMAIN e : e[i] \in T}) = 0
        BY <3>1, FS_EmptySet
      <3> HIDE DEF e
      <3>3. Sift(e, T) \in Seq(Packets) /\ Len(Sift(e, T)) = 0
        BY <3>1, <3>2, SiftProperties
      <3> QED
        BY <3>3, EmptySeq DEF e
    <2>2. ASSUME NEW id \in CancelIds, Cancel(id) PROVE NothingPends'
      BY <2>1, <2>2 DEF Cancel
    <2>3. ASSUME NEW c \in Calls, Send(c) \/ SendStep(c) PROVE NothingPends'
      BY <2>3 DEF Send, SendStep, Acquire, TestHaltPending, Fail, Queue, Release, queues,
                  lists
    <2>4. CASE UNCHANGED vars \/ CompleteCancelled \/ HaltSetPending \/ HaltStep
      BY <2>4 DEF vars, CompleteCancelled, HaltSetPending, HaltStep, DrainPending,
                  FailDrained, DropCount, WaitIdleAgain, FreeContexts, queues, lists
    <2> QED
      BY <2>2, <2>3, <2>4 DEF Next
  <1> QED
    BY PlaceInvariance, <1>1, <1>2, PTL DEF Spec

----------------------------------------------------------------------------
\* Nothing takes a packet out of SendQueue.
LEMMA AcceptedStays ==
  ASSUME IInv, [Next]_vars, SendQueue # <<>>
  PROVE  SendQueue' # <<>>
  <1>1. ASSUME NEW c \in Calls, Queue(c) PROVE SendQueue' # <<>>
    <2>1. Head(array[c]) \in Packets /\ SendQueue \in Seq(Packets)
      BY <1>1 DEF Queue, IInv, Types, LockInv
    <2>2. Append(SendQueue, Head(array[c])) # <<>>
      BY <2>1
    <2> QED
      BY <1>1, <2>2 DEF Queue
  <1>2. ASSUME NEW c \in Calls,
               Send(c) \/ Acquire(c) \/ TestHaltPending(c) \/ Fail(c) \/ Release(c)
        PROVE  SendQueue' # <<>>
    BY <1>2 DEF Send, Acquire, TestHaltPending, Fail, Release, queues
  <1>3. CASE \/ UNCHANGED vars \/ CompleteCancelled \/ HaltSetPending \/ HaltStep
             \/ \E id \in CancelIds : Cancel(id)
    BY <1>3 DEF vars, CompleteCancelled, HaltSetPending, HaltStep, DrainPending,
                FailDrained, DropCount, WaitIdleAgain, FreeContexts, Cancel, queues
  <1> QED
    BY <1>1, <1>2, <1>3 DEF Next, SendStep

\* The safety half of the hang (send.c:154): with a packet accepted, no halt gets past
\* its wait, and nothing takes the packet away.
THEOREM AcceptedMeansHang == Spec => AcceptedBlocksHalt
  <1>1. IInv /\ [Next]_vars =>
           (SendQueue # <<>> => SendQueue' # <<>> /\ hpc' \notin {"freeContexts", "freed"})
    BY AcceptedStays, IInvNext DEF IInv, HaltInv
  <1> QED
    BY Invariance, <1>1, PTL DEF Spec, AcceptedBlocksHalt

\* A halt waits in SaitFreeSend only if a packet was accepted: an adapter that never
\* sent is freed.
THEOREM WaitsOnlyForPackets == Spec => []WaitHasCause
  <1>1. Init => WaitHasCause
    BY DEF Init, WaitHasCause
  <1>2. IInv /\ WaitHasCause /\ [Next]_vars => WaitHasCause'
    <2> SUFFICES ASSUME IInv, WaitHasCause, [Next]_vars, hpc' = "waitIdle"
                 PROVE  SendQueue' # <<>>
      BY DEF WaitHasCause
    <2>1. CASE hpc # "waitIdle"
      <3>1. DropCount
        BY <2>1 DEF Next, Send, SendStep, Acquire, TestHaltPending, Fail, Queue, Release,
                    Cancel, CompleteCancelled, HaltSetPending, HaltStep, DrainPending,
                    FailDrained, WaitIdleAgain, FreeContexts, vars, halting
      <3>2. SendCount' # 0 /\ SendCount' = SendCount - 1 /\ SendQueue' = SendQueue
        BY <3>1 DEF DropCount
      <3>3. Len(SendQueue) # 0
        BY <2>1, <3>1, <3>2 DEF IInv, Types, SendCountExact, DropCount
      <3> QED
        BY <3>2, <3>3
    <2>2. CASE hpc = "waitIdle"
      <3>1. SendQueue # <<>>
        BY <2>2 DEF WaitHasCause
      <3> QED
        BY <3>1, AcceptedStays
    <2> QED
      BY <2>1, <2>2
  <1> QED
    BY Invariance, <1>1, <1>2, PTL DEF Spec

----------------------------------------------------------------------------
(* Refinement *)

\* How many packets are in the queue or about to enter it.
Inside == Len(SendQueue) + Cardinality(Accepting)

LEMMA FiniteAccepting ==
  ASSUME IInv
  PROVE  /\ IsFiniteSet(Accepting) /\ Cardinality(Accepting) \in Nat
         /\ Len(SendQueue) \in Nat
  <1>1. IsFiniteSet(Accepting)
    BY FS_Subset DEF Accepting
  <1> QED
    BY <1>1, FS_CardinalityType DEF IInv, Types

\* A test that finds HaltPending clear lets its packet in; every other step of a call
\* keeps the number, or takes one out (a packet that has to wait in the pending queue).
LEMMA InsideChange ==
  ASSUME IInv, NEW c \in Calls, Send(c) \/ SendStep(c)
  PROVE  \/ Inside' = Inside
         \/ ~HaltPending /\ Inside' = Inside + 1
         \/ Inside > 0 /\ Inside' = Inside - 1
  <1> USE DEF Inside
  <1>1. CASE TestHaltPending(c)
    <2>1. UNCHANGED SendQueue /\ c \notin Accepting
      BY <1>1 DEF TestHaltPending, queues, Accepting
    <2>2. CASE spc'[c] = "queue"
      <3>1. Accepting' = Accepting \cup {c} /\ ~HaltPending
        BY <1>1, <2>2, AcceptingNext DEF TestHaltPending, SendStep, IInv, Types
      <3>2. Cardinality(Accepting') = Cardinality(Accepting) + 1
        BY <2>1, <3>1, FiniteAccepting, FS_AddElement
      <3> QED
        BY <2>1, <3>1, <3>2, FiniteAccepting
    <2>3. CASE spc'[c] # "queue"
      <3>1. Accepting' = Accepting
        BY <2>1, <2>3, AcceptingNext
      <3> QED
        BY <2>1, <3>1
    <2> QED
      BY <2>2, <2>3
  <1>2. CASE Queue(c)
    <2>1. c \in Accepting /\ spc'[c] # "queue" /\ array[c] # <<>>
      BY <1>2 DEF Queue, Accepting, IInv, Types, LockInv
    <2>2. Accepting' = Accepting \ {c}
      BY <2>1, AcceptingNext
    <2>3. Cardinality(Accepting') = Cardinality(Accepting) - 1
      BY <2>1, <2>2, FiniteAccepting, FS_RemoveElement
    <2>4. Cardinality(Accepting) # 0
      BY <2>1, FiniteAccepting, FS_EmptySet
    <2>5. Head(array[c]) \in Packets
      BY <2>1 DEF IInv, Types
    <2>6. Len(Append(SendQueue, Head(array[c]))) = Len(SendQueue) + 1
      BY <2>5 DEF IInv, Types
    <2>7. Len(SendQueue') = Len(SendQueue) + 1 \/ SendQueue' = SendQueue
      BY <1>2, <2>6 DEF Queue
    <2> QED
      BY <2>3, <2>4, <2>7, FiniteAccepting
  <1>3. CASE Send(c) \/ Acquire(c) \/ Fail(c) \/ Release(c)
    <2>1. UNCHANGED SendQueue /\ c \notin Accepting /\ spc'[c] # "queue"
      BY <1>3 DEF Send, Acquire, Fail, Release, queues, Accepting, IInv, Types
    <2>2. Accepting' = Accepting
      BY <2>1, AcceptingNext
    <2> QED
      BY <2>1, <2>2
  <1> QED
    BY <1>1, <1>2, <1>3 DEF SendStep

\* The send path implements Rundown: a packet enters when its test finds HaltPending
\* clear, the queue is closed by the assignment of HaltPending and drained when
\* SaitFreeSend takes the count to 0.
THEOREM Refinement == Spec => RefinesRundown
  <1> DEFINE step == [rundown!Next]_(rundown!vars)
  <1>1. Init => rundown!Init
    <2> SUFFICES ASSUME Init PROVE rundown!Init
      OBVIOUS
    <2>1. Accepting = {}
      BY DEF Init, Accepting
    <2> QED
      BY <2>1, FS_EmptySet DEF Init, rundown!Init
  <1>2. IInv /\ [Next]_vars => step
    <2> SUFFICES ASSUME IInv, [Next]_vars PROVE step
      OBVIOUS
    <2>1. ASSUME NEW c \in Calls, Send(c) \/ SendStep(c) PROVE step
      <3>1. UNCHANGED <<HaltPending, hpc>>
        BY <2>1 DEF Send, SendStep, Acquire, TestHaltPending, Fail, Queue, Release, halting
      <3>2. CASE Inside' = Inside
        BY <3>1, <3>2 DEF rundown!vars, Inside
      <3>3. CASE ~HaltPending /\ Inside' = Inside + 1
        BY <3>1, <3>3 DEF rundown!Next, rundown!Enter, Inside
      <3>4. CASE Inside > 0 /\ Inside' = Inside - 1
        BY <3>1, <3>4 DEF rundown!Next, rundown!Leave, Inside
      <3> QED
        BY <2>1, <3>2, <3>3, <3>4, InsideChange
    <2>2. CASE \/ UNCHANGED vars \/ CompleteCancelled
               \/ \E id \in CancelIds : Cancel(id)
      <3>1. UNCHANGED <<HaltPending, hpc, SendQueue, spc>>
        BY <2>2 DEF vars, CompleteCancelled, Cancel, queues, halting
      <3> QED
        BY <3>1 DEF Accepting, rundown!vars
    <2>3. CASE HaltSetPending
      <3>1. UNCHANGED <<SendQueue, spc>> /\ ~HaltPending
        BY <2>3 DEF HaltSetPending, queues, IInv, HaltInv
      <3> QED
        BY <2>3, <3>1 DEF HaltSetPending, Accepting, rundown!Next, rundown!Close
    <2>4. CASE HaltStep
      <3>1. UNCHANGED <<HaltPending, SendQueue, Accepting>>
        BY <2>4 DEF HaltStep, DrainPending, FailDrained, DropCount, WaitIdleAgain,
                    FreeContexts, queues, Accepting
      <3>2. CASE DropCount /\ SendCount' = 0
        <4>1. Accepting = {} /\ Accepting' = {}
          BY <3>1, <3>2, LockFree DEF DropCount
        <4>2. Len(SendQueue) = 0
          BY <3>2 DEF DropCount, IInv, Types, SendCountExact
        <4>3. HaltPending /\ hpc' = "freeContexts"
          BY <3>2 DEF DropCount, IInv, HaltInv
        <4>4. Len(SendQueue) + Cardinality(Accepting) = 0
          BY <4>1, <4>2, FS_EmptySet
        <4> QED
          BY <3>1, <4>3, <4>4 DEF rundown!Next, rundown!Drain
      <3>3. CASE ~(DropCount /\ SendCount' = 0)
        <4>1. (hpc \in {"freeContexts", "freed"})' = (hpc \in {"freeContexts", "freed"})
          BY <2>4, <3>3 DEF HaltStep, DrainPending, FailDrained, DropCount,
                            WaitIdleAgain, FreeContexts, IInv, HaltInv
        <4> QED
          BY <3>1, <4>1 DEF rundown!vars
      <3> QED
        BY <3>2, <3>3
    <2> QED
      BY <2>1, <2>2, <2>3, <2>4 DEF Next
  <1> QED
    BY Invariance, IInvInit, IInvNext, <1>1, <1>2, PTL
       DEF Spec, RefinesRundown, rundown!Spec

============================================================================
