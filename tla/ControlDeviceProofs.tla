------------------------ MODULE ControlDeviceProofs ------------------------
(***************************************************************************)
(* The control device for every finite set of adapters and any programs:   *)
(* the mutex made of one interlocked counter excludes, MiniportCount       *)
(* counts the adapters that are registered, the control device follows the *)
(* count, and an ioctl meets a freed adapter only through a handle that    *)
(* was held over a halt, or a control device that somebody else keeps.     *)
(***************************************************************************)
EXTENDS ControlDevice, FiniteSetTheorems, TLAPS

USE ControlAssumption

CriticalPC == {"registerCount", "registerDevice", "registerRelease",
               "deregisterCount", "deregisterDevice", "deregisterRelease"}
BackoffPC == {"registerBackoff", "deregisterBackoff"}

\* The sets the counters count are finite.
LEMMA Finite ==
  /\ IsFiniteSet(Critical) /\ IsFiniteSet(BackingOff)
  /\ Cardinality(Critical) \in Nat /\ Cardinality(BackingOff) \in Nat
  <1>1. IsFiniteSet(Critical) /\ IsFiniteSet(BackingOff)
    BY FS_Subset DEF Critical, BackingOff
  <1> QED
    BY <1>1, FS_CardinalityType

\* What a step of one adapter does to them.
LEMMA CriticalGoto ==
  ASSUME TypeOK, NEW a \in Adapters, NEW pc \in AdapterPC, Goto(a, pc)
  PROVE  /\ Critical' = IF pc \in CriticalPC THEN Critical \cup {a} ELSE Critical \ {a}
         /\ BackingOff' = IF pc \in BackoffPC THEN BackingOff \cup {a}
                                              ELSE BackingOff \ {a}
  <1>1. \A b \in Adapters : apc'[b] = IF b = a THEN pc ELSE apc[b]
    BY DEF Goto, TypeOK
  <1>2. Critical' = IF pc \in CriticalPC THEN Critical \cup {a} ELSE Critical \ {a}
    BY <1>1 DEF Critical, CriticalPC
  <1>3. BackingOff' = IF pc \in BackoffPC THEN BackingOff \cup {a} ELSE BackingOff \ {a}
    BY <1>1 DEF BackingOff, BackoffPC
  <1> QED
    BY <1>2, <1>3

\* The part of the invariant that is about the mutex.
Mutex == TypeOK /\ CounterExact /\ MutualExclusion

\* The increment: only if it takes the counter from 0 is the adapter let in, and
\* then nobody else is inside.
LEMMA AcquireNext ==
  ASSUME Mutex, NEW a \in Adapters, NEW try, NEW backoff, NEW held,
         try \in AdapterPC \ (CriticalPC \cup BackoffPC),
         backoff \in BackoffPC, held \in CriticalPC,
         AcquireMutex(a, try, backoff, held)
  PROVE  Mutex'
  <1> USE DEF Mutex
  <1>1. /\ a \notin Critical /\ a \notin BackingOff
        /\ backoff \in AdapterPC /\ held \in AdapterPC
        /\ backoff \notin CriticalPC /\ held \notin BackoffPC
    BY DEF AcquireMutex, Critical, BackingOff, CriticalPC, BackoffPC, AdapterPC,
           RegisterPC, DeregisterPC
  <1>2. Counter \in Nat /\ Counter' = Counter + 1
    BY DEF AcquireMutex, TypeOK
  <1>3. TypeOK'
    BY <1>1, <1>2 DEF AcquireMutex, Goto, TypeOK, callers
  <1>4. CASE Counter' = 1
    <2>1. Critical' = Critical \cup {a} /\ BackingOff' = BackingOff
      BY <1>1, <1>4, CriticalGoto DEF AcquireMutex
    <2>2. Cardinality(Critical) = 0
      BY <1>2, <1>4, Finite DEF CounterExact
    <2>3. Critical = {}
      BY <2>2, Finite, FS_EmptySet
    <2>4. Cardinality(Critical') = Cardinality(Critical) + 1
      BY <1>1, <2>1, Finite, FS_AddElement
    <2> QED
      BY <1>2, <1>3, <2>1, <2>3, <2>4, Finite DEF CounterExact, MutualExclusion
  <1>5. CASE Counter' # 1
    <2>1. Critical' = Critical /\ BackingOff' = BackingOff \cup {a}
      BY <1>1, <1>5, CriticalGoto DEF AcquireMutex
    <2>2. Cardinality(BackingOff') = Cardinality(BackingOff) + 1
      BY <1>1, <2>1, Finite, FS_AddElement
    <2> QED
      BY <1>2, <1>3, <2>1, <2>2, Finite DEF CounterExact, MutualExclusion
  <1> QED
    BY <1>4, <1>5

\* The decrement of a late increment.
LEMMA BackOffNext ==
  ASSUME Mutex, NEW a \in Adapters, NEW backoff, NEW try,
         try \in AdapterPC \ (CriticalPC \cup BackoffPC), backoff \in BackoffPC,
         BackOff(a, backoff, try)
  PROVE  Mutex'
  <1> USE DEF Mutex
  <1>1. a \notin Critical /\ a \in BackingOff
    BY DEF BackOff, Critical, BackingOff, BackoffPC
  <1>2. Critical' = Critical /\ BackingOff' = BackingOff \ {a}
    BY <1>1, CriticalGoto DEF BackOff
  <1>3. Cardinality(BackingOff') = Cardinality(BackingOff) - 1
    BY <1>1, <1>2, Finite, FS_RemoveElement
  <1>4. Cardinality(BackingOff) # 0
    BY <1>1, Finite, FS_EmptySet
  <1>5. Counter' = Counter - 1 /\ Counter' \in Nat
    BY <1>4, Finite DEF BackOff, TypeOK, CounterExact
  <1>6. TypeOK'
    BY <1>5 DEF BackOff, Goto, TypeOK, callers
  <1> QED
    BY <1>2, <1>3, <1>5, <1>6, Finite DEF CounterExact, MutualExclusion

\* The decrement that releases the mutex.
LEMMA ReleaseNext ==
  ASSUME Mutex, NEW a \in Adapters, NEW release, NEW next,
         next \in AdapterPC \ (CriticalPC \cup BackoffPC), release \in CriticalPC,
         ReleaseMutex(a, release, next)
  PROVE  Mutex'
  <1> USE DEF Mutex
  <1>1. a \in Critical /\ a \notin BackingOff
    BY DEF ReleaseMutex, Critical, BackingOff, CriticalPC
  <1>2. Critical' = Critical \ {a} /\ BackingOff' = BackingOff
    BY <1>1, CriticalGoto DEF ReleaseMutex
  <1>3. Cardinality(Critical') = Cardinality(Critical) - 1
    BY <1>1, <1>2, Finite, FS_RemoveElement
  <1>4. Cardinality(Critical) # 0
    BY <1>1, Finite, FS_EmptySet
  <1>5. Counter' = Counter - 1 /\ Counter' \in Nat
    BY <1>4, Finite DEF ReleaseMutex, TypeOK, CounterExact
  <1>6. TypeOK'
    BY <1>5 DEF ReleaseMutex, Goto, TypeOK, callers
  <1> QED
    BY <1>2, <1>3, <1>5, <1>6, Finite DEF CounterExact, MutualExclusion

----------------------------------------------------------------------------
CountedPC == {"registerDevice", "registerRelease", "receive", "initTail", "running",
              "halting", "deregisterTry", "deregisterBackoff", "deregisterCount"}

\* A step outside of the mutex, or inside, disturbs none of the counter's users.
LEMMA MutexKept ==
  ASSUME IInv, NEW a \in Adapters, NEW pc \in AdapterPC, Goto(a, pc),
         UNCHANGED Counter,
         apc[a] \in CriticalPC <=> pc \in CriticalPC,
         apc[a] \in BackoffPC <=> pc \in BackoffPC
  PROVE  CounterExact' /\ MutualExclusion'
  <1>1. Critical' = Critical /\ BackingOff' = BackingOff
    <2>1. a \in Critical <=> pc \in CriticalPC
      BY DEF Critical, CriticalPC
    <2>2. a \in BackingOff <=> pc \in BackoffPC
      BY DEF BackingOff, BackoffPC
    <2> QED
      BY <2>1, <2>2, CriticalGoto DEF IInv
  <1> QED
    BY <1>1 DEF IInv, CounterExact, MutualExclusion

\* What a step of one adapter does to the set of the counted ones.
LEMMA CountedGoto ==
  ASSUME TypeOK, NEW a \in Adapters, NEW pc \in AdapterPC, Goto(a, pc),
         UNCHANGED freed
  PROVE  Counted' = IF pc \in CountedPC THEN Counted \cup ({a} \ freed)
                                        ELSE Counted \ {a}
  <1>1. \A b \in Adapters : apc'[b] = IF b = a THEN pc ELSE apc[b]
    BY DEF Goto, TypeOK
  <1> QED
    BY <1>1 DEF Counted, CountedPC

\* A step that neither counts the adapter in nor out.
LEMMA CountKept ==
  ASSUME IInv, NEW a \in Adapters, NEW pc \in AdapterPC, Goto(a, pc),
         UNCHANGED <<MiniportCount, freed, forgotten>>,
         a \in freed \/ (apc[a] \in CountedPC <=> pc \in CountedPC)
  PROVE  MiniportCountExact'
  <1>1. Counted' = Counted
    BY CountedGoto DEF IInv, Counted, CountedPC
  <1> QED
    BY <1>1 DEF IInv, MiniportCountExact

LEMMA FiniteCount ==
  ASSUME IInv
  PROVE  /\ IsFiniteSet(Counted \cup forgotten)
         /\ Cardinality(Counted \cup forgotten) \in Nat
  <1>1. Counted \cup forgotten \subseteq Adapters
    BY DEF IInv, TypeOK, Counted
  <1> QED
    BY <1>1, FS_Subset, FS_CardinalityType

\* The steps that touch neither a count nor what has been freed.
LEMMA FailedKept ==
  ASSUME IInv, NEW a \in Adapters, NEW pc \in AdapterPC, Goto(a, pc),
         UNCHANGED <<freed, forgotten>>,
         apc[a] \notin {"failed", "initTail", "gone"} \/ pc = "gone"
  PROVE  FailedInv'
  BY DEF IInv, TypeOK, FailedInv, Goto

----------------------------------------------------------------------------
LEMMA IInvInit == Init => IInv
  <1> SUFFICES ASSUME Init PROVE IInv
    OBVIOUS
  <1>1. TypeOK
    BY DEF Init, TypeOK, AdapterPC, CallerPC
  <1>2. Critical = {} /\ BackingOff = {} /\ Counted \cup forgotten = {}
    BY DEF Init, Critical, BackingOff, Counted
  <1>3. CounterExact /\ MiniportCountExact
    BY <1>2, FS_EmptySet DEF Init, CounterExact, MiniportCountExact
  <1>4. MutualExclusion /\ FailedInv
    BY <1>2 DEF Init, MutualExclusion, FailedInv
  <1> QED
    BY <1>1, <1>3, <1>4 DEF IInv

\* The macros of the mutex change no count and no adapter's fate.
LEMMA MutexSteps ==
  ASSUME IInv, NEW a \in Adapters,
         \/ RegisterAcquire(a) \/ RegisterBackOff(a) \/ RegisterRelease(a)
         \/ DeregisterAcquire(a) \/ DeregisterBackOff(a) \/ DeregisterRelease(a)
  PROVE  IInv'
  <1> USE DEF IInv
  <1>1. Mutex
    BY DEF Mutex
  <1> HIDE DEF IInv
  <1>pc. CriticalPC \cup BackoffPC \subseteq AdapterPC
    BY DEF CriticalPC, BackoffPC, AdapterPC, RegisterPC, DeregisterPC
  <1>2. Mutex'
    <2>1. CASE RegisterAcquire(a)
      BY <1>1, <2>1, AcquireNext
         DEF RegisterAcquire, AdapterPC, RegisterPC, CriticalPC, BackoffPC
    <2>2. CASE DeregisterAcquire(a)
      BY <1>1, <2>2, AcquireNext
         DEF DeregisterAcquire, AdapterPC, DeregisterPC, CriticalPC, BackoffPC
    <2>3. CASE RegisterBackOff(a)
      BY <1>1, <2>3, BackOffNext
         DEF RegisterBackOff, AdapterPC, RegisterPC, CriticalPC, BackoffPC
    <2>4. CASE DeregisterBackOff(a)
      BY <1>1, <2>4, BackOffNext
         DEF DeregisterBackOff, AdapterPC, DeregisterPC, CriticalPC, BackoffPC
    <2>5. CASE RegisterRelease(a)
      BY <1>1, <2>5, ReleaseNext
         DEF RegisterRelease, AdapterPC, CriticalPC, BackoffPC
    <2>6. CASE DeregisterRelease(a)
      BY <1>1, <2>6, ReleaseNext
         DEF DeregisterRelease, AdapterPC, CriticalPC, BackoffPC
    <2> QED
      BY <2>1, <2>2, <2>3, <2>4, <2>5, <2>6
  <1>3. PICK pc \in AdapterPC :
          /\ Goto(a, pc) /\ UNCHANGED <<MiniportCount, freed, forgotten>>
          /\ apc[a] \in CountedPC <=> pc \in CountedPC
          /\ apc[a] \notin {"failed", "initTail", "gone"}
    <2>1. CASE RegisterAcquire(a)
      <3>1. PICK pc \in {"registerCount", "registerBackoff"} : Goto(a, pc)
        BY <2>1 DEF RegisterAcquire, AcquireMutex
      <3> QED
        BY <2>1, <3>1 DEF RegisterAcquire, AcquireMutex, AdapterPC, RegisterPC, CountedPC
    <2>2. CASE DeregisterAcquire(a)
      <3>1. PICK pc \in {"deregisterCount", "deregisterBackoff"} : Goto(a, pc)
        BY <2>2 DEF DeregisterAcquire, AcquireMutex
      <3> QED
        BY <2>2, <3>1 DEF DeregisterAcquire, AcquireMutex, AdapterPC, DeregisterPC,
                          CountedPC
    <2>3. CASE RegisterBackOff(a)
      BY <2>3 DEF RegisterBackOff, BackOff, AdapterPC, RegisterPC, CountedPC
    <2>4. CASE DeregisterBackOff(a)
      BY <2>4 DEF DeregisterBackOff, BackOff, AdapterPC, DeregisterPC, CountedPC
    <2>5. CASE RegisterRelease(a)
      BY <2>5 DEF RegisterRelease, ReleaseMutex, AdapterPC, CountedPC
    <2>6. CASE DeregisterRelease(a)
      BY <2>6 DEF DeregisterRelease, ReleaseMutex, AdapterPC, CountedPC
    <2> QED
      BY <2>1, <2>2, <2>3, <2>4, <2>5, <2>6
  <1>4. MiniportCountExact'
    BY <1>3, CountKept
  <1>5. FailedInv'
    BY <1>3, FailedKept
  <1> QED
    BY <1>2, <1>4, <1>5 DEF Mutex, IInv

\* NICRegisterDevice counts the adapter in.
LEMMA RegisterCountNext ==
  ASSUME IInv, NEW a \in Adapters, RegisterCount(a)
  PROVE  IInv'
  <1>1. PICK pc \in {"registerDevice", "registerRelease"} : Goto(a, pc)
    BY DEF RegisterCount
  <1>2. pc \in AdapterPC
    BY DEF AdapterPC, RegisterPC
  <1>3. TypeOK'
    BY <1>1, <1>2 DEF RegisterCount, Goto, IInv, TypeOK, callers
  <1>4. CounterExact' /\ MutualExclusion'
    BY <1>1, <1>2, MutexKept DEF RegisterCount, CriticalPC, BackoffPC
  <1>5. FailedInv'
    BY <1>1, <1>2, FailedKept DEF RegisterCount
  <1>6. MiniportCountExact'
    <2>1. a \notin Counted \cup forgotten /\ a \notin freed
      BY DEF RegisterCount, Counted, IInv, FailedInv
    <2>2. (Counted \cup forgotten)' = (Counted \cup forgotten) \cup {a}
      BY <1>1, <1>2, <2>1, CountedGoto DEF RegisterCount, CountedPC, IInv
    <2>3. Cardinality((Counted \cup forgotten)') = Cardinality(Counted \cup forgotten) + 1
      BY <2>1, <2>2, FiniteCount, FS_AddElement
    <2> QED
      BY <2>3, FiniteCount DEF RegisterCount, IInv, MiniportCountExact
  <1> QED
    BY <1>3, <1>4, <1>5, <1>6 DEF IInv

\* NICDeregisterDevice counts it out: there is one to count out.
LEMMA DeregisterCountNext ==
  ASSUME IInv, NEW a \in Adapters, DeregisterCount(a)
  PROVE  IInv'
  <1>1. PICK pc \in {"deregisterDevice", "deregisterRelease"} : Goto(a, pc)
    BY DEF DeregisterCount
  <1>2. pc \in AdapterPC
    BY DEF AdapterPC, DeregisterPC
  <1>3. a \in Counted /\ a \notin forgotten
    BY DEF DeregisterCount, Counted, IInv, FailedInv
  <1>4. (Counted \cup forgotten)' = (Counted \cup forgotten) \ {a}
    BY <1>1, <1>2, <1>3, CountedGoto DEF DeregisterCount, CountedPC, IInv
  <1>5. Cardinality((Counted \cup forgotten)') = Cardinality(Counted \cup forgotten) - 1
    BY <1>3, <1>4, FiniteCount, FS_RemoveElement
  <1>6. Cardinality(Counted \cup forgotten) # 0
    BY <1>3, FiniteCount, FS_EmptySet
  <1>7. MiniportCountExact' /\ MiniportCount' \in Nat
    BY <1>5, <1>6, FiniteCount DEF DeregisterCount, IInv, MiniportCountExact
  <1>8. TypeOK'
    BY <1>1, <1>2, <1>7 DEF DeregisterCount, Goto, IInv, TypeOK, callers
  <1>9. CounterExact' /\ MutualExclusion'
    BY <1>1, <1>2, MutexKept DEF DeregisterCount, CriticalPC, BackoffPC
  <1>10. FailedInv'
    BY <1>1, <1>2, FailedKept DEF DeregisterCount
  <1> QED
    BY <1>7, <1>8, <1>9, <1>10 DEF IInv

\* A failed SaitInitializeReceive: the adapter stays counted, now as a forgotten one.
LEMMA InitializeReceiveNext ==
  ASSUME IInv, NEW a \in Adapters, InitializeReceive(a)
  PROVE  IInv'
  <1>1. PICK pc \in {"initTail", "failed"} : Goto(a, pc)
    BY DEF InitializeReceive
  <1>2. pc \in AdapterPC
    BY DEF AdapterPC
  <1>3. TypeOK'
    BY <1>1, <1>2 DEF InitializeReceive, Goto, IInv, TypeOK, callers
  <1>4. CounterExact' /\ MutualExclusion'
    BY <1>1, <1>2, MutexKept DEF InitializeReceive, CriticalPC, BackoffPC
  <1>5. a \in Counted /\ a \notin freed /\ a \notin forgotten
    BY DEF InitializeReceive, Counted, IInv, FailedInv
  <1>6. pc = "initTail" => forgotten' = forgotten
    BY <1>1, <1>3 DEF InitializeReceive, Goto, IInv, TypeOK
  <1>7. pc = "failed" => forgotten' = forgotten \cup {a}
    BY <1>1, <1>3 DEF InitializeReceive, Goto, IInv, TypeOK
  <1>8. (Counted \cup forgotten)' = Counted \cup forgotten
    BY <1>1, <1>2, <1>5, <1>6, <1>7, CountedGoto DEF InitializeReceive, CountedPC, IInv
  <1>9. MiniportCountExact'
    BY <1>8 DEF InitializeReceive, IInv, MiniportCountExact
  <1>10. FailedInv'
    BY <1>1, <1>5, <1>6, <1>7 DEF InitializeReceive, Goto, IInv, TypeOK, FailedInv
  <1> QED
    BY <1>3, <1>4, <1>9, <1>10 DEF IInv

\* SaitFreeResources, after a failure or in SaitHalt.
LEMMA FreeNext ==
  ASSUME IInv, NEW a \in Adapters, FreeFailed(a) \/ FreeAdapter(a)
  PROVE  IInv'
  <1>1. PICK pc \in {"initTail", "gone"} :
          /\ Goto(a, pc)
          /\ apc[a] = (IF pc = "gone" THEN "free" ELSE "failed")
    BY DEF FreeFailed, FreeAdapter
  <1>2. pc \in AdapterPC
    BY DEF AdapterPC
  <1>3. /\ freed' = freed \cup {a}
        /\ UNCHANGED <<Counter, MiniportCount, forgotten>>
    BY DEF FreeFailed, FreeAdapter, FreeMemory
  <1>4. TypeOK'
    BY <1>1, <1>2 DEF FreeFailed, FreeAdapter, FreeMemory, Goto, IInv, TypeOK
  <1>5. CounterExact' /\ MutualExclusion'
    BY <1>1, <1>2, <1>3, MutexKept DEF CriticalPC, BackoffPC
  <1>6. Counted' = Counted
    BY <1>1, <1>3 DEF Goto, IInv, TypeOK, Counted
  <1>7. MiniportCountExact'
    BY <1>3, <1>6 DEF IInv, MiniportCountExact
  <1>8. FailedInv'
    BY <1>1, <1>3 DEF Goto, IInv, TypeOK, FailedInv
  <1> QED
    BY <1>4, <1>5, <1>7, <1>8 DEF IInv

\* The steps that leave all the counts alone.
LEMMA OtherNext ==
  ASSUME IInv, NEW a \in Adapters,
         \/ Plug(a) \/ FindHardware(a) \/ RegisterDevice(a) \/ InitTail(a)
         \/ Halt(a) \/ HaltSafe(a) \/ DeregisterDevice(a)
  PROVE  IInv'
  <1>1. /\ UNCHANGED <<Counter, MiniportCount, freed, forgotten, callers>>
        /\ gdeviceExtension' \in Adapters \cup {NoAdapter}
        /\ NdisDeviceHandle' \in BOOLEAN /\ registerFailed' \in BOOLEAN
    BY DEF IInv, TypeOK, shared, Plug, FindHardware, RegisterDevice, InitTail, Halt,
           HaltSafe, DeregisterDevice
  <1>2. PICK pc \in AdapterPC :
          /\ Goto(a, pc)
          /\ apc[a] \in CriticalPC <=> pc \in CriticalPC
          /\ apc[a] \in BackoffPC <=> pc \in BackoffPC
          /\ a \in freed \/ (apc[a] \in CountedPC <=> pc \in CountedPC)
          /\ a \in freed \cup forgotten => pc = "gone"
    <2>1. CASE Plug(a)
      <3>1. PICK pc \in {"hardware"} : Goto(a, pc)
        BY <2>1 DEF Plug
      <3> QED
        BY <2>1, <3>1 DEF Plug, IInv, FailedInv, AdapterPC, RegisterPC, DeregisterPC,
                        CriticalPC, BackoffPC, CountedPC
    <2>2. CASE FindHardware(a)
      <3>1. PICK pc \in {"registerTry", "failed"} : Goto(a, pc)
        BY <2>2 DEF FindHardware
      <3> QED
        BY <2>2, <3>1 DEF FindHardware, IInv, FailedInv, AdapterPC, RegisterPC, DeregisterPC,
                        CriticalPC, BackoffPC, CountedPC
    <2>3. CASE RegisterDevice(a)
      <3>1. PICK pc \in {"registerRelease"} : Goto(a, pc)
        BY <2>3 DEF RegisterDevice
      <3> QED
        BY <2>3, <3>1 DEF RegisterDevice, IInv, FailedInv, AdapterPC, RegisterPC, DeregisterPC,
                        CriticalPC, BackoffPC, CountedPC
    <2>4. CASE InitTail(a)
      <3>1. PICK pc \in {"gone", "running"} : Goto(a, pc) /\ (pc = "gone" <=> a \in freed)
        BY <2>4 DEF InitTail
      <3> QED
        BY <2>4, <3>1 DEF InitTail, IInv, FailedInv, AdapterPC, RegisterPC, DeregisterPC,
                        CriticalPC, BackoffPC, CountedPC
    <2>5. CASE Halt(a)
      <3>1. PICK pc \in {"halting"} : Goto(a, pc)
        BY <2>5 DEF Halt
      <3> QED
        BY <2>5, <3>1 DEF Halt, IInv, FailedInv, AdapterPC, RegisterPC, DeregisterPC,
                        CriticalPC, BackoffPC, CountedPC
    <2>6. CASE HaltSafe(a)
      <3>1. PICK pc \in {"deregisterTry"} : Goto(a, pc)
        BY <2>6 DEF HaltSafe
      <3> QED
        BY <2>6, <3>1 DEF HaltSafe, IInv, FailedInv, AdapterPC, RegisterPC, DeregisterPC,
                        CriticalPC, BackoffPC, CountedPC
    <2>7. CASE DeregisterDevice(a)
      <3>1. PICK pc \in {"deregisterRelease"} : Goto(a, pc)
        BY <2>7 DEF DeregisterDevice
      <3> QED
        BY <2>7, <3>1 DEF DeregisterDevice, IInv, FailedInv, AdapterPC, RegisterPC, DeregisterPC,
                        CriticalPC, BackoffPC, CountedPC
    <2> QED
      BY <2>1, <2>2, <2>3, <2>4, <2>5, <2>6, <2>7
  <1>3. TypeOK'
    BY <1>1, <1>2 DEF Goto, IInv, TypeOK, callers
  <1>4. CounterExact' /\ MutualExclusion'
    BY <1>1, <1>2, MutexKept
  <1>5. MiniportCountExact'
    BY <1>1, <1>2, CountKept
  <1>6. FailedInv'
    BY <1>1, <1>2 DEF Goto, IInv, TypeOK, FailedInv
  <1> QED
    BY <1>3, <1>4, <1>5, <1>6 DEF IInv

\* Programs only read.
LEMMA CallerNext ==
  ASSUME IInv, UNCHANGED vars \/ (\E c \in Callers : CallerStep(c))
  PROVE  IInv'
  <1>1. UNCHANGED <<shared, apc>> /\ uses' \in [Callers -> Adapters \cup {NoAdapter}]
                                  /\ cpc' \in [Callers -> CallerPC]
                                  /\ heldOver' \in [Callers -> BOOLEAN]
    BY DEF IInv, TypeOK, vars, callers, shared, CallerStep, Open, Close, SendCommand,
           BuildRequest, CallDriver, CommandDone, CallerPC
  <1> QED
    BY <1>1 DEF IInv, TypeOK, shared, CounterExact, MutualExclusion, MiniportCountExact,
                FailedInv, Critical, BackingOff, Counted

LEMMA IInvNext == IInv /\ [Next]_vars => IInv'
  <1> SUFFICES ASSUME IInv, [Next]_vars PROVE IInv'
    OBVIOUS
  <1>1. CASE UNCHANGED vars \/ (\E c \in Callers : CallerStep(c))
    BY <1>1, CallerNext
  <1>2. ASSUME NEW a \in Adapters, Plug(a) \/ Halt(a) \/ AdapterStep(a)
        PROVE  IInv'
    BY <1>2, MutexSteps, RegisterCountNext, DeregisterCountNext, InitializeReceiveNext,
       FreeNext, OtherNext DEF AdapterStep
  <1> QED
    BY <1>1, <1>2 DEF Next

LEMMA Invariance == Spec => []IInv
  BY IInvInit, IInvNext, PTL DEF Spec

----------------------------------------------------------------------------
\* The counters stay natural numbers, so the ASSERT of ioctl.c:608 holds, and an
\* adapter is always at a place of SaitInitialize or SaitHalt (sait.c).
THEOREM TypeCorrect == Spec => []TypeOK
  BY Invariance, PTL DEF IInv

\* NIC_ACQUIRE_MUTEX lets one adapter at a time into the sections of
\* NICRegisterDevice and NICDeregisterDevice, however many collide.
THEOREM MutexExcludes == Spec => []MutualExclusion
  BY Invariance, PTL DEF IInv

\* MiniportCount is the number of adapters that went through NICRegisterDevice and not
\* yet through NICDeregisterDevice, those included whose initialisation failed
\* afterwards: SaitInitialize frees them without counting them out.
THEOREM CountIsExact == Spec => []MiniportCountExact
  BY Invariance, PTL DEF IInv

----------------------------------------------------------------------------
(* The control device and the count of adapters                            *)

AtDevice == {"registerDevice", "deregisterDevice"}

\* What holds between NdisDeviceHandle and MiniportCount while an adapter is between
\* the change of the one and that of the other, and whenever none is.
DeviceInv ==
    /\ \A a \in Adapters :
          apc[a] = "registerDevice" => MiniportCount = 1 /\ ~NdisDeviceHandle
    /\ \A a \in Adapters : apc[a] = "deregisterDevice" => MiniportCount = 0
    /\ (\A a \in Adapters : apc[a] \notin AtDevice) =>
          /\ NdisDeviceHandle => MiniportCount > 0
          /\ MiniportCount > 0 /\ ~registerFailed => NdisDeviceHandle

\* An adapter that holds the mutex is the only one that can be at the device.
LEMMA AloneAtDevice ==
  ASSUME MutualExclusion, NEW a \in Critical, NEW b \in Adapters, b # a
  PROVE  apc[b] \notin AtDevice
  BY DEF MutualExclusion, Critical, AtDevice

LEMMA RegisterCountDevice ==
  ASSUME IInv, DeviceInv, NEW a \in Adapters, RegisterCount(a)
  PROVE  DeviceInv'
  <1>1. a \in Critical /\ apc[a] \notin AtDevice
    BY DEF RegisterCount, Critical, AtDevice
  <1>2. \A b \in Adapters : apc[b] \notin AtDevice
    BY <1>1, AloneAtDevice DEF IInv
  <1>3. \A b \in Adapters \ {a} : apc'[b] \notin AtDevice
    BY <1>2 DEF RegisterCount, Goto, IInv, TypeOK
  <1>4. /\ apc'[a] = IF MiniportCount' = 1 THEN "registerDevice" ELSE "registerRelease"
        /\ MiniportCount \in Nat /\ MiniportCount' = MiniportCount + 1
        /\ UNCHANGED <<NdisDeviceHandle, registerFailed>>
    BY DEF RegisterCount, Goto, IInv, TypeOK
  <1> QED
    BY <1>2, <1>3, <1>4 DEF DeviceInv, AtDevice

LEMMA DeregisterCountDevice ==
  ASSUME IInv, DeviceInv, NEW a \in Adapters, DeregisterCount(a)
  PROVE  DeviceInv'
  <1>1. a \in Critical /\ apc[a] \notin AtDevice
    BY DEF DeregisterCount, Critical, AtDevice
  <1>2. \A b \in Adapters : apc[b] \notin AtDevice
    BY <1>1, AloneAtDevice DEF IInv
  <1>3. \A b \in Adapters \ {a} : apc'[b] \notin AtDevice
    BY <1>2 DEF DeregisterCount, Goto, IInv, TypeOK
  <1>4. /\ apc'[a] = IF MiniportCount' = 0 THEN "deregisterDevice"
                                           ELSE "deregisterRelease"
        /\ MiniportCount' = MiniportCount - 1
        /\ UNCHANGED <<NdisDeviceHandle, registerFailed>>
    BY DEF DeregisterCount, Goto, IInv, TypeOK
  <1>5. MiniportCount \in Nat /\ MiniportCount' \in Nat
    BY DeregisterCountNext DEF IInv, TypeOK
  <1> QED
    BY <1>2, <1>3, <1>4, <1>5 DEF DeviceInv, AtDevice

\* NdisMRegisterDevice, which may fail, and NdisMDeregisterDevice.
LEMMA DeviceStepDevice ==
  ASSUME IInv, DeviceInv, NEW a \in Adapters, RegisterDevice(a) \/ DeregisterDevice(a)
  PROVE  DeviceInv'
  <1>1. a \in Critical
    BY DEF RegisterDevice, DeregisterDevice, Critical
  <1>2. \A b \in Adapters : apc'[b] \notin AtDevice
    BY <1>1, AloneAtDevice DEF RegisterDevice, DeregisterDevice, Goto, IInv, TypeOK,
                               AtDevice
  <1>3. CASE RegisterDevice(a)
    <2>1. MiniportCount = 1 /\ MiniportCount' = 1 /\ (NdisDeviceHandle' \/ registerFailed')
      BY <1>3 DEF RegisterDevice, DeviceInv
    <2> QED
      BY <1>2, <2>1 DEF DeviceInv, AtDevice
  <1>4. CASE DeregisterDevice(a)
    <2>1. MiniportCount = 0 /\ MiniportCount' = 0 /\ NdisDeviceHandle' = FALSE
      BY <1>4 DEF DeregisterDevice, DeviceInv
    <2> QED
      BY <1>2, <2>1 DEF DeviceInv, AtDevice
  <1> QED
    BY <1>3, <1>4

\* A step that is not about the device.
LEMMA DeviceKept ==
  ASSUME TypeOK, DeviceInv, NEW a \in Adapters, NEW pc, Goto(a, pc),
         apc[a] \notin AtDevice, pc \notin AtDevice,
         UNCHANGED <<MiniportCount, NdisDeviceHandle, registerFailed>>
  PROVE  DeviceInv'
  <1>1. \A b \in Adapters : apc'[b] = IF b = a THEN pc ELSE apc[b]
    BY DEF Goto, TypeOK
  <1> QED
    BY <1>1 DEF DeviceInv, AtDevice

LEMMA DeviceNext ==
  ASSUME IInv, DeviceInv, [Next]_vars
  PROVE  DeviceInv'
  <1>1. CASE UNCHANGED vars \/ (\E c \in Callers : CallerStep(c))
    <2>1. UNCHANGED <<apc, shared>>
      BY <1>1 DEF vars, CallerStep, Open, Close, SendCommand, BuildRequest, CallDriver,
                  CommandDone
    <2> QED
      BY <2>1 DEF shared, DeviceInv
  <1>2. ASSUME NEW a \in Adapters, Plug(a) \/ Halt(a) \/ AdapterStep(a)
        PROVE  DeviceInv'
    <2>1. CASE RegisterCount(a)
      BY <2>1, RegisterCountDevice
    <2>2. CASE DeregisterCount(a)
      BY <2>2, DeregisterCountDevice
    <2>3. CASE RegisterDevice(a) \/ DeregisterDevice(a)
      BY <2>3, DeviceStepDevice
    <2>4. CASE RegisterAcquire(a) \/ DeregisterAcquire(a)
      <3>1. PICK pc \in {"registerCount", "registerBackoff",
                         "deregisterCount", "deregisterBackoff"} : Goto(a, pc)
        BY <2>4 DEF RegisterAcquire, DeregisterAcquire, AcquireMutex
      <3> QED
        BY <2>4, <3>1, DeviceKept
           DEF RegisterAcquire, DeregisterAcquire, AcquireMutex, AtDevice, IInv
    <2>5. CASE \/ RegisterBackOff(a) \/ DeregisterBackOff(a)
               \/ RegisterRelease(a) \/ DeregisterRelease(a)
      <3>1. PICK pc \in {"registerTry", "deregisterTry", "receive", "free"} : Goto(a, pc)
        BY <2>5 DEF RegisterBackOff, DeregisterBackOff, BackOff, RegisterRelease,
                    DeregisterRelease, ReleaseMutex
      <3> QED
        BY <2>5, <3>1, DeviceKept
           DEF RegisterBackOff, DeregisterBackOff, BackOff, RegisterRelease,
               DeregisterRelease, ReleaseMutex, AtDevice, IInv
    <2>6. CASE \/ Plug(a) \/ Halt(a) \/ FindHardware(a) \/ InitializeReceive(a)
               \/ FreeFailed(a) \/ InitTail(a) \/ HaltSafe(a) \/ FreeAdapter(a)
      <3>1. PICK pc \in {"hardware", "halting", "registerTry", "failed", "initTail",
                         "gone", "running", "deregisterTry"} : Goto(a, pc)
        BY <2>6 DEF Plug, Halt, FindHardware, InitializeReceive, FreeFailed, InitTail,
                    HaltSafe, FreeAdapter
      <3>2. /\ apc[a] \notin AtDevice
            /\ UNCHANGED <<MiniportCount, NdisDeviceHandle, registerFailed>>
        BY <2>6 DEF Plug, Halt, FindHardware, InitializeReceive, FreeFailed, InitTail,
                    HaltSafe, FreeAdapter, shared, AtDevice
      <3> QED
        BY <3>1, <3>2, DeviceKept DEF AtDevice, IInv
    <2> QED
      BY <1>2, <2>1, <2>2, <2>3, <2>4, <2>5, <2>6 DEF AdapterStep
  <1> QED
    BY <1>1, <1>2 DEF Next

\* NICRegisterDevice and NICDeregisterDevice keep the device and the count together:
\* outside of them the control device exists only with an adapter counted in, and
\* with every one unless NdisMRegisterDevice has failed.
THEOREM DeviceFollows == Spec => []DeviceFollowsCount
  <1>1. Init => DeviceInv
    BY DEF Init, DeviceInv, AtDevice
  <1>2. IInv /\ DeviceInv /\ [Next]_vars => DeviceInv'
    BY DeviceNext
  <1>3. DeviceInv => DeviceFollowsCount
    BY DEF DeviceInv, DeviceFollowsCount, Critical, AtDevice
  <1> QED
    BY <1>1, <1>2, <1>3, Invariance, PTL DEF Spec

\* With no failed initialisation left behind, the last halt finds MiniportCount at 1
\* and deletes the control device: ioctl.c:589 as far as the code keeps it.
THEOREM LastHaltDeletes == Spec => []DeviceGoesUnlessForgotten
  <1>1. IInv /\ DeviceFollowsCount => DeviceGoesUnlessForgotten
    <2> SUFFICES ASSUME IInv, DeviceFollowsCount, forgotten = {},
                        \/ Present = {}
                        \/ \E a \in Adapters : apc[a] = "free" /\ Present = {a}
                 PROVE  ~NdisDeviceHandle
      BY DEF DeviceGoesUnlessForgotten, LastHaltDeletesDevice
    <2>1. \A a \in Adapters : apc[a] \in {"absent", "gone", "free"}
      BY DEF Present
    <2>2. Critical = {} /\ Counted \cup forgotten = {}
      BY <2>1 DEF Critical, Counted
    <2>3. MiniportCount = 0
      BY <2>2, FS_EmptySet DEF IInv, MiniportCountExact
    <2> QED
      BY <2>2, <2>3 DEF DeviceFollowsCount
  <1> QED
    BY <1>1, Invariance, DeviceFollows, PTL

\* A forgotten adapter keeps the count above 0, and nobody at the device.
LEMMA ForgottenCounts ==
  ASSUME IInv, DeviceInv, forgotten # {}
  PROVE  MiniportCount > 0 /\ \A a \in Adapters : apc[a] \notin AtDevice
  <1>1. PICK f \in forgotten : f \in Adapters
    BY DEF IInv, TypeOK
  <1>2. Cardinality(Counted \cup forgotten) # 0
    BY <1>1, FiniteCount, FS_EmptySet
  <1>3. MiniportCount > 0
    BY <1>2, FiniteCount DEF IInv, MiniportCountExact
  <1>4. ASSUME NEW a \in Adapters, apc[a] = "registerDevice"
        PROVE  FALSE
    <2>1. a \in Counted \cup forgotten /\ a # f
      BY <1>1, <1>4 DEF Counted, IInv, FailedInv
    <2>2. Cardinality(Counted \cup forgotten) = 1
      BY <1>4 DEF DeviceInv, IInv, MiniportCountExact
    <2>3. PICK x : Counted \cup forgotten = {x}
      BY <2>2, FiniteCount, FS_Singleton
    <2> QED
      BY <1>1, <2>1, <2>3
  <1>5. ASSUME NEW a \in Adapters, apc[a] = "deregisterDevice"
        PROVE  FALSE
    BY <1>3, <1>5 DEF DeviceInv
  <1> QED
    BY <1>3, <1>4, <1>5 DEF AtDevice

\* Only NICRegisterDevice and NICDeregisterDevice, at the device, change its handle,
\* and no step takes an adapter back that has been forgotten.
LEMMA HandleKept ==
  ASSUME TypeOK, [Next]_vars, \A a \in Adapters : apc[a] \notin AtDevice
  PROVE  NdisDeviceHandle' = NdisDeviceHandle /\ forgotten \subseteq forgotten'
  <1>1. CASE UNCHANGED vars \/ (\E c \in Callers : CallerStep(c))
    BY <1>1 DEF vars, shared, CallerStep, Open, Close, SendCommand, BuildRequest,
                CallDriver, CommandDone
  <1>2. ASSUME NEW a \in Adapters, Plug(a) \/ Halt(a) \/ AdapterStep(a)
        PROVE  NdisDeviceHandle' = NdisDeviceHandle /\ forgotten \subseteq forgotten'
    <2>1. ~RegisterDevice(a) /\ ~DeregisterDevice(a)
      BY DEF RegisterDevice, DeregisterDevice, AtDevice
    <2>2. CASE \/ RegisterAcquire(a) \/ RegisterBackOff(a) \/ RegisterRelease(a)
               \/ DeregisterAcquire(a) \/ DeregisterBackOff(a) \/ DeregisterRelease(a)
      BY <2>2 DEF RegisterAcquire, RegisterBackOff, RegisterRelease, DeregisterAcquire,
                  DeregisterBackOff, DeregisterRelease, AcquireMutex, BackOff,
                  ReleaseMutex
    <2>3. CASE \/ Plug(a) \/ Halt(a) \/ RegisterCount(a) \/ DeregisterCount(a)
               \/ FindHardware(a) \/ InitializeReceive(a) \/ FreeFailed(a)
               \/ InitTail(a) \/ HaltSafe(a) \/ FreeAdapter(a)
      BY <2>3 DEF Plug, Halt, RegisterCount, DeregisterCount, FindHardware,
                  InitializeReceive, FreeFailed, InitTail, HaltSafe, FreeAdapter, shared
    <2> QED
      BY <1>2, <2>1, <2>2, <2>3 DEF AdapterStep
  <1> QED
    BY <1>1, <1>2 DEF Next

\* One initialisation that fails in SaitInitializeReceive and the count never returns
\* to 0: the control device that is there is never deleted, and one that could not be
\* registered is never tried again.
THEOREM OneFailureIsForGood == Spec => ForgottenIsForGood
  <1>0. (IInv /\ DeviceInv /\ forgotten # {} => MiniportCount > 0)'
    <2>1. IInv /\ DeviceInv /\ forgotten # {} => MiniportCount > 0
      BY ForgottenCounts
    <2> QED
      BY <2>1, PTL
  <1>1. ASSUME IInv, IInv', DeviceInv, DeviceInv', [Next]_vars, forgotten # {}
        PROVE  /\ forgotten' # {} /\ MiniportCount' > 0
               /\ NdisDeviceHandle' = NdisDeviceHandle
    <2>1. /\ NdisDeviceHandle' = NdisDeviceHandle
          /\ forgotten \subseteq forgotten'
      BY <1>1, ForgottenCounts, HandleKept DEF IInv
    <2>2. forgotten' # {}
      BY <1>1, <2>1
    <2> QED
      BY <1>0, <1>1, <2>1, <2>2
  <1>2. IInv /\ IInv' /\ DeviceInv /\ DeviceInv' /\ [Next]_vars =>
          (forgotten # {} =>
             /\ forgotten' # {} /\ MiniportCount' > 0
             /\ NdisDeviceHandle' = NdisDeviceHandle)
    BY <1>1
  <1>3. Init => DeviceInv
    BY DEF Init, DeviceInv, AtDevice
  <1>4. IInv /\ DeviceInv /\ [Next]_vars => DeviceInv'
    BY DeviceNext
  <1> QED
    BY <1>2, <1>3, <1>4, Invariance, PTL DEF Spec, ForgottenIsForGood

----------------------------------------------------------------------------
(* Registration as one step                                                *)

\* A step in which no adapter comes to the device or leaves it.
LEMMA RegisteredKept ==
  ASSUME TypeOK, NEW a \in Adapters, NEW pc, Goto(a, pc),
         apc[a] \notin AtDevice, pc \notin AtDevice,
         (Counted \cup forgotten)' = Counted \cup forgotten
  PROVE  Registered' = Registered
  <1>1. \A b \in Adapters : apc'[b] = IF b = a THEN pc ELSE apc[b]
    BY DEF Goto, TypeOK
  <1>2. {b \in Adapters : apc'[b] = "registerDevice"}
          = {b \in Adapters : apc[b] = "registerDevice"}
    BY <1>1 DEF AtDevice
  <1>3. {b \in Adapters : apc'[b] = "deregisterDevice"}
          = {b \in Adapters : apc[b] = "deregisterDevice"}
    BY <1>1 DEF AtDevice
  <1> QED
    BY <1>2, <1>3 DEF Registered

\* With nobody at the device, or one adapter.
LEMMA RegisteredIs ==
  /\ (\A b \in Adapters : apc[b] \notin AtDevice) => Registered = Counted \cup forgotten
  /\ \A a \in Adapters :
        (\A b \in Adapters \ {a} : apc[b] \notin AtDevice) =>
            Registered = IF apc[a] = "registerDevice"
                         THEN (Counted \cup forgotten) \ {a}
                         ELSE IF apc[a] = "deregisterDevice"
                              THEN (Counted \cup forgotten) \cup {a}
                              ELSE Counted \cup forgotten
  BY DEF Registered, AtDevice

\* NICRegisterDevice: the first adapter is in when NdisMRegisterDevice has returned,
\* the others when they are counted.
LEMMA RegisterIsJoin ==
  ASSUME IInv, IInv', DeviceInv, NEW a \in Adapters, RegisterCount(a) \/ RegisterDevice(a)
  PROVE  sharedDevice!Join(a) \/ UNCHANGED <<Registered, NdisDeviceHandle>>
  <1>1. /\ a \in Critical
        /\ \A b \in Adapters \ {a} : apc[b] \notin AtDevice /\ apc'[b] = apc[b]
    <2>1. a \in Critical
      BY DEF RegisterCount, RegisterDevice, Critical
    <2>2. \A b \in Adapters \ {a} : apc'[b] = apc[b]
      BY DEF RegisterCount, RegisterDevice, Goto, IInv, TypeOK
    <2> QED
      BY <2>1, <2>2, AloneAtDevice DEF IInv
  <1>2. UNCHANGED <<freed, forgotten>>
    BY DEF RegisterCount, RegisterDevice
  <1>3. CASE RegisterCount(a)
    <2>1. a \notin Counted \cup forgotten /\ a \notin freed
      BY <1>3 DEF RegisterCount, Counted, IInv, FailedInv
    <2>2. PICK pc \in {"registerDevice", "registerRelease"} :
            Goto(a, pc) /\ pc = IF MiniportCount' = 1 THEN "registerDevice"
                                                      ELSE "registerRelease"
      BY <1>3 DEF RegisterCount
    <2>3. Counted' = Counted \cup {a}
      BY <1>2, <2>1, <2>2, CountedGoto
         DEF IInv, CountedPC, AdapterPC, RegisterPC
    <2>4. apc[a] \notin AtDevice /\ apc'[a] = pc
      BY <1>3, <2>2 DEF RegisterCount, AtDevice, Goto, IInv, TypeOK
    <2>5. Registered = Counted \cup forgotten
      BY <1>1, <2>4, RegisteredIs DEF AtDevice
    <2>6. UNCHANGED NdisDeviceHandle /\ NdisDeviceHandle \in BOOLEAN
      BY <1>3 DEF RegisterCount, IInv, TypeOK
    <2>7. Registered' = IF pc = "registerDevice" THEN (Counted \cup forgotten)' \ {a}
                                                 ELSE (Counted \cup forgotten)'
      BY <1>1, <2>2, <2>4 DEF Registered, AtDevice
    <2>8. CASE pc = "registerDevice"
      BY <1>2, <2>1, <2>3, <2>5, <2>6, <2>7, <2>8
    <2>9. CASE pc = "registerRelease"
      <3>1. MiniportCount # 0
        BY <1>3, <2>2, <2>9 DEF RegisterCount, IInv, TypeOK
      <3>2. Counted \cup forgotten # {}
        BY <3>1, FS_EmptySet DEF IInv, MiniportCountExact
      <3> QED
        BY <1>2, <2>1, <2>3, <2>5, <2>6, <2>7, <2>9, <3>2 DEF sharedDevice!Join
    <2> QED
      BY <2>2, <2>8, <2>9
  <1>4. CASE RegisterDevice(a)
    <2>1. apc[a] = "registerDevice" /\ apc'[a] = "registerRelease"
      BY <1>4 DEF RegisterDevice, Goto, IInv, TypeOK
    <2>2. a \in Counted
      BY <2>1 DEF Counted, IInv, FailedInv
    <2>3. Cardinality(Counted \cup forgotten) = 1
      BY <2>1 DEF DeviceInv, IInv, MiniportCountExact
    <2>4. PICK x : Counted \cup forgotten = {x}
      BY <2>3, FiniteCount, FS_Singleton
    <2>5. Registered = {}
      BY <1>1, <2>1, <2>2, <2>4, RegisteredIs
    <2>6. Counted' = Counted
      <3>1. Goto(a, "registerRelease")
        BY <1>4 DEF RegisterDevice
      <3> QED
        BY <1>2, <2>2, <3>1, CountedGoto DEF IInv, CountedPC, AdapterPC, RegisterPC
    <2>7. Registered' = {a}
      BY <1>1, <1>2, <2>1, <2>2, <2>4, <2>6 DEF Registered, AtDevice
    <2>8. NdisDeviceHandle' \in BOOLEAN
      BY DEF IInv, TypeOK
    <2> QED
      BY <2>5, <2>7, <2>8 DEF sharedDevice!Join
  <1> QED
    BY <1>3, <1>4

\* NICDeregisterDevice: the last adapter is out when the device is deleted, the others
\* when they are counted out.
LEMMA DeregisterIsLeave ==
  ASSUME IInv, IInv', DeviceInv, NEW a \in Adapters,
         DeregisterCount(a) \/ DeregisterDevice(a)
  PROVE  sharedDevice!Leave(a) \/ UNCHANGED <<Registered, NdisDeviceHandle>>
  <1>1. \A b \in Adapters \ {a} : apc[b] \notin AtDevice /\ apc'[b] = apc[b]
    <2>1. a \in Critical
      BY DEF DeregisterCount, DeregisterDevice, Critical
    <2>2. \A b \in Adapters \ {a} : apc'[b] = apc[b]
      BY DEF DeregisterCount, DeregisterDevice, Goto, IInv, TypeOK
    <2> QED
      BY <2>1, <2>2, AloneAtDevice DEF IInv
  <1>2. UNCHANGED <<freed, forgotten>>
    BY DEF DeregisterCount, DeregisterDevice
  <1>3. CASE DeregisterCount(a)
    <2>1. a \in Counted /\ a \notin forgotten
      BY <1>3 DEF DeregisterCount, Counted, IInv, FailedInv
    <2>2. PICK pc \in {"deregisterDevice", "deregisterRelease"} :
            Goto(a, pc) /\ pc = IF MiniportCount' = 0 THEN "deregisterDevice"
                                                      ELSE "deregisterRelease"
      BY <1>3 DEF DeregisterCount
    <2>3. Counted' = Counted \ {a}
      BY <1>2, <2>1, <2>2, CountedGoto
         DEF IInv, CountedPC, AdapterPC, DeregisterPC
    <2>4. apc[a] \notin AtDevice /\ apc'[a] = pc
      BY <1>3, <2>2 DEF DeregisterCount, AtDevice, Goto, IInv, TypeOK
    <2>5. Registered = Counted \cup forgotten
      BY <1>1, <2>4, RegisteredIs DEF AtDevice
    <2>6. UNCHANGED NdisDeviceHandle /\ NdisDeviceHandle \in BOOLEAN
      BY <1>3 DEF DeregisterCount, IInv, TypeOK
    <2>7. Registered' = IF pc = "deregisterDevice" THEN (Counted \cup forgotten)' \cup {a}
                                                   ELSE (Counted \cup forgotten)'
      BY <1>1, <2>2, <2>4 DEF Registered, AtDevice
    <2>8. CASE pc = "deregisterDevice"
      BY <1>2, <2>1, <2>3, <2>5, <2>6, <2>7, <2>8
    <2>9. CASE pc = "deregisterRelease"
      <3>1. (Counted \cup forgotten)' # {}
        BY <2>2, <2>9, FS_EmptySet DEF IInv, MiniportCountExact
      <3> QED
        BY <1>2, <2>1, <2>3, <2>5, <2>6, <2>7, <2>9, <3>1 DEF sharedDevice!Leave
    <2> QED
      BY <2>2, <2>8, <2>9
  <1>4. CASE DeregisterDevice(a)
    <2>1. apc[a] = "deregisterDevice" /\ apc'[a] = "deregisterRelease"
      BY <1>4 DEF DeregisterDevice, Goto, IInv, TypeOK
    <2>2. MiniportCount = 0 /\ MiniportCount' = 0
      BY <1>4, <2>1 DEF DeregisterDevice, DeviceInv
    <2>3. Counted \cup forgotten = {} /\ (Counted \cup forgotten)' = {}
      <3>1. Counted \cup forgotten = {}
        BY <2>2, FiniteCount, FS_EmptySet DEF IInv, MiniportCountExact
      <3>2. Counted' = Counted \ {a}
        <4>1. Goto(a, "deregisterRelease")
          BY <1>4 DEF DeregisterDevice
        <4> QED
          BY <1>2, <4>1, CountedGoto DEF IInv, CountedPC, AdapterPC, DeregisterPC
      <3> QED
        BY <1>2, <3>1, <3>2
    <2>4. Registered = {a}
      BY <1>1, <2>1, <2>3, RegisteredIs
    <2>5. Registered' = {}
      BY <1>1, <2>1, <2>3 DEF Registered, AtDevice
    <2>6. NdisDeviceHandle' = FALSE
      BY <1>4 DEF DeregisterDevice
    <2> QED
      BY <2>4, <2>5, <2>6 DEF sharedDevice!Leave
  <1> QED
    BY <1>3, <1>4

\* The other steps of an adapter leave who is counted as it is.
LEMMA OthersStutter ==
  ASSUME IInv, NEW a \in Adapters,
         \/ RegisterAcquire(a) \/ RegisterBackOff(a) \/ RegisterRelease(a)
         \/ DeregisterAcquire(a) \/ DeregisterBackOff(a) \/ DeregisterRelease(a)
         \/ Plug(a) \/ Halt(a) \/ FindHardware(a) \/ InitializeReceive(a)
         \/ FreeFailed(a) \/ InitTail(a) \/ HaltSafe(a) \/ FreeAdapter(a)
  PROVE  UNCHANGED <<Registered, NdisDeviceHandle>>
  <1>1. CASE \/ RegisterAcquire(a) \/ RegisterBackOff(a) \/ RegisterRelease(a)
             \/ DeregisterAcquire(a) \/ DeregisterBackOff(a) \/ DeregisterRelease(a)
    <2>1. /\ UNCHANGED <<NdisDeviceHandle, freed, forgotten>>
          /\ apc[a] \notin AtDevice
      BY <1>1 DEF RegisterAcquire, RegisterBackOff, RegisterRelease, DeregisterAcquire,
                  DeregisterBackOff, DeregisterRelease, AcquireMutex, BackOff,
                  ReleaseMutex, AtDevice
    <2>2. PICK pc \in {"registerCount", "registerBackoff", "registerTry", "receive",
                       "deregisterCount", "deregisterBackoff", "deregisterTry", "free"} :
            Goto(a, pc) /\ (apc[a] \in CountedPC <=> pc \in CountedPC)
      <3>1. CASE RegisterAcquire(a) \/ DeregisterAcquire(a)
        BY <3>1 DEF RegisterAcquire, DeregisterAcquire, AcquireMutex, CountedPC
      <3>2. CASE \/ RegisterBackOff(a) \/ RegisterRelease(a)
                 \/ DeregisterBackOff(a) \/ DeregisterRelease(a)
        BY <3>2 DEF RegisterBackOff, RegisterRelease, DeregisterBackOff,
                    DeregisterRelease, BackOff, ReleaseMutex, CountedPC
      <3> QED
        BY <1>1, <3>1, <3>2
    <2>3. \A b \in Adapters : apc'[b] = IF b = a THEN pc ELSE apc[b]
      BY <2>2 DEF Goto, IInv, TypeOK
    <2>4. Counted' = Counted
      BY <2>1, <2>2, <2>3 DEF Counted, CountedPC
    <2> QED
      BY <2>1, <2>2, <2>4, RegisteredKept DEF AtDevice, IInv
  <1>2. CASE \/ Plug(a) \/ Halt(a) \/ FindHardware(a) \/ InitializeReceive(a)
             \/ FreeFailed(a) \/ InitTail(a) \/ HaltSafe(a) \/ FreeAdapter(a)
    <2>1. UNCHANGED NdisDeviceHandle /\ apc[a] \notin AtDevice
      BY <1>2 DEF Plug, Halt, FindHardware, InitializeReceive, FreeFailed, InitTail,
                  HaltSafe, FreeAdapter, shared, AtDevice
    <2>2. PICK pc \in {"hardware", "halting", "registerTry", "failed", "initTail",
                       "gone", "running", "deregisterTry"} : Goto(a, pc)
      BY <1>2 DEF Plug, Halt, FindHardware, InitializeReceive, FreeFailed, InitTail,
                  HaltSafe, FreeAdapter
    <2>3. \A b \in Adapters : apc'[b] = IF b = a THEN pc ELSE apc[b]
      BY <2>2 DEF Goto, IInv, TypeOK
    <2>4. (Counted \cup forgotten)' = Counted \cup forgotten
      <3>1. CASE Plug(a) \/ Halt(a) \/ FindHardware(a) \/ HaltSafe(a)
        BY <2>2, <2>3, <3>1 DEF Plug, Halt, FindHardware, HaltSafe, shared, Counted,
                                Goto, IInv, TypeOK
      <3>2. CASE InitializeReceive(a)
        <4>1. a \in Counted /\ UNCHANGED freed
          BY <3>2 DEF InitializeReceive, Counted, IInv, FailedInv
        <4>2. \/ apc'[a] = "initTail" /\ UNCHANGED forgotten
              \/ apc'[a] = "failed" /\ forgotten' = forgotten \cup {a}
          BY <3>2 DEF InitializeReceive, Goto, IInv, TypeOK
        <4> QED
          BY <2>3, <4>1, <4>2 DEF Counted
      <3>3. CASE FreeFailed(a) \/ FreeAdapter(a)
        BY <2>2, <2>3, <3>3 DEF FreeFailed, FreeAdapter, FreeMemory, Counted
      <3>4. CASE InitTail(a)
        BY <2>2, <2>3, <3>4 DEF InitTail, shared, Counted, Goto, IInv, TypeOK
      <3> QED
        BY <1>2, <3>1, <3>2, <3>3, <3>4
    <2> QED
      BY <2>1, <2>2, <2>4, RegisteredKept DEF AtDevice, IInv
  <1> QED
    BY <1>1, <1>2

\* NICRegisterDevice and NICDeregisterDevice implement the abstract SharedDevice: every
\* adapter's registration takes effect in one step, and so does its deregistration.
THEOREM Refinement == Spec => RefinesSharedDevice
  <1>1. Init => sharedDevice!Init /\ DeviceInv
    BY DEF Init, sharedDevice!Init, Registered, Counted, DeviceInv, AtDevice
  <1>2. IInv /\ IInv' /\ DeviceInv /\ [Next]_vars => [sharedDevice!Next]_sharedDevice!vars
    <2> SUFFICES ASSUME IInv, IInv', DeviceInv, [Next]_vars
                 PROVE  [sharedDevice!Next]_sharedDevice!vars
      OBVIOUS
    <2>1. CASE UNCHANGED vars \/ (\E c \in Callers : CallerStep(c))
      <3>1. UNCHANGED <<shared, apc>>
        BY <2>1 DEF vars, CallerStep, Open, Close, SendCommand, BuildRequest, CallDriver,
                    CommandDone
      <3> QED
        BY <3>1 DEF shared, Registered, Counted, sharedDevice!vars
    <2>2. ASSUME NEW a \in Adapters, Plug(a) \/ Halt(a) \/ AdapterStep(a)
          PROVE  [sharedDevice!Next]_sharedDevice!vars
      <3>1. CASE RegisterCount(a) \/ RegisterDevice(a)
        BY <3>1, RegisterIsJoin DEF sharedDevice!Next, sharedDevice!vars
      <3>2. CASE DeregisterCount(a) \/ DeregisterDevice(a)
        BY <3>2, DeregisterIsLeave DEF sharedDevice!Next, sharedDevice!vars
      <3>3. CASE ~(\/ RegisterCount(a) \/ RegisterDevice(a)
                   \/ DeregisterCount(a) \/ DeregisterDevice(a))
        BY <2>2, <3>3, OthersStutter DEF AdapterStep, sharedDevice!vars
      <3> QED
        BY <3>1, <3>2, <3>3
    <2> QED
      BY <2>1, <2>2 DEF Next
  <1>3. IInv /\ DeviceInv /\ [Next]_vars => DeviceInv'
    BY DeviceNext
  <1> QED
    BY <1>1, <1>2, <1>3, Invariance, PTL DEF Spec, RefinesSharedDevice, sharedDevice!Spec

\* What programs may rely on, also in the middle of NICRegisterDevice and
\* NICDeregisterDevice: where there is a control device, some adapter is registered.
THEOREM DeviceIsShared == Spec => []sharedDevice!DeviceHasMembers
  <1>1. sharedDevice!Init => sharedDevice!DeviceHasMembers
    BY DEF sharedDevice!Init, sharedDevice!DeviceHasMembers
  <1>2. sharedDevice!DeviceHasMembers /\ [sharedDevice!Next]_sharedDevice!vars
          => sharedDevice!DeviceHasMembers'
    BY DEF sharedDevice!DeviceHasMembers, sharedDevice!Next, sharedDevice!Join,
           sharedDevice!Leave, sharedDevice!vars
  <1> QED
    BY <1>1, <1>2, Refinement, PTL DEF RefinesSharedDevice, sharedDevice!Spec

----------------------------------------------------------------------------
(* Ioctls and the adapter they find                                        *)

\* Somebody other than a freed adapter keeps the control device, or has kept it.
Kept == Present \ freed # {} \/ forgotten # {}

\* A handle that was opened after the last adapter was freed leads to no freed adapter
\* unless the device was kept: neither the one it has found nor the one it will find.
HandleInv ==
    \A c \in Callers :
        /\ uses[c] # NoAdapter => cpc[c] \in {"build", "call"}
        /\ cpc[c] # "closed" /\ ~heldOver[c] =>
              (uses[c] \in freed \/ gdeviceExtension \in freed => Kept)

\* Where there is a control device, somebody keeps it: a registered adapter has not
\* been freed, or was forgotten.
LEMMA DeviceKeeps ==
  ASSUME IInv, sharedDevice!DeviceHasMembers, NdisDeviceHandle
  PROVE  Kept
  <1>1. PICK a \in Adapters : a \in Registered
    BY DEF sharedDevice!DeviceHasMembers, Registered, Counted, IInv, TypeOK
  <1>2. CASE a \in forgotten
    BY <1>2 DEF Kept
  <1>3. CASE a \notin forgotten
    <2>1. a \in Present /\ a \notin freed
      BY <1>1, <1>3 DEF Registered, Counted, Present, IInv, FailedInv
    <2> QED
      BY <2>1 DEF Kept
  <1> QED
    BY <1>2, <1>3

\* An adapter's step leaves the callers alone, unless it frees an adapter, and the
\* device stays kept.
LEMMA AdapterHandles ==
  ASSUME IInv, HandleInv, NEW a \in Adapters, Plug(a) \/ Halt(a) \/ AdapterStep(a)
  PROVE  HandleInv'
  <1>1. CASE FreeFailed(a) \/ FreeAdapter(a)
    BY <1>1 DEF FreeFailed, FreeAdapter, FreeMemory, HandleInv
  <1>2. CASE ~(FreeFailed(a) \/ FreeAdapter(a))
    <2>1. UNCHANGED <<freed, callers>> /\ forgotten \subseteq forgotten'
      BY <1>2 DEF Plug, Halt, AdapterStep, FindHardware, RegisterAcquire,
         RegisterBackOff, RegisterCount, RegisterDevice, RegisterRelease,
         InitializeReceive, InitTail, HaltSafe, DeregisterAcquire, DeregisterBackOff,
         DeregisterCount, DeregisterDevice, DeregisterRelease, AcquireMutex, BackOff,
         ReleaseMutex, shared
    <2>2. gdeviceExtension' = gdeviceExtension \/ gdeviceExtension' \notin freed
      <3>1. CASE Plug(a)
        BY <3>1 DEF Plug, IInv, FailedInv
      <3>2. CASE ~Plug(a)
        BY <1>2, <3>2 DEF Halt, AdapterStep, FindHardware, RegisterAcquire,
           RegisterBackOff, RegisterCount, RegisterDevice, RegisterRelease,
           InitializeReceive, InitTail, HaltSafe, DeregisterAcquire, DeregisterBackOff,
           DeregisterCount, DeregisterDevice, DeregisterRelease, AcquireMutex, BackOff,
           ReleaseMutex, shared
      <3> QED
        BY <3>1, <3>2
    <2>3. Present \ freed \subseteq Present' \ freed
      <3>1. \A b \in Adapters \ {a} : apc'[b] = apc[b]
        BY <1>2 DEF Plug, Halt, AdapterStep, FindHardware, RegisterAcquire,
           RegisterBackOff, RegisterCount, RegisterDevice, RegisterRelease,
           InitializeReceive, InitTail, HaltSafe, DeregisterAcquire, DeregisterBackOff,
           DeregisterCount, DeregisterDevice, DeregisterRelease, AcquireMutex, BackOff,
           ReleaseMutex, Goto, IInv, TypeOK
      <3>2. a \in freed \/ apc'[a] \notin {"absent", "gone"}
        BY <1>2 DEF Plug, Halt, AdapterStep, FindHardware, RegisterAcquire,
           RegisterBackOff, RegisterCount, RegisterDevice, RegisterRelease,
           InitializeReceive, InitTail, HaltSafe, DeregisterAcquire, DeregisterBackOff,
           DeregisterCount, DeregisterDevice, DeregisterRelease, AcquireMutex, BackOff,
           ReleaseMutex, Goto, IInv, TypeOK
      <3> QED
        BY <3>1, <3>2 DEF Present
    <2>4. Kept => Kept'
      BY <2>1, <2>3 DEF Kept
    <2>5. \A c \in Callers : /\ cpc'[c] = cpc[c] /\ uses'[c] = uses[c]
                             /\ heldOver'[c] = heldOver[c]
      BY <2>1 DEF callers
    <2> QED
      BY <2>1, <2>2, <2>4, <2>5 DEF HandleInv
  <1> QED
    BY <1>1, <1>2

\* A caller's step: whoever opens the device finds it kept.
LEMMA CallerHandles ==
  ASSUME IInv, HandleInv, sharedDevice!DeviceHasMembers,
         UNCHANGED vars \/ (\E c \in Callers : CallerStep(c))
  PROVE  HandleInv'
  <1>1. UNCHANGED <<shared, apc>>
    BY DEF vars, CallerStep, Open, Close, SendCommand, BuildRequest, CallDriver,
           CommandDone
  <1>2. UNCHANGED <<freed, gdeviceExtension>> /\ Kept' = Kept
    BY <1>1 DEF shared, Kept, Present
  <1>3. CASE UNCHANGED vars
    BY <1>2, <1>3 DEF vars, callers, HandleInv
  <1>4. ASSUME NEW c \in Callers, CallerStep(c)
        PROVE  HandleInv'
    <2>1. \A d \in Callers \ {c} : /\ cpc'[d] = cpc[d] /\ uses'[d] = uses[d]
                                   /\ heldOver'[d] = heldOver[d]
      BY <1>4 DEF CallerStep, Open, Close, SendCommand, BuildRequest, CallDriver,
                  CommandDone, IInv, TypeOK
    <2>2. NoAdapter \notin freed
      BY DEF IInv, TypeOK
    <2>3. CASE Open(c)
      <3>1. Kept /\ uses'[c] = NoAdapter
        BY <2>3, DeviceKeeps DEF Open, HandleInv
      <3> QED
        BY <1>2, <2>1, <3>1 DEF HandleInv
    <2>4. CASE ~Open(c)
      <3>1. /\ cpc[c] # "closed"
            /\ cpc'[c] = "closed" => Close(c)
            /\ uses'[c] \in {uses[c], gdeviceExtension, NoAdapter}
            /\ uses'[c] # NoAdapter => cpc'[c] \in {"build", "call"}
            /\ heldOver'[c] = heldOver[c] \/ Close(c)
        BY <1>4, <2>4 DEF CallerStep, Close, SendCommand, BuildRequest, CallDriver,
                          CommandDone, IInv, TypeOK, HandleInv
      <3>2. CASE Close(c)
        <4>1. cpc[c] = "open" /\ cpc'[c] = "closed" /\ uses'[c] = NoAdapter
          BY <3>2 DEF Close, IInv, TypeOK, HandleInv
        <4> QED
          BY <1>2, <2>1, <4>1 DEF HandleInv
      <3>3. CASE ~Close(c)
        BY <1>2, <2>1, <2>2, <3>1, <3>3 DEF HandleInv
      <3> QED
        BY <3>2, <3>3
    <2> QED
      BY <2>3, <2>4
  <1> QED
    BY <1>3, <1>4

\* An ioctl of NICDispatch uses a freed adapter only if one was freed while the program
\* had its handle open, or another adapter is there, or a failed initialisation was
\* forgotten: of one adapter at a time, the driver deregisters the control device before
\* it frees what the ioctls of that device find.
THEOREM FreedMeansHeldOrShared == Spec => []FreedOnlyIfHeldOrShared
  <1>1. Init => HandleInv
    BY DEF Init, HandleInv
  <1>2. IInv /\ HandleInv /\ sharedDevice!DeviceHasMembers /\ [Next]_vars => HandleInv'
    BY AdapterHandles, CallerHandles DEF Next
  <1>3. IInv /\ HandleInv => FreedOnlyIfHeldOrShared
    BY DEF IInv, TypeOK, HandleInv, Kept, FreedOnlyIfHeldOrShared
  <1> QED
    BY <1>1, <1>2, <1>3, Invariance, DeviceIsShared, PTL DEF Spec

============================================================================
