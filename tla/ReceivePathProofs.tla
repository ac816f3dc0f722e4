-------------------------- MODULE ReceivePathProofs --------------------------
(***************************************************************************)
(* The receive path for every number of slots, wake threshold, pool size   *)
(* and degree of concurrency: its counters are exact, the slot limit is    *)
(* exceeded by no more than the routines running, the remove lock reports  *)
(* a quiet adapter, and a halt that saw the report frees every descriptor. *)
(*                                                                         *)
(* IInv is proved part by part: the counts first, which need nothing else; *)
(* then the lock, the idle event and the slot budget on top of the counts. *)
(* Every part has one step per action.                                     *)
(***************************************************************************)
EXTENDS ReceivePath, TLAPS

USE SizesAssumption

\* SaitInitializeReceive has left every descriptor in the list and no read out.
LEMMA IInvInit == Init => IInv
  <1> SUFFICES ASSUME Init PROVE IInv
    OBVIOUS
  <1> USE DEF Init, Stage, Completing, Returning, ThreadPC, StartPC, ShutdownPC, HaltPC
  <1>1. at \in [Stage -> Nat] /\ \A s \in Stage : at[s] = 0
    OBVIOUS
  <1>2. FlagsOK
    BY DEF FlagsOK
  <1>3. CountsInv
    BY <1>1 DEF CountsInv, NumbersOK, RemoveCountExact, ReceiveCountExact, DescriptorsConserved,
            SlotsExact, ThreadHoldsLock, LockHolders, ThreadProbesLock, BaseLock, BaseReceive
  <1>4. LockInv
    BY <1>1 DEF LockInv, Signalling
  <1>5. IdleInv
    BY <1>1 DEF IdleInv, Draining
  <1>6. BudgetInv
    BY <1>1 DEF BudgetInv, WillCount, Busy
  <1> QED
    BY <1>2, <1>3, <1>4, <1>5, <1>6 DEF IInv

----------------------------------------------------------------------------
(* Types and counts *)

\* The flags and events stay TRUE or FALSE.
LEMMA FlagsNext == FlagsOK /\ [Next]_vars => FlagsOK'
  <1> SUFFICES ASSUME FlagsOK, [Next]_vars PROVE FlagsOK'
    OBVIOUS
  <1> USE DEF FlagsOK,
            data, notLock, notSlots, notEvents, notPool, notThread, notHistory,
            lockVars, eventVars, poolVars, threadVars, historyVars
  <1>1. ASSUME ThreadStep PROVE FlagsOK'
    <2>1. CASE ThreadLoop
      BY <2>1 DEF ThreadLoop
    <2>2. CASE ThreadAcquire
      BY <2>2 DEF ThreadAcquire
    <2>3. CASE ThreadTest
      BY <2>3 DEF ThreadTest
    <2>4. CASE ThreadBackout
      BY <2>4 DEF ThreadBackout
    <2>5. CASE ThreadSignal
      BY <2>5 DEF ThreadSignal
    <2>6. CASE ThreadAlloc
      BY <2>6 DEF ThreadAlloc
    <2>7. CASE ThreadCount
      BY <2>7 DEF ThreadCount
    <2>8. CASE ThreadSubmit
      BY <2>8 DEF ThreadSubmit
    <2>9. CASE ThreadCheck
      BY <2>9 DEF ThreadCheck
    <2>10. CASE ThreadClear
      <3>1. lateClear' \in BOOLEAN
        BY <2>10 DEF ThreadClear
      <3>2. UNCHANGED <<lockVars, ReceiveIdleEvent, ReceiveCloseEvent, threadVars, haltedSafely>>
        BY <2>10 DEF ThreadClear
      <3>3. ReceiveEvent' \in BOOLEAN
        BY <2>10 DEF ThreadClear
      <3> QED
        BY <3>1, <3>2, <3>3
    <2>11. CASE ThreadWait
      BY <2>11 DEF ThreadWait
    <2>12. CASE ThreadExit
      BY <2>12 DEF ThreadExit
    <2>13. CASE ThreadClose
      BY <2>13 DEF ThreadClose
    <2> QED
      BY <1>1, <2>1, <2>2, <2>3, <2>4, <2>5, <2>6, <2>7, <2>8,
         <2>9, <2>10, <2>11, <2>12, <2>13
      DEF ThreadStep
  <1>2. ASSUME RoutineStep PROVE FlagsOK'
    <2>1. CASE ConvertTake
      BY <2>1 DEF ConvertTake, Move
    <2>2. CASE ConvertDrop
      BY <2>2 DEF ConvertDrop, Move
    <2>3. CASE Indicate
      BY <2>3 DEF Indicate
    <2>4. CASE FailDecrement
      BY <2>4 DEF FailDecrement, Move
    <2>5. CASE FailRead
      BY <2>5 DEF FailRead, Move
    <2>6. CASE FailSet
      BY <2>6 DEF FailSet, Move
    <2>7. CASE CompletionRelease
      BY <2>7 DEF CompletionRelease, Move, Finish
    <2>8. CASE CompletionSignal
      BY <2>8 DEF CompletionSignal, Finish
    <2>9. CASE ReturnIdle
      BY <2>9 DEF ReturnIdle, Move
    <2>10. CASE ReturnDecrement
      BY <2>10 DEF ReturnDecrement, Move
    <2>11. CASE ReturnRead
      BY <2>11 DEF ReturnRead, Move, Finish
    <2>12. CASE ReturnSet
      BY <2>12 DEF ReturnSet, Finish
    <2> QED
      BY <1>2, <2>1, <2>2, <2>3, <2>4, <2>5, <2>6, <2>7, <2>8,
         <2>9, <2>10, <2>11, <2>12
      DEF RoutineStep
  <1>3. ASSUME WorkerStep PROVE FlagsOK'
    <2>1. CASE StoreHandle
      BY <2>1 DEF StoreHandle
    <2>2. CASE EnableReceive
      BY <2>2 DEF EnableReceive
    <2>3. CASE HaltSetPending
      BY <2>3 DEF HaltSetPending
    <2>4. CASE HaltDropBase
      BY <2>4 DEF HaltDropBase
    <2>5. CASE HaltSignal
      BY <2>5 DEF HaltSignal
    <2>6. CASE HaltAbort
      BY <2>6 DEF HaltAbort, AbortReads
    <2>7. CASE HaltWaitRemove
      BY <2>7 DEF HaltWaitRemove
    <2>8. CASE HaltWaitClose
      BY <2>8 DEF HaltWaitClose
    <2>9. CASE HaltWaitCloseTimesOut
      BY <2>9 DEF HaltWaitCloseTimesOut
    <2>10. CASE HaltDropReceive
      BY <2>10 DEF HaltDropReceive
    <2>11. CASE HaltWaitIdle
      BY <2>11 DEF HaltWaitIdle
    <2>12. CASE HaltDrain
      BY <2>12 DEF HaltDrain
    <2>13. CASE HaltDrained
      BY <2>13 DEF HaltDrained
    <2>14. CASE HaltFreeAdapter
      BY <2>14 DEF HaltFreeAdapter
    <2>15. CASE ShutdownAbort
      BY <2>15 DEF ShutdownAbort, AbortReads
    <2>16. CASE ShutdownWait
      BY <2>16 DEF ShutdownWait
    <2> QED
      BY <1>3, <2>1, <2>2, <2>3, <2>4, <2>5, <2>6, <2>7, <2>8,
         <2>9, <2>10, <2>11, <2>12, <2>13, <2>14, <2>15, <2>16
      DEF WorkerStep, HaltStep
  <1>4. ASSUME Environment PROVE FlagsOK'
    <2>1. CASE CompleteOk
      BY <2>1 DEF CompleteOk, Move, Busy
    <2>2. CASE CompleteFailed
      BY <2>2 DEF CompleteFailed, Move, Busy
    <2>3. CASE ReturnDescriptor
      BY <2>3 DEF ReturnDescriptor, Move, Busy
    <2>4. CASE HaltBegin
      BY <2>4 DEF HaltBegin, StopThread
    <2>5. CASE ShutdownBegin
      BY <2>5 DEF ShutdownBegin, StopThread
    <2>6. CASE ThreadAllocFails
      BY <2>6 DEF ThreadAllocFails
    <2> QED
      BY <1>4, <2>1, <2>2, <2>3, <2>4, <2>5, <2>6
      DEF Environment
  <1>5. CASE UNCHANGED vars
    BY <1>5 DEF vars
  <1> QED
    BY <1>1, <1>2, <1>3, <1>4, <1>5 DEF Next

\* The four counts follow what they count through every section of every routine.
LEMMA CountsInvNext == CountsInv /\ [Next]_vars => CountsInv'
  <1> SUFFICES ASSUME CountsInv, [Next]_vars PROVE CountsInv'
    OBVIOUS
  <1> USE DEF CountsInv, NumbersOK, RemoveCountExact, ReceiveCountExact, DescriptorsConserved,
            SlotsExact, ThreadHoldsLock, LockHolders, ThreadProbesLock, BaseLock, BaseReceive,
            Stage, Completing, Returning, ThreadPC, StartPC, ShutdownPC, HaltPC,
            data, notLock, notSlots, notEvents, notPool, notThread, notHistory,
            lockVars, eventVars, poolVars, threadVars, historyVars
  <1>1. ASSUME ThreadStep PROVE CountsInv'
    <2>1. CASE ThreadLoop
      BY <2>1 DEF ThreadLoop
    <2>2. CASE ThreadAcquire
      BY <2>2 DEF ThreadAcquire
    <2>3. CASE ThreadTest
      BY <2>3 DEF ThreadTest
    <2>4. CASE ThreadBackout
      BY <2>4 DEF ThreadBackout
    <2>5. CASE ThreadSignal
      BY <2>5 DEF ThreadSignal
    <2>6. CASE ThreadAlloc
      BY <2>6 DEF ThreadAlloc
    <2>7. CASE ThreadCount
      BY <2>7 DEF ThreadCount
    <2>8. CASE ThreadSubmit
      BY <2>8 DEF ThreadSubmit
    <2>9. CASE ThreadCheck
      BY <2>9 DEF ThreadCheck
    <2>10. CASE ThreadClear
      BY <2>10 DEF ThreadClear
    <2>11. CASE ThreadWait
      BY <2>11 DEF ThreadWait
    <2>12. CASE ThreadExit
      BY <2>12 DEF ThreadExit
    <2>13. CASE ThreadClose
      BY <2>13 DEF ThreadClose
    <2> QED
      BY <1>1, <2>1, <2>2, <2>3, <2>4, <2>5, <2>6, <2>7, <2>8,
         <2>9, <2>10, <2>11, <2>12, <2>13
      DEF ThreadStep
  <1>2. ASSUME RoutineStep PROVE CountsInv'
    <2>1. CASE ConvertTake
      BY <2>1 DEF ConvertTake, Move
    <2>2. CASE ConvertDrop
      <3>1. NumbersOK'
        BY <2>2 DEF ConvertDrop, Move
      <3>2. RemoveCountExact' /\ SlotsExact'
        BY <2>2 DEF ConvertDrop, Move
      <3>3. ReceiveCountExact' /\ DescriptorsConserved'
        BY <2>2 DEF ConvertDrop, Move
      <3> QED
        BY <3>1, <3>2, <3>3
    <2>3. CASE Indicate
      BY <2>3 DEF Indicate
    <2>4. CASE FailDecrement
      <3>1. ReceiveUsbPacket - 1 \in Nat
        BY <2>4 DEF FailDecrement, Move
      <3>2. /\ at' \in [Stage -> Nat]
            /\ at'["failDec"] = at["failDec"] - 1 /\ at'["failRead"] = at["failRead"] + 1
            /\ at'["bus"] = at["bus"] /\ at'["cancelled"] = at["cancelled"]
            /\ at'["withNdis"] = at["withNdis"]
            /\ at'["convert"] = at["convert"] /\ at'["indicate"] = at["indicate"]
            /\ at'["failSet"] = at["failSet"]
            /\ at'["release"] = at["release"] /\ at'["signal"] = at["signal"]
            /\ at'["retIdle"] = at["retIdle"]
            /\ at'["retDec"] = at["retDec"] /\ at'["retRead"] = at["retRead"]
            /\ at'["retSet"] = at["retSet"]
        BY <2>4 DEF FailDecrement, Move
      <3>3. /\ ReceiveUsbPacket' = ReceiveUsbPacket - 1
            /\ UNCHANGED <<notSlots, tpc, hpc>>
        BY <2>4 DEF FailDecrement
      <3>4. NumbersOK'
        BY <3>1, <3>2, <3>3
      <3>5. RemoveCountExact'
        BY <3>2, <3>3
      <3>6. SlotsExact'
        BY <3>2, <3>3
      <3> QED
        BY <3>2, <3>3, <3>4, <3>5, <3>6
    <2>5. CASE FailRead
      BY <2>5 DEF FailRead, Move
    <2>6. CASE FailSet
      <3>1. NumbersOK'
        BY <2>6 DEF FailSet, Move
      <3>2. RemoveCountExact' /\ SlotsExact'
        BY <2>6 DEF FailSet, Move
      <3>3. ReceiveCountExact' /\ DescriptorsConserved'
        BY <2>6 DEF FailSet, Move
      <3> QED
        BY <3>1, <3>2, <3>3
    <2>7. CASE CompletionRelease
      BY <2>7 DEF CompletionRelease, Move, Finish
    <2>8. CASE CompletionSignal
      BY <2>8 DEF CompletionSignal, Finish
    <2>9. CASE ReturnIdle
      BY <2>9 DEF ReturnIdle, Move
    <2>10. CASE ReturnDecrement
      BY <2>10 DEF ReturnDecrement, Move
    <2>11. CASE ReturnRead
      BY <2>11 DEF ReturnRead, Move, Finish
    <2>12. CASE ReturnSet
      BY <2>12 DEF ReturnSet, Finish
    <2> QED
      BY <1>2, <2>1, <2>2, <2>3, <2>4, <2>5, <2>6, <2>7, <2>8,
         <2>9, <2>10, <2>11, <2>12
      DEF RoutineStep
  <1>3. ASSUME WorkerStep PROVE CountsInv'
    <2>1. CASE StoreHandle
      BY <2>1 DEF StoreHandle
    <2>2. CASE EnableReceive
      BY <2>2 DEF EnableReceive
    <2>3. CASE HaltSetPending
      BY <2>3 DEF HaltSetPending
    <2>4. CASE HaltDropBase
      BY <2>4 DEF HaltDropBase
    <2>5. CASE HaltSignal
      BY <2>5 DEF HaltSignal
    <2>6. CASE HaltAbort
      BY <2>6 DEF HaltAbort, AbortReads
    <2>7. CASE HaltWaitRemove
      BY <2>7 DEF HaltWaitRemove
    <2>8. CASE HaltWaitClose
      BY <2>8 DEF HaltWaitClose
    <2>9. CASE HaltWaitCloseTimesOut
      BY <2>9 DEF HaltWaitCloseTimesOut
    <2>10. CASE HaltDropReceive
      BY <2>10 DEF HaltDropReceive
    <2>11. CASE HaltWaitIdle
      BY <2>11 DEF HaltWaitIdle
    <2>12. CASE HaltDrain
      BY <2>12 DEF HaltDrain
    <2>13. CASE HaltDrained
      BY <2>13 DEF HaltDrained
    <2>14. CASE HaltFreeAdapter
      BY <2>14 DEF HaltFreeAdapter
    <2>15. CASE ShutdownAbort
      BY <2>15 DEF ShutdownAbort, AbortReads
    <2>16. CASE ShutdownWait
      BY <2>16 DEF ShutdownWait
    <2> QED
      BY <1>3, <2>1, <2>2, <2>3, <2>4, <2>5, <2>6, <2>7, <2>8,
         <2>9, <2>10, <2>11, <2>12, <2>13, <2>14, <2>15, <2>16
      DEF WorkerStep, HaltStep
  <1>4. ASSUME Environment PROVE CountsInv'
    <2>1. CASE CompleteOk
      BY <2>1 DEF CompleteOk, Move, Busy
    <2>2. CASE CompleteFailed
      BY <2>2 DEF CompleteFailed, Move, Busy
    <2>3. CASE ReturnDescriptor
      <3>1. /\ ReceiveCount' = ReceiveCount - 1 /\ free' = free + 1 /\ at["withNdis"] > 0
            /\ UNCHANGED <<notPool, pool, tpc, hpc>>
        BY <2>3 DEF ReturnDescriptor, Move
      <3>2. CASE ReceiveCount = 1
        <4>1. Move("withNdis", "retIdle")
          BY <2>3, <3>2 DEF ReturnDescriptor
        <4>2. /\ at' \in [Stage -> Nat]
              /\ at'["withNdis"] = at["withNdis"] - 1 /\ at'["retIdle"] = at["retIdle"] + 1
              /\ at'["bus"] = at["bus"] /\ at'["cancelled"] = at["cancelled"]
              /\ at'["convert"] = at["convert"]
              /\ at'["indicate"] = at["indicate"] /\ at'["failDec"] = at["failDec"]
              /\ at'["failRead"] = at["failRead"]
              /\ at'["failSet"] = at["failSet"] /\ at'["release"] = at["release"]
              /\ at'["signal"] = at["signal"]
              /\ at'["retDec"] = at["retDec"] /\ at'["retRead"] = at["retRead"]
              /\ at'["retSet"] = at["retSet"]
          BY <4>1 DEF Move
        <4>3. /\ at["withNdis"] - 1 \in Nat /\ ReceiveCount - 1 \in Nat
              /\ UNCHANGED <<RemoveCount, ReceiveUsbPacket, pool, lostLocks, lostSlots>>
          BY <3>1, <3>2
        <4>4. NumbersOK'
          BY <3>1, <4>2, <4>3 DEF NumbersOK
        <4>5. RemoveCountExact'
          BY <3>1, <4>2, <4>3
        <4>6. ReceiveCountExact' /\ DescriptorsConserved'
          BY <3>1, <4>2, <4>3
        <4>7. SlotsExact'
          BY <3>1, <4>2, <4>3
        <4> HIDE DEF NumbersOK, RemoveCountExact, ReceiveCountExact,
                     DescriptorsConserved, SlotsExact
        <4> QED
          BY <4>4, <4>5, <4>6, <4>7
      <3>3. CASE ReceiveCount # 1
        <4>1. Move("withNdis", "retDec")
          BY <2>3, <3>3 DEF ReturnDescriptor
        <4>2. /\ at' \in [Stage -> Nat]
              /\ at'["withNdis"] = at["withNdis"] - 1 /\ at'["retDec"] = at["retDec"] + 1
              /\ at'["bus"] = at["bus"] /\ at'["cancelled"] = at["cancelled"]
              /\ at'["convert"] = at["convert"]
              /\ at'["indicate"] = at["indicate"] /\ at'["failDec"] = at["failDec"]
              /\ at'["failRead"] = at["failRead"]
              /\ at'["failSet"] = at["failSet"] /\ at'["release"] = at["release"]
              /\ at'["signal"] = at["signal"]
              /\ at'["retIdle"] = at["retIdle"] /\ at'["retRead"] = at["retRead"]
              /\ at'["retSet"] = at["retSet"]
          BY <4>1 DEF Move
        <4> QED
          BY <3>1, <3>3, <4>2
      <3> QED
        BY <3>2, <3>3
    <2>4. CASE HaltBegin
      BY <2>4 DEF HaltBegin, StopThread
    <2>5. CASE ShutdownBegin
      BY <2>5 DEF ShutdownBegin, StopThread
    <2>6. CASE ThreadAllocFails
      <3>1. NumbersOK'
        BY <2>6 DEF ThreadAllocFails
      <3>2. RemoveCountExact' /\ SlotsExact'
        BY <2>6 DEF ThreadAllocFails
      <3>3. ReceiveCountExact' /\ DescriptorsConserved'
        BY <2>6 DEF ThreadAllocFails
      <3> QED
        BY <3>1, <3>2, <3>3
    <2> QED
      BY <1>4, <2>1, <2>2, <2>3, <2>4, <2>5, <2>6
      DEF Environment
  <1>5. CASE UNCHANGED vars
    BY <1>5 DEF vars
  <1> QED
    BY <1>1, <1>2, <1>3, <1>4, <1>5 DEF Next

----------------------------------------------------------------------------
(* The remove lock *)

\* Nothing is inside the remove lock once somebody has seen the count at 0.
LEMMA LockInvNext == CountsInv /\ LockInv /\ [Next]_vars => LockInv'
  <1> SUFFICES ASSUME CountsInv, LockInv, [Next]_vars PROVE LockInv'
    OBVIOUS
  <1> USE DEF LockInv, Signalling,
            CountsInv, NumbersOK, RemoveCountExact, ReceiveCountExact, DescriptorsConserved,
            SlotsExact, ThreadHoldsLock, LockHolders, ThreadProbesLock, BaseLock, BaseReceive,
            Stage, Completing, Returning, ThreadPC, StartPC, ShutdownPC, HaltPC,
            data, notLock, notSlots, notEvents, notPool, notThread, notHistory,
            lockVars, eventVars, poolVars, threadVars, historyVars
  <1>1. ASSUME ThreadStep PROVE LockInv'
    <2>1. CASE ThreadLoop
      BY <2>1 DEF ThreadLoop
    <2>2. CASE ThreadAcquire
      BY <2>2 DEF ThreadAcquire
    <2>3. CASE ThreadTest
      BY <2>3 DEF ThreadTest
    <2>4. CASE ThreadBackout
      BY <2>4 DEF ThreadBackout
    <2>5. CASE ThreadSignal
      BY <2>5 DEF ThreadSignal
    <2>6. CASE ThreadAlloc
      BY <2>6 DEF ThreadAlloc
    <2>7. CASE ThreadCount
      BY <2>7 DEF ThreadCount
    <2>8. CASE ThreadSubmit
      BY <2>8 DEF ThreadSubmit
    <2>9. CASE ThreadCheck
      BY <2>9 DEF ThreadCheck
    <2>10. CASE ThreadClear
      BY <2>10 DEF ThreadClear
    <2>11. CASE ThreadWait
      BY <2>11 DEF ThreadWait
    <2>12. CASE ThreadExit
      BY <2>12 DEF ThreadExit
    <2>13. CASE ThreadClose
      BY <2>13 DEF ThreadClose
    <2> QED
      BY <1>1, <2>1, <2>2, <2>3, <2>4, <2>5, <2>6, <2>7, <2>8,
         <2>9, <2>10, <2>11, <2>12, <2>13
      DEF ThreadStep
  <1>2. ASSUME RoutineStep PROVE LockInv'
    <2>1. CASE ConvertTake
      BY <2>1 DEF ConvertTake, Move
    <2>2. CASE ConvertDrop
      BY <2>2 DEF ConvertDrop, Move
    <2>3. CASE Indicate
      BY <2>3 DEF Indicate
    <2>4. CASE FailDecrement
      BY <2>4 DEF FailDecrement, Move
    <2>5. CASE FailRead
      BY <2>5 DEF FailRead, Move
    <2>6. CASE FailSet
      BY <2>6 DEF FailSet, Move
    <2>7. CASE CompletionRelease
      BY <2>7, SMTT(40) DEF CompletionRelease, Move, Finish
    <2>8. CASE CompletionSignal
      BY <2>8 DEF CompletionSignal, Finish
    <2>9. CASE ReturnIdle
      BY <2>9 DEF ReturnIdle, Move
    <2>10. CASE ReturnDecrement
      BY <2>10 DEF ReturnDecrement, Move
    <2>11. CASE ReturnRead
      BY <2>11 DEF ReturnRead, Move, Finish
    <2>12. CASE ReturnSet
      BY <2>12 DEF ReturnSet, Finish
    <2> QED
      BY <1>2, <2>1, <2>2, <2>3, <2>4, <2>5, <2>6, <2>7, <2>8,
         <2>9, <2>10, <2>11, <2>12
      DEF RoutineStep
  <1>3. ASSUME WorkerStep PROVE LockInv'
    <2>1. CASE StoreHandle
      BY <2>1 DEF StoreHandle
    <2>2. CASE EnableReceive
      BY <2>2 DEF EnableReceive
    <2>3. CASE HaltSetPending
      BY <2>3 DEF HaltSetPending
    <2>4. CASE HaltDropBase
      BY <2>4 DEF HaltDropBase
    <2>5. CASE HaltSignal
      BY <2>5 DEF HaltSignal
    <2>6. CASE HaltAbort
      BY <2>6 DEF HaltAbort, AbortReads
    <2>7. CASE HaltWaitRemove
      BY <2>7 DEF HaltWaitRemove
    <2>8. CASE HaltWaitClose
      BY <2>8 DEF HaltWaitClose
    <2>9. CASE HaltWaitCloseTimesOut
      BY <2>9 DEF HaltWaitCloseTimesOut
    <2>10. CASE HaltDropReceive
      BY <2>10 DEF HaltDropReceive
    <2>11. CASE HaltWaitIdle
      BY <2>11 DEF HaltWaitIdle
    <2>12. CASE HaltDrain
      BY <2>12 DEF HaltDrain
    <2>13. CASE HaltDrained
      BY <2>13 DEF HaltDrained
    <2>14. CASE HaltFreeAdapter
      BY <2>14 DEF HaltFreeAdapter
    <2>15. CASE ShutdownAbort
      BY <2>15 DEF ShutdownAbort, AbortReads
    <2>16. CASE ShutdownWait
      BY <2>16 DEF ShutdownWait
    <2> QED
      BY <1>3, <2>1, <2>2, <2>3, <2>4, <2>5, <2>6, <2>7, <2>8,
         <2>9, <2>10, <2>11, <2>12, <2>13, <2>14, <2>15, <2>16
      DEF WorkerStep, HaltStep
  <1>4. ASSUME Environment PROVE LockInv'
    <2>1. CASE CompleteOk
      BY <2>1 DEF CompleteOk, Move, Busy
    <2>2. CASE CompleteFailed
      <3>1. CASE Move("bus", "failDec")
        BY <2>2, <3>1 DEF CompleteFailed, Move, Busy
      <3>2. CASE Move("cancelled", "failDec")
        BY <2>2, <3>2 DEF CompleteFailed, Move, Busy
      <3> QED
        BY <2>2, <3>1, <3>2 DEF CompleteFailed
    <2>3. CASE ReturnDescriptor
      BY <2>3 DEF ReturnDescriptor, Move, Busy
    <2>4. CASE HaltBegin
      BY <2>4 DEF HaltBegin, StopThread
    <2>5. CASE ShutdownBegin
      BY <2>5 DEF ShutdownBegin, StopThread
    <2>6. CASE ThreadAllocFails
      BY <2>6 DEF ThreadAllocFails
    <2> QED
      BY <1>4, <2>1, <2>2, <2>3, <2>4, <2>5, <2>6
      DEF Environment
  <1>5. CASE UNCHANGED vars
    BY <1>5 DEF vars
  <1> QED
    BY <1>1, <1>2, <1>3, <1>4, <1>5 DEF Next

----------------------------------------------------------------------------
(* The idle event *)

\* It is about two stages only.
LEMMA IdleKept ==
  ASSUME IdleInv, at'["retIdle"] = at["retIdle"], at'["withNdis"] = at["withNdis"],
         UNCHANGED <<ReceiveIdleEvent, RemoveEvent, haltedSafely, hpc, pool>>
  PROVE  IdleInv'
  BY DEF IdleInv, Draining, BaseReceive

\* A routine that indicates a packet still has the remove lock.
LEMMA NoneIndicated ==
  ASSUME CountsInv, LockHolders = 0
  PROVE  at["indicate"] = 0
  <1> DEFINE before == ThreadHoldsLock + at["bus"] + at["cancelled"] + at["convert"]
             after == at["failDec"] + at["failRead"] + at["failSet"] + at["release"]
  <1>1. before \in Nat /\ at["indicate"] \in Nat /\ after \in Nat
    BY DEF CountsInv, NumbersOK, Stage, Completing, ThreadHoldsLock
  <1>2. LockHolders = before + at["indicate"] + after
    BY DEF CountsInv, NumbersOK, Stage, Completing, ThreadHoldsLock, LockHolders
  <1> HIDE SizesAssumption DEF before, after
  <1> QED
    BY <1>1, <1>2

\* ReceiveIdleEvent belongs to a halt that has dropped its count, once if it is safe.
LEMMA IdleInvNext == CountsInv /\ LockInv /\ IdleInv /\ [Next]_vars => IdleInv'
  <1> SUFFICES ASSUME CountsInv, LockInv, IdleInv, [Next]_vars PROVE IdleInv'
    OBVIOUS
  <1> USE DEF IdleInv, Draining, LockInv, Signalling,
            CountsInv, NumbersOK, RemoveCountExact, ReceiveCountExact, DescriptorsConserved,
            SlotsExact, ThreadHoldsLock, LockHolders, ThreadProbesLock, BaseLock, BaseReceive,
            Stage, Completing, Returning, ThreadPC, StartPC, ShutdownPC, HaltPC,
            data, notLock, notSlots, notEvents, notPool, notThread, notHistory,
            lockVars, eventVars, poolVars, threadVars, historyVars
  <1>1. ASSUME ThreadStep PROVE IdleInv'
    <2>1. CASE ThreadLoop
      BY <2>1 DEF ThreadLoop
    <2>2. CASE ThreadAcquire
      BY <2>2 DEF ThreadAcquire
    <2>3. CASE ThreadTest
      BY <2>3 DEF ThreadTest
    <2>4. CASE ThreadBackout
      BY <2>4 DEF ThreadBackout
    <2>5. CASE ThreadSignal
      BY <2>5 DEF ThreadSignal
    <2>6. CASE ThreadAlloc
      BY <2>6 DEF ThreadAlloc
    <2>7. CASE ThreadCount
      BY <2>7 DEF ThreadCount
    <2>8. CASE ThreadSubmit
      BY <2>8 DEF ThreadSubmit
    <2>9. CASE ThreadCheck
      BY <2>9 DEF ThreadCheck
    <2>10. CASE ThreadClear
      BY <2>10 DEF ThreadClear
    <2>11. CASE ThreadWait
      BY <2>11 DEF ThreadWait
    <2>12. CASE ThreadExit
      BY <2>12 DEF ThreadExit
    <2>13. CASE ThreadClose
      BY <2>13 DEF ThreadClose
    <2> QED
      BY <1>1, <2>1, <2>2, <2>3, <2>4, <2>5, <2>6, <2>7, <2>8,
         <2>9, <2>10, <2>11, <2>12, <2>13
      DEF ThreadStep
  <1>2. ASSUME RoutineStep PROVE IdleInv'
    <2>1. CASE ConvertTake
      BY <2>1 DEF ConvertTake, Move
    <2>2. CASE ConvertDrop
      BY <2>2 DEF ConvertDrop, Move
    <2>3. CASE Indicate
      BY <2>3 DEF Indicate
    <2>4. CASE FailDecrement
      BY <2>4 DEF FailDecrement, Move
    <2>5. CASE FailRead
      BY <2>5 DEF FailRead, Move
    <2>6. CASE FailSet
      BY <2>6 DEF FailSet, Move
    <2>7. CASE CompletionRelease
      <3>1. at'["retIdle"] = at["retIdle"] /\ at'["withNdis"] = at["withNdis"]
        BY <2>7 DEF CompletionRelease, Move, Finish
      <3>2. UNCHANGED <<ReceiveIdleEvent, RemoveEvent, haltedSafely, hpc, pool>>
        BY <2>7 DEF CompletionRelease
      <3> QED
        BY <3>1, <3>2, IdleKept
    <2>8. CASE CompletionSignal
      BY <2>8 DEF CompletionSignal, Finish
    <2>9. CASE ReturnIdle
      BY <2>9 DEF ReturnIdle, Move
    <2>10. CASE ReturnDecrement
      BY <2>10 DEF ReturnDecrement, Move
    <2>11. CASE ReturnRead
      <3>1. at'["retIdle"] = at["retIdle"] /\ at'["withNdis"] = at["withNdis"]
        BY <2>11 DEF ReturnRead, Move, Finish
      <3>2. UNCHANGED <<ReceiveIdleEvent, RemoveEvent, haltedSafely, hpc, pool>>
        BY <2>11 DEF ReturnRead
      <3> QED
        BY <3>1, <3>2, IdleKept
    <2>12. CASE ReturnSet
      BY <2>12 DEF ReturnSet, Finish
    <2> QED
      BY <1>2, <2>1, <2>2, <2>3, <2>4, <2>5, <2>6, <2>7, <2>8,
         <2>9, <2>10, <2>11, <2>12
      DEF RoutineStep
  <1>3. ASSUME WorkerStep PROVE IdleInv'
    <2>1. CASE StoreHandle
      BY <2>1 DEF StoreHandle
    <2>2. CASE EnableReceive
      BY <2>2 DEF EnableReceive
    <2>3. CASE HaltSetPending
      BY <2>3 DEF HaltSetPending
    <2>4. CASE HaltDropBase
      BY <2>4 DEF HaltDropBase
    <2>5. CASE HaltSignal
      BY <2>5 DEF HaltSignal
    <2>6. CASE HaltAbort
      BY <2>6 DEF HaltAbort, AbortReads
    <2>7. CASE HaltWaitRemove
      BY <2>7 DEF HaltWaitRemove
    <2>8. CASE HaltWaitClose
      BY <2>8 DEF HaltWaitClose
    <2>9. CASE HaltWaitCloseTimesOut
      BY <2>9 DEF HaltWaitCloseTimesOut
    <2>10. CASE HaltDropReceive
      BY <2>10 DEF HaltDropReceive
    <2>11. CASE HaltWaitIdle
      BY <2>11 DEF HaltWaitIdle
    <2>12. CASE HaltDrain
      BY <2>12 DEF HaltDrain
    <2>13. CASE HaltDrained
      <3>1. hpc = "drain" /\ free = 0 /\ UNCHANGED <<data, at>> /\ hpc' = "freeAdapter"
        BY <2>13 DEF HaltDrained
      <3>2. ASSUME haltedSafely PROVE pool = 0
        <4>1. at["withNdis"] = 0 /\ LockHolders = 0
          BY <3>1, <3>2
        <4>2. at["indicate"] = 0
          BY <4>1, NoneIndicated
        <4> QED
          BY <3>1, <4>1, <4>2
      <3> QED
        BY <3>1, <3>2
    <2>14. CASE HaltFreeAdapter
      BY <2>14 DEF HaltFreeAdapter
    <2>15. CASE ShutdownAbort
      BY <2>15 DEF ShutdownAbort, AbortReads
    <2>16. CASE ShutdownWait
      BY <2>16 DEF ShutdownWait
    <2> QED
      BY <1>3, <2>1, <2>2, <2>3, <2>4, <2>5, <2>6, <2>7, <2>8,
         <2>9, <2>10, <2>11, <2>12, <2>13, <2>14, <2>15, <2>16
      DEF WorkerStep, HaltStep
  <1>4. ASSUME Environment PROVE IdleInv'
    <2>1. CASE CompleteOk
      BY <2>1 DEF CompleteOk, Move, Busy
    <2>2. CASE CompleteFailed
      BY <2>2 DEF CompleteFailed, Move, Busy
    <2>3. CASE ReturnDescriptor
      <3>1. /\ ReceiveCount' = ReceiveCount - 1 /\ free' = free + 1 /\ at["withNdis"] > 0
            /\ UNCHANGED <<notPool, pool, tpc, hpc>>
        BY <2>3 DEF ReturnDescriptor, Move
      <3>2. CASE ReceiveCount = 1
        <4>1. Move("withNdis", "retIdle")
          BY <2>3, <3>2 DEF ReturnDescriptor
        <4>2. /\ at' \in [Stage -> Nat]
              /\ at'["withNdis"] = at["withNdis"] - 1 /\ at'["retIdle"] = at["retIdle"] + 1
              /\ at'["bus"] = at["bus"] /\ at'["cancelled"] = at["cancelled"]
              /\ at'["convert"] = at["convert"]
              /\ at'["indicate"] = at["indicate"] /\ at'["failDec"] = at["failDec"]
              /\ at'["failRead"] = at["failRead"]
              /\ at'["failSet"] = at["failSet"] /\ at'["release"] = at["release"]
              /\ at'["signal"] = at["signal"]
              /\ at'["retDec"] = at["retDec"] /\ at'["retRead"] = at["retRead"]
              /\ at'["retSet"] = at["retSet"]
          BY <4>1 DEF Move
        <4>3. /\ UNCHANGED <<RemoveEvent, ReceiveIdleEvent, haltedSafely, hpc, tpc, pool>>
              /\ at["withNdis"] \in Nat /\ at["indicate"] \in Nat /\ at["retIdle"] \in Nat
          BY <3>1
        <4>4. BaseReceive = 0 /\ at["withNdis"] = 1 /\ at["indicate"] = 0
          <5>1. CASE BaseReceive = 0
            BY <3>1, <3>2, <4>3, <5>1
          <5>2. CASE BaseReceive = 1
            BY <3>1, <3>2, <4>3, <5>2
          <5> QED
            BY <5>1, <5>2
        <4>5. (ReceiveIdleEvent \/ at["retIdle"] > 0 => BaseReceive = 0)'
          BY <4>3, <4>4
        <4>6. haltedSafely => ~ReceiveIdleEvent /\ ~Draining /\ at["retIdle"] = 0
          BY <4>3, <4>4
        <4>7. haltedSafely' => ~ReceiveIdleEvent' /\ ~Draining' /\ at'["retIdle"] = 1
                               /\ at'["withNdis"] = 0 /\ RemoveEvent'
          BY <4>2, <4>3, <4>4, <4>6
        <4> QED
          BY <4>3, <4>4, <4>5, <4>6, <4>7
      <3>3. CASE ReceiveCount # 1
        <4>1. Move("withNdis", "retDec")
          BY <2>3, <3>3 DEF ReturnDescriptor
        <4>2. /\ at' \in [Stage -> Nat]
              /\ at'["withNdis"] = at["withNdis"] - 1 /\ at'["retDec"] = at["retDec"] + 1
              /\ at'["bus"] = at["bus"] /\ at'["cancelled"] = at["cancelled"]
              /\ at'["convert"] = at["convert"]
              /\ at'["indicate"] = at["indicate"] /\ at'["failDec"] = at["failDec"]
              /\ at'["failRead"] = at["failRead"]
              /\ at'["failSet"] = at["failSet"] /\ at'["release"] = at["release"]
              /\ at'["signal"] = at["signal"]
              /\ at'["retIdle"] = at["retIdle"] /\ at'["retRead"] = at["retRead"]
              /\ at'["retSet"] = at["retSet"]
          BY <4>1 DEF Move
        <4> QED
          BY <3>1, <3>3, <4>2
      <3> QED
        BY <3>2, <3>3
    <2>4. CASE HaltBegin
      BY <2>4 DEF HaltBegin, StopThread
    <2>5. CASE ShutdownBegin
      BY <2>5 DEF ShutdownBegin, StopThread
    <2>6. CASE ThreadAllocFails
      BY <2>6 DEF ThreadAllocFails
    <2> QED
      BY <1>4, <2>1, <2>2, <2>3, <2>4, <2>5, <2>6
      DEF Environment
  <1>5. CASE UNCHANGED vars
    BY <1>5 DEF vars
  <1> QED
    BY <1>1, <1>2, <1>3, <1>4, <1>5 DEF Next

----------------------------------------------------------------------------
(* The slot budget *)

\* The budget for slots: who is about to use or free one is counted in advance.
LEMMA BudgetInvNext == CountsInv /\ BudgetInv /\ [Next]_vars => BudgetInv'
  <1> SUFFICES ASSUME CountsInv, BudgetInv, [Next]_vars PROVE BudgetInv'
    OBVIOUS
  <1> USE DEF BudgetInv, WillCount, Busy, CountsInv, NumbersOK,
            Stage, Completing, Returning, ThreadPC, StartPC, ShutdownPC, HaltPC,
            data, notLock, notSlots, notEvents, notPool, notThread, notHistory,
            lockVars, eventVars, poolVars, threadVars, historyVars
  <1>1. ASSUME ThreadStep PROVE BudgetInv'
    <2>1. CASE ThreadLoop
      BY <2>1 DEF ThreadLoop
    <2>2. CASE ThreadAcquire
      BY <2>2 DEF ThreadAcquire
    <2>3. CASE ThreadTest
      BY <2>3 DEF ThreadTest
    <2>4. CASE ThreadBackout
      BY <2>4 DEF ThreadBackout
    <2>5. CASE ThreadSignal
      BY <2>5 DEF ThreadSignal
    <2>6. CASE ThreadAlloc
      BY <2>6 DEF ThreadAlloc
    <2>7. CASE ThreadCount
      BY <2>7 DEF ThreadCount
    <2>8. CASE ThreadSubmit
      BY <2>8 DEF ThreadSubmit
    <2>9. CASE ThreadCheck
      BY <2>9 DEF ThreadCheck
    <2>10. CASE ThreadClear
      BY <2>10 DEF ThreadClear
    <2>11. CASE ThreadWait
      BY <2>11 DEF ThreadWait
    <2>12. CASE ThreadExit
      BY <2>12 DEF ThreadExit
    <2>13. CASE ThreadClose
      BY <2>13 DEF ThreadClose
    <2> QED
      BY <1>1, <2>1, <2>2, <2>3, <2>4, <2>5, <2>6, <2>7, <2>8,
         <2>9, <2>10, <2>11, <2>12, <2>13
      DEF ThreadStep
  <1>2. ASSUME RoutineStep PROVE BudgetInv'
    <2>1. CASE ConvertTake
      BY <2>1 DEF ConvertTake, Move
    <2>2. CASE ConvertDrop
      BY <2>2 DEF ConvertDrop, Move
    <2>3. CASE Indicate
      BY <2>3 DEF Indicate
    <2>4. CASE FailDecrement
      BY <2>4 DEF FailDecrement, Move
    <2>5. CASE FailRead
      BY <2>5 DEF FailRead, Move
    <2>6. CASE FailSet
      BY <2>6 DEF FailSet, Move
    <2>7. CASE CompletionRelease
      BY <2>7 DEF CompletionRelease, Move, Finish
    <2>8. CASE CompletionSignal
      BY <2>8 DEF CompletionSignal, Finish
    <2>9. CASE ReturnIdle
      BY <2>9 DEF ReturnIdle, Move
    <2>10. CASE ReturnDecrement
      BY <2>10 DEF ReturnDecrement, Move
    <2>11. CASE ReturnRead
      BY <2>11 DEF ReturnRead, Move, Finish
    <2>12. CASE ReturnSet
      BY <2>12 DEF ReturnSet, Finish
    <2> QED
      BY <1>2, <2>1, <2>2, <2>3, <2>4, <2>5, <2>6, <2>7, <2>8,
         <2>9, <2>10, <2>11, <2>12
      DEF RoutineStep
  <1>3. ASSUME WorkerStep PROVE BudgetInv'
    <2>1. CASE StoreHandle
      BY <2>1 DEF StoreHandle
    <2>2. CASE EnableReceive
      BY <2>2 DEF EnableReceive
    <2>3. CASE HaltSetPending
      BY <2>3 DEF HaltSetPending
    <2>4. CASE HaltDropBase
      BY <2>4 DEF HaltDropBase
    <2>5. CASE HaltSignal
      BY <2>5 DEF HaltSignal
    <2>6. CASE HaltAbort
      BY <2>6 DEF HaltAbort, AbortReads
    <2>7. CASE HaltWaitRemove
      BY <2>7 DEF HaltWaitRemove
    <2>8. CASE HaltWaitClose
      BY <2>8 DEF HaltWaitClose
    <2>9. CASE HaltWaitCloseTimesOut
      BY <2>9 DEF HaltWaitCloseTimesOut
    <2>10. CASE HaltDropReceive
      BY <2>10 DEF HaltDropReceive
    <2>11. CASE HaltWaitIdle
      BY <2>11 DEF HaltWaitIdle
    <2>12. CASE HaltDrain
      BY <2>12 DEF HaltDrain
    <2>13. CASE HaltDrained
      BY <2>13 DEF HaltDrained
    <2>14. CASE HaltFreeAdapter
      BY <2>14 DEF HaltFreeAdapter
    <2>15. CASE ShutdownAbort
      BY <2>15 DEF ShutdownAbort, AbortReads
    <2>16. CASE ShutdownWait
      BY <2>16 DEF ShutdownWait
    <2> QED
      BY <1>3, <2>1, <2>2, <2>3, <2>4, <2>5, <2>6, <2>7, <2>8,
         <2>9, <2>10, <2>11, <2>12, <2>13, <2>14, <2>15, <2>16
      DEF WorkerStep, HaltStep
  <1>4. ASSUME Environment PROVE BudgetInv'
    <2>1. CASE CompleteOk
      BY <2>1 DEF CompleteOk, Move, Busy
    <2>2. CASE CompleteFailed
      BY <2>2 DEF CompleteFailed, Move, Busy
    <2>3. CASE ReturnDescriptor
      BY <2>3 DEF ReturnDescriptor, Move, Busy
    <2>4. CASE HaltBegin
      BY <2>4 DEF HaltBegin, StopThread
    <2>5. CASE ShutdownBegin
      BY <2>5 DEF ShutdownBegin, StopThread
    <2>6. CASE ThreadAllocFails
      BY <2>6 DEF ThreadAllocFails
    <2> QED
      BY <1>4, <2>1, <2>2, <2>3, <2>4, <2>5, <2>6
      DEF Environment
  <1>5. CASE UNCHANGED vars
    BY <1>5 DEF vars
  <1> QED
    BY <1>1, <1>2, <1>3, <1>4, <1>5 DEF Next

----------------------------------------------------------------------------
(* No signal is lost *)

\* Whoever takes the last count is the one that sees 0.
LEMMA EventIsOwedNext == CountsInv /\ EventIsOwed /\ [Next]_vars => EventIsOwed'
  <1> SUFFICES ASSUME CountsInv, EventIsOwed, [Next]_vars PROVE EventIsOwed'
    OBVIOUS
  <1> USE DEF EventIsOwed, Signalling,
            CountsInv, NumbersOK, RemoveCountExact, ThreadHoldsLock, LockHolders,
            ThreadProbesLock, BaseLock,
            Stage, Completing, Returning, ThreadPC, StartPC, ShutdownPC, HaltPC,
            data, notLock, notSlots, notEvents, notPool, notThread, notHistory,
            lockVars, eventVars, poolVars, threadVars, historyVars
  <1>1. ASSUME ThreadStep PROVE EventIsOwed'
    <2>1. CASE ThreadLoop
      BY <2>1 DEF ThreadLoop
    <2>2. CASE ThreadAcquire
      BY <2>2 DEF ThreadAcquire
    <2>3. CASE ThreadTest
      BY <2>3 DEF ThreadTest
    <2>4. CASE ThreadBackout
      BY <2>4 DEF ThreadBackout
    <2>5. CASE ThreadSignal
      BY <2>5 DEF ThreadSignal
    <2>6. CASE ThreadAlloc
      BY <2>6 DEF ThreadAlloc
    <2>7. CASE ThreadCount
      BY <2>7 DEF ThreadCount
    <2>8. CASE ThreadSubmit
      BY <2>8 DEF ThreadSubmit
    <2>9. CASE ThreadCheck
      BY <2>9 DEF ThreadCheck
    <2>10. CASE ThreadClear
      BY <2>10 DEF ThreadClear
    <2>11. CASE ThreadWait
      BY <2>11 DEF ThreadWait
    <2>12. CASE ThreadExit
      BY <2>12 DEF ThreadExit
    <2>13. CASE ThreadClose
      BY <2>13 DEF ThreadClose
    <2> QED
      BY <1>1, <2>1, <2>2, <2>3, <2>4, <2>5, <2>6, <2>7, <2>8, <2>9, <2>10, <2>11, <2>12, <2>13
      DEF ThreadStep
  <1>2. ASSUME RoutineStep PROVE EventIsOwed'
    <2>1. CASE ConvertTake
      BY <2>1 DEF ConvertTake, Move
    <2>2. CASE ConvertDrop
      BY <2>2 DEF ConvertDrop, Move
    <2>3. CASE Indicate
      BY <2>3 DEF Indicate
    <2>4. CASE FailDecrement
      BY <2>4 DEF FailDecrement, Move
    <2>5. CASE FailRead
      BY <2>5 DEF FailRead, Move
    <2>6. CASE FailSet
      BY <2>6 DEF FailSet, Move
    <2>7. CASE CompletionRelease
      BY <2>7 DEF CompletionRelease, Move, Finish
    <2>8. CASE CompletionSignal
      BY <2>8 DEF CompletionSignal, Finish
    <2>9. CASE ReturnIdle
      BY <2>9 DEF ReturnIdle, Move
    <2>10. CASE ReturnDecrement
      BY <2>10 DEF ReturnDecrement, Move
    <2>11. CASE ReturnRead
      BY <2>11 DEF ReturnRead, Move, Finish
    <2>12. CASE ReturnSet
      BY <2>12 DEF ReturnSet, Finish
    <2> QED
      BY <1>2, <2>1, <2>2, <2>3, <2>4, <2>5, <2>6, <2>7, <2>8, <2>9, <2>10, <2>11, <2>12
      DEF RoutineStep
  <1>3. ASSUME WorkerStep PROVE EventIsOwed'
    <2>1. CASE StoreHandle
      BY <2>1 DEF StoreHandle
    <2>2. CASE EnableReceive
      BY <2>2 DEF EnableReceive
    <2>3. CASE HaltSetPending
      BY <2>3 DEF HaltSetPending
    <2>4. CASE HaltDropBase
      BY <2>4 DEF HaltDropBase
    <2>5. CASE HaltSignal
      BY <2>5 DEF HaltSignal
    <2>6. CASE HaltAbort
      BY <2>6 DEF HaltAbort, AbortReads
    <2>7. CASE HaltWaitRemove
      BY <2>7 DEF HaltWaitRemove
    <2>8. CASE HaltWaitClose
      BY <2>8 DEF HaltWaitClose
    <2>9. CASE HaltWaitCloseTimesOut
      BY <2>9 DEF HaltWaitCloseTimesOut
    <2>10. CASE HaltDropReceive
      BY <2>10 DEF HaltDropReceive
    <2>11. CASE HaltWaitIdle
      BY <2>11 DEF HaltWaitIdle
    <2>12. CASE HaltDrain
      BY <2>12 DEF HaltDrain
    <2>13. CASE HaltDrained
      BY <2>13 DEF HaltDrained
    <2>14. CASE HaltFreeAdapter
      BY <2>14 DEF HaltFreeAdapter
    <2>15. CASE ShutdownAbort
      BY <2>15 DEF ShutdownAbort, AbortReads
    <2>16. CASE ShutdownWait
      BY <2>16 DEF ShutdownWait
    <2> QED
      BY <1>3, <2>1, <2>2, <2>3, <2>4, <2>5, <2>6, <2>7, <2>8, <2>9, <2>10, <2>11, <2>12, <2>13, <2>14, <2>15, <2>16
      DEF WorkerStep, HaltStep
  <1>4. ASSUME Environment PROVE EventIsOwed'
    <2>1. CASE CompleteOk
      BY <2>1 DEF CompleteOk, Move
    <2>2. CASE CompleteFailed
      BY <2>2 DEF CompleteFailed, Move
    <2>3. CASE ReturnDescriptor
      BY <2>3 DEF ReturnDescriptor, Move
    <2>4. CASE HaltBegin
      BY <2>4 DEF HaltBegin, StopThread
    <2>5. CASE ShutdownBegin
      BY <2>5 DEF ShutdownBegin, StopThread
    <2>6. CASE ThreadAllocFails
      BY <2>6 DEF ThreadAllocFails
    <2> QED
      BY <1>4, <2>1, <2>2, <2>3, <2>4, <2>5, <2>6
      DEF Environment
  <1>5. CASE UNCHANGED vars
    BY <1>5 DEF vars
  <1> QED
    BY <1>1, <1>2, <1>3, <1>4, <1>5 DEF Next

\* The idle event, the wake-up of the thread, and the order of the halt: the close event
\* is the thread's last access, and the halt's loop ends only with it.
OwedInv ==
  /\ IdleIsOwed /\ WakeupIsOwed /\ FreedAfterThread
  /\ ReceiveCloseEvent => tpc = "gone"

\* Every decrement that is to wake somebody is followed by a test and a signal.
LEMMA OwedInvNext == CountsInv /\ OwedInv /\ [Next]_vars => OwedInv'
  <1> SUFFICES ASSUME CountsInv, OwedInv, [Next]_vars PROVE OwedInv'
    OBVIOUS
  <1> USE DEF OwedInv, IdleIsOwed, WakeupIsOwed, FreedAfterThread, PastWaits,
            CountsInv, NumbersOK,
            Stage, Completing, Returning, ThreadPC, StartPC, ShutdownPC, HaltPC,
            data, notLock, notSlots, notEvents, notPool, notThread, notHistory,
            lockVars, eventVars, poolVars, threadVars, historyVars
  <1>1. ASSUME ThreadStep PROVE OwedInv'
    <2>1. CASE ThreadLoop
      BY <2>1 DEF ThreadLoop
    <2>2. CASE ThreadAcquire
      BY <2>2 DEF ThreadAcquire
    <2>3. CASE ThreadTest
      BY <2>3 DEF ThreadTest
    <2>4. CASE ThreadBackout
      BY <2>4 DEF ThreadBackout
    <2>5. CASE ThreadSignal
      BY <2>5 DEF ThreadSignal
    <2>6. CASE ThreadAlloc
      BY <2>6 DEF ThreadAlloc
    <2>7. CASE ThreadCount
      BY <2>7 DEF ThreadCount
    <2>8. CASE ThreadSubmit
      BY <2>8 DEF ThreadSubmit
    <2>9. CASE ThreadCheck
      BY <2>9 DEF ThreadCheck
    <2>10. CASE ThreadClear
      BY <2>10 DEF ThreadClear
    <2>11. CASE ThreadWait
      BY <2>11 DEF ThreadWait
    <2>12. CASE ThreadExit
      BY <2>12 DEF ThreadExit
    <2>13. CASE ThreadClose
      BY <2>13 DEF ThreadClose
    <2> QED
      BY <1>1, <2>1, <2>2, <2>3, <2>4, <2>5, <2>6, <2>7, <2>8, <2>9, <2>10, <2>11, <2>12, <2>13
      DEF ThreadStep
  <1>2. ASSUME RoutineStep PROVE OwedInv'
    <2>1. CASE ConvertTake
      BY <2>1 DEF ConvertTake, Move
    <2>2. CASE ConvertDrop
      BY <2>2 DEF ConvertDrop, Move
    <2>3. CASE Indicate
      BY <2>3 DEF Indicate
    <2>4. CASE FailDecrement
      BY <2>4 DEF FailDecrement, Move
    <2>5. CASE FailRead
      BY <2>5 DEF FailRead, Move
    <2>6. CASE FailSet
      BY <2>6 DEF FailSet, Move
    <2>7. CASE CompletionRelease
      BY <2>7 DEF CompletionRelease, Move, Finish
    <2>8. CASE CompletionSignal
      BY <2>8 DEF CompletionSignal, Finish
    <2>9. CASE ReturnIdle
      BY <2>9 DEF ReturnIdle, Move
    <2>10. CASE ReturnDecrement
      BY <2>10 DEF ReturnDecrement, Move
    <2>11. CASE ReturnRead
      BY <2>11 DEF ReturnRead, Move, Finish
    <2>12. CASE ReturnSet
      BY <2>12 DEF ReturnSet, Finish
    <2> QED
      BY <1>2, <2>1, <2>2, <2>3, <2>4, <2>5, <2>6, <2>7, <2>8, <2>9, <2>10, <2>11, <2>12
      DEF RoutineStep
  <1>3. ASSUME WorkerStep PROVE OwedInv'
    <2>1. CASE StoreHandle
      BY <2>1 DEF StoreHandle
    <2>2. CASE EnableReceive
      BY <2>2 DEF EnableReceive
    <2>3. CASE HaltSetPending
      BY <2>3 DEF HaltSetPending
    <2>4. CASE HaltDropBase
      BY <2>4 DEF HaltDropBase
    <2>5. CASE HaltSignal
      BY <2>5 DEF HaltSignal
    <2>6. CASE HaltAbort
      BY <2>6 DEF HaltAbort, AbortReads
    <2>7. CASE HaltWaitRemove
      BY <2>7 DEF HaltWaitRemove
    <2>8. CASE HaltWaitClose
      BY <2>8 DEF HaltWaitClose
    <2>9. CASE HaltWaitCloseTimesOut
      BY <2>9 DEF HaltWaitCloseTimesOut
    <2>10. CASE HaltDropReceive
      BY <2>10 DEF HaltDropReceive
    <2>11. CASE HaltWaitIdle
      BY <2>11 DEF HaltWaitIdle
    <2>12. CASE HaltDrain
      BY <2>12 DEF HaltDrain
    <2>13. CASE HaltDrained
      BY <2>13 DEF HaltDrained
    <2>14. CASE HaltFreeAdapter
      BY <2>14 DEF HaltFreeAdapter
    <2>15. CASE ShutdownAbort
      BY <2>15 DEF ShutdownAbort, AbortReads
    <2>16. CASE ShutdownWait
      BY <2>16 DEF ShutdownWait
    <2> QED
      BY <1>3, <2>1, <2>2, <2>3, <2>4, <2>5, <2>6, <2>7, <2>8, <2>9, <2>10, <2>11, <2>12, <2>13, <2>14, <2>15, <2>16
      DEF WorkerStep, HaltStep
  <1>4. ASSUME Environment PROVE OwedInv'
    <2>1. CASE CompleteOk
      BY <2>1 DEF CompleteOk, Move
    <2>2. CASE CompleteFailed
      BY <2>2 DEF CompleteFailed, Move
    <2>3. CASE ReturnDescriptor
      BY <2>3 DEF ReturnDescriptor, Move
    <2>4. CASE HaltBegin
      BY <2>4 DEF HaltBegin, StopThread
    <2>5. CASE ShutdownBegin
      BY <2>5 DEF ShutdownBegin, StopThread
    <2>6. CASE ThreadAllocFails
      BY <2>6 DEF ThreadAllocFails
    <2> QED
      BY <1>4, <2>1, <2>2, <2>3, <2>4, <2>5, <2>6
      DEF Environment
  <1>5. CASE UNCHANGED vars
    BY <1>5 DEF vars
  <1> QED
    BY <1>1, <1>2, <1>3, <1>4, <1>5 DEF Next

----------------------------------------------------------------------------
(* The theorems *)

\* The parts together.
LEMMA IInvNext == IInv /\ [Next]_vars => IInv'
  BY FlagsNext, CountsInvNext, LockInvNext, IdleInvNext, BudgetInvNext DEF IInv

\* The inductive invariant holds in every state.
THEOREM Invariance == Spec => []IInv
  BY IInvInit, IInvNext, PTL DEF Spec

\* No counter of the receive path goes below zero and every variable keeps its
\* type.
THEOREM TypeCorrect == Spec => []TypeOK
  <1>1. IInv => TypeOK
    BY DEF IInv, CountsInv, TypeOK
  <1> QED
    BY Invariance, <1>1, PTL

\* RemoveCount is the base count, the reads under way, a thread being refused
\* and the counts lost on the error path.
THEOREM RemoveCountIsExact == Spec => []RemoveCountExact
  <1>1. IInv => RemoveCountExact
    BY DEF IInv, CountsInv
  <1> QED
    BY Invariance, <1>1, PTL

\* ReceiveCount is the base count and the descriptors out of the list, and no
\* descriptor is lost.
THEOREM DescriptorsAreExact == Spec => [](ReceiveCountExact /\ DescriptorsConserved)
  <1>1. IInv => ReceiveCountExact /\ DescriptorsConserved
    BY DEF IInv, CountsInv
  <1> QED
    BY Invariance, <1>1, PTL

\* ReceiveUsbPacket counts the reads, the lent packets and the dropped ones.
THEOREM SlotsAreExact == Spec => []SlotsExact
  <1>1. IInv => SlotsExact
    BY DEF IInv, CountsInv
  <1> QED
    BY Invariance, <1>1, PTL

\* The slot limit is exceeded by at most one for each routine running.
THEOREM Overshoot == Spec => []OvershootBounded
  <1>1. IInv => OvershootBounded
    <2> SUFFICES ASSUME IInv PROVE OvershootBounded
      OBVIOUS
    <2>1. /\ ReceiveUsbPacket \in Nat /\ WillCount \in Nat
          /\ at["failSet"] \in Nat /\ at["retSet"] \in Nat
      BY DEF IInv, CountsInv, NumbersOK, WillCount, Stage, Completing, Returning
    <2> QED
      BY <2>1 DEF IInv, BudgetInv, OvershootBounded
  <1> QED
    BY Invariance, <1>1, PTL

\* RemoveEvent is set only when no read is under way and none will follow.
THEOREM SignalMeansQuiet == Spec => []SignalledIsQuiet
  <1>1. IInv => SignalledIsQuiet
    <2> SUFFICES ASSUME IInv, RemoveEvent PROVE HaltPending /\ LockHolders = 0
      BY DEF SignalledIsQuiet
    <2>1. BaseLock = 0 /\ LockHolders = 0
      BY DEF IInv, LockInv, Signalling
    <2>2. hpc \in HaltPC \ {"setPending"}
      BY <2>1 DEF BaseLock, IInv, CountsInv, NumbersOK
    <2> QED
      BY <2>1, <2>2 DEF IInv, LockInv
  <1> QED
    BY Invariance, <1>1, PTL

\* A halt that saw RemoveEvent set has every descriptor freed when it frees the
\* adapter.
THEOREM DrainCompletes == Spec => []DrainIsComplete
  <1>1. IInv => DrainIsComplete
    BY DEF IInv, LockInv, IdleInv, Signalling, Draining, DrainIsComplete
  <1> QED
    BY Invariance, <1>1, PTL

\* The safety half of the halt's progress: a remove lock all of whose counts are back has
\* signalled, or is about to.
THEOREM NoSignalIsLost == Spec => []EventIsOwed
  <1>1. Init => EventIsOwed
    BY DEF Init, EventIsOwed, BaseLock, ThreadProbesLock, LockHolders, ThreadHoldsLock,
           StartPC, Stage, Completing, Returning
  <1>2. IInv => CountsInv
    BY DEF IInv
  <1> QED
    BY Invariance, EventIsOwedNext, <1>1, <1>2, PTL DEF Spec

LEMMA OwedInvariance == Spec => []OwedInv
  <1>1. Init => OwedInv
    BY DEF Init, OwedInv, IdleIsOwed, WakeupIsOwed, FreedAfterThread, PastWaits
  <1>2. IInv => CountsInv
    BY DEF IInv
  <1> QED
    BY Invariance, OwedInvNext, <1>1, <1>2, PTL DEF Spec

\* A SaitFreeReceive with nothing left to wait for has its event, or a SaitReturnPacket
\* is about to set it; this needs no safe halt before it.
THEOREM NoIdleEventIsLost == Spec => []IdleIsOwed
  BY OwedInvariance, PTL DEF OwedInv

\* A wake-up of the receive thread is lost only by the clear after the wait's test, for
\* every number of slots, every threshold and every order of completions and returns.
THEOREM OnlyLateClearLosesWakeup == Spec => []WakeupIsOwed
  BY OwedInvariance, PTL DEF OwedInv

\* The receive side is taken apart, and the adapter freed, only after its thread is gone,
\* however often the waits before time out and whether or not the halt was safe.
THEOREM ThreadEndsFirst == Spec => []FreedAfterThread
  BY OwedInvariance, PTL DEF OwedInv

\* The slots in use are at least the slots lost.
LEMMA SlotsLost == CountsInv => ReceiveUsbPacket \in Nat /\ lostSlots <= ReceiveUsbPacket
  BY DEF CountsInv, NumbersOK, SlotsExact, Stage, Completing, Returning

\* No step ends a stall: the thread has only its wait to take, no routine sets the event,
\* and with nothing out no routine starts.
LEMMA StallNext == CountsInv /\ Stalled /\ [Next]_vars => Stalled'
  <1> SUFFICES ASSUME CountsInv, Stalled, [Next]_vars PROVE Stalled'
    OBVIOUS
  <1> USE DEF Stalled, Stage, Completing, Returning, 
            data, notLock, notSlots, notEvents, notPool, notThread, notHistory,
            lockVars, eventVars, poolVars, threadVars, historyVars
  <1>1. /\ at \in [Stage -> Nat] /\ lostSlots \in Nat /\ ReceiveUsbPacket \in Nat
        /\ lostSlots >= WakeBelow => ReceiveUsbPacket >= WakeBelow
    BY SlotsLost DEF CountsInv, NumbersOK
  <1>2. ASSUME ThreadStep \/ ThreadAllocFails PROVE FALSE
    BY <1>2 DEF ThreadStep, ThreadLoop, ThreadAcquire, ThreadTest, ThreadBackout,
                ThreadSignal, ThreadAlloc, ThreadAllocFails, ThreadCount, ThreadSubmit,
                ThreadCheck, ThreadClear, ThreadWait, ThreadExit, ThreadClose
  <1>3. ASSUME RoutineStep PROVE Stalled'
    <2>1. CASE ConvertTake
      BY <2>1, <1>1 DEF ConvertTake, Move
    <2>2. CASE ConvertDrop
      BY <2>2, <1>1 DEF ConvertDrop, Move
    <2>3. CASE Indicate
      BY <2>3, <1>1 DEF Indicate
    <2>4. CASE FailDecrement
      BY <2>4, <1>1 DEF FailDecrement, Move
    <2>5. CASE FailRead
      <3>1. at["failRead"] > 0
        BY <2>5 DEF FailRead, Move
      <3>2. lostSlots >= WakeBelow /\ ~(ReceiveUsbPacket < WakeBelow)
        BY <1>1, <3>1
      <3>3. Move("failRead", "release")
        BY <2>5, <3>2 DEF FailRead
      <3> QED
        BY <2>5, <1>1, <3>2, <3>3 DEF FailRead, Move
    <2>6. CASE FailSet
      BY <2>6, <1>1 DEF FailSet, Move
    <2>7. CASE CompletionRelease
      BY <2>7, <1>1 DEF CompletionRelease, Move, Finish
    <2>8. CASE CompletionSignal
      BY <2>8, <1>1 DEF CompletionSignal, Finish
    <2>9. CASE ReturnIdle
      BY <2>9, <1>1 DEF ReturnIdle, Move
    <2>10. CASE ReturnDecrement
      BY <2>10, <1>1 DEF ReturnDecrement, Move
    <2>11. CASE ReturnRead
      <3>1. at["retRead"] > 0
        BY <2>11 DEF ReturnRead, Move, Finish
      <3>2. lostSlots >= WakeBelow /\ ~(ReceiveUsbPacket < WakeBelow)
        BY <1>1, <3>1
      <3>3. Finish("retRead")
        BY <2>11, <3>2 DEF ReturnRead
      <3> QED
        BY <2>11, <1>1, <3>2, <3>3 DEF ReturnRead, Finish
    <2>12. CASE ReturnSet
      BY <2>12, <1>1 DEF ReturnSet, Finish
    <2> QED
      BY <1>3, <2>1, <2>2, <2>3, <2>4, <2>5, <2>6, <2>7, <2>8, <2>9, <2>10, <2>11, <2>12
      DEF RoutineStep
  <1>4. ASSUME CompleteOk \/ CompleteFailed \/ ReturnDescriptor PROVE Stalled'
    <2>1. CASE CompleteOk
      BY <2>1, <1>1 DEF CompleteOk, Move
    <2>2. CASE CompleteFailed
      BY <2>2, <1>1 DEF CompleteFailed, Move
    <2>3. CASE ReturnDescriptor
      BY <2>3, <1>1 DEF ReturnDescriptor, Move
    <2> QED
      BY <1>4, <2>1, <2>2, <2>3
  <1>5. CASE HaltAbort \/ ShutdownAbort
    BY <1>1, <1>5 DEF HaltAbort, ShutdownAbort, AbortReads
  <1>6. CASE WorkerStep /\ ~HaltAbort /\ ~ShutdownAbort
    BY <1>1, <1>6 DEF WorkerStep, HaltStep, StoreHandle, EnableReceive, HaltSetPending,
                      HaltDropBase, HaltSignal, HaltWaitRemove, HaltWaitClose,
                      HaltWaitCloseTimesOut, HaltDropReceive, HaltWaitIdle, HaltDrain,
                      HaltDrained, HaltFreeAdapter, ShutdownWait
  <1>7. CASE HaltBegin \/ ShutdownBegin \/ UNCHANGED vars
    BY <1>1, <1>7 DEF HaltBegin, ShutdownBegin, StopThread, vars
  <1> QED
    BY <1>2, <1>3, <1>4, <1>5, <1>6, <1>7 DEF Next, Environment

\* A thread that waits with nobody left to wake it waits for good, and every halt with it.
THEOREM StallNeverEnds == Spec => StallIsForGood
  <1>1. IInv /\ OwedInv /\ [Next]_vars => [Stalled => Stalled' /\ hpc' \notin PastWaits]_vars
    <2> SUFFICES ASSUME CountsInv, OwedInv, [Next]_vars, Stalled
                 PROVE  Stalled' /\ hpc' \notin PastWaits
      BY DEF IInv
    <2>1. Stalled' /\ OwedInv'
      BY StallNext, OwedInvNext
    <2> QED
      BY <2>1 DEF OwedInv, FreedAfterThread, Stalled
  <1> QED
    BY Invariance, OwedInvariance, <1>1, PTL DEF Spec, StallIsForGood

----------------------------------------------------------------------------
(* Refinement *)

\* The lock holders of the refinement are a natural number.
LEMMA InsideIsNat == CountsInv => LockHolders + lostLocks \in Nat
  BY DEF CountsInv, NumbersOK, LockHolders, ThreadHoldsLock, Stage, Completing, Returning

\* Steps that set RemoveEvent do so in a closed and empty lock.
LEMMA DrainsStep ==
  ASSUME CountsInv, LockInv, ThreadSignal \/ HaltSignal \/ CompletionSignal
  PROVE  rundown!Drain
  <1> USE DEF notLock, historyVars, Stage, Completing, Returning
  <1>1. HaltPending /\ LockHolders = 0 /\ lostLocks = 0
    <2>1. Signalling
      BY DEF Signalling, ThreadSignal, HaltSignal, CompletionSignal, Finish
    <2>2. hpc \in HaltPC \ {"setPending"}
      BY <2>1 DEF LockInv, BaseLock, CountsInv, NumbersOK
    <2> QED
      BY <2>1, <2>2 DEF LockInv
  <1>2. HaltPending' = HaltPending /\ RemoveEvent' = TRUE /\ lostLocks' = lostLocks
    BY DEF ThreadSignal, HaltSignal, CompletionSignal
  <1>3. LockHolders' = LockHolders
    <2>1. CASE ThreadSignal
      BY <2>1 DEF ThreadSignal, LockHolders, ThreadHoldsLock
    <2>2. CASE HaltSignal
      BY <2>2 DEF HaltSignal, LockHolders, ThreadHoldsLock
    <2>3. CASE CompletionSignal
      BY <2>3 DEF CompletionSignal, Finish, LockHolders, ThreadHoldsLock, CountsInv, NumbersOK
    <2> QED
      BY <2>1, <2>2, <2>3
  <1> QED
    BY <1>1, <1>2, <1>3 DEF rundown!Drain

\* Steps that neither let a read in nor out.
LEMMA StutterStep ==
  ASSUME LockHolders' + lostLocks' = LockHolders + lostLocks,
         UNCHANGED <<HaltPending, RemoveEvent>>
  PROVE  UNCHANGED rundown!vars
  BY DEF rundown!vars

\* The receive path uses the remove lock as Rundown promises: a read enters when
\* the thread reads HaltPending as FALSE and leaves with the decrement at the end
\* of its completion routine; a read whose error path keeps the lock never leaves.
THEOREM Refinement == Spec => RefinesRundown
  <1> DEFINE step == [rundown!Next]_(rundown!vars)
  <1>1. Init => rundown!Init
    <2> SUFFICES ASSUME Init PROVE rundown!Init
      OBVIOUS
    <2>1. LockHolders = 0
      BY DEF Init, LockHolders, ThreadHoldsLock, Stage, Completing, Returning
    <2> QED
      BY <2>1 DEF Init, rundown!Init
  <1>2. IInv /\ [Next]_vars => step
    <2> SUFFICES ASSUME CountsInv, LockInv, [Next]_vars PROVE step
      BY DEF IInv
    <2> USE DEF CountsInv, NumbersOK, LockHolders, ThreadHoldsLock, Stage, Completing, Returning,
              data, notLock, notSlots, notEvents, notPool, notThread, notHistory,
              lockVars, eventVars, poolVars, threadVars, historyVars, rundown!vars
    <2> HIDE DEF step
    <2>1. CASE ThreadSignal \/ HaltSignal \/ CompletionSignal
      BY <2>1, DrainsStep DEF step, rundown!Next
    <2>2. CASE ThreadLoop \/ ThreadAcquire \/ ThreadBackout
      BY <2>2, StutterStep DEF step, ThreadLoop, ThreadAcquire, ThreadBackout
    <2>3. CASE ThreadTest
      <3>1. CASE HaltPending
        BY <2>3, <3>1, StutterStep DEF step, ThreadTest
      <3>2. CASE ~HaltPending
        <4>1. LockHolders' + lostLocks' = LockHolders + lostLocks + 1
          BY <2>3, <3>2 DEF ThreadTest
        <4> QED
          BY <2>3, <3>2, <4>1 DEF step, ThreadTest, rundown!Next, rundown!Enter
      <3> QED
        BY <3>1, <3>2
    <2>4. CASE ThreadAlloc \/ ThreadCount \/ ThreadCheck
      BY <2>4, StutterStep DEF step, ThreadAlloc, ThreadCount, ThreadCheck
    <2>5. CASE ThreadClear \/ ThreadWait \/ ThreadExit \/ ThreadClose
      BY <2>5, StutterStep DEF step, ThreadClear, ThreadWait, ThreadExit, ThreadClose
    <2>6. CASE ThreadSubmit
      BY <2>6, StutterStep DEF step, ThreadSubmit
    <2>7. CASE ThreadAllocFails
      BY <2>7, StutterStep DEF step, ThreadAllocFails
    <2>8. CASE ConvertTake
      BY <2>8, StutterStep DEF step, ConvertTake, Move
    <2>9. CASE ConvertDrop
      BY <2>9, StutterStep DEF step, ConvertDrop, Move
    <2>10. CASE Indicate
      BY <2>10, StutterStep DEF step, Indicate
    <2>11. CASE FailDecrement
      BY <2>11, StutterStep DEF step, FailDecrement, Move
    <2>12. CASE FailRead
      BY <2>12, StutterStep DEF step, FailRead, Move
    <2>13. CASE FailSet
      BY <2>13, StutterStep DEF step, FailSet, Move
    <2>14. CASE CompletionRelease
      <3>1. /\ at["release"] > 0 /\ LockHolders > 0
            /\ LockHolders' + lostLocks' = LockHolders + lostLocks - 1
        BY <2>14, SMTT(40) DEF CompletionRelease, Move, Finish
      <3> QED
        BY <2>14, <3>1, SMTT(40) DEF step, CompletionRelease, rundown!Next, rundown!Leave
    <2>15. CASE CompleteOk
      BY <2>15, StutterStep DEF step, CompleteOk, Move
    <2>16. CASE CompleteFailed
      BY <2>16, StutterStep DEF step, CompleteFailed, Move
    <2>17. CASE ReturnDescriptor
      BY <2>17, StutterStep DEF step, ReturnDescriptor, Move
    <2>18. CASE ReturnIdle
      BY <2>18, StutterStep DEF step, ReturnIdle, Move
    <2>19. CASE ReturnDecrement
      BY <2>19, StutterStep DEF step, ReturnDecrement, Move
    <2>20. CASE ReturnRead
      BY <2>20, StutterStep DEF step, ReturnRead, Move, Finish
    <2>21. CASE ReturnSet
      BY <2>21, StutterStep DEF step, ReturnSet, Move, Finish
    <2>22. CASE StoreHandle \/ EnableReceive \/ HaltBegin \/ ShutdownBegin
      BY <2>22, StutterStep DEF step, StoreHandle, EnableReceive, HaltBegin, ShutdownBegin, StopThread
    <2>23. CASE HaltSetPending
      <3>1. ~HaltPending
        BY <2>23 DEF HaltSetPending, LockInv, HaltPC
      <3>2. LockHolders' + lostLocks' = LockHolders + lostLocks
        BY <2>23 DEF HaltSetPending
      <3> QED
        BY <2>23, <3>1, <3>2 DEF step, HaltSetPending, rundown!Next, rundown!Close
    <2>24. CASE HaltDropBase \/ HaltWaitRemove \/ HaltWaitClose \/ HaltWaitCloseTimesOut
      BY <2>24, StutterStep DEF step, HaltDropBase, HaltWaitRemove, HaltWaitClose, HaltWaitCloseTimesOut
    <2>25. CASE HaltAbort \/ ShutdownAbort
      BY <2>25, StutterStep DEF step, HaltAbort, ShutdownAbort, AbortReads
    <2>26. CASE HaltDropReceive \/ HaltWaitIdle \/ HaltDrain \/ HaltDrained
               \/ HaltFreeAdapter
      BY <2>26, StutterStep DEF step, HaltDropReceive, HaltWaitIdle,
                              HaltDrain, HaltDrained, HaltFreeAdapter
    <2>27. CASE ShutdownWait
      BY <2>27, StutterStep DEF step, ShutdownWait
    <2>28. CASE UNCHANGED vars
      BY <2>28, StutterStep DEF step, vars
    <2> QED
      BY <2>1, <2>2, <2>3, <2>4, <2>5, <2>6, <2>7, <2>8, <2>9, 
         <2>10, <2>11, <2>12, <2>13, <2>14, <2>15, <2>16, <2>17, <2>18, 
         <2>19, <2>20, <2>21, <2>22, <2>23, <2>24, <2>25, <2>26, <2>27, 
         <2>28
      DEF Next, ThreadStep, RoutineStep, WorkerStep, HaltStep, Environment
  <1> QED
    BY Invariance, IInvInit, IInvNext, <1>1, <1>2, PTL DEF Spec, RefinesRundown, rundown!Spec
============================================================================
