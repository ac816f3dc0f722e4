-------------------------- MODULE WritePathProofs --------------------------
(***************************************************************************)
(* The transmission of send.c for every set of writes and every size: the  *)
(* proofs about the remove lock carry over, as every step of a write is a  *)
(* step of the lock or leaves it alone; no context is lost; the contexts   *)
(* are freed only when no transfer uses one; every transfer ends short.    *)
(***************************************************************************)
EXTENDS WritePath, RemoveLockProofs

\* A step of the write path is a step of the lock or a stutter of it.
LEMMA WriteNextIsLockNext == [WriteNext]_allVars => [Next]_vars
  <1> SUFFICES ASSUME [WriteNext]_allVars PROVE [Next]_vars
    OBVIOUS
  <1>1. ASSUME NEW u \in Users, Write(u) \/ Enter(u) \/ BackOut(u) \/ SetEvent(u)
                                \/ CompleteRelease(u)
        PROVE  Next
    BY <1>1 DEF Write, Enter, BackOut, SetEvent, CompleteRelease, Next, UserStep
  <1>2. ASSUME NEW u \in Users, \/ AllocateIrp(u) \/ GetWriteContext(u)
                                \/ ConvertNdisToUsb(u) \/ Submit(u) \/ GiveBack(u)
                                \/ BusCompletes(u) \/ PushWriteContext(u)
        PROVE  UNCHANGED vars
    BY <1>2 DEF AllocateIrp, GetWriteContext, ConvertNdisToUsb, Submit, GiveBack,
                BusCompletes, PushWriteContext
  <1>3. CASE HaltStep
    BY <1>3 DEF Next
  <1>4. CASE FreeSend \/ UNCHANGED allVars
    BY <1>4 DEF FreeSend, allVars
  <1> QED
    BY <1>1, <1>2, <1>3, <1>4 DEF WriteNext, WriteGoesOn

\* The write path is a use of the lock: what is proved of the lock holds of it.
THEOREM WritesUseTheLock == WriteSpec => Spec
  <1>1. WriteInit => Init
    BY DEF WriteInit
  <1> QED
    BY <1>1, WriteNextIsLockNext, PTL DEF WriteSpec, Spec

\* RemoveCount counts the writes that have a count, abandoned ones included, and no
\* assertion of the lock fires on any path of a write.
THEOREM WriteCountIsExact == WriteSpec => []RemoveCountExact
  BY WritesUseTheLock, CountIsExact, PTL

\* Once the halt has its event no write is let in.
THEOREM NoWriteEntersAfterSignal == WriteSpec => NobodyEntersAfterSignal
  BY WritesUseTheLock, SignalMeansClosed, PTL

\* The completion that gives back the last count signals the halt, on whichever path
\* the other writes ended.
THEOREM WritesLoseNoSignal == WriteSpec => []EventIsOwed
  BY WritesUseTheLock, NoSignalIsLost, PTL

\* The lock as the writes and the halt use it implements Rundown.
THEOREM WritePathRefinesRundown == WriteSpec => RefinesRundown
  BY WritesUseTheLock, Refinement, PTL

----------------------------------------------------------------------------
(* Types, and the stage of each write *)

\* The length of a transfer is positive, has at most one byte more than the packet,
\* and leaves the last packet of the pipe short.
LEMMA TransferLengthOK ==
  ASSUME NEW p \in Packets, Converts(p)
  PROVE  /\ TransferLength(p.length) \in 1..(MaxTotalSize + Slack)
         /\ TransferLength(p.length) % FirstPipeSize # 0
  <1> DEFINE n == p.length
  <1>1. n \in Nat \ {0} /\ n <= MaxTotalSize
    BY WriteAssumption DEF Converts
  <1>2. CASE n % FirstPipeSize = 0
    <2>1. (n + 1) % FirstPipeSize # 0
      BY <1>1, <1>2, WriteAssumption
    <2> QED
      BY <1>1, <1>2, <2>1, WriteAssumption DEF TransferLength
  <1>3. CASE n % FirstPipeSize # 0
    BY <1>1, <1>3, WriteAssumption DEF TransferLength
  <1> QED
    BY <1>2, <1>3

\* What the lengths of WriteTypeOK and TransferEndsShort need: only a converted
\* packet is submitted.
LengthsOK ==
    \A u \in Users : wpc[u] \in {"submit", "bus"} =>
        /\ BufferLen[u] \in 1..(MaxTotalSize + Slack)
        /\ BufferLen[u] % FirstPipeSize # 0

\* The halt's wait succeeds only with the event set, and only the halt frees.
HaltOrder ==
    /\ hpc = "safe" => RemoveEvent
    /\ sendFreed => hpc \in {"safe", "gaveUp"}

WInv == IInv /\ WriteTypeOK /\ LengthsOK /\ HaltOrder

\* At the start every write is idle.
LEMMA WInvInit == WriteInit => WInv
  <1> SUFFICES ASSUME WriteInit PROVE WInv
    OBVIOUS
  <1>1. IInv
    BY IInvInit DEF WriteInit
  <1>2. allocated \in Nat /\ contexts \in Nat
    BY WriteAssumption DEF WriteInit
  <1>3. wpc \in [Users -> WritePC] /\ BufferLen \in [Users -> Nat]
    BY DEF WriteInit, WritePC
  <1>4. \A u \in Users : upc[u] \in UserPCOf(wpc[u])
    BY DEF WriteInit, Init, UserPCOf
  <1>5. WriteTypeOK
    BY <1>1, <1>2, <1>3, <1>4 DEF WriteInit, WriteTypeOK, IInv
  <1>6. LengthsOK
    BY DEF WriteInit, LengthsOK
  <1>7. HaltOrder
    BY DEF WriteInit, Init, HaltOrder
  <1> QED
    BY <1>1, <1>5, <1>6, <1>7 DEF WInv

\* The invariant of the write path is kept by every step.
LEMMA WInvNext == WInv /\ [WriteNext]_allVars => WInv'
  <1> SUFFICES ASSUME WInv, [WriteNext]_allVars PROVE WInv'
    OBVIOUS
  <1>0. IInv' /\ TypeOK'
    BY WriteNextIsLockNext, IInvNext DEF WInv, IInv
  <1> DEFINE Rest == /\ allocated' = allocated /\ contexts' \in Nat
                     /\ sendFreed' = sendFreed
             HaltSame == hpc' = hpc /\ (RemoveEvent => RemoveEvent')
  <1>t. /\ wpc \in [Users -> WritePC] /\ BufferLen \in [Users -> Nat]
        /\ upc \in [Users -> UserPC]
        /\ contexts \in Nat /\ allocated \in 0..MaxContexts /\ sendFreed \in BOOLEAN
        /\ \A u \in Users : upc[u] \in UserPCOf(wpc[u])
    BY DEF WInv, WriteTypeOK, IInv, TypeOK
  <1>k. ASSUME /\ wpc' \in [Users -> WritePC]
               /\ \A v \in Users : upc'[v] \in UserPCOf(wpc'[v])
               /\ BufferLen' \in [Users -> Nat]
               /\ Rest /\ LengthsOK' /\ HaltOrder'
        PROVE  WInv'
    BY <1>0, <1>k, <1>t DEF WInv, WriteTypeOK
  <1>h. HaltSame /\ Rest => HaltOrder'
    BY DEF WInv, HaltOrder
  \* A write moves to a stage from which nothing is submitted, or to the bus.
  <1>m. ASSUME NEW u \in Users, NEW pc \in WritePC,
               wpc' = [wpc EXCEPT ![u] = pc], BufferLen' = BufferLen,
               \/ pc \notin {"submit", "bus"} \/ wpc[u] \in {"submit", "bus"},
               \A v \in Users \ {u} : upc'[v] = upc[v],
               upc'[u] \in UserPCOf(pc),
               Rest, HaltSame
        PROVE  WInv'
    <2>1. wpc' \in [Users -> WritePC] /\ BufferLen' \in [Users -> Nat]
      BY <1>t, <1>m
    <2>2. \A v \in Users : upc'[v] \in UserPCOf(wpc'[v])
      BY <1>t, <1>m
    <2>3. LengthsOK'
      BY <1>t, <1>m DEF WInv, LengthsOK
    <2> QED
      BY <1>h, <1>k, <1>m, <2>1, <2>2, <2>3
  <1>1. ASSUME NEW u \in Users, Write(u) PROVE WInv'
    BY <1>1, <1>m, <1>t DEF Write, Increment, GotoW, WritePC, UserPCOf
  <1>2. ASSUME NEW u \in Users, Enter(u) PROVE WInv'
    <2>1. CASE HaltPending
      BY <1>2, <2>1, <1>m, <1>t DEF Enter, TestHaltPending, GotoW, WritePC, UserPCOf
    <2>2. CASE ~HaltPending
      BY <1>2, <2>2, <1>m, <1>t DEF Enter, TestHaltPending, GotoW, WritePC, UserPCOf
    <2> QED
      BY <2>1, <2>2
  <1>3. ASSUME NEW u \in Users, BackOut(u) PROVE WInv'
    BY <1>3, <1>m, <1>t DEF BackOut, Release, GotoW, WritePC, UserPCOf
  <1>4. ASSUME NEW u \in Users, CompleteRelease(u) PROVE WInv'
    BY <1>4, <1>m, <1>t DEF CompleteRelease, Release, GotoW, WritePC, UserPCOf
  <1>5. ASSUME NEW u \in Users, AllocateIrp(u) PROVE WInv'
    BY <1>5, <1>m, <1>t DEF AllocateIrp, GotoW, WritePC, UserPCOf, vars
  <1>6. ASSUME NEW u \in Users, GetWriteContext(u) PROVE WInv'
    <2>1. contexts' \in Nat
      BY <1>6, <1>t DEF GetWriteContext
    <2> QED
      BY <1>6, <2>1, <1>m, <1>t DEF GetWriteContext, GotoW, WritePC, UserPCOf, vars
  <1>7. ASSUME NEW u \in Users, ConvertNdisToUsb(u) PROVE WInv'
    <2> PICK p \in Packets :
          /\ BufferLen' = [BufferLen EXCEPT ![u] =
                IF Converts(p) THEN TransferLength(p.length) ELSE 0]
          /\ GotoW(u, IF Converts(p) THEN "submit" ELSE "giveBack")
      BY <1>7 DEF ConvertNdisToUsb
    <2>1. Converts(p) => /\ TransferLength(p.length) \in 1..(MaxTotalSize + Slack)
                         /\ TransferLength(p.length) % FirstPipeSize # 0
      BY TransferLengthOK
    <2>2. MaxTotalSize + Slack \in Nat
      BY WriteAssumption
    <2>3. wpc' \in [Users -> WritePC] /\ BufferLen' \in [Users -> Nat]
      BY <1>t, <2>1, <2>2 DEF GotoW, WritePC
    <2>4. \A v \in Users : upc'[v] \in UserPCOf(wpc'[v])
      BY <1>7, <1>t DEF ConvertNdisToUsb, GotoW, UserPCOf, vars
    <2>5. LengthsOK'
      BY <1>t, <2>1 DEF WInv, LengthsOK, GotoW
    <2> QED
      BY <1>7, <1>h, <1>k, <1>t, <2>3, <2>4, <2>5 DEF ConvertNdisToUsb, vars
  <1>8. ASSUME NEW u \in Users, Submit(u) PROVE WInv'
    BY <1>8, <1>m, <1>t DEF Submit, GotoW, WritePC, UserPCOf, vars
  <1>9. ASSUME NEW u \in Users, GiveBack(u) PROVE WInv'
    <2>1. contexts' \in Nat
      BY <1>9, <1>t DEF GiveBack
    <2> QED
      BY <1>9, <2>1, <1>m, <1>t DEF GiveBack, GotoW, WritePC, UserPCOf, vars
  <1>10. ASSUME NEW u \in Users, BusCompletes(u) PROVE WInv'
    BY <1>10, <1>m, <1>t DEF BusCompletes, GotoW, WritePC, UserPCOf, vars
  <1>11. ASSUME NEW u \in Users, PushWriteContext(u) PROVE WInv'
    <2>1. contexts' \in Nat
      BY <1>11, <1>t DEF PushWriteContext
    <2> QED
      BY <1>11, <2>1, <1>m, <1>t DEF PushWriteContext, GotoW, WritePC, UserPCOf, vars
  <1>12. ASSUME NEW u \in Users, SetEvent(u) PROVE WInv'
    <2>1. \A v \in Users : upc'[v] \in UserPCOf(wpc'[v])
      BY <1>12, <1>t DEF SetEvent, Signal, writeVars, UserPCOf
    <2>2. LengthsOK'
      BY <1>12 DEF WInv, LengthsOK, SetEvent, writeVars
    <2> QED
      BY <1>12, <1>h, <1>k, <1>t, <2>1, <2>2 DEF SetEvent, Signal, writeVars
  <1>13. CASE ~sendFreed /\ HaltStep /\ UNCHANGED writeVars
    <2>1. \A v \in Users : upc'[v] \in UserPCOf(wpc'[v])
      BY <1>13, <1>t DEF HaltStep, HaltSetPending, HaltRelease, HaltSignal, HaltWait,
                         HaltGiveUp, writeVars
    <2>2. LengthsOK'
      BY <1>13 DEF WInv, LengthsOK, writeVars
    <2>3. HaltOrder'
      BY <1>13 DEF WInv, HaltOrder, HaltStep, HaltSetPending, HaltRelease, HaltSignal,
                   HaltWait, HaltGiveUp, writeVars
    <2> QED
      BY <1>13, <1>k, <1>t, <2>1, <2>2, <2>3 DEF writeVars
  <1>14. CASE FreeSend
    BY <1>0, <1>14, <1>t DEF FreeSend, vars, WInv, WriteTypeOK, LengthsOK, HaltOrder
  <1>15. CASE UNCHANGED allVars
    BY <1>0, <1>15 DEF allVars, vars, writeVars, WInv, WriteTypeOK, LengthsOK, HaltOrder
  <1> QED
    BY <1>1, <1>2, <1>3, <1>4, <1>5, <1>6, <1>7, <1>8, <1>9, <1>10, <1>11, <1>12,
       <1>13, <1>14, <1>15 DEF WriteNext, WriteGoesOn

\* The stage of a write and its part of the remove lock always go together.
THEOREM WriteTypeCorrect == WriteSpec => []WriteTypeOK
  <1>1. WInv => WriteTypeOK
    BY DEF WInv
  <1> QED
    BY WInvInit, WInvNext, <1>1, PTL DEF WriteSpec

\* Every transfer fits its buffer and ends with a short packet, for every packet
\* size of the pipes, if the two pipes agree on it.
THEOREM TransfersEndShort == WriteSpec => []TransferEndsShort
  <1>1. WInv => TransferEndsShort
    BY DEF WInv, LengthsOK, TransferEndsShort
  <1> QED
    BY WInvInit, WInvNext, <1>1, PTL DEF WriteSpec

\* SaitFreeSend frees the contexts, after a wait that succeeded, with no transfer on
\* the bus, no call between acquire and submit and no write abandoned.
THEOREM FreeingIsSafe == WriteSpec => []FreedAfterTransfers
  <1>1. WInv => FreedAfterTransfers
    <2> SUFFICES ASSUME WInv, sendFreed, hpc # "gaveUp", NEW u \in Users
                 PROVE  wpc[u] \in Freeable
      BY DEF FreedAfterTransfers
    <2>1. RemoveEvent
      BY DEF WInv, HaltOrder
    <2>2. upc[u] # "holding"
      BY <2>1, IInvSignalled DEF WInv, SignalledIsEmpty, Holders
    <2> QED
      BY <2>2 DEF WInv, WriteTypeOK, WritePC, UserPCOf, Freeable
  <1> QED
    BY WInvInit, WInvNext, <1>1, PTL DEF WriteSpec

\* An error path that leaves SaitSend without giving its count back (send.c:534) leaves
\* it taken for good: from then on no halt's wait succeeds.
THEOREM AbandonedMeansNoHalt == WriteSpec => AbandonedForGood
  <1>1. WInv => (Abandoned # {} => ~RemoveEvent /\ hpc # "safe")
    <2> SUFFICES ASSUME WInv, NEW u \in Abandoned PROVE ~RemoveEvent /\ hpc # "safe"
      OBVIOUS
    <2>1. u \in Holders
      BY DEF WInv, WriteTypeOK, Abandoned, UserPCOf, Holders
    <2>2. ~RemoveEvent
      BY <2>1, IInvSignalled DEF WInv, SignalledIsEmpty
    <2> QED
      BY <2>2 DEF WInv, HaltOrder
  <1>2. WInv /\ [WriteNext]_allVars => Abandoned \subseteq Abandoned'
    <2> SUFFICES ASSUME WInv, [WriteNext]_allVars, NEW u \in Abandoned
                 PROVE  u \in Abandoned'
      OBVIOUS
    <2>1. wpc[u] = "abandoned" /\ wpc \in [Users -> WritePC] /\ u \in Users
      BY DEF WInv, WriteTypeOK, Abandoned
    <2>2. wpc'[u] = "abandoned"
      BY <2>1 DEF WriteNext, WriteGoesOn, Write, Enter, BackOut, SetEvent, AllocateIrp,
                  GetWriteContext, ConvertNdisToUsb, Submit, GiveBack, BusCompletes,
                  CompleteRelease, PushWriteContext, FreeSend, GotoW, writeVars, allVars
    <2> QED
      BY <2>1, <2>2 DEF Abandoned
  <1>3. WInv /\ [WriteNext]_allVars =>
           [/\ Abandoned \subseteq Abandoned'
            /\ Abandoned' # {} => ~RemoveEvent' /\ hpc' # "safe"]_allVars
    <2> SUFFICES ASSUME WInv, [WriteNext]_allVars
                 PROVE  /\ Abandoned \subseteq Abandoned'
                        /\ Abandoned' # {} => ~RemoveEvent' /\ hpc' # "safe"
      OBVIOUS
    <2>1. WInv'
      BY WInvNext
    <2>2. (WInv => (Abandoned # {} => ~RemoveEvent /\ hpc # "safe"))'
      BY <1>1, PTL
    <2> QED
      BY <1>2, <2>1, <2>2
  <1> QED
    BY WInvInit, WInvNext, <1>3, PTL DEF WriteSpec, AbandonedForGood

----------------------------------------------------------------------------
(* No context is lost *)

\* There are finitely many writes.
LEMMA FiniteUsesContext ==
  IsFiniteSet(UsesContext) /\ Cardinality(UsesContext) \in Nat
  <1>1. IsFiniteSet(UsesContext)
    BY FS_Subset, UsersAssumption DEF UsesContext
  <1> QED
    BY <1>1, FS_CardinalityType

\* A write that takes a context is one more that uses one, a write that puts it back
\* one less.
LEMMA ContextsExactNext ==
  WInv /\ ContextsExact /\ [WriteNext]_allVars => ContextsExact'
  <1> SUFFICES ASSUME WInv, ContextsExact, [WriteNext]_allVars PROVE ContextsExact'
    OBVIOUS
  <1> USE FiniteUsesContext
  <1>t. wpc \in [Users -> WritePC] /\ contexts \in Nat /\ allocated \in Nat
    BY WriteAssumption DEF WInv, WriteTypeOK
  <1>s. ASSUME UsesContext' = UsesContext, UNCHANGED <<contexts, allocated>>
        PROVE  ContextsExact'
    BY <1>s DEF ContextsExact
  <1>1. ASSUME NEW u \in Users,
               \/ Write(u) \/ Enter(u) \/ BackOut(u) \/ AllocateIrp(u) \/ Submit(u)
               \/ BusCompletes(u) \/ CompleteRelease(u)
        PROVE  ContextsExact'
    <2>1. UsesContext' = UsesContext
      BY <1>1, <1>t DEF Write, Enter, BackOut, AllocateIrp, Submit, BusCompletes,
                        CompleteRelease, GotoW, UsesContext
    <2> QED
      BY <1>1, <1>s, <2>1 DEF Write, Enter, BackOut, AllocateIrp, Submit, BusCompletes,
                              CompleteRelease
  <1>2. ASSUME NEW u \in Users, ConvertNdisToUsb(u) PROVE ContextsExact'
    <2>1. UsesContext' = UsesContext
      BY <1>2, <1>t DEF ConvertNdisToUsb, GotoW, UsesContext
    <2> QED
      BY <1>2, <1>s, <2>1 DEF ConvertNdisToUsb
  <1>3. ASSUME NEW u \in Users, GetWriteContext(u) PROVE ContextsExact'
    <2>1. CASE contexts > 0
      <3>1. UsesContext' = UsesContext \cup {u} /\ u \notin UsesContext
        BY <1>3, <2>1, <1>t DEF GetWriteContext, GotoW, UsesContext
      <3>2. Cardinality(UsesContext') = Cardinality(UsesContext) + 1
        BY <3>1, FS_AddElement
      <3> QED
        BY <1>3, <1>t, <2>1, <3>2 DEF GetWriteContext, ContextsExact
    <2>2. CASE ~(contexts > 0)
      <3>1. UsesContext' = UsesContext
        BY <1>3, <2>2, <1>t DEF GetWriteContext, GotoW, UsesContext
      <3> QED
        BY <1>3, <1>s, <1>t, <2>2, <3>1 DEF GetWriteContext
    <2> QED
      BY <2>1, <2>2
  <1>4. ASSUME NEW u \in Users, GiveBack(u) \/ PushWriteContext(u) PROVE ContextsExact'
    <2>1. UsesContext' = UsesContext \ {u} /\ u \in UsesContext
      BY <1>4, <1>t DEF GiveBack, PushWriteContext, GotoW, UsesContext
    <2>2. Cardinality(UsesContext') = Cardinality(UsesContext) - 1
      BY <2>1, FS_RemoveElement
    <2> QED
      BY <1>4, <1>t, <2>2 DEF GiveBack, PushWriteContext, ContextsExact
  <1>5. CASE \/ \E u \in Users : SetEvent(u)
             \/ HaltStep /\ UNCHANGED writeVars
             \/ FreeSend \/ UNCHANGED allVars
    <2>1. UsesContext' = UsesContext
      BY <1>5 DEF SetEvent, FreeSend, writeVars, allVars, UsesContext
    <2> QED
      BY <1>5, <1>s, <2>1 DEF SetEvent, FreeSend, writeVars, allVars
  <1> QED
    BY <1>1, <1>2, <1>3, <1>4, <1>5 DEF WriteNext, WriteGoesOn

\* The contexts in the list and the contexts in use are those that were allocated, on
\* whichever path a write ends and in whichever order completions put them back.
THEOREM NoContextIsLost == WriteSpec => []ContextsExact
  <1>1. WriteInit => ContextsExact
    <2> SUFFICES ASSUME WriteInit PROVE ContextsExact
      OBVIOUS
    <2>1. UsesContext = {}
      BY DEF WriteInit, UsesContext
    <2>2. contexts = allocated /\ allocated \in Nat
      BY WriteAssumption DEF WriteInit
    <2> QED
      BY <2>1, <2>2, FS_EmptySet DEF ContextsExact
  <1> QED
    BY WInvInit, WInvNext, ContextsExactNext, <1>1, PTL DEF WriteSpec
============================================================================
