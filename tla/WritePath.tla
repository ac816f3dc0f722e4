----------------------------- MODULE WritePath -----------------------------
(***************************************************************************)
(* The transmission the driver has (send.c): SaitSend copies a packet into *)
(* a write context, sends the context's URB to the bus driver and returns; *)
(* the completion routine of the IRP gives the remove lock and then the    *)
(* context back.  SaitSend is declared as a SendHandler but the line that  *)
(* registers it is a comment (sait.c:79): this is the driver with that     *)
(* line in place of the one above it, composed with the remove lock and    *)
(* the part of SaitFreeSend that frees the contexts.                       *)
(*                                                                         *)
(* A user of module RemoveLock is here a write: the call of SaitSend and   *)
(* the completion routine it leads to.  Each action is an action of        *)
(* RemoveLock joined with the write's own step, or leaves the lock alone.  *)
(* Sections under SendLock are one step.  The memory of the adapter is     *)
(* gone once `sendFreed' is set, and the model stops there: where a write  *)
(* is then tells what it would do to it.                                   *)
(***************************************************************************)
EXTENDS RemoveLock

CONSTANTS
    Packets,        \* bound: what protocols send, [length, whole]
    MaxContexts,    \* write contexts SaitInitializeSend tries for, 32
    MaxTotalSize,   \* SAIT_MAX_TOTAL_SIZE, 1514
    Slack,          \* what a context's buffer has beyond that, 16
    FirstPipeSize,  \* MaximumPacketSize of Pipes[0]
    OutPipeSize     \* and of the pipe the writes go to

\* NDIS sends no empty packet (send.c:578), and no endpoint has packets of 1 byte.
\* `whole' says that a prefix of the buffer chain has exactly the packet's length.
ASSUME WriteAssumption ==
    /\ Packets \subseteq [length : Nat \ {0}, whole : BOOLEAN]
    /\ MaxContexts \in Nat /\ MaxTotalSize \in Nat /\ Slack \in Nat \ {0}
    /\ FirstPipeSize \in Nat \ {0, 1} /\ OutPipeSize \in Nat \ {0, 1}

VARIABLES
    wpc,            \* where each write is
    BufferLen,      \* of the context each write holds
    contexts,       \* length of SendDescriptorListHead
    allocated,      \* how many SaitInitializeSend could allocate
    sendFreed       \* SaitFreeSend is over

writeVars == <<wpc, BufferLen, contexts, allocated, sendFreed>>
allVars == <<vars, writeVars>>

\* "abandoned" is a call that has failed between acquire and IoCallDriver.
WritePC == {"idle", "enter", "refused", "irp", "context", "convert", "submit", "bus",
            "complete", "push", "giveBack", "abandoned"}

GotoW(u, pc) == wpc' = [wpc EXCEPT ![u] = pc]

WriteInit ==
    /\ Init
    /\ wpc = [u \in Users |-> "idle"]
    /\ BufferLen = [u \in Users |-> 0]
    /\ allocated \in 0..MaxContexts /\ contexts = allocated
    /\ sendFreed = FALSE

----------------------------------------------------------------------------
(* SaitSend, that is SaitUsbPacketWrite *)

Write(u) ==
    /\ wpc[u] = "idle" /\ Increment(u)
    /\ GotoW(u, "enter")
    /\ UNCHANGED <<BufferLen, contexts, allocated, sendFreed>>

\* SaitAcquireRemoveLock has looked at HaltPending; a refused call has its count
\* to give back before it returns STATUS_UNSUCCESSFUL.
Enter(u) ==
    /\ wpc[u] = "enter" /\ TestHaltPending(u)
    /\ GotoW(u, IF upc'[u] = "holding" THEN "irp" ELSE "refused")
    /\ UNCHANGED <<BufferLen, contexts, allocated, sendFreed>>

BackOut(u) ==
    /\ wpc[u] = "refused" /\ Release(u)
    /\ GotoW(u, "idle")
    /\ UNCHANGED <<BufferLen, contexts, allocated, sendFreed>>

\* IoAllocateIrp
AllocateIrp(u) ==
    /\ wpc[u] = "irp"
    /\ \E pc \in {"context", "abandoned"} : GotoW(u, pc)
    /\ UNCHANGED <<vars, BufferLen, contexts, allocated, sendFreed>>

\* SaitGetWriteContext; without one the IRP is freed.
GetWriteContext(u) ==
    /\ wpc[u] = "context"
    /\ contexts' = IF contexts > 0 THEN contexts - 1 ELSE 0
    /\ GotoW(u, IF contexts > 0 THEN "convert" ELSE "abandoned")
    /\ UNCHANGED <<vars, BufferLen, allocated, sendFreed>>

\* Mutant: no extra byte after a last full packet.
TransferLength_Full(length) == length

\* A transfer that fills its last packet would not be seen to end, so it gets one
\* more byte.
TransferLength(length) == IF length % FirstPipeSize = 0 THEN length + 1 ELSE length

\* SaitConvertNdisToUsb: does the packet fit, and does its chain of buffers have
\* the length it says?  (SaitUsbPacketWrite first tests that the context has a buffer
\* and a URB; SaitInitializeSend puts no other contexts into the list.)
Converts(p) == p.length <= MaxTotalSize /\ p.whole

ConvertNdisToUsb(u) ==
    /\ wpc[u] = "convert"
    /\ \E p \in Packets :
          /\ BufferLen' = [BufferLen EXCEPT ![u] =
                IF Converts(p) THEN TransferLength(p.length) ELSE 0]
          /\ GotoW(u, IF Converts(p) THEN "submit" ELSE "giveBack")
    /\ UNCHANGED <<vars, contexts, allocated, sendFreed>>

\* IoCallDriver, and SaitSend returns NDIS_STATUS_SUCCESS.
Submit(u) ==
    /\ wpc[u] = "submit"
    /\ GotoW(u, "bus")
    /\ UNCHANGED <<vars, BufferLen, contexts, allocated, sendFreed>>

\* Mutant: the error path keeps the context.
GiveBack_Keeps(u) ==
    /\ wpc[u] = "giveBack"
    /\ GotoW(u, "abandoned")
    /\ UNCHANGED <<vars, BufferLen, contexts, allocated, sendFreed>>

\* The end of the error path: SaitPushWritContext, and no SaitReleaseRemoveLock.
GiveBack(u) ==
    /\ wpc[u] = "giveBack"
    /\ contexts' = contexts + 1
    /\ GotoW(u, "abandoned")
    /\ UNCHANGED <<vars, BufferLen, allocated, sendFreed>>

----------------------------------------------------------------------------
(* SaitUsbPacketWriteCompletionRoutine *)

\* The bus driver is done with the transfer, well or not.
BusCompletes(u) ==
    /\ wpc[u] = "bus"
    /\ GotoW(u, "complete")
    /\ UNCHANGED <<vars, BufferLen, contexts, allocated, sendFreed>>

\* IoFreeIrp and SaitReleaseRemoveLock.
CompleteRelease(u) ==
    /\ wpc[u] = "complete" /\ Release(u)
    /\ GotoW(u, "push")
    /\ UNCHANGED <<BufferLen, contexts, allocated, sendFreed>>

\* SaitPushWritContext, after the lock was given back.
PushWriteContext(u) ==
    /\ wpc[u] = "push" /\ upc[u] = "out"
    /\ contexts' = contexts + 1
    /\ GotoW(u, "idle")
    /\ UNCHANGED <<vars, BufferLen, allocated, sendFreed>>

\* SaitReleaseRemoveLock's NdisSetEvent, in either place.
SetEvent(u) == Signal(u) /\ UNCHANGED writeVars

----------------------------------------------------------------------------
(* SaitHalt *)

\* Mutant: SaitFreeSend does not wait for the remove lock.
FreeSend_AtOnce ==
    /\ hpc # "running"
    /\ sendFreed' = TRUE
    /\ UNCHANGED <<vars, wpc, BufferLen, contexts, allocated>>

\* SaitFreeSend frees the contexts in the list: SendQueue is empty as SaitSend
\* does not use it.
FreeSend ==
    /\ hpc \in {"safe", "gaveUp"}
    /\ sendFreed' = TRUE
    /\ UNCHANGED <<vars, wpc, BufferLen, contexts, allocated>>

----------------------------------------------------------------------------
WriteGoesOn(u) ==
    \/ Enter(u) \/ BackOut(u) \/ SetEvent(u)
    \/ AllocateIrp(u) \/ GetWriteContext(u) \/ ConvertNdisToUsb(u)
    \/ Submit(u) \/ GiveBack(u)
    \/ BusCompletes(u) \/ CompleteRelease(u) \/ PushWriteContext(u)

WriteNext ==
    /\ ~sendFreed
    /\ \/ \E u \in Users : Write(u) \/ WriteGoesOn(u)
       \/ HaltStep /\ UNCHANGED writeVars
       \/ FreeSend

WriteSpec == WriteInit /\ [][WriteNext]_allVars

\* Calls run on, the bus driver completes what it has (the halt aborts the pipe),
\* and a halt that has begun goes on.
FairWriteSpec ==
    /\ WriteSpec
    /\ \A u \in Users : WF_allVars(~sendFreed /\ WriteGoesOn(u))
    /\ WF_allVars(~sendFreed /\ (HaltRelease \/ HaltSignal) /\ UNCHANGED writeVars)

----------------------------------------------------------------------------
(* Properties *)

UserPCOf(pc) ==
    CASE pc = "idle" -> {"out", "signal"}
      [] pc = "enter" -> {"test"}
      [] pc = "refused" -> {"backout"}
      [] pc = "push" -> {"out", "signal"}
      [] OTHER -> {"holding"}

\* The types, and that the stage of a write and what it has of the lock go together.
WriteTypeOK ==
    /\ TypeOK
    /\ wpc \in [Users -> WritePC]
    /\ \A u \in Users : upc[u] \in UserPCOf(wpc[u])
    /\ BufferLen \in [Users -> Nat]
    /\ contexts \in Nat /\ allocated \in 0..MaxContexts
    /\ sendFreed \in BOOLEAN

\* No context is lost or put in the list twice, on whichever path a write ends.
UsesContext == {u \in Users : wpc[u] \in {"convert", "submit", "bus", "complete", "push",
                                          "giveBack"}}
ContextsExact == contexts + Cardinality(UsesContext) = allocated

\* After a wait that succeeded, the halt frees contexts that neither the bus driver
\* nor a call of SaitSend uses any more; a completion routine may still have one to
\* put back, as it does so after it has given the lock back.  No write has been
\* abandoned: one that was keeps its count for ever, and no wait succeeds.
Freeable == {"idle", "enter", "refused", "push"}
FreedAfterTransfers == sendFreed /\ hpc # "gaveUp" => \A u \in Users : wpc[u] \in Freeable

\* Every transfer fits its buffer, the extra byte included, and ends with a packet
\* that is not full, if the pipe written to has the packet size of Pipes[0].
TransferEndsShort ==
    \A u \in Users : wpc[u] \in {"submit", "bus"} =>
        /\ BufferLen[u] \in 1..(MaxTotalSize + Slack)
        /\ FirstPipeSize = OutPipeSize => BufferLen[u] % OutPipeSize # 0

\* Writes that have left SaitSend without giving their count back.
Abandoned == {u \in Users : wpc[u] = "abandoned"}

\* An abandoned write stays abandoned, and while there is one the event is not set and
\* the halt's wait does not succeed: it can only be given up.
AbandonedForGood ==
    [][/\ Abandoned \subseteq Abandoned'
       /\ Abandoned' # {} => ~RemoveEvent' /\ hpc' # "safe"]_allVars

\* A pending halt gets its event, whatever the interleaving of completions and
\* refused calls, unless a write was abandoned or calls keep coming: two callers that
\* keep trying can take turns in holding the counter above 0.
AttemptsEnd == <>[][\A u \in Users : ~Increment(u)]_allVars
HaltUnlessAbandoned ==
    AttemptsEnd /\ [](Abandoned = {}) => (HaltPending ~> (RemoveEvent \/ sendFreed))

============================================================================
