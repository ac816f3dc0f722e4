------------------------------ MODULE Rundown ------------------------------
(***************************************************************************)
(* What the remove lock of the Sait driver promises its users, free of     *)
(* counters and events: work enters while the lock is open, the lock is    *)
(* closed once and for all, and the drain is announced only when the lock  *)
(* is closed and nothing is inside any more.  Nothing enters a closed      *)
(* lock, so an announced drain stays true.                                 *)
(*                                                                         *)
(* `inside' counts users, it does not name them: a read in flight has no   *)
(* identity that the promise depends on.                                   *)
(***************************************************************************)
EXTENDS Naturals

VARIABLES
    open,       \* may work still enter?
    inside,     \* how much work is inside
    drained     \* the drain has been announced

vars == <<open, inside, drained>>

TypeOK ==
    /\ open \in BOOLEAN
    /\ inside \in Nat
    /\ drained \in BOOLEAN

Init ==
    /\ open = TRUE
    /\ inside = 0
    /\ drained = FALSE

Enter ==
    /\ open
    /\ inside' = inside + 1
    /\ UNCHANGED <<open, drained>>

Leave ==
    /\ inside > 0
    /\ inside' = inside - 1
    /\ UNCHANGED <<open, drained>>

Close ==
    /\ open
    /\ open' = FALSE
    /\ UNCHANGED <<inside, drained>>

Drain ==
    /\ ~open
    /\ inside = 0
    /\ drained' = TRUE
    /\ UNCHANGED <<open, inside>>

Next == Enter \/ Leave \/ Close \/ Drain

Spec == Init /\ [][Next]_vars

----------------------------------------------------------------------------
\* What a waiter on the drain relies on: once announced, the lock is closed
\* and empty, and stays so.
DrainedIsEmpty == drained => ~open /\ inside = 0

============================================================================
