----------------------------- MODULE MCSendPath -----------------------------
(* SendPath for TLC: every packet carries the same cancel id; the other    *)
(* id cancels nothing.                                                     *)
EXTENDS SendPath

MCCancelId == [p \in Packets |-> 1]

=============================================================================
