---------------------------- MODULE MCWritePath ----------------------------
(* WritePath for TLC with the sizes divided: packets of 6 bytes at most,   *)
(* pipes with packets of 2.  A packet is shorter, full, at the limit, over *)
(* it, or has a chain of buffers that does not add up.                     *)
EXTENDS WritePath, TLC

MCPackets == [length : {1, 2, 6, 7, 8}, whole : BOOLEAN]

============================================================================
