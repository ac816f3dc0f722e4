--------------------------- MODULE MCDeviceWatch ---------------------------
(* DeviceWatch for TLC: handle values and heap blocks are interchangeable. *)
EXTENDS DeviceWatch, TLC

Symmetry == Permutations(Handles) \cup Permutations(Entries)

=============================================================================
