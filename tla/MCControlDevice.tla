-------------------------- MODULE MCControlDevice --------------------------
(* ControlDevice for TLC: adapters are interchangeable, and so are the     *)
(* threads of programs.                                                    *)
EXTENDS ControlDevice, TLC

Symmetry == Permutations(Adapters) \cup Permutations(Callers)

=============================================================================
