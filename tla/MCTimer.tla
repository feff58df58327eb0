------------------------------- MODULE MCTimer -------------------------------
(* The instance of Timer that TLC checks.                                   *)
EXTENDS Timer, TLC

Symmetry == Permutations(Apps) \cup Permutations(Structs)
=============================================================================
