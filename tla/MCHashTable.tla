----------------------------- MODULE MCHashTable -----------------------------
(* Model checking of the hash table.                                       *)
EXTENDS HashTable, TLC

Symmetry == Permutations(Keys) \cup Permutations(Values)
=============================================================================
