------------------------------ MODULE MCAsyncIO ------------------------------
(* The instance of AsyncIO that TLC checks.                                 *)
EXTENDS AsyncIO, TLC

Symmetry == Permutations(Tasks) \cup Permutations(Workers) \cup Permutations(Apps)
            \cup Permutations(Queues)
=============================================================================
