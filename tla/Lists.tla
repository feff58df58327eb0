-------------------------------- MODULE Lists --------------------------------
(* Cutting entries out of a list.                                            *)
EXTENDS Naturals, Sequences

\* The list q without its entries that are in D; the others keep their order.
Without(q, D) ==
    LET kept[n \in 0..Len(q)] ==
          IF n = 0 THEN <<>>
          ELSE IF q[n] \in D THEN kept[n - 1]
          ELSE Append(kept[n - 1], q[n])
    IN kept[Len(q)]
=============================================================================
