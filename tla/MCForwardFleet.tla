--------------------------- MODULE MCForwardFleet ---------------------------
(* Instances of ForwardFleet for TLC.                                      *)
EXTENDS ForwardFleet, TLC

\* Every instance prefers the same worker, so that calls contend for it.
MCTieBreak ==
    LET rank == CHOOSE r \in [Workers -> 1 .. Cardinality(Workers)] :
                   \A v, w \in Workers : r[v] = r[w] => v = w
    IN  [f \in Instances |-> rank]

Symmetry == Permutations(Keys)
=============================================================================
