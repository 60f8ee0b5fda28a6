------------------------ MODULE MCOperationRegistry ------------------------
(* Instances of OperationRegistry for TLC. *)
EXTENDS OperationRegistry, TLC
CONSTANTS k1, k2, k3, v1, v2, v3, a1, a2, r1, r2, e1, e2
Symmetry == Permutations({k1, k2, k3}) \cup Permutations({v1, v2, v3})
            \cup Permutations({a1, a2}) \cup Permutations({r1, r2})
            \cup Permutations({e1, e2})
=============================================================================
