------------------------- MODULE MCWriteCoordinator -------------------------
(* Instances of WriteCoordinator for TLC. *)
EXTENDS WriteCoordinator
CONSTANTS w1, w2, w3
Symmetry == Permutations({w1, w2, w3})
=============================================================================
