------------------------- MODULE MCControlEndpoint -------------------------
(* Small instances of ControlEndpoint for TLC. *)
EXTENDS ControlEndpoint, TLC

Symmetry == Permutations(Requests)
=============================================================================
