------------------------- MODULE MCSessionRegistry -------------------------
(* A small instance of SessionRegistry for TLC. *)
EXTENDS SessionRegistry, TLC

Symmetry == Permutations(Calls) \cup Permutations(Ids)
=============================================================================
