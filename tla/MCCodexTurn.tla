---------------------------- MODULE MCCodexTurn ----------------------------
(* Small instances of CodexTurn for TLC. *)
EXTENDS CodexTurn, TLC

Symmetry == Permutations(Turns)

=============================================================================
