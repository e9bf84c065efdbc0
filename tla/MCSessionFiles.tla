--------------------------- MODULE MCSessionFiles ---------------------------
(* Small instances of SessionFiles for TLC. *)
EXTENDS SessionFiles
=============================================================================
