------------------------- MODULE MCClaudeTransport -------------------------
(* Small instances of ClaudeTransport for TLC. *)
EXTENDS ClaudeTransport

=============================================================================
