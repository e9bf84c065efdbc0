--------------------------- MODULE MCClaudeQuery ---------------------------
(* Small instances of ClaudeQuery for TLC. *)
EXTENDS ClaudeQuery

NoCallbacks == {{}}
PermissionOnly == {{"can_use_tool"}}
\* has_hooks_or_mcp holds, and a tool handler may panic.
McpOnly == {{"mcp_message"}}
HookOnly == {{"hook_callback"}}

=============================================================================
