CONSTANTS
    Override = 2
    MaxCount = 4
    ClaudeLines <- MCClaudeLines
    CodexLines <- MCCodexLines
    Hooks = {h}
    HookTypes = {"ErrorOccurred"}
    MaxLines = 3
    MaxSince = 2
SPECIFICATION Spec
INVARIANTS
    Framed
    ChunkingIsInvisible
    JunkDoesNoHarm
    Recovers
    ToolsPaired
    HooksAreAhead
