---------------------------- MODULE ProviderLogs ----------------------------
(***************************************************************************)
(* From what a provider's CLI prints to agent events: the normalizers of   *)
(* unified-agent-sdk/src/providers/{claude_code,codex}/normalizer.rs, the  *)
(* message parser of the Claude crate (message_parser.rs) and the          *)
(* conversion of event/converter.rs, as functions.  Texts are left out; a  *)
(* JSON value is what the code looks at, and is printed as two pieces, so  *)
(* that a line or a chunk can end inside it.                               *)
(***************************************************************************)
EXTENDS Integers, Sequences, SequencesExt, Selection

CONSTANTS
    Override,       \* context_window_override_tokens, 0 for none
    MaxCount        \* the largest u32

ASSUME CountsAssumption == MaxCount \in Nat /\ Override \in 0 .. MaxCount

Least(a, b) == IF a <= b THEN a ELSE b
FlatMap(F(_), s) == FlattenSeq([i \in DOMAIN s |-> F(s[i])])

\* The bytes that are no part of a value: line ends, blanks, text that is not
\* JSON, and bytes that are not UTF-8.
NL == [kind |-> "nl"]
CR == [kind |-> "cr"]
Blank == [kind |-> "blank"]
Noise == [kind |-> "noise"]
NotUtf8 == [kind |-> "notUtf8"]
Piece(v, n) == [kind |-> "json", value |-> v, part |-> n]
Text(v) == <<Piece(v, 1), Piece(v, 2)>>

\* Stray text that is taken for a beginning: `[`, where a value may follow, or
\* `{`, where none may.
Opening(takes) == [kind |-> "opening", value |-> [cutAtValue |-> takes]]

\* What the values of the two CLIs have that the code looks at.  A count of -1
\* is one that is not there.
Blocks == [type : STRING, complete : BOOLEAN, id : STRING, failed : BOOLEAN,
           words : SUBSET STRING, empty : BOOLEAN]
Counts == Nat \cup {-1}
Usages == [kind : {"none"}] \cup [kind : {"number"}, total : Nat]
          \cup [kind : {"object"}, input : Counts, output : Counts, limit : Counts, max : Counts]
ClaudeValues == [type : STRING, blocks : Seq(Blocks), cutAtValue : BOOLEAN, isError : BOOLEAN,
                 fields : SUBSET STRING, usage : Usages]

ToolItems == {"command_execution", "file_change", "mcp_tool_call", "web_search"}
OtherItems == {"agent_message", "reasoning", "error", "todo_list"}
Items == [event : {"item"}, item : ToolItems \cup OtherItems,
          phase : {"started", "updated", "completed"},
          status : {"in_progress", "completed", "failed", "none"}, id : STRING, files : Nat,
          known : BOOLEAN, cutAtValue : BOOLEAN]
\* PatchApplyStatus has no in_progress: such a file_change is not `known`.
HasStatus(v) ==
    v.item \in ToolItems \ {"web_search"} =>
        /\ v.status # "none"
        /\ v.item = "file_change" => v.status # "in_progress"
CodexValues ==
    {v \in Items : HasStatus(v)}
    \cup [event : {"thread.started", "turn.started", "turn.completed", "turn.failed", "error"},
          known : BOOLEAN, cutAtValue : BOOLEAN, total : Nat]

Pieces(values) ==
    {NL, CR, Blank, Noise, NotUtf8} \cup {Opening(takes) : takes \in BOOLEAN}
    \cup [kind : {"json"}, value : values, part : {1, 2}]

----------------------------------------------------------------------------
(* NormalizedLog *)
Message == [log |-> "Message"]
Thinking == [log |-> "Thinking"]
TokenUsage(total, limit) == [log |-> "TokenUsage", total |-> total, limit |-> limit]
Error == [log |-> "Error"]
ToolCall(id, status, action) ==
    [log |-> "ToolCall", id |-> id, status |-> status, action |-> action]

----------------------------------------------------------------------------
(* message_parser.rs.  A value has a type, the fields of that type that it *)
(* has with the JSON type that is wanted, and its content.                 *)

RequiredFields ==
    [user |-> {"message", "content"},
     assistant |-> {"message", "content", "model"},
     system |-> {"subtype"},
     result |-> {"subtype", "duration_ms", "duration_api_ms", "is_error",
                 "num_turns", "session_id"},
     stream_event |-> {"uuid", "session_id", "event"}]

\* Blocks of an unknown type, or without what their type needs, are skipped;
\* thinking is kept only in what the assistant says.
KeptBlocks(blocks, withThinking) ==
    Keep(blocks, {i \in DOMAIN blocks :
        /\ blocks[i].complete
        /\ \/ blocks[i].type \in {"text", "tool_use", "tool_result"}
           \/ blocks[i].type = "thinking" /\ withThinking})

\* parse_message: the outcome, and for a message its blocks.
ParseMessage(v) ==
    IF v.type = "none" THEN [ok |-> "error"]
    ELSE IF v.type \notin DOMAIN RequiredFields THEN [ok |-> "skip"]
    ELSE IF ~(RequiredFields[v.type] \subseteq v.fields) THEN [ok |-> "error"]
    ELSE [ok |-> "message", blocks |-> KeptBlocks(v.blocks, v.type = "assistant")]

----------------------------------------------------------------------------
(* The Claude normalizer: a buffer of bytes up to a line end, a buffer of  *)
(* lines up to a whole JSON value, and the tool calls without a result.    *)

ClaudeStart == [line |-> <<>>, json |-> <<>>, pending |-> {}]

\* infer_action, for the words found in the lower-cased name of a tool; the
\* first row with a word of the name decides.
ActionRows ==
    <<[words |-> {"mcp__"}, action |-> "McpTool"],      \* as a prefix
      [words |-> {"askuser", "ask_user"}, action |-> "AskUser"],
      [words |-> {"websearch", "web_search", "webfetch"}, action |-> "WebSearch"],
      [words |-> {"read"}, action |-> "FileRead"],
      [words |-> {"edit", "write", "patch", "multiedit"}, action |-> "FileEdit"],
      [words |-> {"bash", "command", "run"}, action |-> "CommandRun"]>>
ActionOf(words) ==
    LET hits == {i \in DOMAIN ActionRows : ActionRows[i].words \cap words # {}}
    IN  IF hits = {} THEN "McpTool"
        ELSE ActionRows[CHOOSE i \in hits : \A j \in hits : i <= j].action

\* extract_token_usage: a number, or an object of counts, each optional (-1
\* here), added without overflow.
Count(n) == IF n < 0 THEN 0 ELSE n
Saturated(n) == Least(n, MaxCount)
UsageLogs(u) ==
    IF u.kind = "number"
    THEN IF u.total > 0 THEN <<TokenUsage(Saturated(u.total), 0)>> ELSE <<>>
    ELSE IF u.kind = "none" THEN <<>>
    ELSE LET total == Count(u.input) + Count(u.output)
             limit == IF u.limit >= 0 THEN u.limit ELSE Count(u.max)
         IN  IF total = 0 /\ limit = 0 THEN <<>>
             ELSE <<TokenUsage(Saturated(total), Saturated(limit))>>

\* A state of the normalizer with the logs it has produced.
Out(st, logs) == [st |-> st, logs |-> logs]
After(before, out) == Out(out.st, before.logs \o out.logs)

Taken_Kept(st, id) == st
Taken(st, id) == [st EXCEPT !.pending = {p \in @ : p.id # id}]

\* push_tool_result_log: only for a call that waits for its result.
ToolResult(st, b) ==
    LET hit == {p \in st.pending : p.id = b.id}
    IN  IF hit = {} THEN Out(st, <<>>)
        ELSE Out(Taken(st, b.id),
                 <<ToolCall(b.id, IF b.failed THEN "Failed" ELSE "Completed",
                            (CHOOSE p \in hit : TRUE).action)>>)

ToolUse(st, b) ==
    LET action == ActionOf(b.words)
    IN  Out([st EXCEPT !.pending = {p \in @ : p.id # b.id} \cup {[id |-> b.id, action |-> action]}],
            <<ToolCall(b.id, "Started", action)>>)

\* normalize_user_content and normalize_assistant_content, for one block;
\* what is left of a user's message are texts and results.
NormalizeBlock(st, type, b) ==
    CASE b.type = "tool_result" -> ToolResult(st, b)
      [] b.type = "tool_use" -> IF type = "assistant" THEN ToolUse(st, b) ELSE Out(st, <<>>)
      [] b.type = "thinking" -> Out(st, <<Thinking>>)
      [] b.type = "text" -> Out(st, IF type = "user" /\ b.empty THEN <<>> ELSE <<Message>>)

NormalizeBlocks(st, type, blocks) ==
    LET upTo[n \in 0 .. Len(blocks)] ==
            IF n = 0 THEN Out(st, <<>>)
            ELSE LET before == upTo[n - 1]
                 IN  After(before, NormalizeBlock(before.st, type, blocks[n]))
    IN  upTo[Len(blocks)]

\* process_value with normalize_message.
ProcessValue(st, v) ==
    LET parsed == ParseMessage(v)
    IN  CASE parsed.ok = "error" -> Out(st, <<Error>>)
          [] parsed.ok = "skip" \/ v.type = "stream_event" -> Out(st, <<>>)
          [] parsed.ok = "message" /\ v.type = "system" -> Out(st, <<Message>>)
          [] parsed.ok = "message" /\ v.type = "result" ->
               Out(st, UsageLogs(v.usage) \o (IF v.isError THEN <<Error>> ELSE <<>>))
          [] OTHER -> NormalizeBlocks(st, v.type, parsed.blocks)

\* What serde_json says of a buffer: a value, the beginning of one, or
\* neither.  A beginning that ends where another value may begin takes the
\* next one in.
IsValue(b) == Len(b) = 2 /\ b[1].kind = "json" /\ b = Text(b[1].value)
Begins(p) == p.kind = "opening" \/ (p.kind = "json" /\ p.part = 1)
IsEof(b) ==
    \E n \in DOMAIN b :
        /\ \A i \in 1 .. n : Begins(b[i]) /\ (i < n => b[i].value.cutAtValue)
        /\ n = Len(b) \/ (b[n].value.cutAtValue /\ IsValue(SubSeq(b, n + 1, Len(b))))

NoBlanks(s) == Keep(s, {i \in DOMAIN s : s[i].kind \notin {"blank", "cr"}})

JsonAfterError_Kept(buffer) == buffer
JsonAfterError(buffer) == <<>>

\* process_line: a line of blanks adds nothing, a line that is not UTF-8
\* leaves the buffered JSON as it is.
ProcessLine(st, line) ==
    LET buffer == st.json \o NoBlanks(line)
    IN  CASE NotUtf8 \in ToSet(line) -> Out(st, <<Error>>)
          [] NotUtf8 \notin ToSet(line) /\ NoBlanks(line) = <<>> -> Out(st, <<>>)
          [] NotUtf8 \notin ToSet(line) /\ NoBlanks(line) # <<>> ->
               IF IsValue(buffer) THEN ProcessValue([st EXCEPT !.json = <<>>], buffer[1].value)
               ELSE IF IsEof(buffer) THEN Out([st EXCEPT !.json = buffer], <<>>)
               ELSE Out([st EXCEPT !.json = JsonAfterError(buffer)], <<Error>>)

\* A byte of normalize; a line end hands the line on.
ClaudeByte(st, p) ==
    IF p = NL THEN ProcessLine([st EXCEPT !.line = <<>>], st.line)
    ELSE Out([st EXCEPT !.line = Append(@, p)], <<>>)

\* flush: the last line without a line end, then what is left of a value.
ClaudeFlush(st) ==
    LET o == IF st.line = <<>> THEN Out(st, <<>>) ELSE ProcessLine([st EXCEPT !.line = <<>>], st.line)
    IN  Out(ClaudeStart, o.logs \o (IF o.st.json = <<>> THEN <<>> ELSE <<Error>>))

----------------------------------------------------------------------------
(* The Codex normalizer: a buffer of bytes up to a line end; every line is *)
(* an event by itself.                                                     *)

CodexStart == <<>>

\* map_command_status, map_mcp_status, map_patch_status, which is never given
\* an in_progress; a web search has no status of its own.
CodexStatus(item, phase, status) ==
    IF phase = "started" THEN "Started"
    ELSE CASE item = "web_search" -> "Completed"
           [] item # "web_search" /\ status = "in_progress" -> "Running"
           [] item # "web_search" /\ status = "completed" -> "Completed"
           [] item # "web_search" /\ status = "failed" -> "Failed"

ActionOfItem ==
    [command_execution |-> "CommandRun", file_change |-> "FileEdit",
     mcp_tool_call |-> "McpTool", web_search |-> "WebSearch"]

\* map_item: a change of several files is a call for each of them.
MapItem(v) ==
    CASE v.item = "agent_message" -> <<Message>>
      [] v.item = "reasoning" -> <<Thinking>>
      [] v.item = "error" -> <<Error>>
      [] v.item = "todo_list" -> <<>>
      [] v.item \in DOMAIN ActionOfItem ->
           [i \in 1 .. v.files |->
                ToolCall(v.id, CodexStatus(v.item, v.phase, v.status), ActionOfItem[v.item])]

\* map_event
MapEvent(v) ==
    CASE v.event \in {"thread.started", "turn.started"} -> <<>>
      [] v.event = "turn.completed" -> <<TokenUsage(Saturated(v.total), 0)>>
      [] v.event \in {"turn.failed", "error"} -> <<Error>>
      [] v.event = "item" -> MapItem(v)

\* normalize_line; serde allows blanks around the event.
CodexLine(line) ==
    IF IsValue(NoBlanks(line)) /\ NoBlanks(line)[1].value.known
    THEN MapEvent(NoBlanks(line)[1].value)
    ELSE <<Error>>

StripCr(line) == IF line # <<>> /\ Last(line) = CR THEN Front(line) ELSE line

\* consume_lines, which skips a line only if it is empty.
CodexByte(st, p) ==
    IF p # NL THEN Out(Append(st, p), <<>>)
    ELSE Out(<<>>, IF StripCr(st) = <<>> THEN <<>> ELSE CodexLine(StripCr(st)))

\* flush, which also takes a rest of blanks for nothing.
CodexFlush(st) == Out(<<>>, IF NoBlanks(st) = <<>> THEN <<>> ELSE CodexLine(st))

----------------------------------------------------------------------------
(* normalize: a chunk, byte by byte *)

Byte(provider, st, p) == IF provider = "claude" THEN ClaudeByte(st, p) ELSE CodexByte(st, p)

Bytes(provider, st, chunk) ==
    LET upTo[n \in 0 .. Len(chunk)] ==
            IF n = 0 THEN Out(st, <<>>)
            ELSE LET before == upTo[n - 1]
                 IN  After(before, Byte(provider, before.st, chunk[n]))
    IN  upTo[Len(chunk)]

ClaudeNormalize(st, chunk) == Bytes("claude", st, chunk)
CodexNormalize_DropsRest(st, chunk) == Out(<<>>, Bytes("codex", st, chunk).logs)
CodexNormalize(st, chunk) == Bytes("codex", st, chunk)

----------------------------------------------------------------------------
(* event/converter.rs *)

\* context_usage_from_token_usage, without the utilization.
ContextUsage(total, limit) ==
    LET window == IF limit > 0 THEN limit ELSE Override
    IN  [used |-> total, window |-> window,
         remaining |-> IF total > window THEN 0 ELSE window - total,
         source |-> IF limit > 0 THEN "ProviderReported"
                    ELSE IF Override > 0 THEN "ConfigOverride" ELSE "Unknown"]

Event(t) == [event |-> t]
ToolEvent(t, id) == [event |-> t, id |-> id]
EventOfStatus ==
    [Started |-> "ToolCallStarted", Completed |-> "ToolCallCompleted", Failed |-> "ToolCallFailed"]

\* from_normalized_log_with_context_override
Convert(l) ==
    CASE l.log = "Message" -> <<Event("MessageReceived")>>
      [] l.log = "Thinking" -> <<Event("ThinkingStarted"), Event("ThinkingCompleted")>>
      [] l.log = "TokenUsage" ->
           <<[event |-> "TokenUsageUpdated", total |-> l.total, limit |-> l.limit],
             [event |-> "ContextUsageUpdated", usage |-> ContextUsage(l.total, l.limit)]>>
      [] l.log = "Error" -> <<Event("ErrorOccurred")>>
      [] l.log = "ToolCall" ->
           IF l.status = "Running" THEN <<>> ELSE <<ToolEvent(EventOfStatus[l.status], l.id)>>

=============================================================================
