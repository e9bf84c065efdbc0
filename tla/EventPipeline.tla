--------------------------- MODULE EventPipeline ---------------------------
(***************************************************************************)
(* The event stream of an agent session (unified-agent-sdk/src/session.rs, *)
(* event.rs): chunks of the raw output of a CLI go through the provider's  *)
(* normalizer and the converter of ProviderLogs into a queue of events;    *)
(* each event is shown to the hooks of its type and then handed over.      *)
(*                                                                         *)
(* The CLI prints lines of any kind, and chunks end anywhere.  As a chunk  *)
(* may hold any part of what is still unread, it loses nothing that all is *)
(* printed before the stream is first polled.  The stream works only while *)
(* its consumer polls it; the state of a poll that is dropped stays in the *)
(* stream, so a step of the stream is a part of any number of polls.       *)
(***************************************************************************)
EXTENDS ProviderLogs

CONSTANTS
    ClaudeLines,    \* lines that the Claude CLI prints, as sequences of pieces
    CodexLines,     \* lines that the Codex CLI prints
    Hooks,
    HookTypes,      \* the event types that hooks are registered for
    MaxLines,       \* bound on the lines the CLI prints
    MaxSince        \* bound on the events popped before a hook is registered

Providers == {"claude", "codex"}

ASSUME LinesAssumption ==
    /\ ClaudeLines \subseteq Seq(Pieces(ClaudeValues)) \ {<<>>}
    /\ CodexLines \subseteq Seq(Pieces(CodexValues)) \ {<<>>}

VARIABLES
    provider,
  \* the CLI
    printed,        \* the lines it printed, as sequences of pieces
    ended,          \* its output is closed
  \* EventPipelineState
    consumed,       \* pieces of the output pulled as chunks
    norm,           \* the state of the normalizer
    pending,        \* pending_events
    emittedStarted, finished, sawError,
  \* hooks and the consumer
    registered,     \* [Hooks -> the type it is registered for, or "none"]
    since,          \* [Hooks -> events popped before it was registered]
    inflight,       \* the event popped and not yet handed over
    running,        \* hooks that have not returned for it
    hookSaw,        \* [Hooks -> the events it has been run for]
    delivered       \* the events handed over

cliVars == <<printed, ended>>
streamVars == <<consumed, norm, pending, emittedStarted, finished, sawError>>
hookVars == <<registered, since, inflight, running, hookSaw, delivered>>
vars == <<provider, cliVars, streamVars, hookVars>>

\* The normalizer of a new pipeline.
Start == IF provider = "claude" THEN ClaudeStart ELSE CodexStart

Init ==
    /\ provider \in Providers
    /\ printed = <<>> /\ ended = FALSE
    /\ consumed = <<>>
    /\ norm = Start
    /\ pending = <<>> /\ emittedStarted = FALSE /\ finished = FALSE /\ sawError = FALSE
    /\ registered = [h \in Hooks |-> "none"] /\ since = [h \in Hooks |-> 0]
    /\ inflight = <<>> /\ running = {}
    /\ hookSaw = [h \in Hooks |-> <<>>]
    /\ delivered = <<>>

----------------------------------------------------------------------------
(* The CLI *)

\* A line with a whole value, lines that no value can begin with, and lines
\* that are taken for the beginning of one.
Whole(v) == Text(v) \o <<NL>>
Junk == {<<Blank, NL>>, <<Noise, NL>>, <<NotUtf8, NL>>}
Openings == {<<Opening(takes), NL>> : takes \in BOOLEAN}

Prints(line) ==
    /\ ~ended /\ ~emittedStarted /\ Len(printed) < MaxLines
    \* a line without an end is the last one
    /\ printed # <<>> => Last(Last(printed)) = NL
    /\ printed' = Append(printed, line)
    /\ UNCHANGED <<provider, ended, streamVars, hookVars>>

CliPrints ==
    \/ provider = "claude" /\ \E line \in ClaudeLines : Prints(line)
    \/ provider = "codex" /\ \E line \in CodexLines : Prints(line)
    \/ \E line \in Junk \cup Openings : Prints(line)

CliEnds ==
    /\ ~ended /\ ended' = TRUE
    /\ UNCHANGED <<provider, printed, streamVars, hookVars>>

Wire == SubSeq(FlattenSeq(printed), Len(consumed) + 1, Len(FlattenSeq(printed)))

----------------------------------------------------------------------------
(* event_stream: one action for each turn of its loop. *)

Idle == inflight = <<>> /\ pending = <<>>

\* push_event and push_logs
NoteError_Last(saw, events) == events # <<>> /\ Last(events).event = "ErrorOccurred"
NoteError(saw, events) == saw \/ \E i \in DOMAIN events : events[i].event = "ErrorOccurred"

PushEvents(events) ==
    /\ pending' = pending \o events
    /\ sawError' = NoteError(sawError, events)

Started == Event("SessionStarted")
Completed(success) == [event |-> "SessionCompleted", success |-> success]

EmitStarted ==
    /\ Idle /\ ~emittedStarted
    /\ emittedStarted' = TRUE
    /\ PushEvents(<<Started>>)
    /\ UNCHANGED <<provider, cliVars, consumed, norm, finished, hookVars>>

Normalize(st, chunk) ==
    IF provider = "claude" THEN ClaudeNormalize(st, chunk) ELSE CodexNormalize(st, chunk)
Flush(st) == IF provider = "claude" THEN ClaudeFlush(st) ELSE CodexFlush(st)

\* The next pieces of the output arrive as one chunk.
PullChunk ==
    /\ Idle /\ emittedStarted /\ ~finished
    /\ LET wire == Wire
       IN  \E n \in 1 .. Len(wire) :
             LET chunk == SubSeq(wire, 1, n)
                 o == Normalize(norm, chunk)
             IN  /\ consumed' = consumed \o chunk
                 /\ norm' = o.st
                 /\ PushEvents(FlatMap(Convert, o.logs))
    /\ UNCHANGED <<provider, cliVars, emittedStarted, finished, hookVars>>

\* The output is over: what the normalizer still holds, and the end.
PullEnd ==
    /\ Idle /\ emittedStarted /\ ~finished
    /\ ended /\ Wire = <<>>
    /\ LET events == FlatMap(Convert, Flush(norm).logs)
       IN  /\ sawError' = NoteError(sawError, events)
           /\ pending' = events \o <<Completed(~sawError')>>
    /\ norm' = Flush(norm).st
    /\ finished' = TRUE
    /\ UNCHANGED <<provider, cliVars, consumed, emittedStarted, hookVars>>

----------------------------------------------------------------------------
(* HookManager *)

Register(h, type) ==
    /\ registered[h] = "none" /\ Len(delivered) + Len(inflight) <= MaxSince
    /\ registered' = [registered EXCEPT ![h] = type]
    /\ since' = [since EXCEPT ![h] = Len(delivered) + Len(inflight)]
    /\ UNCHANGED <<provider, cliVars, streamVars, inflight, running, hookSaw, delivered>>

\* The hooks to run are those registered when the event is popped.
Pop ==
    /\ inflight = <<>> /\ pending # <<>>
    /\ inflight' = <<Head(pending)>>
    /\ pending' = Tail(pending)
    /\ running' = {h \in Hooks : registered[h] = Head(pending).event}
    /\ UNCHANGED <<provider, cliVars, consumed, norm, emittedStarted, finished, sawError,
                   registered, since, hookSaw, delivered>>

HookReturns(h) ==
    /\ h \in running
    /\ running' = running \ {h}
    /\ hookSaw' = [hookSaw EXCEPT ![h] = Append(@, inflight[1])]
    /\ UNCHANGED <<provider, cliVars, streamVars, registered, since, inflight, delivered>>

\* join_all(..).await
HooksAreDone_NotAwaited == TRUE
HooksAreDone == running = {}

HandOver ==
    /\ inflight # <<>> /\ HooksAreDone
    /\ delivered' = delivered \o inflight
    /\ inflight' = <<>>
    /\ running' = {}
    /\ UNCHANGED <<provider, cliVars, streamVars, registered, since, hookSaw>>

\* The stream has answered with None.
Over == finished /\ Idle /\ UNCHANGED vars

Next ==
    \/ CliPrints \/ CliEnds
    \/ EmitStarted \/ PullChunk \/ PullEnd
    \/ Pop \/ HandOver
    \/ \E h \in Hooks : HookReturns(h) \/ \E type \in HookTypes : Register(h, type)
    \/ Over

Spec == Init /\ [][Next]_vars

----------------------------------------------------------------------------
(* Properties *)

\* All events so far, in order.
Events == delivered \o inflight \o pending
IsError(e) == e.event = "ErrorOccurred"

\* The stream begins with SessionStarted, ends with SessionCompleted, has
\* neither in between, and the session succeeded only if no event was an
\* error, also not one that the flush of the normalizer brought up.
Framed ==
    \A i \in DOMAIN Events :
        /\ (Events[i] = Started) <=> (i = 1)
        /\ Events[i].event = "SessionCompleted" =>
               /\ i = Len(Events) /\ finished
               /\ Events[i].success <=> ~\E j \in DOMAIN Events : IsError(Events[j])

\* Where the chunks end makes no difference: the events are those of the
\* output read in one piece, and a part of a line or of a value waits.
ChunkingIsInvisible ==
    emittedStarted /\ ~finished /\ inflight = <<>> =>
        LET whole == Normalize(Start, consumed)
        IN  /\ Events = <<Started>> \o FlatMap(Convert, whole.logs)
            /\ norm = whole.st

\* A stray line that no value can begin with costs one error and nothing
\* else: of an output in which each
\* value has a line of its own, the events that are no errors are those of
\* the same output without the stray lines.
Stray(line) == line \in Junk
NoErrors(s) == Keep(s, {i \in DOMAIN s : ~IsError(s[i])})
JunkDoesNoHarm ==
    finished /\ Idle /\ (\A i \in DOMAIN printed : Stray(printed[i]) \/ printed[i] = Whole(printed[i][1].value)) =>
        LET values == Keep(printed, {i \in DOMAIN printed : ~Stray(printed[i])})
            clean == Normalize(Start, FlattenSeq(values))
        IN  NoErrors(SubSeq(Events, 2, Len(Events) - 1)) = NoErrors(FlatMap(Convert, clean.logs))

\* Whatever came before, two values on lines of their own bring the Claude
\* normalizer back to an empty buffer: an unfinished value, or stray text taken
\* for the beginning of one, costs at most these two (json_buffer, which is
\* cleared by a value and by an error).
IsWhole(line) == line[1].kind = "json" /\ line = Whole(line[1].value)
Recovers ==
    provider = "claude" =>
        \A k \in 2 .. Len(printed) :
            /\ consumed = FlattenSeq(SubSeq(printed, 1, k))
            /\ IsWhole(printed[k - 1]) /\ IsWhole(printed[k])
            => norm.json = <<>>

\* In a Claude session, a tool call is over at most once for each time that it
\* started, and only after that, whatever results the CLI prints: for calls
\* that are unknown or over, or for one call many times (pending_tools).  The
\* Codex normalizer keeps no calls; what it tells of an item is what the line
\* says, and is left out here.
IsStart(id, e) == e.event = "ToolCallStarted" /\ e.id = id
IsOutcome(id, e) == e.event \in {"ToolCallCompleted", "ToolCallFailed"} /\ e.id = id
ToolsPaired ==
    provider = "claude" =>
        \A n \in DOMAIN Events :
            Events[n].event \in {"ToolCallCompleted", "ToolCallFailed"} =>
                LET id == Events[n].id
                IN  Cardinality({i \in 1 .. n : IsOutcome(id, Events[i])})
                        <= Cardinality({i \in 1 .. n : IsStart(id, Events[i])})

\* A hook has seen every event of its type since it was registered, once and
\* in order, before the consumer is given it.
HooksAreAhead ==
    \A h \in Hooks :
        LET mine == Keep(delivered, {i \in DOMAIN delivered :
                                       since[h] < i /\ delivered[i].event = registered[h]})
            now == IF inflight # <<>> /\ inflight[1].event = registered[h] /\ h \notin running
                      /\ since[h] <= Len(delivered)
                   THEN inflight ELSE <<>>
        IN  registered[h] # "none" => hookSaw[h] = mine \o now

=============================================================================
