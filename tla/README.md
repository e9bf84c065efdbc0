# A TLA+ model of the agent client SDKs

This directory models the parts of this repository that are hard to test: the
Claude Code SDK (its control protocol, the subprocess transport below it, the
life of its clients and one-shot queries, the transcripts it reads), the turns
of a Codex thread, the Opencode SDK (its server process, its requests, its
stream of events), and of the unified SDK the event pipeline, the registry of
Claude sessions and the resolution of profiles. TLC checks small instances of each
module; the `*_proofs` modules prove the safety properties, and one
refinement, for every value of the constants with TLAPS.

Paths are relative to the repository root. `query.rs`, `client.rs`,
`internal_client.rs`, `query_fn.rs`, `message_parser.rs` and `sessions.rs` are in
`crates/claude-code/src/`, `subprocess_cli.rs` and `mod.rs` in
`crates/claude-code/src/transport/`, `thread.rs` and `exec.rs` in
`crates/codex/src/`, `profile.rs`, `session.rs`, `event.rs` and `executor.rs` in
`unified-agent-sdk/src/`. The files of the Opencode SDK and of the providers are
given with their directory.

## Inventory

The repository holds three client SDKs for coding agents (Claude Code, Codex,
Opencode) and a unified SDK over the first two. Nothing is persisted by the
code itself; what fails is child processes, pipes, tasks and timers.

| Component | State it keeps | Operations | Hard behaviour | What makes it correct |
|---|---|---|---|---|
| `Query`, the Claude control protocol (`query.rs`) | pending senders and buffered answers behind one mutex, `pending_stdin_close`, `reader_terminated`, message channel, reader task | `initialize`, control requests, `stream_input`, `end_input`, `receive_next_message`, `close`, `Drop`; the reader task routes answers, callbacks and messages | callers against the reader task; late answers, timeouts, cancelled futures; a full channel; four ways for stdin to be closed; abort | each request gets its own answer or a justified failure, none waits for a dead reader; messages in order; stdin closed once, not too early, and eventually |
| Claude transport (`subprocess_cli.rs`, `mod.rs`) | the child behind a lock, the JSON buffer, the stdin writer | read, write, end input, close, split | messages cut into lines; a read cancelled by a timeout; close against a reader that waits for the child | messages whole, once, in order; a failure is reported; after close the CLI is dead |
| `ClaudeSdkClient` (`client.rs`) | the query, an initial-message task, a single-use transport factory | connect, query, receive, control operations, disconnect, `Drop` | a failure, or a dropped future, half way through connect or disconnect; a background task that writes the first messages | no CLI without an owner; one session is over before the next; the task ends with its session |
| One-shot queries (`internal_client.rs`, `query_fn.rs`) | a query for the length of a call | send the prompt, collect or stream messages, close | errors while messages are in flight; a dropped stream | the query is closed on every path |
| SDK MCP servers (`sdk_mcp.rs`) | none across calls | dispatch JSON-RPC calls to handlers | a panicking handler | |
| Message parser (`message_parser.rs`) | none | JSON to typed messages | unknown types, missing fields | an unknown message is skipped, a malformed one is an error |
| Session files (`sessions.rs`) | none; reads what the CLI writes | list sessions, read the conversation of one page by page | a transcript that branches, grows between pages, and ends in the middle of a line; copies of a session in several directories | the conversation is the newest branch, pages fit together, each session is listed once |
| Types, options, errors | none | conversions | | |
| Codex `Thread` (`codex/src/thread.rs`, `exec.rs`) | the thread id, one child process per turn | `run`, `run_streamed` | cancellation against a blocked write or wait; concurrent turns on a fresh thread; early exit | a cancelled or dropped turn leaves no process; a failure is not a success |
| Opencode server (`opencode/src/server.rs`) | the child process | start, close, `Drop` | timeout, log lines, end of logs and exit race in one `select!` | no failed start leaves a process |
| Opencode client (`opencode/src/client.rs`) | none across calls | requests by operation id and by method, server-sent events | two tables of the same 105 routes, path parameters under four names; events cut anywhere | a request is for what its caller named; every event once, with its whole data |
| Event pipeline (`session.rs`, `event.rs`, `converter.rs`, normalisers) | pending events, line buffer, `saw_error` | `event_stream`, hooks | chunks cut anywhere, flush at the end, hooks awaited per event | started first, completed last and once, success if and only if no error |
| Claude executor (`providers/claude_code/executor.rs`) | a map of tracked clients | spawn, resume, `store_client` | a lock released between two halves of a replacement; eviction; a disconnect that fails | a live client is always somebody's, no live one is replaced by a dead one, bounded map |
| Codex executor | none | spawn, resume | | |
| Profile manager (`profile.rs`) | the profile cache with its mtime, the resolved entries, the discovery cache | `load`, `reload`, `resolve`, `discover` | the file changes at any point; concurrent reloads; overlapping discoveries, commands that fail or hang | no call answered with profiles older than itself; a configuration comes from one version of the file; what is discovered is recent |

How they interact: `ClaudeSdkClient` and the one-shot functions own a `Query`;
the `Query` owns the three halves of a transport and a reader task, which shares
`QuerySharedState` with all callers and hands SDK messages to the owner through
an `mpsc` channel of 100. Callbacks (permissions, hooks, MCP tools) run inside
the reader task and are answered through the shared writer. The unified
executors drive the Claude client or a Codex thread, turn messages into raw
log lines, and feed them to the event pipeline; `ProfileManager` gives them
their configuration.

## Modules

| Module | Models | Composes |
|---|---|---|
| `RequestReply` | what `send_control_request` promises: an abstract specification | |
| `ClaudeQuery`, `ClaudeQuery_proofs` | a `Query` with its callers, reader task, owner and CLI | refines `RequestReply` |
| `ClaudeTransport`, `ClaudeTransport_proofs` | the split halves of the subprocess transport, or of `SplitAdapter` | |
| `SdkClient`, `SdkClient_proofs` | the connections of a client or of a one-shot query | a `Query` is what `ClaudeQuery` promises of it |
| `SessionFiles`, `Sessions_proofs` | reading transcripts while the CLI writes them, and listing sessions | `Selection` |
| `CodexTurn`, `CodexTurn_proofs` | the turns of a Codex thread and their child processes | |
| `OpencodeServer` | starting and stopping `opencode serve` | |
| `OpencodeRequests`, `OpencodeEvents` | routes and path parameters; the parser of server-sent events | |
| `Opencode`, `Opencode_proofs` | a server with a client for it | the three above |
| `Selection` | what a filter loop keeps of a list | |
| `ProviderLogs` | normalizers, message parser and converter, as functions | `Selection` |
| `EventPipeline`, `EventPipeline_proofs` | the event stream of an agent session with its hooks | `ProviderLogs` |
| `SessionRegistry`, `Sessions_proofs` | the sessions of a `ClaudeCodeExecutor` | a client is what `SdkClient` shows of it |
| `ProfileManager` | the profile cache against a changing file | |
| `ConfigResolution`, `ConfigResolution_proofs` | `resolve`: load, discover, merge; the discovery cache; the proofs of both modules | extends and implements `ProfileManager`; `Selection` |
| `MC*` | instances for TLC | |

### ClaudeQuery

A control request is one task per `Callers`, with a program counter `pc` for the
stretches of `send_control_request` between its awaits:

| `pc` | code |
|---|---|
| `idle` → `writing` | takes the next id (`Issue`) |
| `writing` → `written` | writes the request, before anything is registered (`WriteRequest`, `WriteFails`) |
| `written` → `registered` | under the mutex, takes a parked answer or leaves a sender (`Register`) |
| `registered` → `waiting` | looks at `reader_terminated` (`CheckReader`) |
| `waiting` → `idle` or `expired` | the answer or the timer (`TakeAnswer`, `Expire`) |
| `expired` → `idle` | removes the sender (`RemoveExpired`) |
| any → `idle` | the future is dropped (`Cancel`) |

`senders`, `buffered`, `pendingClose`, `terminated` and `counter` are the fields
of `QuerySharedState` and `Query`; `inbox[i]` is what was sent into the oneshot
channel of request `i`; `result[i]` what its caller got. The reader task has a
program counter `rpc`: `top` of the loop, in a `timed` or an `untimed` read, in
a `callback`, `sending` a message, `marking` and `sendingError` after a read
error, `gone`, `aborted`. The CLI is external: it prints any line at any time,
answers a request it has received late, twice or never, and may stop cleanly or
with an error.

Abstractions: an SDK message is its number and whether it is a result or fails
to parse; a payload is a member of `Answers`. A write to stdin is a step that
does not block. `receive_next_message` needs `&mut Query`, so it runs only when
no control request is in flight (`NoBorrow`). Not modelled: the `initialized`
flags, a response with an unknown or missing id (it is like a skipped line), the
spawned input stream.

`lostReplies` is a history variable: replies to callbacks the CLI asked for
before its first result that found stdin closed, with who had closed it.

### ClaudeTransport

The output of the CLI is a stream of pieces; `Parts` pieces make a JSON message,
and any piece may end a line, as a newline inside a long message does. `line` is
the local variable of `read_line`, `buffer` the `JsonStreamBuffer`. All of a message
parses (`IsWhole`) and a beginning of one does not (`IsBeginning`); anything else that
comes together in the buffer, after a stray line or a part that was lost, may parse
or not (`Glued`), and is delivered as 0 when it does. The code does not tell such a value from a
printed one, and no property says it would. `ReadFails` is an I/O error or a byte
that is not UTF-8 in `read_line`, or an error of `child.wait()`. `lock` is
the mutex of the close state, which the reader holds over `child.wait()`. With
`Timed`, the reader's read may be dropped by the timeout the reader task of
`Query` puts on it while a close of stdin is pending; with `Shared`, the halves
are those of `SplitAdapter` and share one mutex (`InnerHeld`). `BeginClose` may
come before or after the reader task has stopped: `shutdown` joins it, `Drop`
does not. Since a line holds at most one message in the model,
`pending_messages` is always empty and left out.

### CodexTurn

A turn is one call of `Thread::run`, whose future drives everything: the start
of `CodexExec::run` and the stream it returns. Its `pc` is `idle`, `writing`
(`write_all` of the input), `reading` (the loop over lines), `killed` (cancelled,
waiting for the child and its stderr), `waiting` (after the end of stdout, for
the child and its stderr), `done`. `threadId` is `Thread.id`; `resumed` what a
turn's command line was given, `thread` what the `thread.started` event told it.
Any number of turns may run at once, since `run` takes `&self`. Dropping the
future (`Drop`) and every error path (`Abandon`) drop the `Child`, which is
killed if it runs (`KillOnDrop`).

The child is external: it reads its input or not, prints its first event, items
and a final event, or a line that is no event, closes its stdout and lingers,
exits either way at any point, and leaves a descendant that holds its stdout and
stderr open (`held`). Input and lines are counted, not spelled out. Turns that overlap
on a fresh thread may start two threads, and the last to consume its
`thread.started` wins; no property forbids it, and `SequentialTurnsShareThread` is about
turns that do not overlap. Not modelled:
a thread resumed from an id given by the caller (it starts with `threadId` set),
a child that closes its stdin without exiting, the schema file.

### ProfileManager

The file has a `version` that grows with each modification and a `content` that
is good, bad or missing. Each modification gives it an mtime of its own, so
`fileMtime` and `seen` hold versions too, and 0 for a missing file. A call goes
through `stat`, `metadata` (the mtime, before the lock), `lock`, `reading` (with
the write lock, while the file goes on changing), `resolve` (with the lock
taken anew) and `done` (with its answer). What an id resolves to is named by the
version it came from.

### ConfigResolution

The steps of `ProfileManager` become those of a `resolve`, or of a reload, and
each task gets a `stage`: `load` (a call of `ProfileManager` is under way),
`discover` (about to look at the discovery cache), `probe` (command `attempt` of
the CLI runs), `store`, `merge`. `own` and `found` are the local variables of
`resolve`: the version whose profile was loaded, and the catalogues the discovered
lists are from. A catalogue is what the CLI lists between two updates of it
(`Upgrade`), and `ago` how long it has not been listed. A plain `load` is the first
part of a `resolve` and does nothing to the shared state that a `resolve` dropped
after it would not, so it has no action of its own.

Time is counted in ticks of `DISCOVERY_COMMAND_TIMEOUT`: a command is given up
when it has run for a tick (`MayWait`), and an entry of the discovery cache lives
for `Ttl` of them (100 in the code). That no tick passes in `store` and `merge`
is an assumption: tokio polls a task that is ready within less than 3 seconds.
The commands of a kind are tried in turn until one prints a list that is not
empty when parsed; a CLI that is not found goes straight to `store` with the
fallbacks, which are cached like an answer. `Dedupe`, `ParseModels` and
`ParseLevels` do what the parser does to the values once it has picked them out of
the JSON or the text.

A slow discovery may replace a newer entry by an older one, and a failed one a
good one: nothing in the code prevents it, and its docs promise nothing else.
What holds is that the age of an answer is bounded (`DiscoveredIsRecent`).

Not modelled: where the CLI is looked for, how values are found in its output,
file keys that are spelled in two ways.

### SdkClient

`kind` says whether the model is a client or one call of `query_fn.rs`. A
connection is a number, and stands for its `Query`: `query` is the field of the
client, `op.conn` the `Query` that the future of the operation in progress owns,
`closers` the tasks that `Query::drop` has spawned. `op.at` is where the operation
is, between two awaits:

| `op.at` | code |
|---|---|
| `join`, `joined` | `handle_initial_message_stream_task`: the handle is taken, the task aborted unless it is only waited for, and joined (`TakeTask`, `Join`) |
| `close` | `disconnect`, also at the begin of `connect`: the query has left the client and is being closed (`TakeQuery`, `CloseEnds`, `CloseFails`) |
| `ready`, `start` | options checked, transport created, not yet connected (`Refuse`, `CreateTransport`, `StartFails`) |
| `init`, `prompt` | the CLI runs, `initialize` and then the prompt are under way (`Start`, `InitializeEnds`, `WritePrompt`, `Establish`) |
| `collect`, `failing` | `collect_messages`, or the stream of `into_message_stream` (`Collect`, `Collected`) |
| `writing`, `receiving` | `query_stream`, `receive_response` |

`Cancel` drops the future at each of these, with what it owns; `DropClient` is
`Drop`. An operation with `&mut self` excludes all others, and the control
operations with `&self` change nothing here: their requests are those of
`ClaudeQuery`. `cli[c]` is the process of a connection, and `due[c]` the user
messages it has yet to answer. `out[c]` is what the reader has put into the
channel, as `message`, `result` or `error` (a message that does not parse, or a
failed read). `silent` has the connections whose reader ended without putting
anything there, which is what a panicking handler of an SDK MCP tool does to it
(`ReaderPanics`): the CLI runs on, and the messages are over (`Over`). The background task of
`connect_with_messages` is `task[c]`; an aborted one may finish the poll it is
in. `said`, `established`, `detached` and `outcome` are history.

Not modelled: sockets and pipes that fill up, the hooks and servers configured
on a client (they are callbacks of `ClaudeQuery`), environment and paths.

### SessionFiles

An entry of the transcript is named by its line, and has a parent; `message`
stands for user and assistant, `note` for other types; `side` entries are those
of a sidechain or team and meta entries. `Entries`, `Terminals`, `Nearest`,
`Preferred`, `ChainTo` and `Messages` translate the stages of
`build_conversation_chain` and `get_session_messages`; the walks up the tree are
recursive functions over lines, since a parent is always an earlier line (the
code's guard against cycles has no counterpart). The CLI appends messages, notes
and side entries, goes back to an earlier entry (`Rewind`), has a line half
written, and dies in it (`Die`), after which the next entry is lost on the same
line. `got` is what the pages asked for so far have returned, each at the offset
of what came before. `ListSessions` takes files in any order, from which `Kept` makes
one copy per session, file by file (`Replaced`), and sorts them by time, with ties
in any order, as the map's iteration order leaves them.

Not modelled: where the files are, summaries and sizes, the head and tail of a
file that a listing looks at.

### Opencode

`OpencodeServer` is one `create_opencode_server` and the server it returns.
`start` is where the start, then the server, is; the `select!` is the choice
between `Timeout`, `ReadLine`, `LogsEnd` and `ChildExited`, which are all
possible whenever their event is there, since `tokio::select!` picks at random.
`child` tells a killed child that has not been seen to end (`dying`) from a dead
one; the two reader tasks share a channel, `logs`.

`OpencodeRequests` has the two tables of the code: `OperationSpec`, namespace by
namespace, and the `*Api` sets of the methods that name a route themselves. `Render`
fills the placeholders of a route as `resolve_path_value` and its caller do, with the
four names under which a value is looked for (`Keys`, and `id` for a route with one
placeholder). The names that the code derives from that of the placeholder are
written out (`KeysOf`). Values are told apart by their key, since where a value comes
from is what could be wrong.

`OpencodeEvents` has the parser, byte by byte, over the few bytes that it tells
apart. The data of an event are a sequence of lines there, which the code keeps
joined (`PushData`). Beside it is what a body says when it is read as a whole
(`EventsOf`): its lines, the blocks of them between blank lines, and of each block the
last value of each field. It serves as the reference, and shares with the parser only
how one line is taken apart. `Opencode` puts a call and a stream beside the server; the
client keeps no state of its own.

Not modelled: the TUI process, query strings, headers, bodies and encodings, the
error payload of an answer, and OS errors of `wait`, `try_wait` and `start_kill`
(`opencode/src/server.rs:79`, 212, 230), after which the code leaves without
ending the child.

### EventPipeline

A JSON value is two pieces, so that a line or a chunk can end inside it; besides
there are line ends, blanks, text that is not JSON and bytes that are not UTF-8.
`ProviderLogs` translates both normalizers, the message parser and the converter
as functions from a state and a chunk to a state and logs: `ClaudeByte` and
`CodexByte` take one byte, and `Bytes` runs them over a chunk. The sets `Blocks`,
`Usages`, `ClaudeValues`, `Items` and `CodexValues` say what of a value the code
looks at; `LinesAssumption` says that the lines of a CLI are made of such values,
cut anywhere. `EventPipeline` has
one action per turn of the loop of `event_stream`: it emits the start, pulls a
chunk of any length (`PullChunk`), meets the end (`PullEnd`, with flush and
`SessionCompleted`), pops an event (`Pop`), waits for the hooks registered for its
type (`HookReturns`) and hands it over. A dropped poll leaves all state in the
stream, so a poll is not an action. Both CLIs may print any of
their lines in any order: results for calls that are unknown or over, one call many
times, reports of items that never started. The Claude normalizer keeps calls in
`pending_tools`, which is what `ToolsPaired` is about; the Codex normalizer keeps none, and
tells of an item what its line says, so the property leaves it out. Text that is not
JSON is of two kinds: `Junk`, which no value can begin with and which is rejected at
once, and `Openings`, which serde_json takes for the beginning of a value, so that the text stays in
`json_buffer` and takes the next line with it. `JunkDoesNoHarm` is about the first kind, between whole
values; `Recovers` about the second, and about stray lines inside a value.
All is printed before the stream is first polled, which loses nothing
as chunks end anywhere.

Not modelled: a hook that panics, the texts of events, the lists of the process a
session wraps, `wait` and `cancel`.

### SessionRegistry

A client is named by the call of `spawn` or `resume` that made it; `sid` is the
session the CLI gave it, `client` whether its `Query` is there (`up`), dropped
and being closed (`closing`) or gone (`down`). `at` is the await a call is at; what
`store_client` does under one hold of the lock is one step (`RemoveOld`,
`Restore`, `Insert`), and the disconnects between them fail or are dropped. `held`
is the replaced or evicted client a call owns. A call that finds another client
of its session in the map by then displaces it, and drops it. `restored` is a
history variable: clients put back after a failed disconnect.

## Runs

| Run | Instance | What it shows |
|---|---|---|
| `query_control` | 2 callers, 2 requests, no SDK messages | the races between callers, reader task, timers and the end of the connection; refinement of `RequestReply` |
| `query_stream` | 1 caller, 1 request, 2 SDK messages, channel and pipe of 1, MCP callbacks | messages in order through a full channel; deferred close of stdin; with the reader blocked, in a callback, gone by a panic or at a read error, the request comes back and the owner sees the end |
| `query_permission` | permission callback only | finding: stdin closed under a pending permission request |
| `transport` | 3 messages of 2 pieces, buffer of 3, pipe of 2, stray lines, timed reads | assembly of messages, exit status, close |
| `client` | 2 connections, prompts of 1 message, 2 printed | no CLI is orphaned, sessions do not overlap, the feeder ends with its session, what was collected is what was written, dropped means dead |
| `history` | transcripts of 4 lines; 3 files of 2 sessions in 2 directories, 2 times | the newest branch is shown, pages fit together, listing is newest first and without duplicates |
| `codex` | 2 turns, 2 pieces of input, pipes of 1, 1 item | no child outlives its turn; success is a whole turn; turns in sequence share a thread |
| `codex_cancel` | 1 turn | finding: the token is not looked at while writing or waiting |
| `opencode` | 2 log lines, all operations with up to 3 path parameters, 9 bodies | no child left by a failed start, starts end, requests are as named, events are whole |
| `pipeline` | 3 lines of either provider, one hook for errors | framing, chunking, stray lines between values and in them, the tool calls of Claude, hooks |
| `registry` | 4 calls, 3 session ids, room for 1 session | live clients have one owner, the limit holds, a live session is not replaced by a dead one |
| `profile` | 2 tasks, 2 versions of the file, 2 catalogues, 1 command of each kind, entries that live for 2 ticks | profiles are fresh, a configuration comes from one version in the order of its layers, discovered lists are recent |

Type invariants are proved, or were checked while the modules were written; no
run repeats them.

Bounds. Two callers are enough for the races of the protocol: callers meet only
in the two maps, which are keyed by request, so a third adds no new pair of
steps; two requests let one caller issue a second after a timeout, with the
answer to the first still to come. A channel and a pipe of one are always
either empty or full, which is when senders block. In `query_stream`
two messages and a channel of one make the reader block on the second, or on the
error behind the first, while the request keeps the owner from receiving; a reply to a
permission callback takes the path of one to an MCP callback, which can panic besides.
The transport's
buffer of 3 pieces for messages of 2 lets a stray or a cut piece both fit and
overflow. Two pieces of input for a stdin pipe of one make a turn block on a child
that does not read; two turns overlap or follow one another, and they meet only
in the thread id. Two
versions of the profile file are one change at any point of a load, a reload or a
discovery, which is what it takes for a stale answer or a mixed one; longer
histories, in which the file goes away and comes back inside one slow reload, are
left to the proofs, which cover any number of versions, tasks, commands and ticks.
Two tasks are two discoveries that overlap.

Two connections are a session and its successor: an operation of a client only
knows the last one, and the proofs cover any number. Four lines of transcript
hold a conversation of two messages, an abandoned branch and a side entry, in any
order. Two log lines fill the Opencode server's channel with the URL before or
behind another line; three path parameters are the most a route has, so every way
to give too few, too many or the wrong ones is there. Each of the nine bodies is
cut at every byte. Three lines let a stray line fall before, between and behind
the two halves of a call and its result. Four calls on one session id, with room for
one, let a displacement, a failing replacement and an eviction meet; the proofs
cover any number of calls and any limit.

A session ends, after which nothing may be possible: the runs of `ClaudeQuery`,
`ClaudeTransport`, `SdkClient`, `CodexTurn`, `Opencode` and `SessionRegistry` set
`CHECK_DEADLOCK FALSE`, and so does `SessionFiles`, whose transcript reaches its
bound. In `ConfigResolution` a call can always begin, and in `EventPipeline` the
stream that is over says so for ever (`Over`): there deadlock is checked.

Fairness. `ClaudeQuery` (`query_stream`; `query_control` has safety only): weak fairness of each caller's steps (tokio polls a
task that is ready and fires its timers), of the reader task (its callbacks
return) and of the owner's receive. `ClaudeTransport`: weak fairness of the
reader, of a write and of a close once begun. `SdkClient`: weak fairness of the
closing tasks, which tokio polls like any other. `OpencodeServer`: weak fairness
of the timer, of the wait for a child that has ended, and of SIGKILL. `CodexTurn`
(for `CancelAborts` only): weak fairness of a turn's steps. Nothing is assumed of
the CLIs, nor that the owner ever closes or goes on with an operation.

## Findings

Two runs show the code doing something other than what a doc, comment or test
of the repository says. Each is an expected violation of one property:

- `query_permission`: `has_hooks_or_mcp` ignores `can_use_tool`, so a one-shot
  query with only a permission callback ends its input at once.
- `codex_cancel`: the cancellation token is looked at between lines only; a turn
  that writes to a child that does not read, or waits for one that lingers after
  its stdout ended, goes on.

Five more behaviours are stated by properties that no run checks; TLC refutes
each of them with the constants given:

- `OkMeansAll` (`SdkClient`; one connection, prompts of 1, 2 printed): a panic in the
  handler of an SDK MCP tool (`query.rs:1152`) is not caught, as those of hooks and
  permission callbacks are. The reader ends, the channel closes,
  `receive_next_message` returns `None` and `collect_messages` answers `Ok` without the
  result, where `query_fn.rs:34` promises "all messages from the interaction".
- `CutLinesSurvive` (`ClaudeTransport`; two messages of 2 pieces, buffer of 3, `Timed`,
  no strays): the timeout of a deferred close (`query.rs:880`) drops
  `read_next_message` with a partly read line. The message it began is lost, though the
  buffer behind it "handles cases where JSON objects span multiple lines or chunks"
  (`subprocess_cli.rs:52`).
- `NoWaitOnDeadReader` (`ClaudeQuery`; one caller, one request, no messages): only
  a read error fails the pending requests; after an end of file, a panicking MCP
  tool handler or a dropped receiver they wait for their timeout, and later ones
  do too.
- `DeferredCloseHappens` (`ClaudeQuery`; one message, `hook_callback`): the reader
  looks at `pending_stdin_close` before it starts a read; a close deferred during
  that read has no timeout.
- `WriteProceeds` (`ClaudeTransport`; `Shared`): with `SplitAdapter` a write waits
  for the read in progress.

Smaller observations, of behaviour that no doc of the repository contradicts: a
start of the Opencode server whose future is dropped leaves its child running; a
client that was put back after a failed disconnect makes the registry exceed its
limit for good; a wait for the initial messages that is dropped leaves their task
without a handle, so that it may write on after its session; a side entry below
the newest message lets an older branch be taken for the conversation; the two
methods of `oauth()` want their parameter as `id` where the operations of the same
routes want it as `providerID`.

## Proofs

Each `*_proofs` module proves its theorems for every value of the constants that
the assumptions of the model admit. Where a property is not inductive, the
theorem rests on a stronger invariant; what it adds is said here.

`ClaudeQuery_proofs`, for any callers, bounds, capacities, messages and answers:

- `TypeCorrect`: `TypeOK`, action by action.
- `InFlight`: the inductive invariant of the requests. None of the three
  properties below is inductive: that a waiting caller's sender is in the map
  needs that no two tasks work on one request id (`DistinctIds`), which needs ids
  above `counter` to be unused; that the reader drained after setting the flag
  needs to know what is possible in `marking`; and that shutdown is alone
  (`ShutdownIsAlone`) rules out callers after the reader is aborted.
- `NoStranded`, `WaiterReachable`, `ParkedHasNoWaiter` follow from it.
- `Refinement`: `Spec => RefinesRequestReply`. It needs where each value in
  flight came from (`ProvenanceInv`): what is in an inbox, in the buffer or in
  the pipe was answered by the CLI to that id, and "terminated" is only ever
  there when `terminated` holds.
- `Delivery`: `DeliveryInOrder`. The property speaks of what the owner has; the
  invariant (`StreamInv`) follows a message from the pipe through the reader's
  hand and the channel, and says that each carries on where the next one to be
  read ends (`Continues`). A read error is the last item of the channel.
- `EarlyRepliesAreKept`: `EarlyRepliesSurvive`. `EarlyInv` says that no request
  that counts as early is behind a result in the pipe, so that the result that
  closes stdin finds no early callback open, and that with hooks or MCP servers
  nothing else closes it.

The assumptions are those of the module: finite-range bounds are naturals, the
capacities are positive, and an answer of the CLI is none of the failure names.

`ClaudeTransport_proofs`, for any number of messages and of pieces in one, and
any buffer that holds a message (`TransportInv`):

- `LosesNothing`: `NothingLost`. What has been delivered and what is held, in the
  buffer, the line and the pipe, is numbered through without a gap (`Whole`), until
  a read was dropped or a stray line came.
- `CleanEnd`: `CleanEndMeansSuccess`; `ClosingKills`: after a close has returned,
  the CLI is dead. This is the safety part of `CloseCompletes`, and rests on who
  holds the lock (`CloseInv`).

The pieces are numbered by `(msg - 1) * Parts + part`; the lemmas on products and
remainders by a constant that is no numeral are there since the provers have none.

`CodexTurn_proofs` proves `TypeOK`, `NoOrphan`, `OkIsComplete` and
`SequentialTurnsShareThread` for any set of turns, input size and pipe capacity.
The invariant (`TurnInv`) is about one turn at a time, and a step of one turn
leaves the others alone (`OthersUntouched`): an idle turn has no child and a killed
one none that runs (`ChildFits`, without which `NoOrphan` is not inductive); and
while a turn reads, the items collected and those in the pipe are the items
printed, and a failure printed is still in the pipe (`Accounted`, on which
`OkIsComplete` rests). The lemmas `AppendPipe` and `TailPipe` say what printing and
taking a line do to the count of items. The last property is about all turns at
once (`ThreadInv`): as long as no two overlap, the id that a `thread.started` line
has, in the pipe or already taken, is the one the thread has, or the one it gets
from it (`OneThread`); turns that are over no longer move (`Settled`).

`SdkClient_proofs` proves `TypeOK`, `NoOrphanCli`, `SessionsDoNotOverlap`,
`FeederStaysInSession` and `CollectedIsWhole` for any number of connections and
any length of prompts and answers. The invariant is `ClientInv`. `OpInv` says what
an operation has at each place of its course: a `Query` of its own exactly at the
places in `Owning`, no query in the client from `close` on, the number of the
connection it is making. `ConnsInv` says that connections are begun in turn and that
what is owned has been spawned. Without them a connect could spawn a CLI while the
client still has a session, and `SessionsDoNotOverlap` would not be inductive.
`FeederInv` says that the task that runs has its handle in the client or in a
wait: since `disconnect` takes the handle before the query, the task is told to
end first. For `Collecting`, `WholeInv` adds that the one-shot operation never
becomes another, that what was said is what the reader has taken followed by what is
in the channel, and no more than a beginning of it once the reader fell silent
(`SaidInv`), and what an outcome may be once it is there (`OutcomeInv`).

`Sessions_proofs` is about the two components that keep sessions. Of
`SessionRegistry` it proves `TypeOK`, `LiveMeansOwned`,
`LiveIsNotReplacedByDead` and `TrackedWithinLimit` for any calls, ids and limit
of at least one. The invariant says that the map has a client under its own id
and only once its call has put it there (`MapInv`), that what a call holds is no
longer in the map and is about to be put back only if it is down (`HeldInv`), and
that no two calls hold the same client (`HeldOnce`). The limit needs a count: the
map grows by one in `Insert` or `Restore`, and the lemmas on cardinalities show that
the eviction, or the client put back, makes up for it.

Of `SessionFiles` (`HistorySpec`) it proves the three properties, for transcripts and
listings of any length:

- `TranscriptIsInvariant`: the invariant `TranscriptInv`, which has four parts. An
  entry's parent is an older line (`TypeInv`); only the last line can be unfinished,
  unless the CLI has died in one (`WholeInv`); the conversation up to an entry is
  that of its parent, with the entry if it is visible (`ConvInv`); and until the CLI
  rewinds, the conversation up to every entry, and the pages so far, begin the one
  up to the head (`PathInv`).
- `PagesAreOneConversation`: `PagesFollowConversation`, from `PathInv`. It is not
  inductive: that the pages begin some conversation does not make the next page go
  on with the same one. That it does takes what the reader computes: without a death
  the whole lines are all or all but the last (`EntriesAreFirst`), the visible part of
  the chain to an entry is its conversation (`ConvIsVisible`, by induction along the
  parents), so that a page is cut from some conversation of the transcript
  (`MessagesAreConv`, `PageIsPrefix`). The side condition on rewinds is what makes all
  of these begin the head's.
- `NewestIsShown`: `NewestBranchIsShown`. The newest message is on the way to an
  entry without children, since the last entry that has it on its way is one
  (`BranchEnds`). The leaf of that branch has it on its way too (`NearestIsBelow`), so
  by the property's condition it is no side entry; then it is a visible message that
  is not older than the newest one, so it is the newest one. No main leaf is newer, and
  the chain to it shows its conversation.
- `NewestAreListed`: `ListingIsNewest`. One more file leaves one newest copy of each
  session (`ReplacedKeeps`), hence so do all of them in any order (`KeptIsOneOfEach`);
  an order of a finite set has each element once (`Orders`); and a limit keeps the
  beginning (`LimitedIsFirst`), after which only older ones follow.

`ConfigResolution_proofs` proves of `ProfileManager`, for any tasks, ids and
versions, `TypeOK`, `FreshUnlessMissing`, `StaleIsNoticed`, `ResolvedIsCurrent` and
`NeverGoesBack`, from the invariant `Fresh`: the recorded mtime is not after the
cached content, which is not after the file (`CacheIsPast`); what a call has seen is
not older than the call (`CallIsPast`); and a call about to resolve has a cache
at least as new as itself, or saw no file (`ResolveIsFresh`). Of the composition:

- `Implements`: each of its steps is one of the profile cache, or none, so that
  `FreshUnlessMissing` and `StaleIsNoticed` carry over.
- `DiscoveryIsRecent`: `DiscoveredIsRecent` for any tasks, catalogues, commands and
  ticks. The invariant (`Recent`) says of each place that can hold lists how old
  they may be: in the cache, an entry ages as its life runs out (`EntryIsRecent`); in
  a task, by a tick at most for each command it has run (`TaskIsRecent`). The property
  speaks of tasks that merge only, and would not be inductive.
- `Layered`: `ConfigIsLayered`. That the lists are never empty is an invariant
  (`ListsAreFilled`); that the preferred level is among them is a fact about
  `Dedupe` and `PreferredLevel`, proved from what `Keep` returns.

The assumptions are those of the modules: there is a catalogue, a command of each
kind and a life of a tick; the levels a CLI lists have a lower-case form, the
default levels are not none, and no level is written like the `None` of an option
(`LevelsAssumption`). `StaleIsNoticed` and `NeverGoesBack` are proved and no run
repeats them.

`EventPipeline_proofs`, for any lines of either CLI, any chunks, any hooks:

- `TypeCorrect`: what the normalizers keep, the logs they produce and the events
  made of them are of the types the next stage takes (`TypeInv`). Among other things
  this says that every branch of the functions has a value: a `CASE` without a case
  that fits would have none.
- `ChunksDoNotMatter`: `ChunkingIsInvisible`. `BytesConcat` says that running the
  normalizer over two chunks is running it over their concatenation,
  `ConvertedConcat` the same of the conversion, by induction over the second chunk;
  `StreamInv` says that what has been told is the conversion of the output consumed,
  read in one piece.
- `WholeOutput`: when the stream is over, its events are `SessionStarted`, those of
  everything the CLI printed and of the flush, and `SessionCompleted`. No run
  repeats it.
- `WellFramed`: `Framed`, of which the exit status is the part that could go wrong:
  `sawError` is whether any event so far is an error, also those of the flush.
- `CallsArePaired`: `ToolsPaired`, the property with the longest argument. It needs
  no invariant of its own. Every step of the Claude normalizer keeps that the calls in
  `pending_tools` have more starts than ends in what has been said (`Good`, from
  `GoodBlock` up to `GoodBytes`), so a result that finds its call there finds one to
  end, whatever was printed before. That makes the whole output paired (`SaidOutIsPaired`),
  and the events so far are a beginning of what it says (`EventsArePaired`).
- `Recovering`: `Recovers`. After the first value the buffer is empty, or still holds
  what was there with that value behind it (`TextTaken`). Two values behind something
  are neither a value nor the beginning of one (`TwoTexts`), so the second one is
  taken alone or empties the buffer with an error (`TwoValuesClear`). What was read up to a line is cut into lines again with
  `BetweenLines`; that every line printed but the last has its end (`LinesEnd`), and
  that the flush leaves nothing (`EndInv`), are invariants.
- `StrayLinesDoNoHarm`: `JunkDoesNoHarm`. The invariant (`JunkInv`) compares the
  output printed so far with the same output without its stray lines: both leave the
  normalizer in one state, which is between two lines and holds nothing (`AtRest`),
  and say the same apart from errors. That a whole value on a line leaves it at rest
  again is a fact about every branch of `ProcessValue` (`ValueKeepsText`).
- `HooksFirst`: `HooksAreAhead`. `HookInv` says which hooks still run for the event in
  flight, and what each has seen.

The assumptions are that the lines a CLI prints are made of values of its kind
(`LinesAssumption`), and that the window of the configuration is a number of tokens
(`CountsAssumption`).

These proofs, those of `SessionFiles` above, and `Layered` and `EventsComeWhole` rest on
induction over recursive functions. The library's induction theorems take an operator
as a parameter, which no prover here can instantiate. `Induction`
states it of a set instead: a set that has 0, and with each number the next, has
them all, since its complement would have a least element. From it follow
`SequenceInduction`, and that a function defined by `f[n]` from `f[n - 1]` exists and
has the values its definition says (`Recursion`, `KeepRuns`, `FlattenRuns`,
`BytesRuns`).

`Opencode_proofs`, for any number of log lines, any bodies and any parameters:

- `NoChildRemains`: `NoChildLeft`, with the client beside the server. It is not
  inductive: it says nothing of the places from which a start fails (`ChildFits` does).
- `EachIsAsNamed`: `RequestsAreAsNamed`. The invariant (`SentInv`) is small: what is
  sent is what `Render` makes of a route of the operation, or of the method. The rest
  is about the tables: no two placeholders of a route share a key (`TableClear`, row by
  row), so that no value is taken twice (`FilledApart`); the exact name is the first
  key tried (`FirstKey`); and what the methods send are rows of the table of operations
  (`DirectIn`).
- `EventsComeWhole`: `EventsAreWhole`. The invariant (`SseInv`) is that the parser's
  whole state, the line and the event under way with the events yielded, is a function
  of the bytes read (`Parsed`), which makes the cuts between chunks disappear.
  `ByteTaken` says that a byte more keeps it so, from what a byte does to the lines
  (`LinesStep`), a line to its block and the events (`EventsStep`), and a line to the
  event of its block, field by field (`EventGrows`). `EndTaken` says that the end of
  the body does what the end of a line and a blank line would.

The assumption is that the bodies are sequences (`BodiesAreSequences`).

Only model-checked is liveness (`RequestResolves`, `StreamEnds`, `ArmedCloseHappens`,
`CloseCompletes`, `EndIsSeen`, `DroppedMeansDead`, `StartEnds`, and `CancelAborts`, which
a run refutes): TLAPS has no rules for fairness and `ENABLED` here. Every invariant and every action
property that a passing run checks is also the property of a theorem.

## Plan

All modules of the plan are written, and what they state of safety is proved. What
would come next are writes that block on a full stdin pipe, for the circular wait
between the CLI, the reader and the owner of a `Query`.

## Not modelled

Argument building and configuration flattening, how discovery output is taken
apart, encodings of URLs, headers and bodies, texts of messages and logs: formatting and pure I/O.
The TUI process of the Opencode SDK, the SDK's MCP servers (dispatch without
state) and the Codex executor, which joins a turn and an event stream. Where
session files are looked for; a listing looks at all copies of a session, while
`get_session_messages` reads the first it finds. Writes that block on a full
stdin pipe, and therefore the circular wait between a full stdin, a full stdout
and a full channel. The file system's mtime resolution: two changes of the
profile file within it look like one. Keys of the profile file that normalize to
the same name: which of them wins is left to the order of a `HashMap`.
