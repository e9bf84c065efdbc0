----------------------------- MODULE SdkClient -----------------------------
(***************************************************************************)
(* The life of the connections of a ClaudeSdkClient (client.rs), and of    *)
(* the one connection of a one-shot query (internal_client.rs,             *)
(* query_fn.rs).  What happens inside a connection is the subject of       *)
(* ClaudeQuery; here a Query is the number of its connection, which is     *)
(* owned by the client, by the future of an operation, or by a task that   *)
(* Query::drop has spawned to close it.                                    *)
(*                                                                         *)
(* Operations with &mut self exclude all others, those with &self leave    *)
(* the connection alone, so there is one operation at a time.  Its future  *)
(* may be dropped at every await (Cancel).  The background task of         *)
(* connect_with_messages, the closing tasks and the CLIs run beside it.    *)
(***************************************************************************)
EXTENDS Naturals, Sequences, FiniteSets

CONSTANTS
    MaxConns,   \* bound on the connections of a client
    MaxPrompt,  \* messages of a prompt that is a list or a stream, and of those
                \* that a CLI has yet to answer
    MaxPrinted  \* bound on what a CLI prints

ASSUME BoundsAreNaturals ==
    MaxConns \in Nat \ {0} /\ MaxPrompt \in Nat /\ MaxPrinted \in Nat

Conns == 1..MaxConns
None == 0

VARIABLES
    kind,         \* "client", or "oneShot" for a call of query_fn.rs
    options,      \* can_use_tool and permission_prompt_tool_name
    factory,      \* transports may be had again and again, or a single time
    spent,        \* the single-use transport has been taken
    conns,        \* connections begun so far
    op,           \* the operation in progress
    query,        \* ClaudeSdkClient.query
    initTask,     \* initial_message_stream_task: the connection it writes to
    task,         \* [Conns -> state of that background task]
    closers,      \* connections whose Query was dropped and is being closed
    cli,          \* [Conns -> "none", "running" or "dead"]
    due,          \* [Conns -> user messages written and not yet answered]
    out,          \* [Conns -> what the reader has read and nobody has received]
    silent,       \* connections whose reader ended without a word
  \* history
    said,         \* what the CLI of a one-shot query printed
    established,  \* connections whose connect returned Ok
    detached,     \* connections whose task lost its handle to a cancelled wait
    outcome       \* what a one-shot query returned

ownVars == <<kind, options, factory>>
taskVars == <<initTask, task, detached>>
cliVars == <<cli, due, out, said, silent>>
vars == <<ownVars, spent, conns, op, query, taskVars, closers, cliVars, established, outcome>>

Names == {"connect", "connectWith", "disconnect", "wait", "stream", "receive", "oneShot"}
Prompts == {"none", "text", "messages"}

\* conn is the Query, and joined the task, that the operation's future owns;
\* left counts the messages of its prompt still to write.
Op(name, at) == [name |-> name, at |-> at, prompt |-> "none", left |-> 0,
                 conn |-> None, joined |-> None, asStream |-> FALSE, got |-> <<>>]
Idle == Op("none", "idle")
Dropped == Op("none", "dropped")

Init ==
    /\ kind \in {"client", "oneShot"}
    /\ options \in [canUseTool : BOOLEAN, promptTool : BOOLEAN]
    /\ factory \in (IF kind = "client" THEN {"many", "single"} ELSE {"single"})
    /\ spent = FALSE /\ conns = 0
    /\ op = Idle /\ query = None
    /\ initTask = None /\ task = [c \in Conns |-> "none"] /\ detached = {}
    /\ closers = {}
    /\ cli = [c \in Conns |-> "none"] /\ due = [c \in Conns |-> 0]
    /\ out = [c \in Conns |-> <<>>] /\ said = <<>> /\ silent = {}
    /\ established = {}
    /\ outcome = [ok |-> FALSE, conn |-> None, got |-> <<>>]

----------------------------------------------------------------------------
(* handle_initial_message_stream_task, disconnect *)

Live(t) == t \in {"running", "aborting"}

\* A plausible bug: the handle of the task is dropped, which neither aborts nor joins it.
TakeTask_Drops(name, prompt) ==
    /\ initTask' = None
    /\ op' = [Op(name, "joined") EXCEPT !.prompt = prompt]
    /\ UNCHANGED <<ownVars, spent, conns, query, task, detached, closers, cliVars, established, outcome>>

\* The task is taken out of the client, and aborted unless it is only waited
\* for; an aborted task may finish the poll it is in.
TakeTask(name, prompt) ==
    /\ initTask' = None
    /\ IF initTask = None
       THEN /\ op' = [Op(name, "joined") EXCEPT !.prompt = prompt]
            /\ UNCHANGED task
       ELSE /\ op' = [Op(name, "join") EXCEPT !.prompt = prompt, !.joined = initTask]
            /\ task' = IF name # "wait" /\ task[initTask] = "running"
                       THEN [task EXCEPT ![initTask] = "aborting"] ELSE task
    /\ UNCHANGED <<ownVars, spent, conns, query, detached, closers, cliVars, established, outcome>>

Connect(name, prompt) ==
    /\ kind = "client" /\ op = Idle /\ conns < MaxConns
    /\ name = "connectWith" => prompt = "none"
    /\ TakeTask(name, prompt)

Disconnect == kind = "client" /\ op = Idle /\ TakeTask("disconnect", "none")

WaitForInitialMessages == kind = "client" /\ op = Idle /\ TakeTask("wait", "none")

\* The task is over.  Its failure is reported to a wait and swallowed otherwise.
Join ==
    /\ op.at = "join" /\ ~Live(task[op.joined])
    /\ op' = IF op.name = "wait" /\ task[op.joined] = "failed"
             THEN Idle ELSE [op EXCEPT !.at = "joined", !.joined = None]
    /\ UNCHANGED <<ownVars, spent, conns, query, taskVars, closers, cliVars, established, outcome>>

\* What was received and not asked for goes with the receiver.
DropReceiver(c) == out' = [out EXCEPT ![c] = <<>>]

\* The query leaves the client before it is closed, and closing it begins
\* with its receiver.
TakeQuery ==
    /\ op.at = "joined" /\ op.name # "wait" /\ query # None
    /\ query' = None
    /\ op' = [op EXCEPT !.at = "close", !.conn = query]
    /\ DropReceiver(query)
    /\ UNCHANGED <<ownVars, spent, conns, taskVars, closers, cli, due, said, silent,
                   established, outcome>>

\* A plausible bug: connect does not disconnect a client that is connected.
NoQuery_Connected ==
    /\ op.at = "joined"
    /\ \/ op.name \in {"wait", "disconnect"} /\ (op.name = "wait" \/ query = None) /\ op' = Idle
       \/ op.name \in {"connect", "connectWith"}
          /\ op' = [op EXCEPT !.at = "ready"]
    /\ UNCHANGED <<ownVars, spent, conns, query, taskVars, closers, cliVars, established, outcome>>

NoQuery ==
    /\ op.at = "joined"
    /\ \/ op.name \in {"wait", "disconnect"} /\ (op.name = "wait" \/ query = None) /\ op' = Idle
       \/ op.name \in {"connect", "connectWith"} /\ query = None
          /\ op' = [op EXCEPT !.at = "ready"]
    /\ UNCHANGED <<ownVars, spent, conns, query, taskVars, closers, cliVars, established, outcome>>

\* shutdown joins the reader, then kills the child and waits for it.
Kill(c) == cli' = [cli EXCEPT ![c] = "dead"] /\ due' = [due EXCEPT ![c] = 0]

CloseEnds ==
    /\ op.at = "close"
    /\ Kill(op.conn)
    /\ op' = IF op.name = "disconnect" THEN Idle ELSE [op EXCEPT !.at = "ready", !.conn = None]
    /\ UNCHANGED <<ownVars, spent, conns, query, taskVars, closers, out, said, silent,
                   established, outcome>>

\* close returns an error when the state of the child cannot be read; the
\* handle is dropped with the future and kills the child.
CloseFails ==
    /\ op.at = "close"
    /\ Kill(op.conn)
    /\ op' = Idle
    /\ UNCHANGED <<ownVars, spent, conns, query, taskVars, closers, out, said, silent,
                   established, outcome>>

----------------------------------------------------------------------------
(* connect, and process_query and its variants *)

OneShot(prompt, asStream) ==
    /\ kind = "oneShot" /\ op = Idle /\ conns < 1
    /\ op' = [Op("oneShot", "ready") EXCEPT !.prompt = prompt, !.asStream = asStream]
    /\ UNCHANGED <<ownVars, spent, conns, query, taskVars, closers, cliVars, established, outcome>>

\* A callback needs the control protocol both ways.
Rejected == options.canUseTool /\ (op.prompt = "text" \/ options.promptTool)

Fail ==
    /\ op' = IF op.name = "oneShot" THEN Dropped ELSE Idle
    /\ UNCHANGED <<ownVars, query, taskVars, cli, due, said, silent, established, outcome>>

Refuse ==
    /\ op.at = "ready"
    /\ Rejected \/ (factory = "single" /\ spent)
    /\ Fail /\ UNCHANGED <<spent, conns, closers, out>>

CreateTransport ==
    /\ op.at = "ready" /\ ~Rejected /\ ~(factory = "single" /\ spent)
    /\ spent' = (factory = "single")
    /\ conns' = conns + 1
    /\ op' = [op EXCEPT !.at = "start"]
    /\ UNCHANGED <<ownVars, query, taskVars, closers, cliVars, established, outcome>>

\* Transport::connect has its awaits before the child is spawned, and from
\* there to the request of initialize there is none.
StartFails == op.at = "start" /\ Fail /\ UNCHANGED <<spent, conns, closers, out>>

Start ==
    /\ op.at = "start"
    /\ cli' = [cli EXCEPT ![conns] = "running"]
    /\ op' = [op EXCEPT !.at = "init", !.conn = conns]
    /\ UNCHANGED <<ownVars, spent, conns, query, taskVars, closers, due, out, said, silent,
                   established, outcome>>

\* A plausible bug: Query::drop only aborts the reader.
DropQuery_Forgets(c) == closers' = closers /\ DropReceiver(c)

\* Query::drop aborts the reader and spawns a task that closes the transport.
DropQuery(c) == closers' = closers \cup {c} /\ DropReceiver(c)

InitializeEnds ==
    /\ op.at = "init" /\ cli[op.conn] = "running"
    /\ op' = [op EXCEPT !.at = "prompt",
                        !.left = CASE op.prompt = "messages" -> MaxPrompt
                                   [] op.prompt = "text" /\ op.name = "oneShot" -> 1
                                   [] OTHER -> 0]
    /\ UNCHANGED <<ownVars, spent, conns, query, taskVars, closers, cliVars, established, outcome>>

\* An error reply, a timeout, or a CLI that is gone.
InitializeFails ==
    /\ op.at = "init"
    /\ DropQuery(op.conn) /\ Fail /\ UNCHANGED <<spent, conns>>

\* One more message is in the stdin of the CLI, within the bound of the model.
Written(c) == due[c] < MaxPrompt /\ due' = [due EXCEPT ![c] = @ + 1]

\* send_input_messages and its stream variants: one write after the other.
WritePrompt ==
    /\ op.at = "prompt" /\ op.left > 0 /\ cli[op.conn] = "running"
    /\ Written(op.conn)
    /\ op' = [op EXCEPT !.left = @ - 1]
    /\ UNCHANGED <<ownVars, spent, conns, query, taskVars, closers, cli, out, said, silent,
                   established, outcome>>

WritePromptFails ==
    /\ op.at = "prompt" /\ op.left > 0 /\ cli[op.conn] = "dead"
    /\ DropQuery(op.conn) /\ Fail /\ UNCHANGED <<spent, conns>>

\* A connected client gets the query, and connect_with_messages then spawns
\* the task that writes the stream.
Establish ==
    /\ op.at = "prompt" /\ op.left = 0 /\ op.name # "oneShot"
    /\ query' = op.conn
    /\ established' = established \cup {op.conn}
    /\ IF op.name = "connectWith"
       THEN initTask' = op.conn /\ task' = [task EXCEPT ![op.conn] = "running"]
       ELSE UNCHANGED <<initTask, task>>
    /\ op' = Idle
    /\ UNCHANGED <<ownVars, spent, conns, detached, closers, cliVars, outcome>>

\* The prompt of a one-shot query is written; when its stdin is closed is
\* the subject of ClaudeQuery.
PromptSent ==
    /\ op.at = "prompt" /\ op.left = 0 /\ op.name = "oneShot"
    /\ op' = [op EXCEPT !.at = "collect"]
    /\ UNCHANGED <<ownVars, spent, conns, query, taskVars, closers, cliVars, established, outcome>>

----------------------------------------------------------------------------
(* Messages *)

Take(c) == out' = [out EXCEPT ![c] = Tail(@)]

\* The channel is empty and the reader, which sends into it, has ended.
Over(c) == out[c] = <<>> /\ (cli[c] = "dead" \/ c \in silent)

\* collect_messages, or a poll of the stream of into_message_stream.
Collect ==
    /\ op.at = "collect" /\ out[op.conn] # <<>>
    /\ Take(op.conn)
    /\ op' = IF Head(out[op.conn]) = "error" /\ ~op.asStream
             THEN [op EXCEPT !.at = "failing"]
             ELSE [op EXCEPT !.got = Append(@, Head(out[op.conn]))]
    /\ UNCHANGED <<ownVars, spent, conns, query, taskVars, closers, cli, due, said, silent,
                   established, outcome>>

\* A plausible bug: the result of closing the query stands for that of reading it.
Collected_CloseOnly ==
    /\ \/ op.at = "failing"
       \/ op.at = "collect" /\ Over(op.conn)
    /\ Kill(op.conn) /\ DropReceiver(op.conn)
    /\ outcome' = [ok |-> ~op.asStream, conn |-> op.conn, got |-> op.got]
    /\ op' = Dropped
    /\ UNCHANGED <<ownVars, spent, conns, query, taskVars, closers, said, silent, established>>

\* collect_messages closes the query whatever it read; so does the stream at
\* its end.  A close that fails fails the query.
Collected ==
    /\ \/ op.at = "failing"
       \/ op.at = "collect" /\ Over(op.conn)
    /\ Kill(op.conn) /\ DropReceiver(op.conn)
    /\ \E closed \in BOOLEAN :
         outcome' = [ok |-> op.at = "collect" /\ closed /\ ~op.asStream, conn |-> op.conn, got |-> op.got]
    /\ op' = Dropped
    /\ UNCHANGED <<ownVars, spent, conns, query, taskVars, closers, said, silent, established>>

\* query, or one message of query_stream; a write to a dead CLI fails and
\* changes nothing.
Send ==
    /\ op = Idle /\ query # None /\ cli[query] = "running"
    /\ Written(query)
    /\ UNCHANGED <<ownVars, spent, conns, op, query, taskVars, closers, cli, out, said, silent,
                   established, outcome>>

QueryStream ==
    /\ op = Idle /\ query # None
    /\ op' = [Op("stream", "writing") EXCEPT !.left = MaxPrompt]
    /\ UNCHANGED <<ownVars, spent, conns, query, taskVars, closers, cliVars, established, outcome>>

WriteStream ==
    /\ op.at = "writing" /\ op.left > 0 /\ cli[query] = "running"
    /\ Written(query)
    /\ op' = [op EXCEPT !.left = @ - 1]
    /\ UNCHANGED <<ownVars, spent, conns, query, taskVars, closers, cli, out, said, silent,
                   established, outcome>>

EndStream ==
    /\ op.at = "writing" /\ (op.left = 0 \/ cli[query] = "dead")
    /\ op' = Idle
    /\ UNCHANGED <<ownVars, spent, conns, query, taskVars, closers, cliVars, established, outcome>>

ReceiveResponse ==
    /\ op = Idle /\ query # None
    /\ op' = Op("receive", "receiving")
    /\ UNCHANGED <<ownVars, spent, conns, query, taskVars, closers, cliVars, established, outcome>>

\* receive_message in the loop of receive_response, which ends with a result,
\* an error or the end of the messages.
Receive ==
    /\ op.at = "receiving" /\ out[query] # <<>>
    /\ Take(query)
    /\ op' = IF Head(out[query]) = "message" THEN op ELSE Idle
    /\ UNCHANGED <<ownVars, spent, conns, query, taskVars, closers, cli, due, said, silent,
                   established, outcome>>

ReceiveEnd ==
    /\ op.at = "receiving" /\ Over(query)
    /\ op' = Idle
    /\ UNCHANGED <<ownVars, spent, conns, query, taskVars, closers, cliVars, established, outcome>>

----------------------------------------------------------------------------
(* Futures and clients that are dropped *)

\* The future goes at an await, with all it owns: the handle of a task, which
\* runs on; a Query, which is closed by a task of its own; or a Query whose
\* shutdown has already joined the reader, when the drop of the close handle
\* kills the child.
CancelJoin ==
    /\ op.at = "join"
    /\ op' = Idle
    /\ detached' = IF op.name = "wait" /\ Live(task[op.joined])
                   THEN detached \cup {op.joined} ELSE detached
    /\ UNCHANGED <<ownVars, spent, conns, query, initTask, task, closers, cliVars, established, outcome>>

CancelClose ==
    /\ op.at = "close"
    /\ \/ DropQuery(op.conn) /\ UNCHANGED <<cli, due>>
       \/ Kill(op.conn) /\ UNCHANGED <<closers, out>>
    /\ op' = Idle
    /\ UNCHANGED <<ownVars, spent, conns, query, taskVars, said, silent, established, outcome>>

CancelConnect ==
    /\ op.at \in {"init", "prompt", "collect"}
    /\ DropQuery(op.conn) /\ Fail /\ UNCHANGED <<spent, conns>>

CancelOther ==
    /\ op.at \in {"start", "writing", "receiving"}
    /\ Fail /\ UNCHANGED <<spent, conns, closers, out>>

\* Drop of the client aborts the task, and drops the query.
DropClient ==
    /\ kind = "client" /\ op = Idle
    /\ op' = Dropped
    /\ initTask' = None
    /\ task' = IF initTask # None /\ task[initTask] = "running"
               THEN [task EXCEPT ![initTask] = "aborting"] ELSE task
    /\ query' = None
    /\ IF query = None THEN UNCHANGED <<closers, out>> ELSE DropQuery(query)
    /\ UNCHANGED <<ownVars, spent, conns, detached, cli, due, said, silent, established, outcome>>

----------------------------------------------------------------------------
(* What runs beside the operations *)

\* The task spawned by Query::drop.
CloserEnds(c) ==
    /\ c \in closers
    /\ closers' = closers \ {c}
    /\ Kill(c)
    /\ UNCHANGED <<ownVars, spent, conns, op, query, taskVars, out, said, silent, established, outcome>>

\* The task of spawn_input_from_stream.
TaskWrites(c) ==
    /\ Live(task[c]) /\ cli[c] = "running"
    /\ Written(c)
    /\ UNCHANGED <<ownVars, spent, conns, op, query, taskVars, closers, cli, out, said, silent,
                   established, outcome>>

TaskEnds(c) ==
    /\ Live(task[c])
    /\ \/ task' = [task EXCEPT ![c] = "ended"]
       \/ cli[c] = "dead" /\ task' = [task EXCEPT ![c] = "failed"]
    /\ UNCHANGED <<ownVars, spent, conns, op, query, initTask, detached, closers, cliVars,
                   established, outcome>>

\* The reader reads while somebody has its Query.
Open(c) == c = query \/ (c = op.conn /\ op.at # "close")

\* The CLI has something to say, and the reader hands it on.
Emits(c, item) ==
    /\ out' = IF c \in silent THEN out ELSE [out EXCEPT ![c] = Append(@, item)]
    /\ said' = IF kind = "oneShot" THEN Append(said, item) ELSE said

\* A message that does not parse is handed on as an error.
CliReplies(c) ==
    /\ Open(c) /\ cli[c] = "running" /\ due[c] > 0 /\ Len(out[c]) < MaxPrinted
    /\ Len(said) < MaxPrinted
    /\ \/ Emits(c, "message") /\ UNCHANGED due
       \/ Emits(c, "error") /\ UNCHANGED due
       \/ Emits(c, "result") /\ due' = [due EXCEPT ![c] = @ - 1]
    /\ UNCHANGED <<ownVars, spent, conns, op, query, taskVars, closers, cli, silent,
                   established, outcome>>

\* The CLI exits, with a code that the reader reports as an error or not.
CliExits(c) ==
    /\ cli[c] = "running"
    /\ Kill(c)
    /\ (Open(c) /\ c \notin silent /\ Emits(c, "error")) \/ UNCHANGED <<out, said>>
    /\ UNCHANGED <<ownVars, spent, conns, op, query, taskVars, closers, silent, established, outcome>>

\* The CLI calls a tool of an SDK MCP server whose handler panics: the task
\* of the reader ends with it, and drops its end of the channel.
ReaderPanics(c) ==
    /\ Open(c) /\ cli[c] = "running" /\ due[c] > 0
    /\ silent' = silent \cup {c}
    /\ UNCHANGED <<ownVars, spent, conns, op, query, taskVars, closers, cli, due, out, said,
                   established, outcome>>

----------------------------------------------------------------------------
Call ==
    \/ \E name \in {"connect", "connectWith"}, prompt \in Prompts : Connect(name, prompt)
    \/ \E prompt \in {"text", "messages"}, asStream \in BOOLEAN : OneShot(prompt, asStream)
    \/ Disconnect \/ WaitForInitialMessages \/ Send \/ QueryStream \/ ReceiveResponse
    \/ DropClient

Continue ==
    \/ Join \/ TakeQuery \/ NoQuery \/ CloseEnds \/ CloseFails
    \/ Refuse \/ CreateTransport \/ StartFails \/ Start
    \/ InitializeEnds \/ InitializeFails \/ WritePrompt \/ WritePromptFails
    \/ Establish \/ PromptSent \/ Collect \/ Collected
    \/ WriteStream \/ EndStream \/ Receive \/ ReceiveEnd

Cancel == CancelJoin \/ CancelClose \/ CancelConnect \/ CancelOther

Beside(c) == CloserEnds(c) \/ TaskWrites(c) \/ TaskEnds(c) \/ CliReplies(c) \/ CliExits(c)
             \/ ReaderPanics(c)

Next == Call \/ Continue \/ Cancel \/ \E c \in Conns : Beside(c)

\* tokio polls the tasks it was given: a close comes to its end.
Fairness == \A c \in Conns : WF_vars(CloserEnds(c))

Spec == Init /\ [][Next]_vars /\ Fairness

----------------------------------------------------------------------------
(* Properties *)

Places == {"idle", "dropped", "join", "joined", "close", "ready", "start", "init", "prompt",
           "collect", "failing", "writing", "receiving"}
Items == {"message", "result", "error"}
Ops == [name : Names \cup {"none"}, at : Places, prompt : Prompts, left : Nat,
        conn : 0..MaxConns, joined : 0..MaxConns, asStream : BOOLEAN, got : Seq(Items)]

TypeOK ==
    /\ kind \in {"client", "oneShot"} /\ factory \in {"many", "single"}
    /\ options \in [canUseTool : BOOLEAN, promptTool : BOOLEAN] /\ spent \in BOOLEAN
    /\ conns \in 0..MaxConns /\ query \in 0..MaxConns /\ initTask \in 0..MaxConns
    /\ op \in Ops
    /\ task \in [Conns -> {"none", "running", "aborting", "ended", "failed"}]
    /\ cli \in [Conns -> {"none", "running", "dead"}]
    /\ out \in [Conns -> Seq(Items)]
    /\ closers \subseteq Conns /\ established \subseteq Conns /\ detached \subseteq Conns
    /\ silent \subseteq Conns

\* However a connect, a disconnect or a one-shot query ends, by success, by
\* an error at any step or by the drop of its future or of its stream, a CLI
\* that runs belongs to the client, to the operation in progress or to a task
\* that is closing it.
NoOrphanCli == \A c \in Conns : cli[c] = "running" => c = query \/ c = op.conn \/ c \in closers

\* The session of a client is over before its next one begins: its CLI is dead
\* when the next is spawned, unless the disconnect itself was dropped and its
\* query is still being closed.
SessionsDoNotOverlap ==
    \A c \in established, d \in Conns :
        c < d /\ cli[d] # "none" => cli[c] = "dead" \/ c \in closers

\* The task that feeds the initial messages does not outlive its session: when
\* the query leaves the client the task has ended or has been told to.  The
\* exception is a task whose handle a dropped wait_for_initial_messages took.
FeederStaysInSession ==
    \A c \in Conns : task[c] = "running" => c = query \/ c \in detached

\* A one-shot query that returns Ok has what its CLI printed from the first
\* message on, without an error among it, and leaves no CLI; nothing is missing
\* at the end unless the reader fell silent.
CollectedIsWhole ==
    outcome.ok => /\ \A i \in DOMAIN outcome.got : i \in DOMAIN said /\ outcome.got[i] = said[i]
                  /\ outcome.conn \notin silent => outcome.got = said
                  /\ "error" \notin {outcome.got[i] : i \in DOMAIN outcome.got}
                  /\ cli[outcome.conn] = "dead"

\* "A `Vec<Message>` containing all messages from the interaction": not when a
\* tool handler panicked.
OkMeansAll == outcome.ok => outcome.got = said

\* Drop of a client, or of all futures of a one-shot query, ends every CLI.
DroppedMeansDead ==
    \A c \in Conns : [](op = Dropped => <>(cli[c] # "running"))

=============================================================================
