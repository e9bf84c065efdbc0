---------------------------- MODULE ClaudeQuery ----------------------------
(***************************************************************************)
(* One `Query` of crates/claude-code/src/query.rs: the tasks that issue    *)
(* control requests over a shared `&Query`, the background reader task     *)
(* that routes what the CLI prints, the bounded message channel to the     *)
(* owner, the deferred close of the CLI's stdin, and shutdown.             *)
(*                                                                         *)
(* The CLI is external: it may print any line at any time, answer late,    *)
(* twice or never, stop printing, or fail.  A write to its stdin is one    *)
(* step: a pipe that is full and blocks the writer is not modelled.        *)
(***************************************************************************)
EXTENDS Naturals, Sequences

CONSTANTS
    Callers,        \* tasks that call send_control_request
    MaxRequests,    \* bound on request_counter
    MaxMessages,    \* bound on the SDK messages the CLI prints
    ChannelCap,     \* MESSAGE_CHANNEL_BUFFER
    StdoutCap,      \* lines that fit in the CLI's stdout pipe
    CallbackChoices,\* the sets of callbacks a Query may be started with
    Answers,        \* what the CLI can answer: success payloads, errors
    Printable       \* the kinds of lines the CLI prints

Subtypes == {"can_use_tool", "hook_callback", "mcp_message"}
Failures == {"terminated", "timeout", "writeError", "cancelled"}

ASSUME MaxRequestsAssumption == MaxRequests \in Nat
ASSUME AnswersAssumption == Answers \cap (Failures \cup {"none", "unused", "open"}) = {}
ASSUME BoundsAssumption ==
    /\ MaxMessages \in Nat
    /\ ChannelCap \in Nat \ {0}
    /\ StdoutCap \in Nat \ {0}
    /\ CallbackChoices \subseteq SUBSET Subtypes

Ids == 1 .. MaxRequests

DataKinds == {"message", "result", "garbage"}   \* "garbage": parse_message fails
Response == [kind : {"response"}, id : Ids, answer : Answers]
Request  == [kind : {"request"}, sub : Subtypes \cup {"unsupported"}, early : BOOLEAN]  \* early: before any result
Data     == [kind : DataKinds, n : 1 .. MaxMessages]
\* Lines the reader drops: control_cancel_request, a response or a request
\* without its mandatory fields, a message type parse_message skips.
Ignored  == [kind : {"ignored"}]
Line == Response \cup Request \cup Data \cup Ignored

\* What the channel carries: Ok(msg) or Err(MessageParse) for Data, and the
\* read error that ends the stream.
ReadError == [kind |-> "readError"]
Item == Data \cup {ReadError}

NoLine == [kind |-> "none"]

\* Who closed the CLI's stdin.
Closers == {"finalize", "endInput", "result", "timeout", "eof", "shutdown"}

VARIABLES
  \* the tasks in send_control_request
    pc,         \* [Callers -> ...]: where the task is
    req,        \* [Callers -> 0 .. MaxRequests]: its request id, 0 before the first
    inbox,      \* [Ids -> ...]: what was sent into the request's oneshot channel
    result,     \* [Ids -> ...]: what send_control_request returned
  \* QuerySharedState
    counter,            \* request_counter
    senders,            \* PendingControlsState.senders
    buffered,           \* PendingControlsState.buffered, "none" where it has no entry
    pendingClose,       \* pending_stdin_close
    terminated,         \* reader_terminated
    callbacks,          \* the kinds of callbacks registered, fixed at start
  \* the background reader task and the message channel
    rpc,        \* where the task is
    hand,       \* the line it is working on
    channel,    \* message_tx / message_rx
  \* the owner of the Query
    session,    \* open; closing: receiver and state taken; closed: reader joined
    received,   \* SDK messages received so far
    ended,      \* receive_next_message has returned None
  \* the CLI and its pipes
    stdout,     \* lines printed and not read
    stdoutEnd,  \* what the reader finds after them
    stdin,      \* "open", or who closed it
    written,    \* control requests the CLI got
    answered,   \* the answers it printed
    emitted,    \* SDK messages it printed
    sawResult,  \* one of them was a result
    lostReplies \* <<closer, subtype>> of replies to early requests that met a closed stdin

callerVars == <<pc, req, inbox, result>>
controlVars == <<senders, buffered>>
streamVars == <<hand, channel>>
ownerVars == <<session, received, ended>>
outVars == <<stdout, stdoutEnd>>
cliVars == <<written, answered, emitted, sawResult>>
vars == <<pc, req, inbox, result, counter, senders, buffered, pendingClose,
          terminated, callbacks, rpc, hand, channel, session, received, ended,
          stdout, stdoutEnd, stdin, written, answered, emitted, sawResult, lostReplies>>

----------------------------------------------------------------------------
(* State helpers *)

HasHooksOrMcp == callbacks \cap {"hook_callback", "mcp_message"} # {}

\* The reader is inside read_next_message, with or without a timeout on it.
Reading == rpc \in {"timed", "untimed"}
Next1(kinds) == Reading /\ stdout # <<>> /\ Head(stdout).kind \in kinds

\* The task owns the only message_tx: the channel closes when it ends.
ReaderDone_SenderKept == rpc = "aborted"
ReaderDone == rpc \in {"gone", "aborted"}
ReceiverDropped == session # "open"

\* message_tx.send(x) with a receiver: waits for room in the channel.
Offer_Drops(x) == channel' = IF Len(channel) < ChannelCap THEN Append(channel, x) ELSE channel
Offer(x) ==
    /\ Len(channel) < ChannelCap
    /\ channel' = Append(channel, x)

\* Init: Query::start spawns the reader on a transport just connected.
Init ==
    /\ pc = [c \in Callers |-> "idle"]
    /\ req = [c \in Callers |-> 0]
    /\ inbox = [i \in Ids |-> "none"]
    /\ result = [i \in Ids |-> "unused"]
    /\ counter = 0
    /\ senders = {}
    /\ buffered = [i \in Ids |-> "none"]
    /\ pendingClose = FALSE
    /\ terminated = FALSE
    /\ callbacks \in CallbackChoices
    /\ rpc = "top"
    /\ hand = NoLine
    /\ channel = <<>>
    /\ session = "open"
    /\ received = 0
    /\ ended = FALSE
    /\ stdout = <<>>
    /\ stdoutEnd = "open"
    /\ stdin = "open"
    /\ written = {}
    /\ answered = {}
    /\ emitted = 0
    /\ sawResult = FALSE
    /\ lostReplies = {}

----------------------------------------------------------------------------
(* send_control_request, one action per stretch between its awaits *)

\* The method returns r to the caller.
Return(c, r) ==
    /\ pc' = [pc EXCEPT ![c] = "idle"]
    /\ result' = [result EXCEPT ![req[c]] = r]

NextId_Old == counter
NextId == counter + 1

\* Takes the next id.  The owner has not closed the Query: close(self)
\* cannot run while a `&self` future is alive.
Issue(c) ==
    /\ pc[c] = "idle"
    /\ session = "open"
    /\ counter < MaxRequests
    /\ counter' = counter + 1
    /\ req' = [req EXCEPT ![c] = NextId]
    /\ result' = [result EXCEPT ![NextId] = "open"]
    /\ pc' = [pc EXCEPT ![c] = "writing"]
    /\ UNCHANGED <<inbox, controlVars, pendingClose, terminated, callbacks, rpc, streamVars,
                   ownerVars, outVars, stdin, cliVars, lostReplies>>

\* The request is written before anything is registered for its answer.
WriteRequest(c) ==
    /\ pc[c] = "writing"
    /\ stdin = "open"
    /\ written' = written \cup {req[c]}
    /\ pc' = [pc EXCEPT ![c] = "written"]
    /\ UNCHANGED <<req, inbox, result, counter, controlVars, pendingClose, terminated, callbacks,
                   rpc, streamVars, ownerVars, outVars, stdin, answered, emitted, sawResult,
                   lostReplies>>

\* A write fails on a closed stdin, and may fail once the CLI is going.
WriteFails(c) ==
    /\ pc[c] = "writing"
    /\ stdin # "open" \/ stdoutEnd # "open"
    /\ Return(c, "writeError")
    /\ UNCHANGED <<req, inbox, counter, controlVars, pendingClose, terminated, callbacks, rpc,
                   streamVars, ownerVars, outVars, stdin, cliVars, lostReplies>>

Parked_Unseen(i) == FALSE
Parked(i) == buffered[i] # "none"

\* Under the pending_controls lock: take a parked answer, or leave a sender.
Register(c) ==
    /\ pc[c] = "written"
    /\ \/ /\ Parked(req[c])
          /\ buffered' = [buffered EXCEPT ![req[c]] = "none"]
          /\ Return(c, buffered[req[c]])
          /\ UNCHANGED senders
       \/ /\ ~Parked(req[c])
          /\ senders' = senders \cup {req[c]}
          /\ pc' = [pc EXCEPT ![c] = "registered"]
          /\ UNCHANGED <<result, buffered>>
    /\ UNCHANGED <<req, inbox, counter, pendingClose, terminated, callbacks, rpc, streamVars,
                   ownerVars, outVars, stdin, cliVars, lostReplies>>

ReaderTerminated_Unchecked == FALSE
ReaderTerminated_Inverted == ~terminated
ReaderTerminated == terminated

\* With the sender in place, look at reader_terminated: an answer that
\* already arrived is given up with the sender.
CheckReader(c) ==
    /\ pc[c] = "registered"
    /\ \/ /\ ReaderTerminated
          /\ senders' = senders \ {req[c]}
          /\ Return(c, "terminated")
       \/ /\ ~ReaderTerminated
          /\ pc' = [pc EXCEPT ![c] = "waiting"]
          /\ UNCHANGED <<result, senders>>
    /\ UNCHANGED <<req, inbox, counter, buffered, pendingClose, terminated, callbacks, rpc,
                   streamVars, ownerVars, outVars, stdin, cliVars, lostReplies>>

\* rx resolves.  Its other outcome, a dropped sender, cannot be reached: see
\* WaiterIsReachable.
TakeAnswer(c) ==
    /\ pc[c] = "waiting"
    /\ inbox[req[c]] # "none"
    /\ Return(c, inbox[req[c]])
    /\ UNCHANGED <<req, inbox, counter, controlVars, pendingClose, terminated, callbacks, rpc,
                   streamVars, ownerVars, outVars, stdin, cliVars, lostReplies>>

TimerFires_Never(c) == FALSE
TimerFires(c) == pc[c] = "waiting" /\ inbox[req[c]] = "none"

\* The timer fires first; rx is dropped before the sender is removed.
Expire(c) ==
    /\ TimerFires(c)
    /\ pc' = [pc EXCEPT ![c] = "expired"]
    /\ UNCHANGED <<req, inbox, result, counter, controlVars, pendingClose, terminated, callbacks,
                   rpc, streamVars, ownerVars, outVars, stdin, cliVars, lostReplies>>

RemoveExpired(c) ==
    /\ pc[c] = "expired"
    /\ senders' = senders \ {req[c]}
    /\ Return(c, "timeout")
    /\ UNCHANGED <<req, inbox, counter, buffered, pendingClose, terminated, callbacks, rpc,
                   streamVars, ownerVars, outVars, stdin, cliVars, lostReplies>>

\* The caller drops the future (a select, an outer timeout): nothing is
\* cleaned up, a registered sender stays in the map.
Cancel(c) ==
    /\ pc[c] # "idle"
    /\ Return(c, "cancelled")
    /\ UNCHANGED <<req, inbox, counter, controlVars, pendingClose, terminated, callbacks, rpc,
                   streamVars, ownerVars, outVars, stdin, cliVars, lostReplies>>

SendControlRequest(c) ==
    \/ WriteRequest(c) \/ WriteFails(c) \/ Register(c) \/ CheckReader(c)
    \/ TakeAnswer(c) \/ Expire(c) \/ RemoveExpired(c)

----------------------------------------------------------------------------
(* background_reader_task *)

CloseDeferred_FlagOnly(by) == pendingClose' = FALSE /\ UNCHANGED stdin

\* try_close_deferred_stdin: whoever clears the flag ends the input.
CloseDeferred(by) ==
    /\ pendingClose' = FALSE
    /\ stdin' = IF pendingClose /\ stdin = "open" THEN by ELSE stdin

\* The flag is looked at once, before the read.
LoopTop ==
    /\ rpc = "top"
    /\ rpc' = IF pendingClose THEN "timed" ELSE "untimed"
    /\ UNCHANGED <<callerVars, counter, controlVars, pendingClose, terminated, callbacks,
                   streamVars, ownerVars, outVars, stdin, cliVars, lostReplies>>

\* stream_close_timeout passes with nothing to read.
ReadTimesOut ==
    /\ rpc = "timed"
    /\ stdout = <<>> /\ stdoutEnd = "open"
    /\ CloseDeferred("timeout")
    /\ rpc' = "top"
    /\ UNCHANGED <<callerVars, counter, controlVars, terminated, callbacks, streamVars,
                   ownerVars, outVars, cliVars, lostReplies>>

\* Ok(None): the loop ends without mark_reader_terminated.
ReadEof ==
    /\ Reading /\ stdout = <<>> /\ stdoutEnd = "eof"
    /\ CloseDeferred("eof")
    /\ rpc' = "gone"
    /\ UNCHANGED <<callerVars, counter, controlVars, terminated, callbacks, streamVars,
                   ownerVars, outVars, cliVars, lostReplies>>

\* mark_reader_terminated stores the flag first ...
ReadFails ==
    /\ Reading /\ stdout = <<>> /\ stdoutEnd = "error"
    /\ terminated' = TRUE
    /\ rpc' = "marking"
    /\ UNCHANGED <<callerVars, counter, controlVars, pendingClose, callbacks, streamVars,
                   ownerVars, outVars, stdin, cliVars, lostReplies>>

Drained_Cleared(i) == inbox[i]
Drained(i) == IF i \in senders THEN "terminated" ELSE inbox[i]

\* ... and then fails every registered sender under the lock.
DrainSenders ==
    /\ rpc = "marking"
    /\ inbox' = [i \in Ids |-> Drained(i)]
    /\ senders' = {}
    /\ rpc' = "sendingError"
    /\ UNCHANGED <<pc, req, result, counter, buffered, pendingClose, terminated, callbacks,
                   streamVars, ownerVars, outVars, stdin, cliVars, lostReplies>>

\* message_tx.send(Err(err)), waiting for room; then the task ends.
SendReadError ==
    /\ rpc = "sendingError"
    /\ \/ ReceiverDropped /\ UNCHANGED channel
       \/ ~ReceiverDropped /\ Offer(ReadError)
    /\ rpc' = "gone"
    /\ UNCHANGED <<callerVars, counter, controlVars, pendingClose, terminated, callbacks, hand,
                   ownerVars, outVars, stdin, cliVars, lostReplies>>

\* handle_control_response: wake the registered caller, or park the answer.
RouteResponse ==
    /\ Next1({"response"})
    /\ LET i == Head(stdout).id
           a == Head(stdout).answer
       IN  \/ /\ i \in senders
              /\ senders' = senders \ {i}
              /\ inbox' = [inbox EXCEPT ![i] = a]
              /\ UNCHANGED buffered
           \/ /\ i \notin senders
              /\ buffered' = [buffered EXCEPT ![i] = a]
              /\ UNCHANGED <<senders, inbox>>
    /\ stdout' = Tail(stdout)
    /\ rpc' = "top"
    /\ UNCHANGED <<pc, req, result, counter, pendingClose, terminated, callbacks, streamVars,
                   ownerVars, stdoutEnd, stdin, cliVars, lostReplies>>

\* handle_control_request runs inside the reader task: nothing else is read
\* until the callback is back.
TakeRequest ==
    /\ Next1({"request"})
    /\ hand' = Head(stdout)
    /\ stdout' = Tail(stdout)
    /\ rpc' = "callback"
    /\ UNCHANGED <<callerVars, counter, controlVars, pendingClose, terminated, callbacks, channel,
                   ownerVars, stdoutEnd, stdin, cliVars, lostReplies>>

\* Whatever the callback did (a panic of can_use_tool or of a hook included),
\* one control_response is written; a failed write is only logged.
Reply ==
    /\ rpc = "callback"
    /\ lostReplies' = IF hand.early /\ stdin # "open"
                      THEN lostReplies \cup {<<stdin, hand.sub>>} ELSE lostReplies
    /\ hand' = NoLine
    /\ rpc' = "top"
    /\ UNCHANGED <<callerVars, counter, controlVars, pendingClose, terminated, callbacks, channel,
                   ownerVars, outVars, stdin, cliVars>>

\* A panicking SDK MCP tool handler is not isolated: it takes the task down.
McpHandlerPanics ==
    /\ rpc = "callback"
    /\ hand.sub = "mcp_message" /\ "mcp_message" \in callbacks
    /\ hand' = NoLine
    /\ rpc' = "gone"
    /\ UNCHANGED <<callerVars, counter, controlVars, pendingClose, terminated, callbacks, channel,
                   ownerVars, outVars, stdin, cliVars, lostReplies>>

SkipLine ==
    /\ Next1({"ignored"})
    /\ stdout' = Tail(stdout)
    /\ rpc' = "top"
    /\ UNCHANGED <<callerVars, counter, controlVars, pendingClose, terminated, callbacks,
                   streamVars, ownerVars, stdoutEnd, stdin, cliVars, lostReplies>>

EndsInput_AnyMessage(line) == TRUE
EndsInput(line) == line.kind = "result"

\* parse_message; the first result with a close pending ends the input
\* before the message is handed on.
TakeMessage ==
    /\ Next1(DataKinds)
    /\ IF EndsInput(Head(stdout)) THEN CloseDeferred("result")
                                  ELSE UNCHANGED <<pendingClose, stdin>>
    /\ hand' = Head(stdout)
    /\ stdout' = Tail(stdout)
    /\ rpc' = "sending"
    /\ UNCHANGED <<callerVars, counter, controlVars, terminated, callbacks, channel, ownerVars,
                   stdoutEnd, cliVars, lostReplies>>

\* message_tx.send: waits for room, and ends the task, again without
\* mark_reader_terminated, when the receiver is gone.
Forward ==
    /\ rpc = "sending"
    /\ \/ ReceiverDropped /\ rpc' = "gone" /\ UNCHANGED channel
       \/ ~ReceiverDropped /\ rpc' = "top" /\ Offer(hand)
    /\ hand' = NoLine
    /\ UNCHANGED <<callerVars, counter, controlVars, pendingClose, terminated, callbacks,
                   ownerVars, outVars, stdin, cliVars, lostReplies>>

ReaderStep ==
    \/ LoopTop \/ ReadTimesOut \/ ReadEof \/ ReadFails \/ DrainSenders \/ SendReadError
    \/ RouteResponse \/ TakeRequest \/ Reply \/ McpHandlerPanics \/ SkipLine
    \/ TakeMessage \/ Forward

----------------------------------------------------------------------------
(* The owner of the Query *)

\* Receiving borrows the Query mutably: no control request is in flight.
NoBorrow == \A c \in Callers : pc[c] = "idle"

\* stream_input after its last write: end the input, or leave that to the
\* reader when hooks or SDK MCP servers may still need to answer.
FinalizeStreamInput ==
    /\ session = "open"
    /\ IF HasHooksOrMcp
       THEN pendingClose' = TRUE /\ UNCHANGED stdin
       ELSE /\ stdin' = IF stdin = "open" THEN "finalize" ELSE stdin
            /\ UNCHANGED pendingClose
    /\ UNCHANGED <<callerVars, counter, controlVars, terminated, callbacks, rpc, streamVars,
                   ownerVars, outVars, cliVars, lostReplies>>

EndInput ==
    /\ session = "open"
    /\ stdin = "open"
    /\ stdin' = "endInput"
    /\ UNCHANGED <<callerVars, counter, controlVars, pendingClose, terminated, callbacks, rpc,
                   streamVars, ownerVars, outVars, cliVars, lostReplies>>

ReceiveItem ==
    /\ session = "open" /\ NoBorrow
    /\ channel # <<>>
    /\ channel' = Tail(channel)
    /\ received' = IF Head(channel) = ReadError THEN received ELSE received + 1
    /\ UNCHANGED <<callerVars, counter, controlVars, pendingClose, terminated, callbacks, rpc,
                   hand, session, ended, outVars, stdin, cliVars, lostReplies>>

\* None: the reader has dropped message_tx and the channel is empty.
ReceiveNone ==
    /\ session = "open" /\ NoBorrow
    /\ channel = <<>> /\ ReaderDone
    /\ ~ended
    /\ ended' = TRUE
    /\ UNCHANGED <<callerVars, counter, controlVars, pendingClose, terminated, callbacks, rpc,
                   streamVars, session, received, outVars, stdin, cliVars, lostReplies>>

Receive == ReceiveItem \/ ReceiveNone

\* shutdown, and Drop: first the receiver and the shared state go ...
BeginShutdown ==
    /\ session = "open" /\ NoBorrow
    /\ session' = "closing"
    /\ channel' = <<>>
    /\ UNCHANGED <<callerVars, counter, controlVars, pendingClose, terminated, callbacks, rpc,
                   hand, received, ended, outVars, stdin, cliVars, lostReplies>>

\* ... then the reader is aborted at the await it is in, and the transport closed.
FinishShutdown ==
    /\ session = "closing"
    /\ session' = "closed"
    /\ rpc' = IF rpc = "gone" THEN rpc ELSE "aborted"
    /\ hand' = NoLine
    /\ stdin' = IF stdin = "open" THEN "shutdown" ELSE stdin
    /\ stdoutEnd' = IF stdoutEnd = "open" THEN "eof" ELSE stdoutEnd
    /\ stdout' = <<>>
    /\ UNCHANGED <<callerVars, counter, controlVars, pendingClose, terminated, callbacks, channel,
                   received, ended, cliVars, lostReplies>>

----------------------------------------------------------------------------
(* The CLI *)

Prints(line) ==
    /\ line.kind \in Printable
    /\ stdoutEnd = "open"
    /\ Len(stdout) < StdoutCap
    /\ stdout' = Append(stdout, line)
    /\ UNCHANGED <<callerVars, counter, controlVars, pendingClose, terminated, callbacks, rpc,
                   streamVars, ownerVars, stdoutEnd, stdin, written, lostReplies>>

CliAnswers(i, a) ==
    /\ i \in written
    /\ Prints([kind |-> "response", id |-> i, answer |-> a])
    /\ answered' = answered \cup {<<i, a>>}
    /\ UNCHANGED <<emitted, sawResult>>

\* It asks for callbacks it was told of, or for something unknown.
CliAsks(s) ==
    /\ s \in callbacks \cup {"unsupported"}
    /\ Prints([kind |-> "request", sub |-> s, early |-> ~sawResult])
    /\ UNCHANGED <<answered, emitted, sawResult>>

CliEmits(k) ==
    /\ emitted < MaxMessages
    /\ Prints([kind |-> k, n |-> emitted + 1])
    /\ emitted' = emitted + 1
    /\ sawResult' = (sawResult \/ k = "result")
    /\ UNCHANGED answered

CliPrintsOther ==
    /\ Prints([kind |-> "ignored"])
    /\ UNCHANGED <<answered, emitted, sawResult>>

\* A clean exit, or a failure that read_next_message reports.
CliStops(how) ==
    /\ stdoutEnd = "open"
    /\ stdoutEnd' = how
    /\ UNCHANGED <<callerVars, counter, controlVars, pendingClose, terminated, callbacks, rpc,
                   streamVars, ownerVars, stdout, stdin, cliVars, lostReplies>>

Cli ==
    \/ \E i \in Ids, a \in Answers : CliAnswers(i, a)
    \/ \E s \in Subtypes \cup {"unsupported"} : CliAsks(s)
    \/ \E k \in DataKinds : CliEmits(k)
    \/ CliPrintsOther
    \/ \E how \in {"eof", "error"} : CliStops(how)

----------------------------------------------------------------------------
Next ==
    \/ \E c \in Callers : Issue(c) \/ SendControlRequest(c) \/ Cancel(c)
    \/ ReaderStep
    \/ FinalizeStreamInput \/ EndInput \/ Receive \/ BeginShutdown \/ FinishShutdown
    \/ Cli

Spec == Init /\ [][Next]_vars

\* Tokio runs a task that can run and fires its timers, a callback returns,
\* and the owner keeps receiving.  Nothing is assumed of the CLI.
Fairness ==
    /\ \A c \in Callers : WF_vars(SendControlRequest(c))
    /\ WF_vars(ReaderStep)
    /\ WF_vars(Receive)

FairSpec == Spec /\ Fairness

----------------------------------------------------------------------------
(* Properties *)
PcStates == {"idle", "writing", "written", "registered", "waiting", "expired"}
RpcStates == {"top", "timed", "untimed", "callback", "sending", "marking", "sendingError",
              "gone", "aborted"}

CallersOK ==
    /\ pc \in [Callers -> PcStates]
    /\ req \in [Callers -> 0 .. MaxRequests]
    /\ \A c \in Callers : pc[c] # "idle" => req[c] \in Ids
    /\ inbox \in [Ids -> Answers \cup {"none", "terminated"}]
    /\ result \in [Ids -> Answers \cup Failures \cup {"unused", "open"}]

ControlOK ==
    /\ counter \in 0 .. MaxRequests
    /\ senders \subseteq Ids
    /\ buffered \in [Ids -> Answers \cup {"none"}]
    /\ pendingClose \in BOOLEAN
    /\ terminated \in BOOLEAN
    /\ callbacks \in SUBSET Subtypes

ReaderOK ==
    /\ rpc \in RpcStates
    /\ hand \in Request \cup Data \cup {NoLine}
    /\ rpc = "callback" => hand \in Request
    /\ rpc = "sending" => hand \in Data
    /\ channel \in Seq(Item) /\ Len(channel) <= ChannelCap

OwnerOK ==
    /\ session \in {"open", "closing", "closed"}
    /\ received \in Nat
    /\ ended \in BOOLEAN

CliOK ==
    /\ stdout \in Seq(Line) /\ Len(stdout) <= StdoutCap
    /\ stdoutEnd \in {"open", "eof", "error"}
    /\ stdin \in Closers \cup {"open"}
    /\ written \subseteq Ids
    /\ answered \subseteq Ids \X Answers
    /\ emitted \in 0 .. MaxMessages
    /\ sawResult \in BOOLEAN
    /\ lostReplies \subseteq Closers \X (Subtypes \cup {"unsupported"})

\* Every variable has its type; the message channel and the stdout pipe
\* hold no more than their capacity.
TypeOK == CallersOK /\ ControlOK /\ ReaderOK /\ OwnerOK /\ CliOK

\* Once a read error has been reported to the pending requests, no task goes
\* on waiting for the reader: a sender registered while the reader was
\* terminating is either drained by it or given up by its own task
\* (mark_reader_terminated against the check after the insert).
NoStrandedRequest ==
    terminated /\ rpc # "marking" =>
        \A c \in Callers : pc[c] = "waiting" => inbox[req[c]] # "none"

\* A task waits only while the sender of its oneshot channel is in the map:
\* the answer can still reach it, and rx never resolves as closed.
WaiterIsReachable ==
    \A c \in Callers :
        pc[c] = "waiting" /\ inbox[req[c]] = "none" => req[c] \in senders

\* An answer is parked in `buffered` only when no task waits for it: the
\* look into the buffer and the insert of the sender are one critical section.
ParkedAnswerHasNoWaiter ==
    \A c \in Callers :
        pc[c] \in {"registered", "waiting"} /\ inbox[req[c]] = "none" =>
            buffered[req[c]] = "none"

\* SDK messages reach the owner in the order the CLI printed them, without
\* gap or repetition, however long the reader was blocked on the channel, and
\* a read error comes after all of them.
IsData(x) == x.kind \in DataKinds
DeliveryInOrder ==
    LET inHand == IF rpc = "sending" THEN <<hand>> ELSE <<>>
        onTheWay == channel \o inHand \o stdout
        data == {k \in DOMAIN onTheWay : IsData(onTheWay[k])}
    IN  session = "open" =>
            /\ \A k \in DOMAIN channel : channel[k] = ReadError => k = Len(channel)
            /\ ~ReaderDone =>
                 /\ {onTheWay[k].n : k \in data} = received + 1 .. emitted
                 /\ \A j, k \in data : j < k => onTheWay[j].n < onTheWay[k].n
            /\ ReaderDone =>
                 \A k \in DOMAIN channel : IsData(channel[k]) => channel[k].n = received + k

\* Deferring the close of stdin serves its purpose: when hooks or SDK MCP
\* servers are present, a callback the CLI asked for before its first result
\* never finds stdin closed by the end of the input or by that result.
EarlyRepliesSurvive ==
    HasHooksOrMcp => \A l \in lostReplies : l[1] \notin {"finalize", "result"}

\* send_control_request answers each request once, with the CLI's answer to
\* it or with a failure that the state of the connection justifies.
RR == INSTANCE RequestReply WITH broken <- terminated
RefinesRequestReply == RR!Spec

\* Every control request comes back, whatever the CLI and the reader do.
RequestResolves == \A c \in Callers : (pc[c] # "idle") ~> (pc[c] = "idle")

\* An owner that keeps receiving gets to the end of the messages once the
\* CLI's output has ended or a panicking handler has taken the reader down,
\* though the reader finds the channel full when it has a message or the
\* read error to send, or is away in a callback, and requests in flight keep
\* the owner from receiving.
StreamEnds == (stdoutEnd # "open" \/ ReaderDone) ~> (ended \/ session # "open")

\* A close that the reader waits for with its timeout armed does happen, if
\* the CLI falls silent.
ArmedCloseHappens ==
    <>[](stdout = <<>>) =>
        (rpc = "timed" /\ pendingClose /\ stdin = "open"
            ~> stdin # "open" \/ stdoutEnd # "open" \/ session # "open" \/ ReaderDone)

\* "a control request fails fast, instead of timing out, when the reader task
\* has terminated": not after an end of file.
NoWaitOnDeadReader ==
    ReaderDone => \A c \in Callers : pc[c] = "waiting" => inbox[req[c]] # "none"

\* "stdin close is deferred until the first result message is received (or a
\* timeout expires)": not when the reader was already inside its read.
DeferredCloseHappens ==
    <>[](stdout = <<>>) =>
        (pendingClose /\ stdin = "open"
            ~> stdin # "open" \/ stdoutEnd # "open" \/ session # "open")

\* A permission callback's answer is not lost to the SDK's own end of input.
PermissionReplyReachesCli ==
    \A l \in lostReplies : ~(l[1] = "finalize" /\ l[2] = "can_use_tool")

=============================================================================
