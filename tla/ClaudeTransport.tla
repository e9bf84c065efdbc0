-------------------------- MODULE ClaudeTransport --------------------------
(***************************************************************************)
(* The subprocess transport of crates/claude-code/src/transport, split     *)
(* into halves as `Query` uses them: the reader that assembles the CLI's   *)
(* stdout into JSON messages (SubprocessReader over JsonStreamBuffer), the *)
(* writer, and the close handle, which share the child behind a lock.      *)
(* With Shared the halves are those of SplitAdapter, which puts the whole  *)
(* transport behind one mutex.                                             *)
(*                                                                         *)
(* The CLI is external.  Its output is a stream of pieces: Parts of them   *)
(* make one JSON message, and any piece may end a line.                    *)
(***************************************************************************)
EXTENDS Naturals, Sequences

CONSTANTS
    MaxMessages,    \* bound on the messages the CLI prints
    Parts,          \* pieces of a message
    MaxBuffer,      \* max_buffer_size, in pieces
    PipeCap,        \* pieces that fit in the stdout pipe
    Strays,         \* BOOLEAN: the CLI may print a line that is no message
    Timed,          \* BOOLEAN: the reader task puts a timeout on its reads
    Shared          \* BOOLEAN: SplitAdapter instead of the native split

ASSUME TransportBounds ==
    /\ MaxMessages \in Nat /\ PipeCap \in Nat \ {0}
    /\ Parts \in Nat \ {0} /\ MaxBuffer \in Nat /\ MaxBuffer >= Parts
    /\ {Strays, Timed, Shared} \subseteq BOOLEAN

Stray == [msg |-> 0, part |-> 0, nl |-> TRUE]
Piece == [msg : 1 .. MaxMessages, part : 1 .. Parts, nl : BOOLEAN] \cup {Stray}

VARIABLES
    pipe,       \* pieces printed and not read
    printed,    \* pieces of messages printed so far
    strayed,    \* a stray line was printed
    stdoutOpen, \* the CLI has its end of the pipe open
    cli,        \* running, ok, failed (exit status), killed
    reader,     \* idle: between calls; reading; waiting: in child.wait() with
                \* the lock; eof, error, aborted: over
    line,       \* the local `line` of the read in progress
    buffer,     \* JsonStreamBuffer.buffer
    delivered,  \* the messages read_next_message returned, 0 for a glued one
    cut,        \* a cancelled read took a part of a line with it
    child,      \* SubprocessCloseState.child is there
    lock,       \* who holds its lock
    writer,     \* idle, waiting: in write or end_input
    closer      \* no, aborting, closing, killed, done

cliVars == <<printed, strayed, stdoutOpen, cli>>
readVars == <<line, buffer, delivered, cut>>
vars == <<pipe, printed, strayed, stdoutOpen, cli, reader, line, buffer, delivered, cut,
          child, lock, writer, closer>>

Init ==
    /\ pipe = <<>> /\ printed = 0 /\ strayed = FALSE
    /\ stdoutOpen = TRUE /\ cli = "running"
    /\ reader = "idle" /\ line = <<>> /\ buffer = <<>> /\ delivered = <<>> /\ cut = FALSE
    /\ child = TRUE /\ lock = "free"
    /\ writer = "idle" /\ closer = "no"

----------------------------------------------------------------------------
(* JsonStreamBuffer *)

\* All of one message parses, a beginning of it does not.  Whatever else comes
\* together in the buffer -- what is left of a message that lost a part, a
\* line that is no message and what follows it -- may parse as well as not.
IsWhole(b) == Len(b) = Parts /\ \A k \in 1 .. Parts : b[k].part = k /\ b[k].msg = b[1].msg
IsBeginning(b) == Len(b) < Parts /\ \A k \in DOMAIN b : b[k].part = k /\ b[k].msg = b[1].msg
Glued(b) == ~IsWhole(b) /\ ~IsBeginning(b)

Overflows_Never(b) == FALSE
Overflows(b) == Len(b) > MaxBuffer

Emptied_Kept(b) == b
Emptied(b) == <<>>

\* push_chunk of a line, and what read_next_message does with the outcome.
\* A line that does not parse stays in the buffer for the next one to
\* complete, also when it is no part of a message.
PushChunk(chunk) ==
    LET b == buffer \o chunk
    IN  \/ /\ Overflows(b)
           /\ buffer' = <<>>
           /\ reader' = "error"
           /\ UNCHANGED delivered
        \/ /\ ~Overflows(b)
           /\ IsWhole(b) \/ Glued(b)
           /\ buffer' = Emptied(b)
           /\ delivered' = Append(delivered, IF IsWhole(b) THEN b[1].msg ELSE 0)
           /\ reader' = "idle"
        \/ /\ ~Overflows(b) /\ ~IsWhole(b)
           /\ buffer' = b
           /\ UNCHANGED <<reader, delivered>>

----------------------------------------------------------------------------
(* The reader half, driven by the background reader task *)

Live == reader \in {"idle", "reading", "waiting"}

\* The mutex of SplitAdapter is held for a whole read_next_message; waiting
\* writers are ahead of the next read in its queue.
InnerHeld == Shared /\ reader \in {"reading", "waiting"}

BeginRead ==
    /\ reader = "idle"
    /\ ~(Shared /\ writer = "waiting")
    /\ reader' = "reading"
    /\ UNCHANGED <<pipe, cliVars, readVars, child, lock, writer, closer>>

\* read_line takes what is there, and is over at a newline.
ReadPiece ==
    /\ reader = "reading" /\ pipe # <<>>
    /\ pipe' = Tail(pipe)
    /\ \/ /\ ~Head(pipe).nl
          /\ line' = Append(line, Head(pipe))
          /\ UNCHANGED <<reader, buffer, delivered>>
       \/ /\ Head(pipe).nl
          /\ PushChunk(Append(line, Head(pipe)))
          /\ line' = <<>>
    /\ UNCHANGED <<cliVars, cut, child, lock, writer, closer>>

AtEof_Clean == reader = "reading" /\ pipe = <<>> /\ ~stdoutOpen /\ line = <<>>
AtEof == reader = "reading" /\ pipe = <<>> /\ ~stdoutOpen

\* At the end of the output an unfinished line is pushed like any other.
ReadLastLine ==
    /\ AtEof /\ line # <<>>
    /\ PushChunk(line)
    /\ line' = <<>>
    /\ UNCHANGED <<pipe, cliVars, cut, child, lock, writer, closer>>

\* Then the child is waited for, under the lock of the close state.
LockChild ==
    /\ AtEof /\ line = <<>> /\ lock = "free"
    /\ \/ child /\ reader' = "waiting" /\ lock' = "reader"
       \/ ~child /\ reader' = "eof" /\ UNCHANGED lock
    /\ UNCHANGED <<pipe, cliVars, readVars, child, writer, closer>>

ExitResult_Ignored == "eof"
ExitResult == IF cli = "ok" THEN "eof" ELSE "error"

ChildExited ==
    /\ reader = "waiting" /\ cli # "running"
    /\ reader' = ExitResult
    /\ lock' = "free"
    /\ UNCHANGED <<pipe, cliVars, readVars, child, writer, closer>>

Released_Never == lock
Released == IF lock = "reader" THEN "free" ELSE lock

\* tokio::time::timeout drops the read: what it had read of a line goes with it.
ReadTimesOut ==
    /\ Timed /\ reader \in {"reading", "waiting"}
    /\ pipe = <<>> /\ cli = "running"
    /\ reader' = "idle"
    /\ cut' = (cut \/ line # <<>>)
    /\ line' = <<>>
    /\ lock' = Released
    /\ UNCHANGED <<pipe, cliVars, buffer, delivered, child, writer, closer>>

\* read_line fails, on the pipe or on bytes that are not UTF-8, or child.wait()
\* does: the error ends the stream, and the line goes with it.
ReadFails ==
    /\ reader \in {"reading", "waiting"}
    /\ reader' = "error"
    /\ line' = <<>>
    /\ lock' = Released
    /\ UNCHANGED <<pipe, cliVars, buffer, delivered, cut, child, writer, closer>>

\* task.abort() takes effect.
ReaderAborted ==
    /\ closer # "no" /\ Live
    /\ reader' = "aborted"
    /\ line' = <<>>
    /\ lock' = Released
    /\ UNCHANGED <<pipe, cliVars, buffer, delivered, cut, child, writer, closer>>

ReaderStep ==
    BeginRead \/ ReadPiece \/ ReadLastLine \/ LockChild \/ ChildExited

----------------------------------------------------------------------------
(* The writer half: one write or end_input at a time, the pipe not full *)

BeginWrite ==
    /\ writer = "idle" /\ closer = "no"
    /\ writer' = "waiting"
    /\ UNCHANGED <<pipe, cliVars, reader, readVars, child, lock, closer>>

FinishWrite ==
    /\ writer = "waiting"
    /\ ~InnerHeld
    /\ writer' = "idle"
    /\ UNCHANGED <<pipe, cliVars, reader, readVars, child, lock, closer>>

----------------------------------------------------------------------------
(* The close handle *)

AbortReader ==
    /\ closer = "no" /\ writer = "idle"
    /\ closer' = "aborting"
    /\ UNCHANGED <<pipe, cliVars, reader, readVars, child, lock, writer>>

\* Query::shutdown joins the reader first; Query::drop does not wait.
BeginClose ==
    /\ closer = "aborting"
    /\ closer' = "closing"
    /\ UNCHANGED <<pipe, cliVars, reader, readVars, child, lock, writer>>

KillFirst_Polite == cli
KillFirst == IF cli = "running" THEN "killed" ELSE cli

\* Under the lock: kill the child if it runs, and wait for it.
KillChild ==
    /\ closer = "closing" /\ lock = "free" /\ ~InnerHeld
    /\ cli' = KillFirst
    /\ stdoutOpen' = (stdoutOpen /\ cli' = "running")
    /\ closer' = "killed"
    /\ UNCHANGED <<pipe, printed, strayed, reader, readVars, child, lock, writer>>

\* Under the lock again: forget it.
ForgetChild ==
    /\ closer = "killed" /\ lock = "free"
    /\ child' = FALSE
    /\ closer' = "done"
    /\ UNCHANGED <<pipe, cliVars, reader, readVars, lock, writer>>

Close == ReaderAborted \/ BeginClose \/ KillChild \/ ForgetChild

----------------------------------------------------------------------------
(* The CLI *)

NextPiece(nl) ==
    [msg |-> (printed \div Parts) + 1, part |-> (printed % Parts) + 1, nl |-> nl]

\* A message ends its last line; it may span several lines.
PrintPiece(nl) ==
    /\ cli = "running" /\ stdoutOpen
    /\ printed < MaxMessages * Parts
    /\ Len(pipe) < PipeCap
    /\ (printed + 1) % Parts = 0 => nl
    /\ pipe' = Append(pipe, NextPiece(nl))
    /\ printed' = printed + 1
    /\ UNCHANGED <<strayed, stdoutOpen, cli, reader, readVars, child, lock, writer, closer>>

PrintStray ==
    /\ Strays /\ ~strayed
    /\ cli = "running" /\ stdoutOpen
    /\ printed % Parts = 0
    /\ Len(pipe) < PipeCap
    /\ pipe' = Append(pipe, Stray)
    /\ strayed' = TRUE
    /\ UNCHANGED <<printed, stdoutOpen, cli, reader, readVars, child, lock, writer, closer>>

\* It may close its stdout and linger.
CloseStdout ==
    /\ cli = "running" /\ stdoutOpen
    /\ stdoutOpen' = FALSE
    /\ UNCHANGED <<pipe, printed, strayed, cli, reader, readVars, child, lock, writer, closer>>

Exit(status) ==
    /\ cli = "running"
    /\ cli' = status
    /\ stdoutOpen' = FALSE
    /\ UNCHANGED <<pipe, printed, strayed, reader, readVars, child, lock, writer, closer>>

Cli ==
    \/ \E nl \in BOOLEAN : PrintPiece(nl)
    \/ PrintStray \/ CloseStdout
    \/ \E status \in {"ok", "failed"} : Exit(status)

----------------------------------------------------------------------------
Next ==
    \/ ReaderStep \/ ReadTimesOut \/ ReadFails
    \/ BeginWrite \/ FinishWrite
    \/ AbortReader \/ Close
    \/ Cli

Spec == Init /\ [][Next]_vars

\* The SDK's tasks run; nothing is assumed of the CLI, nor that the owner
\* ever closes.
FairSpec == Spec /\ WF_vars(ReaderStep) /\ WF_vars(FinishWrite) /\ WF_vars(Close)

----------------------------------------------------------------------------
(* Properties *)

TypeOK ==
    /\ pipe \in Seq(Piece) /\ Len(pipe) <= PipeCap
    /\ printed \in 0 .. MaxMessages * Parts
    /\ strayed \in BOOLEAN /\ stdoutOpen \in BOOLEAN
    /\ cli \in {"running", "ok", "failed", "killed"}
    /\ reader \in {"idle", "reading", "waiting", "eof", "error", "aborted"}
    /\ line \in Seq(Piece)
    /\ buffer \in Seq(Piece) /\ Len(buffer) <= MaxBuffer
    /\ delivered \in Seq(0 .. MaxMessages)
    /\ cut \in BOOLEAN /\ child \in BOOLEAN
    /\ lock \in {"free", "reader"}
    /\ writer \in {"idle", "waiting"}
    /\ closer \in {"no", "aborting", "closing", "killed", "done"}

\* However the CLI cuts its messages into lines and flushes, each message is
\* delivered once, in order, and none is lost: what was delivered, is being
\* assembled or is still in the pipe is exactly what was printed.
Held == buffer \o line \o pipe
NothingLost ==
    Live /\ ~cut /\ ~strayed =>
        /\ \A k \in DOMAIN delivered : delivered[k] = k
        /\ Len(delivered) * Parts + Len(Held) = printed
        /\ \A k \in DOMAIN Held :
             (Held[k].msg - 1) * Parts + Held[k].part = Len(delivered) * Parts + k

\* A clean end of stream is reported only for a CLI that exited with success,
\* or in a race with the close that killed it.
CleanEndMeansSuccess == reader = "eof" => cli = "ok" \/ closer # "no"

\* Closing ends with the CLI dead and the child forgotten, also when the reader
\* sits in child.wait() with the lock on a CLI that closed its stdout and lingers.
CloseCompletes == closer # "no" ~> closer = "done" /\ cli # "running" /\ ~child

\* "Writes data to the CLI's input stream independently of reads": not through
\* SplitAdapter, when the CLI prints nothing before it gets the write.
WriteProceeds == writer = "waiting" ~> writer = "idle"

\* When the CLI has exited the reader finds out.
EndIsSeen == cli # "running" ~> ~Live

\* "Handles cases where JSON objects span multiple lines or chunks": a read
\* that goes on delivers what was printed, in one piece or in several.  Not
\* after a timeout dropped the read with a part of a line in it.
CutLinesSurvive == Live /\ ~strayed => Len(delivered) * Parts + Len(Held) = printed

=============================================================================
