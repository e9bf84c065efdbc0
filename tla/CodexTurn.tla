----------------------------- MODULE CodexTurn -----------------------------
(***************************************************************************)
(* The turns of a `Thread` of crates/codex (thread.rs, exec.rs), as        *)
(* `Thread::run` drives them: each spawns a `codex exec` child, writes its *)
(* input, reads events from its stdout until the end, waits for the child, *)
(* and may be cancelled by a token or dropped at any point.  The turns     *)
(* share the thread id, taken from the first event of a turn.              *)
(*                                                                         *)
(* The child is external: it may print before it has read its input, print *)
(* something that is no event, close its stdout and linger, exit early,    *)
(* and leave a descendant that keeps its stdout and stderr open.           *)
(***************************************************************************)
EXTENDS Naturals, Sequences

CONSTANTS
    Turns,      \* calls of run on one thread
    InputSize,  \* pieces of a turn's input
    StdinCap,   \* pieces that fit in a child's stdin pipe
    StdoutCap,  \* lines that fit in a child's stdout pipe
    MaxItems    \* bound on the items a child prints

ASSUME TurnBounds ==
    /\ InputSize \in Nat /\ MaxItems \in Nat
    /\ StdinCap \in Nat \ {0} /\ StdoutCap \in Nat \ {0}
ASSUME TurnsAssumption == "none" \notin Turns

\* Thread ids: a child without one to resume starts a thread of its own.
ThreadIds == Turns \cup {"none"}
Finals == {"completed", "failed"}   \* turn.failed, and the error event
Line == [kind : {"started"}, id : Turns] \cup [kind : {"item", "junk"} \cup Finals]

Outcomes == {"none", "rejected", "cancelled", "ioError", "badLine", "turnFailed",
             "processFailed", "dropped", "ok"}

VARIABLES
    threadId,   \* Thread.id
    pc,         \* of each turn
    token,      \* its cancellation token is cancelled
    resumed,    \* the thread id its child was told to resume
    toWrite,    \* pieces of input still to write
    items,      \* items collected
    thread,     \* the id in the thread.started event it saw
    outcome,    \* what run returned
    before,     \* the turns that were over when it started
  \* the children
    proc,       \* none, running, ok, failed (exit status), killed
    held,       \* a descendant keeps stdout and stderr open
    stdin,      \* pieces in the pipe
    out,        \* lines in the pipe
    outOpen,    \* the child has its end of it open
    printed,    \* items printed
    final       \* the final event printed, "none" before

turnVars == <<resumed, toWrite, items, thread, before>>
outVars == <<out, outOpen, printed, final>>
vars == <<threadId, pc, token, turnVars, outcome, proc, held, stdin, outVars>>

Init ==
    /\ threadId = "none"
    /\ pc = [t \in Turns |-> "idle"]
    /\ token = [t \in Turns |-> FALSE]
    /\ resumed = [t \in Turns |-> "none"]
    /\ toWrite = [t \in Turns |-> 0]
    /\ items = [t \in Turns |-> 0]
    /\ thread = [t \in Turns |-> "none"]
    /\ outcome = [t \in Turns |-> "none"]
    /\ before = [t \in Turns |-> {}]
    /\ proc = [t \in Turns |-> "none"]
    /\ held = [t \in Turns |-> FALSE]
    /\ stdin = [t \in Turns |-> 0]
    /\ out = [t \in Turns |-> <<>>]
    /\ outOpen = [t \in Turns |-> FALSE]
    /\ printed = [t \in Turns |-> 0]
    /\ final = [t \in Turns |-> "none"]

----------------------------------------------------------------------------
(* Thread::run, run_streamed and CodexExec::run *)

Goto(t, where) == pc' = [pc EXCEPT ![t] = where]
Over(t) == pc[t] = "done"

\* run returns, and drops its ends of the pipes.
Return(t, what) ==
    /\ Goto(t, "done")
    /\ outcome' = [outcome EXCEPT ![t] = what]
    /\ stdin' = [stdin EXCEPT ![t] = 0]
    /\ out' = [out EXCEPT ![t] = <<>>]

\* The child ends; a descendant may keep its pipes.
Ends(t, how) ==
    /\ proc' = [proc EXCEPT ![t] = how]
    /\ outOpen' = [outOpen EXCEPT ![t] = FALSE]
    /\ \E h \in BOOLEAN : held' = [held EXCEPT ![t] = h]

KillOnDrop_Off(t) == UNCHANGED <<proc, outOpen, held>>

\* The Child is dropped, and killed if it still runs.
KillOnDrop(t) ==
    IF proc[t] = "running" THEN Ends(t, "killed") ELSE UNCHANGED <<proc, outOpen, held>>

\* run returns with the child still around: the stream is dropped with it.
Abandon(t, what) == Return(t, what) /\ KillOnDrop(t)

\* An invalid schema, a token cancelled from the start, a failed spawn.
Refuse(t, why) ==
    /\ pc[t] = "idle"
    /\ why = "cancelled" => token[t]
    /\ Return(t, why)
    /\ UNCHANGED <<threadId, token, turnVars, proc, held, outOpen, printed, final>>

Resume_Never == "none"
Resume == threadId

\* The thread id is read, and the child spawned.
Start(t) ==
    /\ pc[t] = "idle" /\ ~token[t]
    /\ Goto(t, "writing")
    /\ resumed' = [resumed EXCEPT ![t] = Resume]
    /\ toWrite' = [toWrite EXCEPT ![t] = InputSize]
    /\ before' = [before EXCEPT ![t] = {u \in Turns : Over(u)}]
    /\ proc' = [proc EXCEPT ![t] = "running"]
    /\ outOpen' = [outOpen EXCEPT ![t] = TRUE]
    /\ UNCHANGED <<threadId, token, items, thread, outcome, held, stdin, out, printed, final>>

HasRoom_Always(t) == TRUE
HasRoom(t) == stdin[t] < StdinCap

\* write_all of the input; nothing is read from the child meanwhile, and the
\* token is not looked at.
WriteInput(t) ==
    /\ pc[t] = "writing" /\ toWrite[t] > 0
    /\ proc[t] = "running" /\ HasRoom(t)
    /\ stdin' = [stdin EXCEPT ![t] = @ + 1]
    /\ toWrite' = [toWrite EXCEPT ![t] = @ - 1]
    /\ UNCHANGED <<threadId, pc, token, resumed, items, thread, outcome, before, proc, held, outVars>>

WriteFails(t) ==
    /\ pc[t] = "writing" /\ toWrite[t] > 0
    /\ proc[t] # "running"
    /\ Abandon(t, "ioError")
    /\ UNCHANGED <<threadId, token, turnVars, printed, final>>

\* stdin.shutdown(), and the stream of lines is returned.
CloseStdin(t) ==
    /\ pc[t] = "writing" /\ toWrite[t] = 0
    /\ Goto(t, "reading")
    /\ UNCHANGED <<threadId, token, turnVars, outcome, proc, held, stdin, outVars>>

\* The token's branch of the select: kill the child and wait for it ...
SeeCancel(t) ==
    /\ pc[t] = "reading" /\ token[t]
    /\ Goto(t, "killed")
    /\ KillOnDrop(t)
    /\ UNCHANGED <<threadId, token, turnVars, outcome, stdin, out, printed, final>>

\* ... and for the end of its stderr.
Cancelled(t) ==
    /\ pc[t] = "killed" /\ ~held[t]
    /\ Return(t, "cancelled")
    /\ UNCHANGED <<threadId, token, turnVars, proc, held, outOpen, printed, final>>

Next1(t, kinds) == pc[t] = "reading" /\ out[t] # <<>> /\ Head(out[t]).kind \in kinds
Pop(t) == out' = [out EXCEPT ![t] = Tail(@)]

\* The id of the thread is kept for the turns to come.
TakeStarted(t) ==
    /\ Next1(t, {"started"})
    /\ threadId' = Head(out[t]).id
    /\ thread' = [thread EXCEPT ![t] = Head(out[t]).id]
    /\ Pop(t)
    /\ UNCHANGED <<pc, token, resumed, toWrite, items, outcome, before, proc, held, stdin,
                   outOpen, printed, final>>

\* item.completed and turn.completed; the loop goes on after the latter.
TakeItem(t) ==
    /\ Next1(t, {"item", "completed"})
    /\ items' = [items EXCEPT ![t] = IF Head(out[t]).kind = "item" THEN @ + 1 ELSE @]
    /\ Pop(t)
    /\ UNCHANGED <<threadId, pc, token, resumed, toWrite, thread, outcome, before, proc, held,
                   stdin, outOpen, printed, final>>

\* turn.failed, the error event, or a line that is no event.
TakeFailure(t) ==
    /\ Next1(t, {"failed", "junk"})
    /\ Abandon(t, IF Head(out[t]).kind = "failed" THEN "turnFailed" ELSE "badLine")
    /\ UNCHANGED <<threadId, token, turnVars, printed, final>>

AtEof(t) == out[t] = <<>> /\ ~outOpen[t] /\ ~held[t]

\* The end of stdout; then the child is waited for, whatever the token says ...
EndOfOutput(t) ==
    /\ pc[t] = "reading" /\ AtEof(t)
    /\ Goto(t, "waiting")
    /\ UNCHANGED <<threadId, token, turnVars, outcome, proc, held, stdin, outVars>>

ExitOutcome_Ignored(t) == "ok"
ExitOutcome(t) == IF proc[t] = "ok" THEN "ok" ELSE "processFailed"

\* ... and for its stderr.
Finish(t) ==
    /\ pc[t] = "waiting"
    /\ proc[t] # "running" /\ ~held[t]
    /\ Return(t, ExitOutcome(t))
    /\ UNCHANGED <<threadId, token, turnVars, proc, held, outOpen, printed, final>>

RunStep(t) ==
    \/ WriteInput(t) \/ WriteFails(t) \/ CloseStdin(t) \/ SeeCancel(t) \/ Cancelled(t)
    \/ TakeStarted(t) \/ TakeItem(t) \/ TakeFailure(t) \/ EndOfOutput(t) \/ Finish(t)

\* The caller drops the future of run.
Drop(t) ==
    /\ pc[t] \in {"writing", "reading", "killed", "waiting"}
    /\ Abandon(t, "dropped")
    /\ UNCHANGED <<threadId, token, turnVars, printed, final>>

CancelToken(t) ==
    /\ ~token[t] /\ ~Over(t)
    /\ token' = [token EXCEPT ![t] = TRUE]
    /\ UNCHANGED <<threadId, pc, turnVars, outcome, proc, held, stdin, outVars>>

----------------------------------------------------------------------------
(* The child *)

ReadInput(t) ==
    /\ proc[t] = "running" /\ stdin[t] > 0
    /\ stdin' = [stdin EXCEPT ![t] = @ - 1]
    /\ UNCHANGED <<threadId, pc, token, turnVars, outcome, proc, held, outVars>>

Begun(t) == out[t] # <<>> \/ thread[t] # "none"

Prints(t, line) ==
    /\ proc[t] = "running" /\ outOpen[t]
    /\ Len(out[t]) < StdoutCap
    /\ out' = [out EXCEPT ![t] = Append(@, line)]
    /\ UNCHANGED <<threadId, pc, token, turnVars, outcome, proc, held, stdin, outOpen>>

\* It resumes the thread it was told, or starts a new one.
PrintStarted(t) ==
    /\ ~Begun(t)
    /\ Prints(t, [kind |-> "started", id |-> IF resumed[t] = "none" THEN t ELSE resumed[t]])
    /\ UNCHANGED <<printed, final>>

PrintItem(t) ==
    /\ Begun(t) /\ final[t] = "none" /\ printed[t] < MaxItems
    /\ Prints(t, [kind |-> "item"])
    /\ printed' = [printed EXCEPT ![t] = @ + 1]
    /\ UNCHANGED final

PrintFinal(t, f) ==
    /\ Begun(t) /\ final[t] = "none"
    /\ Prints(t, [kind |-> f])
    /\ final' = [final EXCEPT ![t] = f]
    /\ UNCHANGED printed

PrintJunk(t) ==
    /\ Prints(t, [kind |-> "junk"])
    /\ UNCHANGED <<printed, final>>

CloseStdout(t) ==
    /\ proc[t] = "running" /\ outOpen[t]
    /\ outOpen' = [outOpen EXCEPT ![t] = FALSE]
    /\ UNCHANGED <<threadId, pc, token, turnVars, outcome, proc, held, stdin, out, printed, final>>

Exit(t, status) ==
    /\ proc[t] = "running"
    /\ Ends(t, status)
    /\ UNCHANGED <<threadId, pc, token, turnVars, outcome, stdin, out, printed, final>>

DescendantEnds(t) ==
    /\ held[t] /\ ~Over(t)
    /\ held' = [held EXCEPT ![t] = FALSE]
    /\ UNCHANGED <<threadId, pc, token, turnVars, outcome, proc, stdin, outVars>>

Child(t) ==
    \/ ReadInput(t) \/ PrintStarted(t) \/ PrintItem(t) \/ PrintJunk(t)
    \/ \E f \in Finals : PrintFinal(t, f)
    \/ CloseStdout(t)
    \/ \E status \in {"ok", "failed"} : Exit(t, status)
    \/ DescendantEnds(t)

----------------------------------------------------------------------------
Next ==
    \E t \in Turns :
        \/ \E why \in {"cancelled", "rejected"} : Refuse(t, why)
        \/ Start(t) \/ RunStep(t) \/ Drop(t) \/ CancelToken(t)
        \/ Child(t)

Spec == Init /\ [][Next]_vars

\* The task that awaits run is polled.  Nothing is assumed of the child.
FairSpec == Spec /\ \A t \in Turns : WF_vars(RunStep(t))

----------------------------------------------------------------------------
(* Properties *)

\* Every variable has its type; the pipes hold no more than their capacity.
TypeOK ==
    /\ threadId \in ThreadIds
    /\ pc \in [Turns -> {"idle", "writing", "reading", "killed", "waiting", "done"}]
    /\ token \in [Turns -> BOOLEAN]
    /\ resumed \in [Turns -> ThreadIds] /\ thread \in [Turns -> ThreadIds]
    /\ toWrite \in [Turns -> 0 .. InputSize]
    /\ items \in [Turns -> Nat]
    /\ outcome \in [Turns -> Outcomes]
    /\ before \in [Turns -> SUBSET Turns]
    /\ proc \in [Turns -> {"none", "running", "ok", "failed", "killed"}]
    /\ held \in [Turns -> BOOLEAN]
    /\ stdin \in [Turns -> 0 .. StdinCap]
    /\ out \in [Turns -> Seq(Line)] /\ \A t \in Turns : Len(out[t]) <= StdoutCap
    /\ outOpen \in [Turns -> BOOLEAN]
    /\ printed \in [Turns -> 0 .. MaxItems]
    /\ final \in [Turns -> Finals \cup {"none"}]

\* No child runs on after its turn is over, whatever ended it: success, a
\* failed event, a bad line, a broken pipe, the token or a dropped future.
NoOrphan == \A t \in Turns : Over(t) => proc[t] # "running"

\* run returns Ok only when the child exited with success and printed no
\* failure, and it then has every item the child printed.
OkIsComplete ==
    \A t \in Turns :
        outcome[t] = "ok" => proc[t] = "ok" /\ final[t] # "failed" /\ items[t] = printed[t]

\* Turns that follow one another are turns of one thread: once a turn has
\* seen its thread, all later ones resume it.
Started(t) == pc[t] # "idle" /\ proc[t] # "none"
Sequential ==
    \A t, u \in Turns : Started(t) /\ Started(u) /\ t # u => t \in before[u] \/ u \in before[t]
SequentialTurnsShareThread ==
    Sequential =>
        \A t, u \in Turns : thread[t] # "none" /\ thread[u] # "none" => thread[t] = thread[u]

\* "Cancellation token used to abort an in-flight turn": a turn whose token is
\* cancelled comes back, whatever its child does.
CancelAborts == \A t \in Turns : (pc[t] # "idle" /\ token[t]) ~> Over(t)

=============================================================================
