--------------------------- MODULE OpencodeServer ---------------------------
(***************************************************************************)
(* Starting and stopping `opencode serve` (crates/opencode/src/server.rs). *)
(* create_opencode_server spawns the CLI and two tasks that send the lines *)
(* of its stdout and stderr into a channel, then waits for whichever comes *)
(* first: the line with the URL, the end of the logs, the exit of the      *)
(* child, or the timeout.  The command has no kill_on_drop, so each path   *)
(* that gives up has to end the child itself.                              *)
(***************************************************************************)
EXTENDS Naturals, Sequences

CONSTANT MaxLogs    \* bound on the lines of log in the channel

ASSUME MaxLogsIsNatural == MaxLogs \in Nat

Streams == {"stdout", "stderr"}
\* A line of another kind, the line with the URL, or one that begins like it.
LogLines == {"log", "url", "noUrl"}

VARIABLES
    start,    \* where create_opencode_server, and then the OpencodeServer, is
    child,    \* "none", "running", "dying" (it was sent SIGKILL) or "dead"
    logs,     \* lines in the channel
    readers   \* streams whose reader task runs

serverVars == <<start, child, logs, readers>>

Starts == {"idle", "waiting", "terminating", "failed", "abandoned",
           "up", "closing", "closed", "dropped"}

ServerInit ==
    /\ start = "idle" /\ child = "none"
    /\ logs = <<>> /\ readers = {}

----------------------------------------------------------------------------
(* create_opencode_server *)

\* The CLI is not found, or the command cannot be spawned.
LaunchFails ==
    /\ start = "idle"
    /\ start' = "failed"
    /\ UNCHANGED <<child, logs, readers>>

Launch ==
    /\ start = "idle"
    /\ start' = "waiting" /\ child' = "running" /\ readers' = Streams
    /\ UNCHANGED logs

\* The start is over, and with it its end of the channel.
Over(s) == start' = s /\ logs' = <<>>

\* start_kill, whose error is ignored
KillChild == child' = IF child = "running" THEN "dying" ELSE child

\* A plausible bug: the child is left to be killed by its drop.
Terminate_OnDrop == Over("failed") /\ UNCHANGED child

\* terminate_child kills, then waits.
Terminate == Over("terminating") /\ KillChild

\* A plausible bug: the timer only runs while the log is silent.
Timeout_Silent ==
    /\ start = "waiting" /\ logs = <<>> /\ readers = Streams
    /\ Terminate
    /\ UNCHANGED readers

Timeout ==
    /\ start = "waiting"
    /\ Terminate
    /\ UNCHANGED readers

ReadLine ==
    /\ start = "waiting" /\ logs # <<>>
    /\ CASE Head(logs) = "log"   -> logs' = Tail(logs) /\ UNCHANGED <<start, child>>
         [] Head(logs) = "url"   -> Over("up") /\ UNCHANGED child
         [] Head(logs) = "noUrl" -> Terminate
    /\ UNCHANGED readers

LogsEnd ==
    /\ start = "waiting" /\ logs = <<>> /\ readers = {}
    /\ IF child = "dead" THEN Over("failed") /\ UNCHANGED child ELSE Terminate
    /\ UNCHANGED readers

ChildExited ==
    /\ start = "waiting" /\ child = "dead"
    /\ Over("failed")
    /\ UNCHANGED <<child, readers>>

Terminated ==
    /\ start = "terminating" /\ child = "dead"
    /\ start' = "failed"
    /\ UNCHANGED <<child, logs, readers>>

\* The future is dropped, and the Child with it, which goes on running.
Abandon ==
    /\ start \in {"waiting", "terminating"}
    /\ Over("abandoned")
    /\ UNCHANGED <<child, readers>>

----------------------------------------------------------------------------
(* OpencodeServer *)

Close ==
    /\ start = "up"
    /\ start' = "closing" /\ KillChild
    /\ UNCHANGED <<logs, readers>>

Closed ==
    /\ start = "closing" /\ child = "dead"
    /\ start' = "closed"
    /\ UNCHANGED <<child, logs, readers>>

DropServer ==
    /\ start \in {"up", "closing"}
    /\ start' = "dropped" /\ KillChild
    /\ UNCHANGED <<logs, readers>>

----------------------------------------------------------------------------
(* The reader tasks and the child *)

\* A reader sends until its stream ends, is closed by the child, or has a
\* line that is not UTF-8; nobody receives once the start is over.
Prints(s, line) ==
    /\ child = "running" /\ s \in readers
    /\ start = "waiting" => Len(logs) < MaxLogs
    /\ logs' = IF start = "waiting" THEN Append(logs, line) ELSE logs
    /\ UNCHANGED <<start, child, readers>>

ReaderEnds(s) ==
    /\ s \in readers
    /\ readers' = readers \ {s}
    /\ UNCHANGED <<start, child, logs>>

Exits ==
    /\ child \in {"running", "dying"}
    /\ child' = "dead"
    /\ UNCHANGED <<start, logs, readers>>

ServerNext ==
    \/ LaunchFails \/ Launch \/ Timeout \/ ReadLine \/ LogsEnd \/ ChildExited
    \/ Terminated \/ Abandon \/ Close \/ Closed \/ DropServer \/ Exits
    \/ \E s \in Streams : ReaderEnds(s) \/ \E line \in LogLines : Prints(s, line)

\* The timer fires, a task that is ready is polled, and SIGKILL kills.
ServerFairness ==
    /\ WF_serverVars(Timeout)
    /\ WF_serverVars(Terminated)
    /\ WF_serverVars(child = "dying" /\ Exits)

----------------------------------------------------------------------------
(* Properties *)

ServerTypeOK ==
    /\ start \in Starts /\ child \in {"none", "running", "dying", "dead"}
    /\ logs \in Seq(LogLines) /\ readers \subseteq Streams

\* A start that fails, for whatever reason and in whatever order things
\* happen, and a server that is closed or dropped, leave no child that runs on;
\* close and every failure have even seen its end.  (A start whose future is
\* dropped does leave one.)
NoChildLeft ==
    /\ start \in {"failed", "closed"} => child \in {"none", "dead"}
    /\ start = "dropped" => child \in {"dying", "dead"}

\* A start comes to its end, whatever the child prints or does not print.
StartEnds == [](start = "waiting" => <>(start \notin {"waiting", "terminating"}))
=============================================================================
