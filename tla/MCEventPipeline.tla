--------------------------- MODULE MCEventPipeline ---------------------------
(* A small instance of EventPipeline for TLC: the lines the CLIs print. *)
EXTENDS EventPipeline

Block(type) == [type |-> type, complete |-> TRUE, id |-> "t1", failed |-> FALSE,
                words |-> {}, empty |-> FALSE]
Use == [Block("tool_use") EXCEPT !.words = {"read", "write"}]
Outcome(failed) == [Block("tool_result") EXCEPT !.failed = failed]

Value(type, blocks) ==
    [type |-> type, blocks |-> blocks, cutAtValue |-> FALSE, isError |-> FALSE,
     fields |-> IF type \in DOMAIN RequiredFields THEN RequiredFields[type] ELSE {},
     usage |-> [kind |-> "none"]]

Calls == Value("assistant", <<Use, Block("text")>>)
CallsAgain == [Value("assistant", <<Block("thinking"), Use>>) EXCEPT !.cutAtValue = TRUE]
Fails == Value("user", <<Outcome(TRUE), Block("thinking")>>)
Result == [Value("result", <<>>) EXCEPT
             !.usage = [kind |-> "object", input |-> 2, output |-> 3, limit |-> 4, max |-> -1]]
ErrorResult == [Value("result", <<>>) EXCEPT !.isError = TRUE,
                                             !.usage = [kind |-> "number", total |-> 1]]
NoModel == [Value("assistant", <<Outcome(FALSE)>>) EXCEPT !.fields = {"message", "content"}]

\* Whole lines, and values cut in two, with and without the second part or
\* the end of the line.
MCClaudeLines ==
    {Whole(v) : v \in {Calls, CallsAgain, Fails, Result, ErrorResult, NoModel}}
    \cup {<<Piece(CallsAgain, 1), NL, Piece(CallsAgain, 2), CR, NL>>,
          <<Piece(CallsAgain, 1), NL>>, <<Piece(CallsAgain, 1)>>,
          <<Piece(ErrorResult, 1), NL>>, Text(ErrorResult)}

Item(item, phase, status) ==
    [event |-> "item", item |-> item, phase |-> phase, status |-> status, id |-> item,
     files |-> IF item = "file_change" THEN 2 ELSE 1, known |-> TRUE, cutAtValue |-> FALSE]
Plain(event) == [event |-> event, known |-> TRUE, cutAtValue |-> FALSE, total |-> 3]

MCCodexLines ==
    {Whole(v) : v \in
        {Item("command_execution", p, "in_progress") : p \in {"started", "updated"}}
        \cup {Item("command_execution", "completed", "failed"),
              Item("file_change", "started", "completed"),
              Item("file_change", "updated", "completed"),
              Item("web_search", "completed", "none")}
        \cup {Plain("turn.completed"), Plain("turn.failed"),
              [Plain("error") EXCEPT !.known = FALSE]}}
    \cup {Text(Plain("turn.failed")), <<Piece(Plain("turn.failed"), 1), CR, NL>>}

=============================================================================
