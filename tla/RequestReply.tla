---------------------------- MODULE RequestReply ----------------------------
(***************************************************************************)
(* What the control protocol of crates/claude-code/src/query.rs promises   *)
(* to the caller of `send_control_request`, without saying how: a request  *)
(* is issued once and comes back once, either with an answer the CLI gave  *)
(* to that very request, or with a failure.  "terminated" is a failure     *)
(* only of a connection that has broken.                                   *)
(***************************************************************************)
EXTENDS Naturals

CONSTANTS
    MaxRequests,    \* bound on the request counter
    Answers         \* what the CLI can answer: success payloads, errors

Ids == 1 .. MaxRequests

\* What send_control_request can return without an answer of the CLI, and
\* "cancelled" for a future dropped by its caller.
Failures == {"terminated", "timeout", "writeError", "cancelled"}

VARIABLES
    result,     \* [Ids -> ...]: what became of each request
    answered,   \* the answers the CLI gave, as pairs <<id, answer>>
    broken      \* the connection was declared broken

vars == <<result, answered, broken>>

Init ==
    /\ result = [i \in Ids |-> "unused"]
    /\ answered = {}
    /\ broken = FALSE

Issue(i) ==
    /\ result[i] = "unused"
    /\ result' = [result EXCEPT ![i] = "open"]
    /\ UNCHANGED <<answered, broken>>

\* The peer may answer late or twice, but never a request it has not seen.
Answer(i, a) ==
    /\ result[i] # "unused"
    /\ answered' = answered \cup {<<i, a>>}
    /\ UNCHANGED <<result, broken>>

Deliver(i, a) ==
    /\ result[i] = "open"
    /\ <<i, a>> \in answered
    /\ result' = [result EXCEPT ![i] = a]
    /\ UNCHANGED <<answered, broken>>

Fail(i, f) ==
    /\ result[i] = "open"
    /\ f = "terminated" => broken
    /\ result' = [result EXCEPT ![i] = f]
    /\ UNCHANGED <<answered, broken>>

Break ==
    /\ broken' = TRUE
    /\ UNCHANGED <<result, answered>>

Next ==
    \/ \E i \in Ids : Issue(i)
    \/ \E i \in Ids, a \in Answers : Answer(i, a) \/ Deliver(i, a)
    \/ \E i \in Ids, f \in Failures : Fail(i, f)
    \/ Break

Spec == Init /\ [][Next]_vars

=============================================================================
