------------------------------ MODULE Opencode ------------------------------
(***************************************************************************)
(* The Opencode SDK as create_opencode builds it: a server process, and a  *)
(* client for the URL it printed.  The client keeps no state between       *)
(* calls, and clones of it share nothing that changes, so one call, or one *)
(* stream, stands for all of them.                                         *)
(***************************************************************************)
EXTENDS OpencodeServer, OpencodeRequests, OpencodeEvents

CONSTANTS
    MaxParams,    \* bound on the path parameters a caller gives
    Bodies        \* the bodies a stream of events may have

ASSUME MaxParamsIsNatural == MaxParams \in Nat
ASSUME BodiesAreSequences == Bodies \subseteq Seq(STRING)

VARIABLES
    call,    \* the call, and how it ended
    sse      \* the stream of events, with the state of its parser

vars == <<serverVars, call, sse>>

NoCall == [phase |-> "none"]
NoStream == [state |-> "none"]

Init ==
    /\ ServerInit
    /\ call = NoCall
    /\ sse = NoStream

----------------------------------------------------------------------------
(* Requests *)

MayCall == start = "up" /\ call = NoCall

Refused(error) == call' = [phase |-> "done", outcome |-> error]

\* send_request: the URL, then the headers, of which either may be invalid
SendRequest(via, op, stream, route, params) ==
    LET request == Render(route, params)
    IN  \/ /\ request.sent
           /\ call' = [phase |-> "sent", via |-> via, op |-> op, stream |-> stream,
                       params |-> params, request |-> request]
        \/ ~request.sent /\ Refused("missing parameter")
        \/ request.sent /\ Refused("invalid")

\* call_operation, or call_operation_sse
CallOperation(op, stream, params) ==
    /\ MayCall
    /\ LET routes == OperationRoutes(op)
       IN  \/ routes = {} /\ Refused("unknown operation")
           \/ routes # {} /\ stream # (op \in SseOperations) /\ Refused("wrong call")
           \/ /\ stream = (op \in SseOperations)
              /\ \E r \in routes : SendRequest("operation", op, stream, r, params)
    /\ UNCHANGED <<serverVars, sse>>

\* a method of a namespace
CallMethod(op, params) ==
    /\ MayCall
    /\ \E r \in MethodRoutes(op) :
         SendRequest("method", op, op \in SseOperations, r, params)
    /\ UNCHANGED <<serverVars, sse>>

Done(outcome) == call' = [phase |-> "done", outcome |-> outcome]

\* The data of a response of success.
Payload(status, body) ==
    IF status = "204" \/ body = "empty" THEN "{}" ELSE body

AnswerJson ==
    /\ call.phase = "sent" /\ ~call.stream
    /\ \/ \E status \in {"204", "2xx"}, body \in {"empty", "json", "text"} :
            Done(Payload(status, body))
       \/ Done("api error")
    /\ UNCHANGED <<serverVars, sse>>

AnswerStream ==
    /\ call.phase = "sent" /\ call.stream
    /\ \/ /\ Done("stream")
          /\ \E body \in Bodies :
               sse' = [state |-> "open", body |-> body, read |-> 0, parser |-> StreamStart]
       \/ Done("api error") /\ UNCHANGED sse
    /\ UNCHANGED serverVars

\* The request or its answer is cut off: the server dies, or the client's timer fires.
RequestFails ==
    /\ call.phase = "sent"
    /\ Done("http error")
    /\ UNCHANGED <<serverVars, sse>>

----------------------------------------------------------------------------
(* The stream of events *)

PullChunk ==
    /\ sse.state = "open"
    /\ \E n \in sse.read + 1 .. Len(sse.body) :
         sse' = [sse EXCEPT !.read = n,
                   !.parser = TakeChunk(@, SubSeq(sse.body, sse.read + 1, n))]
    /\ UNCHANGED <<serverVars, call>>

PullEnd ==
    /\ sse.state = "open" /\ sse.read = Len(sse.body)
    /\ sse' = [sse EXCEPT !.state = "ended", !.parser = TakeEnd(@)]
    /\ UNCHANGED <<serverVars, call>>

\* A plausible bug: what has come of an event is handed out before the error.
PullFails_Flushes ==
    /\ sse.state = "open"
    /\ sse' = [sse EXCEPT !.state = "failed", !.parser = TakeEnd(@)]
    /\ UNCHANGED <<serverVars, call>>

\* The connection is lost, or the client's timer fires: it counts from the
\* request to the end of the body.
PullFails ==
    /\ sse.state = "open"
    /\ sse' = [sse EXCEPT !.state = "failed"]
    /\ UNCHANGED <<serverVars, call>>

DropStream ==
    /\ sse # NoStream
    /\ sse' = NoStream
    /\ UNCHANGED <<serverVars, call>>

----------------------------------------------------------------------------

Operations == {r.op : r \in OperationSpec}

ParamsFor(op) ==
    UNION {kSubset(n, Candidates(OperationRoutes(op))) : n \in 0 .. MaxParams}

Client ==
    \/ \E op \in Operations : \E params \in ParamsFor(op) :
         \/ \E stream \in BOOLEAN : CallOperation(op, stream, params)
         \/ CallMethod(op, params)
    \/ CallOperation("no.such", FALSE, {})
    \/ AnswerJson \/ AnswerStream \/ RequestFails
    \/ PullChunk \/ PullEnd \/ PullFails \/ DropStream

Server == ServerNext /\ UNCHANGED <<call, sse>>

Next == Client \/ Server

Spec == Init /\ [][Next]_vars /\ ServerFairness

----------------------------------------------------------------------------
(* Properties *)

Outcomes == {"missing parameter", "invalid", "unknown operation", "wrong call",
             "{}", "json", "text", "api error", "http error", "stream"}

TypeOK ==
    /\ ServerTypeOK
    /\ call.phase \in {"none", "sent", "done"}
    /\ call.phase = "done" => call.outcome \in Outcomes
    /\ sse.state \in {"none", "open", "ended", "failed"}

\* Two placeholders are never filled from one key, and a caller who gives each
\* parameter under its exact name has each where it belongs, whatever other names
\* are in the map.
NoAccidentalSubstitution ==
    LET filled == call.request.filled
        exact(r) == [i \in Placeholders(r.path) |-> Keys(r.path[i])[1]]
    IN  /\ IsInjective(filled)
        /\ \A r \in MethodRoutes(call.op) \cup OperationRoutes(call.op) :
             /\ call.request = Render(r, call.params)
             /\ \A i \in DOMAIN exact(r) : exact(r)[i] \in call.params
             => filled = exact(r)

\* A method of a namespace sends what its operation sends for the same parameters.
\* (The two of OAuth do not: their route has {id} where the table has {providerID}.)
MethodIsOperation ==
    call.via = "method" /\ call.op \notin {r.op : r \in OauthApi} =>
        \E r \in OperationRoutes(call.op) : call.request = Render(r, call.params)

\* Each request that is sent is the one its caller named: the operation's method
\* and path by either way to call it, with no parameter filled from another's value.
RequestsAreAsNamed == call.phase = "sent" => NoAccidentalSubstitution /\ MethodIsOperation

\* What a stream has yielded are the events of what it has read, whole and in
\* order, however the chunks are cut; the one that a failure cuts off is not
\* yielded, and the one that the end of the body cuts off is: the end stands for
\* a blank line.
EventsAreWhole ==
    sse # NoStream =>
        sse.parser.events =
            EventsOf(SubSeq(sse.body, 1, sse.read)
                     \o IF sse.state = "ended" THEN <<LF, LF>> ELSE <<>>)
=============================================================================
