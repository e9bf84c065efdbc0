------------------------ MODULE ClaudeQuery_proofs ------------------------
(***************************************************************************)
(* Theorems about ClaudeQuery, for every set of callers and every bound.   *)
(***************************************************************************)
EXTENDS ClaudeQuery, SequenceTheorems, TLAPS

USE MaxRequestsAssumption, AnswersAssumption, BoundsAssumption

----------------------------------------------------------------------------
(* Type correctness *)

\* The kind of a line decides what it carries.
LEMMA LineKinds ==
    ASSUME NEW l \in Line
    PROVE  /\ l.kind = "response" => l.id \in Ids /\ l.answer \in Answers
           /\ l.kind = "request" => l \in Request
           /\ l.kind \in DataKinds => l \in Data
BY DEF Line, Response, Request, Data, Ignored, DataKinds

\* Reading the pipe yields a line and leaves the rest.
LEMMA ReadLine ==
    ASSUME NEW q \in Seq(Line), q # <<>>
    PROVE  /\ Head(q) \in Line
           /\ Tail(q) \in Seq(Line)
           /\ Len(Tail(q)) <= Len(q)
OBVIOUS

\* Sending an item keeps the channel within its capacity.
LEMMA OfferBounded ==
    ASSUME NEW x \in Item, channel \in Seq(Item), Len(channel) <= ChannelCap, Offer(x)
    PROVE  channel' \in Seq(Item) /\ Len(channel') <= ChannelCap
BY DEF Offer

\* Returning frees the task and fixes the result of its request.
LEMMA ReturnTypes ==
    ASSUME CallersOK, NEW c \in Callers, pc[c] # "idle", NEW r \in Answers \cup Failures,
           Return(c, r), UNCHANGED <<req, inbox>>
    PROVE  CallersOK'
<1> USE DEF CallersOK
<1>1. req[c] \in Ids
  OBVIOUS
<1>2. result' \in [Ids -> Answers \cup Failures \cup {"unused", "open"}]
  BY <1>1 DEF Return
<1>3. pc' \in [Callers -> PcStates] /\ \A d \in Callers : pc'[d] # "idle" => req'[d] \in Ids
  BY DEF Return, PcStates
<1> QED
  BY <1>2, <1>3

\* Moving to another state, the request unchanged, keeps the callers well typed.
LEMMA MoveTypes ==
    ASSUME CallersOK, NEW c \in Callers, pc[c] # "idle", NEW s \in PcStates,
           pc' = [pc EXCEPT ![c] = s], UNCHANGED <<req, inbox, result>>
    PROVE  CallersOK'
BY DEF CallersOK

\* A step of a task in send_control_request preserves the type invariant.
LEMMA CallerTypes ==
    ASSUME TypeOK, NEW c \in Callers, Issue(c) \/ SendControlRequest(c) \/ Cancel(c)
    PROVE  TypeOK'
<1> USE DEF TypeOK, ControlOK, ReaderOK, OwnerOK, CliOK, callerVars, controlVars, streamVars,
        ownerVars, outVars, cliVars
<1>0. pc[c] # "idle" => req[c] \in Ids
  BY DEF CallersOK
<1>1. CASE Issue(c)
  <2>1. NextId \in Ids /\ NextId \in 0 .. MaxRequests
    BY <1>1 DEF Issue, NextId, Ids
  <2>2. result' \in [Ids -> Answers \cup Failures \cup {"unused", "open"}]
    BY <1>1, <2>1 DEF Issue, CallersOK
  <2>3. CallersOK'
    BY <1>1, <2>1, <2>2 DEF Issue, CallersOK, PcStates
  <2>4. counter' \in 0 .. MaxRequests
    BY <1>1 DEF Issue
  <2> QED
    BY <1>1, <2>3, <2>4 DEF Issue
<1>2. CASE WriteRequest(c)
  <2>1. CallersOK'
    BY <1>2, MoveTypes DEF WriteRequest, PcStates
  <2> QED
    BY <1>0, <1>2, <2>1 DEF WriteRequest
<1>3. CASE WriteFails(c)
  <2>1. CallersOK'
    BY <1>3, ReturnTypes DEF WriteFails, Failures
  <2> QED
    BY <1>3, <2>1 DEF WriteFails
<1>4. CASE Register(c)
  <2>1. CASE Parked(req[c])
    <3>1. req[c] \in Ids /\ buffered[req[c]] \in Answers
      BY <1>0, <1>4, <2>1 DEF Register, Parked
    <3>2. CallersOK'
      BY <1>4, <2>1, <3>1, ReturnTypes DEF Register
    <3>3. buffered' \in [Ids -> Answers \cup {"none"}] /\ senders' \subseteq Ids
      BY <1>4, <2>1 DEF Register
    <3> QED
      BY <1>4, <3>2, <3>3 DEF Register
  <2>2. CASE ~Parked(req[c])
    <3>1. CallersOK'
      BY <1>4, <2>2, MoveTypes DEF Register, PcStates
    <3>2. senders' \subseteq Ids /\ UNCHANGED buffered
      BY <1>0, <1>4, <2>2 DEF Register
    <3> QED
      BY <1>4, <3>1, <3>2 DEF Register
  <2> QED
    BY <2>1, <2>2
<1>5. CASE CheckReader(c)
  <2>1. CallersOK'
    BY <1>5, ReturnTypes, MoveTypes DEF CheckReader, PcStates, Failures
  <2> QED
    BY <1>5, <2>1 DEF CheckReader
<1>6. CASE TakeAnswer(c)
  <2>1. inbox[req[c]] \in Answers \cup Failures
    BY <1>0, <1>6 DEF TakeAnswer, CallersOK, Failures
  <2>2. CallersOK'
    BY <1>6, <2>1, ReturnTypes DEF TakeAnswer
  <2> QED
    BY <1>6, <2>2 DEF TakeAnswer
<1>7. CASE Expire(c)
  <2>1. CallersOK'
    BY <1>7, MoveTypes DEF Expire, TimerFires, PcStates
  <2> QED
    BY <1>7, <2>1 DEF Expire
<1>8. CASE RemoveExpired(c)
  <2>1. CallersOK'
    BY <1>8, ReturnTypes DEF RemoveExpired, Failures
  <2> QED
    BY <1>8, <2>1 DEF RemoveExpired
<1>9. CASE Cancel(c)
  <2>1. CallersOK'
    BY <1>9, ReturnTypes DEF Cancel, Failures
  <2> QED
    BY <1>9, <2>1 DEF Cancel
<1> QED
  BY <1>1, <1>2, <1>3, <1>4, <1>5, <1>6, <1>7, <1>8, <1>9 DEF SendControlRequest

\* A step of the reader task preserves it.
LEMMA ReaderTypes ==
    ASSUME TypeOK, ReaderStep
    PROVE  TypeOK'
<1> USE DEF TypeOK, CallersOK, ControlOK, ReaderOK, OwnerOK, CliOK, RpcStates, callerVars,
        controlVars, streamVars, ownerVars, outVars, cliVars
<1>1. CASE LoopTop
  BY <1>1 DEF LoopTop
<1>2. CASE ReadTimesOut
  BY <1>2 DEF ReadTimesOut, CloseDeferred, Closers
<1>3. CASE ReadEof
  BY <1>3 DEF ReadEof, CloseDeferred, Closers
<1>4. CASE ReadFails
  BY <1>4 DEF ReadFails
<1>5. CASE DrainSenders
  BY <1>5 DEF DrainSenders, Drained
<1>6. CASE SendReadError
  <2>1. ReadError \in Item
    BY DEF Item
  <2>2. channel' \in Seq(Item) /\ Len(channel') <= ChannelCap
    BY <1>6, <2>1, OfferBounded DEF SendReadError
  <2> QED
    BY <1>6, <2>2 DEF SendReadError
<1>7. CASE RouteResponse
  <2>1. /\ Head(stdout) \in Line /\ Head(stdout).kind = "response"
        /\ stdout' \in Seq(Line) /\ Len(stdout') <= StdoutCap
    BY <1>7, ReadLine DEF RouteResponse, Next1
  <2>2. Head(stdout).id \in Ids /\ Head(stdout).answer \in Answers
    BY <2>1, LineKinds DEF Ids
  <2>3. /\ senders' \subseteq Ids
        /\ inbox' \in [Ids -> Answers \cup {"none", "terminated"}]
        /\ buffered' \in [Ids -> Answers \cup {"none"}]
    BY <1>7, <2>2 DEF RouteResponse
  <2> QED
    BY <1>7, <2>1, <2>3 DEF RouteResponse
<1>8. CASE TakeRequest
  <2>1. /\ Head(stdout) \in Request
        /\ stdout' \in Seq(Line) /\ Len(stdout') <= StdoutCap
    BY <1>8, ReadLine, LineKinds DEF TakeRequest, Next1
  <2> QED
    BY <1>8, <2>1 DEF TakeRequest
<1>9. CASE Reply
  <2>1. hand.sub \in Subtypes \cup {"unsupported"}
    BY <1>9 DEF Reply, Request
  <2>2. lostReplies' \subseteq Closers \X (Subtypes \cup {"unsupported"})
    BY <1>9, <2>1 DEF Reply
  <2> QED
    BY <1>9, <2>2 DEF Reply
<1>10. CASE McpHandlerPanics
  BY <1>10 DEF McpHandlerPanics
<1>11. CASE SkipLine
  BY <1>11, ReadLine DEF SkipLine, Next1
<1>12. CASE TakeMessage
  <2>1. /\ Head(stdout) \in Data
        /\ stdout' \in Seq(Line) /\ Len(stdout') <= StdoutCap
    BY <1>12, ReadLine, LineKinds DEF TakeMessage, Next1
  <2>2. pendingClose' \in BOOLEAN /\ stdin' \in Closers \cup {"open"}
    BY <1>12 DEF TakeMessage, CloseDeferred, Closers
  <2> QED
    BY <1>12, <2>1, <2>2 DEF TakeMessage
<1>13. CASE Forward
  <2>1. hand \in Item
    BY <1>13 DEF Forward, Item
  <2>2. channel' \in Seq(Item) /\ Len(channel') <= ChannelCap
    BY <1>13, <2>1, OfferBounded DEF Forward
  <2> QED
    BY <1>13, <2>2 DEF Forward
<1> QED
  BY <1>1, <1>2, <1>3, <1>4, <1>5, <1>6, <1>7, <1>8, <1>9, <1>10, <1>11, <1>12, <1>13
     DEF ReaderStep

\* A step of the owner or of the CLI preserves it.
LEMMA OwnerAndCliTypes ==
    ASSUME TypeOK,
           FinalizeStreamInput \/ EndInput \/ Receive \/ BeginShutdown \/ FinishShutdown \/ Cli
    PROVE  TypeOK'
<1> USE DEF TypeOK, CallersOK, ControlOK, ReaderOK, OwnerOK, CliOK, RpcStates, callerVars,
        controlVars, streamVars, ownerVars, outVars, cliVars
<1>1. CASE FinalizeStreamInput
  <2>1. pendingClose' \in BOOLEAN
    BY <1>1 DEF FinalizeStreamInput
  <2>2. stdin' \in Closers \cup {"open"}
    BY <1>1 DEF FinalizeStreamInput, Closers
  <2> QED
    BY <1>1, <2>1, <2>2 DEF FinalizeStreamInput
<1>2. CASE EndInput
  BY <1>2 DEF EndInput, Closers
<1>3. CASE ReceiveItem
  BY <1>3 DEF ReceiveItem
<1>4. CASE ReceiveNone
  BY <1>4 DEF ReceiveNone
<1>5. CASE BeginShutdown
  BY <1>5 DEF BeginShutdown
<1>6. CASE FinishShutdown
  BY <1>6 DEF FinishShutdown, Closers
<1>7. ASSUME NEW i \in Ids, NEW a \in Answers, CliAnswers(i, a)
      PROVE  TypeOK'
  BY <1>7 DEF CliAnswers, Prints, Line, Response
<1>8. ASSUME NEW s \in Subtypes \cup {"unsupported"}, CliAsks(s)
      PROVE  TypeOK'
  BY <1>8 DEF CliAsks, Prints, Line, Request
<1>9. ASSUME NEW k \in DataKinds, CliEmits(k)
      PROVE  TypeOK'
  BY <1>9 DEF CliEmits, Prints, Line, Data
<1>10. CASE CliPrintsOther
  BY <1>10 DEF CliPrintsOther, Prints, Line, Ignored
<1>11. ASSUME NEW how \in {"eof", "error"}, CliStops(how)
       PROVE  TypeOK'
  BY <1>11 DEF CliStops
<1> QED
  BY <1>1, <1>2, <1>3, <1>4, <1>5, <1>6, <1>7, <1>8, <1>9, <1>10, <1>11 DEF Receive, Cli

\* Every reachable state of a Query is well typed, and its message channel
\* never holds more than MESSAGE_CHANNEL_BUFFER items.
THEOREM TypeCorrect == Spec => []TypeOK
<1>1. Init => TypeOK
  <2> SUFFICES ASSUME Init PROVE TypeOK
    OBVIOUS
  <2> USE DEF Init
  <2>1. CallersOK /\ ControlOK
    <3>1. callbacks \in SUBSET Subtypes
      OBVIOUS
    <3>2. counter \in 0 .. MaxRequests /\ senders \subseteq Ids
      OBVIOUS
    <3>3. buffered \in [Ids -> Answers \cup {"none"}]
      OBVIOUS
    <3>4. CallersOK
      BY DEF CallersOK, PcStates
    <3> QED
      BY <3>1, <3>2, <3>3, <3>4 DEF ControlOK
  <2>2. ReaderOK
    BY DEF ReaderOK, RpcStates
  <2>3. OwnerOK /\ CliOK
    <3>1. stdout \in Seq(Line) /\ Len(stdout) <= StdoutCap
      OBVIOUS
    <3>2. emitted \in 0 .. MaxMessages
      OBVIOUS
    <3> QED
      BY <3>1, <3>2 DEF OwnerOK, CliOK
  <2> QED
    BY <2>1, <2>2, <2>3 DEF TypeOK
<1>2. TypeOK /\ [Next]_vars => TypeOK'
  <2> SUFFICES ASSUME TypeOK, [Next]_vars PROVE TypeOK'
    OBVIOUS
  <2>1. CASE UNCHANGED vars
    BY <2>1 DEF TypeOK, CallersOK, ControlOK, ReaderOK, OwnerOK, CliOK, vars
  <2> QED
    BY <2>1, CallerTypes, ReaderTypes, OwnerAndCliTypes DEF Next
<1> QED
  BY <1>1, <1>2, PTL DEF Spec

----------------------------------------------------------------------------
(* Requests in flight *)

Active(c) == pc[c] # "idle"

\* Ids come from a counter: two requests in flight never share one.
DistinctIds ==
    /\ \A c \in Callers : Active(c) => req[c] <= counter
    /\ \A c, d \in Callers : Active(c) /\ Active(d) /\ c # d => req[c] # req[d]

\* Shutdown takes the Query by value, so no control request outlives it.
ShutdownIsAlone == session # "open" => NoBorrow

\* WaiterIsReachable, from the moment the sender is registered.
Reachable ==
    \A c \in Callers :
        pc[c] \in {"registered", "waiting"} /\ inbox[req[c]] = "none" => req[c] \in senders

\* What makes NoStrandedRequest inductive: requests do not share an id, so a
\* task removes no sender but its own; and the reader leaves "marking"
\* either by draining the senders or in a shutdown with no request in flight.
InFlightInv ==
    /\ DistinctIds
    /\ ShutdownIsAlone
    /\ Reachable
    /\ NoStrandedRequest
    /\ ParkedAnswerHasNoWaiter

\* Where answers come from, for the refinement: an id that was never handed
\* out is unused, and whatever is on its way to a task was printed by the
\* CLI, or is the failure of a reader that has terminated.
ProvenanceInv ==
    /\ \A c \in Callers : Active(c) => result[req[c]] = "open"
    /\ \A i \in Ids : i > counter => result[i] = "unused"
    /\ \A i \in written : result[i] # "unused"
    /\ \A i \in Ids : inbox[i] \in Answers => <<i, inbox[i]>> \in answered
    /\ \A i \in Ids : inbox[i] = "terminated" => terminated
    /\ rpc = "marking" => terminated
    /\ \A i \in Ids : buffered[i] # "none" => <<i, buffered[i]>> \in answered
    /\ \A k \in DOMAIN stdout :
         stdout[k].kind = "response" => <<stdout[k].id, stdout[k].answer>> \in answered

\* A task's own step disturbs no other task: ids are distinct.
LEMMA CallerInFlight ==
    ASSUME TypeOK, InFlightInv,
           NEW c \in Callers, Issue(c) \/ SendControlRequest(c) \/ Cancel(c)
    PROVE  InFlightInv'
<1> USE DEF InFlightInv, DistinctIds, ShutdownIsAlone, Reachable, NoStrandedRequest,
        ParkedAnswerHasNoWaiter, NoBorrow, Active, controlVars, streamVars, ownerVars, outVars,
        cliVars
<1>0. /\ pc \in [Callers -> PcStates] /\ req \in [Callers -> 0 .. MaxRequests]
      /\ counter \in Nat /\ senders \subseteq Ids
      /\ Active(c) => req[c] \in Ids
      /\ buffered \in [Ids -> Answers \cup {"none"}]
  BY DEF TypeOK, CallersOK, ControlOK
<1>1. CASE Issue(c)
  BY <1>0, <1>1 DEF Issue, NextId
<1>2. CASE WriteRequest(c)
  BY <1>0, <1>2 DEF WriteRequest
<1>3. CASE WriteFails(c)
  BY <1>0, <1>3 DEF WriteFails, Return
<1>4. CASE Register(c)
  BY <1>0, <1>4 DEF Register, Return, Parked
<1>5. CASE CheckReader(c)
  BY <1>0, <1>5 DEF CheckReader, Return, ReaderTerminated
<1>6. CASE TakeAnswer(c)
  BY <1>0, <1>6 DEF TakeAnswer, Return
<1>7. CASE Expire(c)
  BY <1>0, <1>7 DEF Expire, TimerFires
<1>8. CASE RemoveExpired(c)
  BY <1>0, <1>8 DEF RemoveExpired, Return
<1>9. CASE Cancel(c)
  BY <1>0, <1>9 DEF Cancel, Return
<1> QED
  BY <1>1, <1>2, <1>3, <1>4, <1>5, <1>6, <1>7, <1>8, <1>9 DEF SendControlRequest

\* The reader wakes a task by the sender it takes from the map, and ends
\* "marking" only when none is left.
LEMMA ReaderInFlight ==
    ASSUME TypeOK, InFlightInv, ReaderStep
    PROVE  InFlightInv'
<1> USE DEF InFlightInv, DistinctIds, ShutdownIsAlone, Reachable, NoStrandedRequest,
        ParkedAnswerHasNoWaiter, NoBorrow, Active, callerVars, controlVars, streamVars, ownerVars,
        outVars, cliVars
<1>0. \A c \in Callers : Active(c) => req[c] \in Ids
  BY DEF TypeOK, CallersOK
<1>1. CASE LoopTop
  BY <1>1 DEF LoopTop
<1>2. CASE ReadTimesOut
  BY <1>2 DEF ReadTimesOut
<1>3. CASE ReadEof
  BY <1>3 DEF ReadEof, Reading
<1>4. CASE ReadFails
  BY <1>4 DEF ReadFails
<1>5. CASE DrainSenders
  BY <1>0, <1>5 DEF DrainSenders, Drained
<1>6. CASE SendReadError
  BY <1>6 DEF SendReadError
<1>7. CASE RouteResponse
  <2> DEFINE i == Head(stdout).id
             a == Head(stdout).answer
  <2>1. i \in Ids /\ a \in Answers
    BY <1>7, ReadLine, LineKinds DEF RouteResponse, Next1, TypeOK, CliOK
  <2>2. a # "none"
    BY <2>1
  <2>3. /\ UNCHANGED <<pc, req, counter, session, terminated>> /\ rpc' = "top" /\ Reading
        /\ \/ /\ i \in senders
              /\ senders' = senders \ {i}
              /\ inbox' = [inbox EXCEPT ![i] = a]
              /\ UNCHANGED buffered
           \/ /\ i \notin senders
              /\ buffered' = [buffered EXCEPT ![i] = a]
              /\ UNCHANGED <<senders, inbox>>
    BY <1>7 DEF RouteResponse, Next1
  <2>4. inbox \in [Ids -> Answers \cup {"none", "terminated"}]
        /\ buffered \in [Ids -> Answers \cup {"none"}]
    BY DEF TypeOK, CallersOK, ControlOK
  <2> HIDE DEF i, a
  <2> QED
    BY <1>0, <2>1, <2>2, <2>3, <2>4 DEF Reading
<1>8. CASE TakeRequest
  BY <1>8 DEF TakeRequest, Next1, Reading
<1>9. CASE Reply
  BY <1>9 DEF Reply
<1>10. CASE McpHandlerPanics
  BY <1>10 DEF McpHandlerPanics
<1>11. CASE SkipLine
  BY <1>11 DEF SkipLine, Next1, Reading
<1>12. CASE TakeMessage
  BY <1>12 DEF TakeMessage, Next1, Reading
<1>13. CASE Forward
  BY <1>13 DEF Forward
<1> QED
  BY <1>1, <1>2, <1>3, <1>4, <1>5, <1>6, <1>7, <1>8, <1>9, <1>10, <1>11, <1>12, <1>13
     DEF ReaderStep

\* The owner and the CLI touch no request; shutdown finds none in flight.
LEMMA OwnerAndCliInFlight ==
    ASSUME TypeOK, InFlightInv,
           FinalizeStreamInput \/ EndInput \/ Receive \/ BeginShutdown \/ FinishShutdown \/ Cli
    PROVE  InFlightInv'
<1> USE DEF InFlightInv, DistinctIds, ShutdownIsAlone, Reachable, NoStrandedRequest,
        ParkedAnswerHasNoWaiter, NoBorrow, Active, callerVars, controlVars, streamVars, ownerVars,
        outVars, cliVars
<1>1. CASE FinalizeStreamInput \/ EndInput
  BY <1>1 DEF FinalizeStreamInput, EndInput
<1>2. CASE Receive
  BY <1>2 DEF Receive, ReceiveItem, ReceiveNone
<1>3. CASE BeginShutdown
  BY <1>3 DEF BeginShutdown
<1>4. CASE FinishShutdown
  BY <1>4 DEF FinishShutdown
<1>5. CASE Cli
  <2>1. UNCHANGED <<callerVars, counter, controlVars, terminated, rpc, ownerVars>>
    <3>1. ASSUME NEW line, Prints(line)
          PROVE  UNCHANGED <<callerVars, counter, controlVars, terminated, rpc, ownerVars>>
      BY <3>1 DEF Prints
    <3>2. ASSUME NEW how, CliStops(how)
          PROVE  UNCHANGED <<callerVars, counter, controlVars, terminated, rpc, ownerVars>>
      BY <3>2 DEF CliStops
    <3> QED
      BY <1>5, <3>1, <3>2 DEF Cli, CliAnswers, CliAsks, CliEmits, CliPrintsOther
  <2> QED
    BY <2>1
<1> QED
  BY <1>1, <1>2, <1>3, <1>4, <1>5

\* The inductive invariant holds in every reachable state.
THEOREM InFlight == Spec => [](TypeOK /\ InFlightInv)
<1>1. Init => InFlightInv
  BY DEF Init, InFlightInv, DistinctIds, ShutdownIsAlone, Reachable, NoStrandedRequest,
     ParkedAnswerHasNoWaiter, NoBorrow, Active
<1>2. TypeOK /\ InFlightInv /\ [Next]_vars => InFlightInv'
  <2> SUFFICES ASSUME TypeOK, InFlightInv, [Next]_vars PROVE InFlightInv'
    OBVIOUS
  <2>1. CASE UNCHANGED vars
    BY <2>1 DEF InFlightInv, DistinctIds, ShutdownIsAlone, Reachable, NoStrandedRequest,
       ParkedAnswerHasNoWaiter, NoBorrow, Active, vars
  <2> QED
    BY <2>1, CallerInFlight, ReaderInFlight, OwnerAndCliInFlight DEF Next
<1> QED
  BY <1>1, <1>2, TypeCorrect, PTL DEF Spec

\* No request registered while the reader was failing is left waiting: for
\* any number of tasks and requests.
THEOREM NoStranded == Spec => []NoStrandedRequest
<1>1. InFlightInv => NoStrandedRequest
  BY DEF InFlightInv
<1> QED
  BY <1>1, InFlight, PTL

\* A waiting task's sender is in the map, so its receiver never sees a
\* closed channel.
THEOREM WaiterReachable == Spec => []WaiterIsReachable
<1>1. InFlightInv => WaiterIsReachable
  BY DEF InFlightInv, Reachable, WaiterIsReachable
<1> QED
  BY <1>1, InFlight, PTL

\* No answer is parked while its task waits for it.
THEOREM ParkedHasNoWaiter == Spec => []ParkedAnswerHasNoWaiter
<1>1. InFlightInv => ParkedAnswerHasNoWaiter
  BY DEF InFlightInv
<1> QED
  BY <1>1, InFlight, PTL

----------------------------------------------------------------------------
(* ClaudeQuery implements RequestReply *)

\* A task's step keeps the provenance of answers and is, for RequestReply,
\* the issue, the delivery or the failure of its request, or a stutter.
LEMMA CallerRefines ==
    ASSUME TypeOK, InFlightInv, ProvenanceInv,
           NEW c \in Callers, Issue(c) \/ SendControlRequest(c) \/ Cancel(c)
    PROVE  ProvenanceInv' /\ [RR!Next]_(RR!vars)
<1> USE DEF ProvenanceInv, Active, controlVars, streamVars, ownerVars, outVars, cliVars,
        RR!vars
<1>0. /\ pc \in [Callers -> PcStates] /\ req \in [Callers -> 0 .. MaxRequests]
      /\ counter \in Nat /\ senders \subseteq Ids /\ written \subseteq Ids
      /\ pc[c] # "idle" => req[c] \in Ids
      /\ buffered \in [Ids -> Answers \cup {"none"}]
      /\ inbox \in [Ids -> Answers \cup {"none", "terminated"}]
      /\ result \in [Ids -> Answers \cup Failures \cup {"unused", "open"}]
      /\ \A d, e \in Callers : Active(d) /\ Active(e) /\ d # e => req[d] # req[e]
      /\ \A d \in Callers : Active(d) => req[d] \in Ids /\ req[d] <= counter
  BY DEF TypeOK, CallersOK, ControlOK, CliOK, InFlightInv, DistinctIds
<1>1. CASE Issue(c)
  <2>1. NextId \in Ids /\ result[NextId] = "unused"
    BY <1>0, <1>1 DEF Issue, NextId, Ids
  <2>2. RR!Issue(NextId)
    BY <1>1, <2>1 DEF Issue, RR!Issue
  <2>3. ProvenanceInv'
    <3>1. \A d \in Callers : Active(d)' => result'[req'[d]] = "open"
      BY <1>0, <1>1, <2>1 DEF Issue
    <3>2. \A i \in Ids : i > counter' => result'[i] = "unused"
      BY <1>0, <1>1 DEF Issue, NextId, Ids
    <3>3. \A i \in written : result'[i] # "unused"
      BY <1>0, <1>1 DEF Issue
    <3> QED
      BY <1>1, <3>1, <3>2, <3>3 DEF Issue
  <2> QED
    BY <2>1, <2>2, <2>3 DEF RR!Next, RR!Ids, Ids
<1>a. ASSUME NEW r \in Answers \cup Failures, Return(c, r), pc[c] # "idle",
             UNCHANGED <<req, inbox, counter, terminated, rpc, written, answered, stdout>>,
             \A i \in Ids : buffered'[i] # "none" => buffered'[i] = buffered[i],
             r = "terminated" => terminated,
             r \in Answers => <<req[c], r>> \in answered
      PROVE  ProvenanceInv' /\ [RR!Next]_(RR!vars)
  <2>1. req[c] \in Ids /\ result[req[c]] = "open" /\ result' = [result EXCEPT ![req[c]] = r]
    BY <1>0, <1>a DEF Return
  <2>2. r \notin {"unused", "open"}
    BY AnswersAssumption DEF Failures
  <2>3. ProvenanceInv'
    <3>1. \A d \in Callers : Active(d)' => result'[req'[d]] = "open"
      BY <1>0, <1>a, <2>1 DEF Return
    <3>2. \A i \in Ids : i > counter => result'[i] = "unused"
      BY <1>0, <1>a, <2>1
    <3>3. \A i \in written : result'[i] # "unused"
      BY <1>0, <2>1, <2>2
    <3> QED
      BY <1>a, <3>1, <3>2, <3>3
  <2>4. CASE r \in Answers
    <3>1. RR!Deliver(req[c], r)
      BY <1>a, <2>1, <2>4 DEF RR!Deliver
    <3> QED
      BY <2>1, <2>3, <2>4, <3>1 DEF RR!Next, RR!Ids, Ids
  <2>5. CASE r \in Failures
    <3>1. RR!Fail(req[c], r)
      BY <1>a, <2>1 DEF RR!Fail
    <3> QED
      BY <2>1, <2>3, <2>5, <3>1 DEF RR!Next, RR!Ids, Ids, RR!Failures, Failures
  <2> QED
    BY <2>4, <2>5
<1>b. Failures \cap Answers = {} /\ "none" \notin Answers
  BY AnswersAssumption
<1>2. CASE WriteRequest(c)
  BY <1>0, <1>2 DEF WriteRequest
<1>3. CASE WriteFails(c)
  BY <1>3, <1>a, <1>b DEF WriteFails, Failures
<1>4. CASE Register(c)
  <2>1. CASE Parked(req[c])
    <3>1. req[c] \in Ids /\ buffered[req[c]] \in Answers
      BY <1>0, <1>4, <2>1 DEF Register, Parked
    <3>2. /\ Return(c, buffered[req[c]])
          /\ UNCHANGED <<req, inbox, counter, terminated, rpc, written, answered, stdout>>
          /\ buffered' = [buffered EXCEPT ![req[c]] = "none"]
          /\ pc[c] # "idle"
      BY <1>4, <2>1 DEF Register
    <3>3. <<req[c], buffered[req[c]]>> \in answered
      BY <3>1, <1>b
    <3>4. \A i \in Ids : buffered'[i] # "none" => buffered'[i] = buffered[i]
      BY <1>0, <3>2
    <3>5. buffered[req[c]] # "terminated"
      BY <3>1, <1>b DEF Failures
    <3> QED
      BY <3>1, <3>2, <3>3, <3>4, <3>5, <1>a
  <2>2. CASE ~Parked(req[c])
    BY <1>0, <1>4, <2>2 DEF Register
  <2> QED
    BY <2>1, <2>2
<1>5. CASE CheckReader(c)
  <2>1. CASE ReaderTerminated
    BY <1>5, <2>1, <1>a, <1>b DEF CheckReader, ReaderTerminated, Failures
  <2>2. CASE ~ReaderTerminated
    BY <1>0, <1>5, <2>2 DEF CheckReader
  <2> QED
    BY <2>1, <2>2
<1>6. CASE TakeAnswer(c)
  <2>1. req[c] \in Ids /\ inbox[req[c]] \in Answers \cup {"terminated"}
    BY <1>0, <1>6 DEF TakeAnswer
  <2>2. /\ inbox[req[c]] \in Answers \cup Failures
        /\ inbox[req[c]] = "terminated" => terminated
        /\ inbox[req[c]] \in Answers => <<req[c], inbox[req[c]]>> \in answered
    BY <2>1 DEF Failures
  <2> QED
    BY <1>6, <2>2, <1>a DEF TakeAnswer
<1>7. CASE Expire(c)
  BY <1>0, <1>7 DEF Expire, TimerFires
<1>8. CASE RemoveExpired(c)
  BY <1>8, <1>a, <1>b DEF RemoveExpired, Failures
<1>9. CASE Cancel(c)
  BY <1>9, <1>a, <1>b DEF Cancel, Failures
<1> QED
  BY <1>1, <1>2, <1>3, <1>4, <1>5, <1>6, <1>7, <1>8, <1>9 DEF SendControlRequest

\* For RequestReply the reader's steps are stutters, but for the one that
\* declares the connection broken.
LEMMA ReaderRefines ==
    ASSUME TypeOK, InFlightInv, ProvenanceInv, ReaderStep
    PROVE  ProvenanceInv' /\ [RR!Next]_(RR!vars)
<1> USE DEF ProvenanceInv, Active, callerVars, controlVars, streamVars, ownerVars, outVars,
        cliVars, RR!vars
<1>0. stdout \in Seq(Line)
  BY DEF TypeOK, CliOK
<1>a. ASSUME Reading, stdout # <<>>, stdout' = Tail(stdout), UNCHANGED answered
      PROVE  \A k \in DOMAIN stdout' :
                stdout'[k].kind = "response" => <<stdout'[k].id, stdout'[k].answer>> \in answered'
  <2>1. \A k \in DOMAIN stdout' : k + 1 \in DOMAIN stdout /\ stdout'[k] = stdout[k + 1]
    BY <1>0, <1>a
  <2> QED
    BY <1>a, <2>1
<1>1. CASE LoopTop
  BY <1>1 DEF LoopTop
<1>2. CASE ReadTimesOut
  BY <1>2 DEF ReadTimesOut
<1>3. CASE ReadEof
  BY <1>3 DEF ReadEof
<1>4. CASE ReadFails
  BY <1>4 DEF ReadFails, RR!Next, RR!Break
<1>5. CASE DrainSenders
  <2>1. terminated
    BY <1>5 DEF DrainSenders
  <2> QED
    BY <1>5, <2>1, AnswersAssumption DEF DrainSenders, Drained, Failures, TypeOK, CallersOK
<1>6. CASE SendReadError
  BY <1>6 DEF SendReadError
<1>7. CASE RouteResponse
  <2> DEFINE i == Head(stdout).id
             a == Head(stdout).answer
  <2>1. /\ i \in Ids /\ a \in Answers
        /\ Reading /\ stdout # <<>> /\ stdout' = Tail(stdout)
        /\ Head(stdout).kind = "response"
    BY <1>7, <1>0, ReadLine, LineKinds DEF RouteResponse, Next1
  <2>2. <<i, a>> \in answered
    BY <1>0, <2>1
  <2>3. a # "terminated"
    BY <2>1, AnswersAssumption DEF Failures
  <2>4. /\ UNCHANGED <<pc, req, result, counter, terminated, written, answered>>
        /\ rpc' = "top"
        /\ \/ /\ inbox' = [inbox EXCEPT ![i] = a]
              /\ UNCHANGED buffered
           \/ /\ buffered' = [buffered EXCEPT ![i] = a]
              /\ UNCHANGED inbox
    BY <1>7 DEF RouteResponse
  <2>5. inbox \in [Ids -> Answers \cup {"none", "terminated"}]
        /\ buffered \in [Ids -> Answers \cup {"none"}]
    BY DEF TypeOK, CallersOK, ControlOK
  <2>6. \A k \in DOMAIN stdout' :
          stdout'[k].kind = "response" => <<stdout'[k].id, stdout'[k].answer>> \in answered'
    BY <1>a, <2>1, <2>4
  <2> HIDE DEF i, a
  <2> QED
    BY <2>1, <2>2, <2>3, <2>4, <2>5, <2>6
<1>8. CASE TakeRequest \/ SkipLine \/ TakeMessage
  <2>1. /\ Reading /\ stdout # <<>> /\ stdout' = Tail(stdout) /\ rpc' # "marking"
        /\ UNCHANGED <<callerVars, counter, controlVars, terminated, written, answered>>
    BY <1>8 DEF TakeRequest, SkipLine, TakeMessage, Next1
  <2>2. \A k \in DOMAIN stdout' :
          stdout'[k].kind = "response" => <<stdout'[k].id, stdout'[k].answer>> \in answered'
    BY <1>a, <2>1
  <2> QED
    BY <2>1, <2>2
<1>9. CASE Reply
  BY <1>9 DEF Reply
<1>10. CASE McpHandlerPanics
  BY <1>10 DEF McpHandlerPanics
<1>11. CASE Forward
  BY <1>11 DEF Forward
<1> QED
  BY <1>1, <1>2, <1>3, <1>4, <1>5, <1>6, <1>7, <1>8, <1>9, <1>10, <1>11 DEF ReaderStep

\* The CLI answers requests it has been sent; the rest are stutters.
LEMMA OwnerAndCliRefines ==
    ASSUME TypeOK, InFlightInv, ProvenanceInv,
           FinalizeStreamInput \/ EndInput \/ Receive \/ BeginShutdown \/ FinishShutdown \/ Cli
    PROVE  ProvenanceInv' /\ [RR!Next]_(RR!vars)
<1> USE DEF ProvenanceInv, Active, callerVars, controlVars, streamVars, ownerVars, outVars,
        cliVars, RR!vars
<1>0. stdout \in Seq(Line)
  BY DEF TypeOK, CliOK
<1>1. CASE FinalizeStreamInput \/ EndInput
  BY <1>1 DEF FinalizeStreamInput, EndInput
<1>2. CASE Receive
  BY <1>2 DEF Receive, ReceiveItem, ReceiveNone
<1>3. CASE BeginShutdown
  BY <1>3 DEF BeginShutdown
<1>4. CASE FinishShutdown
  BY <1>4 DEF FinishShutdown
<1>a. ASSUME NEW line, Prints(line),
             answered \subseteq answered',
             line.kind = "response" => <<line.id, line.answer>> \in answered'
      PROVE  ProvenanceInv'
  <2>1. /\ UNCHANGED <<callerVars, counter, controlVars, terminated, rpc, written>>
        /\ stdout' = Append(stdout, line)
    BY <1>a DEF Prints
  <2>2. \A k \in DOMAIN stdout' :
          \/ k = Len(stdout) + 1 /\ stdout'[k] = line
          \/ k \in DOMAIN stdout /\ stdout'[k] = stdout[k]
    BY <1>0, <2>1
  <2>3. \A k \in DOMAIN stdout' :
          stdout'[k].kind = "response" => <<stdout'[k].id, stdout'[k].answer>> \in answered'
    BY <1>a, <2>2
  <2> QED
    BY <1>a, <2>1, <2>3
<1>b. ASSUME NEW line, Prints(line), UNCHANGED answered
      PROVE  [RR!Next]_(RR!vars)
  BY <1>b DEF Prints
<1>5. ASSUME NEW i \in Ids, NEW a \in Answers, CliAnswers(i, a)
      PROVE  ProvenanceInv' /\ [RR!Next]_(RR!vars)
  <2>1. ProvenanceInv'
    BY <1>5, <1>a DEF CliAnswers
  <2>2. RR!Answer(i, a)
    BY <1>5 DEF CliAnswers, Prints, RR!Answer
  <2> QED
    BY <2>1, <2>2 DEF RR!Next, RR!Ids, Ids
<1>6. ASSUME NEW s, CliAsks(s)
      PROVE  ProvenanceInv' /\ [RR!Next]_(RR!vars)
  BY <1>6, <1>a, <1>b DEF CliAsks
<1>7. ASSUME NEW k \in DataKinds, CliEmits(k)
      PROVE  ProvenanceInv' /\ [RR!Next]_(RR!vars)
  BY <1>7, <1>a, <1>b DEF CliEmits, DataKinds
<1>8. CASE CliPrintsOther
  BY <1>8, <1>a, <1>b DEF CliPrintsOther
<1>9. ASSUME NEW how, CliStops(how)
      PROVE  ProvenanceInv' /\ [RR!Next]_(RR!vars)
  BY <1>9 DEF CliStops
<1> QED
  BY <1>1, <1>2, <1>3, <1>4, <1>5, <1>6, <1>7, <1>8, <1>9 DEF Cli

\* Every behaviour of a Query is one of RequestReply: each control request
\* comes back at most once, with an answer the CLI gave to that very request,
\* or with a failure, "terminated" only after the reader has failed.
THEOREM Refinement == Spec => RefinesRequestReply
<1>1. Init => ProvenanceInv /\ RR!Init
  BY AnswersAssumption
     DEF Init, ProvenanceInv, Active, RR!Init, RR!Ids, Ids
<1>2. TypeOK /\ InFlightInv /\ ProvenanceInv /\ [Next]_vars
        => ProvenanceInv' /\ [RR!Next]_(RR!vars)
  <2> SUFFICES ASSUME TypeOK, InFlightInv, ProvenanceInv, [Next]_vars
               PROVE  ProvenanceInv' /\ [RR!Next]_(RR!vars)
    OBVIOUS
  <2>1. CASE UNCHANGED vars
    BY <2>1 DEF ProvenanceInv, Active, vars, RR!vars
  <2> QED
    BY <2>1, CallerRefines, ReaderRefines, OwnerAndCliRefines DEF Next
<1> QED
  BY <1>1, <1>2, InFlight, PTL DEF Spec, RR!Spec, RefinesRequestReply

----------------------------------------------------------------------------
(* SDK messages on their way to the owner *)

\* The SDK messages among the lines in s are those numbered from n + 1 to m,
\* each once and in order.
Continues(n, s, m) ==
    /\ \A k \in DOMAIN s : IsData(s[k]) => n < s[k].n /\ s[k].n <= m
    /\ \A j, k \in DOMAIN s : j < k /\ IsData(s[j]) /\ IsData(s[k]) => s[j].n < s[k].n
    /\ \A i \in n + 1 .. m : \E k \in DOMAIN s : IsData(s[k]) /\ s[k].n = i

\* The last message that is past the reader.
Forwarded == received + Len(channel)
Taken == IF rpc = "sending" THEN Forwarded + 1 ELSE Forwarded

\* The channel carries on from what was received, with the read error as its
\* last item when the reader is done; the line in hand carries on from the
\* channel, and the pipe from there.
StreamInv ==
    session = "open" =>
        /\ \A k \in DOMAIN channel :
             /\ channel[k] = ReadError => k = Len(channel) /\ ReaderDone
             /\ IsData(channel[k]) => channel[k].n = received + k
        /\ ~ReaderDone =>
             /\ rpc = "sending" => hand.n = Taken
             /\ Taken <= emitted
             /\ Continues(Taken, stdout, emitted)

Early(x) == x.kind = "request" /\ x.early

\* A request is early if it was printed before any result, so none comes after a
\* result in the pipe, and once a result has closed stdin none is left to come.
EarlyInv ==
    /\ \A k \in DOMAIN stdout : stdout[k].kind = "result" => sawResult
    /\ \A j, k \in DOMAIN stdout : j < k /\ stdout[j].kind = "result" => ~Early(stdout[k])
    /\ stdin = "result" =>
         /\ sawResult
         /\ \A k \in DOMAIN stdout : ~Early(stdout[k])
         /\ rpc = "callback" => ~Early(hand)
    /\ HasHooksOrMcp => stdin # "finalize"
    /\ EarlyRepliesSurvive

LEMMA DataNumber ==
    ASSUME NEW s \in Seq(Line), NEW k \in DOMAIN s, IsData(s[k])
    PROVE  s[k] \in Data /\ s[k].n \in Nat
<1>1. s[k] \in Line
  BY LenProperties, ElementOfSeq
<1>2. s[k] \in Data
  BY <1>1, LineKinds DEF IsData
<1> QED
  BY <1>2 DEF Data

\* What a line read or printed does to the sequence of messages in the pipe.
LEMMA ContinuesRead ==
    ASSUME NEW s \in Seq(Line), s # <<>>, NEW n \in Nat, NEW m \in Nat, Continues(n, s, m)
    PROVE  IF IsData(Head(s))
           THEN Head(s).n = n + 1 /\ n + 1 <= m /\ Continues(n + 1, Tail(s), m)
           ELSE Continues(n, Tail(s), m)
<1>1. /\ Len(s) \in Nat /\ Len(s) > 0 /\ DOMAIN s = 1 .. Len(s) /\ Head(s) = s[1]
      /\ DOMAIN Tail(s) = 1 .. Len(s) - 1
      /\ \A k \in 1 .. Len(s) - 1 : Tail(s)[k] = s[k + 1]
  BY LenProperties, EmptySeq, HeadTailProperties
<1>2. \A k \in DOMAIN s : IsData(s[k]) => s[k].n \in Nat
  BY DataNumber
<1>3. \A k \in DOMAIN Tail(s) : k + 1 \in DOMAIN s /\ Tail(s)[k] = s[k + 1] /\ 1 < k + 1
  BY <1>1
<1>4. \A j, k \in DOMAIN Tail(s) : j < k /\ IsData(Tail(s)[j]) /\ IsData(Tail(s)[k]) =>
          Tail(s)[j].n < Tail(s)[k].n
  <2> SUFFICES ASSUME NEW j \in DOMAIN Tail(s), NEW k \in DOMAIN Tail(s), j < k,
                      IsData(Tail(s)[j]), IsData(Tail(s)[k])
               PROVE  Tail(s)[j].n < Tail(s)[k].n
    OBVIOUS
  <2>1. j + 1 < k + 1
    BY <1>1
  <2> QED
    BY <1>3, <2>1 DEF Continues
<1>5. \A k \in DOMAIN s : k # 1 => k - 1 \in DOMAIN Tail(s) /\ Tail(s)[k - 1] = s[k]
  BY <1>1
<1>6. CASE IsData(Head(s))
  <2>1. n < s[1].n /\ s[1].n <= m /\ s[1].n \in Nat /\ 1 \in DOMAIN s
    BY <1>1, <1>2, <1>6 DEF Continues
  <2>2. PICK k \in DOMAIN s : IsData(s[k]) /\ s[k].n = n + 1
    BY <2>1 DEF Continues
  <2>3. s[1].n = n + 1
    <3>1. CASE k = 1
      BY <2>2, <3>1
    <3>2. CASE 1 < k
      <4>1. s[1].n < s[k].n
        BY <1>1, <1>6, <2>1, <2>2, <3>2 DEF Continues
      <4> QED
        BY <2>1, <2>2, <4>1
    <3> QED
      BY <1>1, <3>1, <3>2
  <2>4. \A j \in DOMAIN Tail(s) : IsData(Tail(s)[j]) => n + 1 < Tail(s)[j].n /\ Tail(s)[j].n <= m
    <3> SUFFICES ASSUME NEW j \in DOMAIN Tail(s), IsData(Tail(s)[j])
                 PROVE  n + 1 < Tail(s)[j].n /\ Tail(s)[j].n <= m
      OBVIOUS
    <3>1. j + 1 \in DOMAIN s /\ Tail(s)[j] = s[j + 1] /\ 1 < j + 1 /\ IsData(s[j + 1])
      BY <1>3
    <3>2. s[1].n < s[j + 1].n /\ s[j + 1].n <= m
      BY <1>1, <1>6, <2>1, <3>1 DEF Continues
    <3> QED
      BY <2>3, <3>1, <3>2
  <2>5. \A i \in n + 2 .. m : \E j \in DOMAIN Tail(s) : IsData(Tail(s)[j]) /\ Tail(s)[j].n = i
    <3> TAKE i \in n + 2 .. m
    <3>1. i \in n + 1 .. m
      OBVIOUS
    <3>2. PICK j \in DOMAIN s : IsData(s[j]) /\ s[j].n = i
      BY <3>1 DEF Continues
    <3>3. j # 1
      BY <2>3, <3>2
    <3> QED
      BY <1>5, <3>2, <3>3
  <2>6. n + 1 + 1 = n + 2
    OBVIOUS
  <2>7. Continues(n + 1, Tail(s), m)
    BY <1>4, <2>4, <2>5, <2>6 DEF Continues
  <2> QED
    BY <1>1, <1>6, <2>1, <2>3, <2>7
<1>7. CASE ~IsData(Head(s))
  <2>1. \A j \in DOMAIN Tail(s) : IsData(Tail(s)[j]) => n < Tail(s)[j].n /\ Tail(s)[j].n <= m
    BY <1>3 DEF Continues
  <2>2. \A i \in n + 1 .. m : \E j \in DOMAIN Tail(s) : IsData(Tail(s)[j]) /\ Tail(s)[j].n = i
    <3> TAKE i \in n + 1 .. m
    <3>1. PICK j \in DOMAIN s : IsData(s[j]) /\ s[j].n = i
      BY DEF Continues
    <3>2. j # 1
      BY <1>1, <1>7, <3>1
    <3> QED
      BY <1>5, <3>1, <3>2
  <2>3. Continues(n, Tail(s), m)
    BY <1>4, <2>1, <2>2 DEF Continues
  <2> QED
    BY <1>7, <2>3
<1> QED
  BY <1>6, <1>7

LEMMA ContinuesPrint ==
    ASSUME NEW s \in Seq(Line), NEW x \in Line, NEW n \in Nat, NEW m \in Nat, n <= m,
           Continues(n, s, m)
    PROVE  /\ ~IsData(x) => Continues(n, Append(s, x), m)
           /\ IsData(x) /\ x.n = m + 1 => Continues(n, Append(s, x), m + 1)
<1> DEFINE a == Append(s, x)
<1>1. /\ Len(s) \in Nat /\ DOMAIN s = 1 .. Len(s) /\ DOMAIN a = 1 .. Len(s) + 1
      /\ \A k \in DOMAIN s : a[k] = s[k]
      /\ a[Len(s) + 1] = x
  BY LenProperties, AppendProperties
<1>2. \A k \in DOMAIN s : IsData(s[k]) => s[k].n \in Nat
  BY DataNumber
<1>3. \A k \in DOMAIN a : (k \in DOMAIN s /\ a[k] = s[k]) \/ (k = Len(s) + 1 /\ a[k] = x)
  BY <1>1
<1>4. \A k \in DOMAIN s : k \in DOMAIN a
  BY <1>1
<1> HIDE DEF a
<1>5. ASSUME ~IsData(x) PROVE Continues(n, a, m)
  <2>1. \A k \in DOMAIN a : IsData(a[k]) => k \in DOMAIN s /\ a[k] = s[k]
    BY <1>3, <1>5
  <2>2. \A i \in n + 1 .. m : \E j \in DOMAIN a : IsData(a[j]) /\ a[j].n = i
    <3> TAKE i \in n + 1 .. m
    <3>1. PICK j \in DOMAIN s : IsData(s[j]) /\ s[j].n = i
      BY DEF Continues
    <3> QED
      BY <1>1, <1>4, <3>1
  <2> QED
    BY <2>1, <2>2 DEF Continues
<1>6. ASSUME IsData(x), x.n = m + 1 PROVE Continues(n, a, m + 1)
  <2>1. \A k \in DOMAIN a : IsData(a[k]) => n < a[k].n /\ a[k].n <= m + 1
    <3> TAKE k \in DOMAIN a
    <3>1. CASE k \in DOMAIN s /\ a[k] = s[k]
      BY <1>2, <3>1 DEF Continues
    <3>2. CASE a[k] = x
      BY <1>6, <3>2
    <3> QED
      BY <1>3, <3>1, <3>2
  <2>2. ASSUME NEW j \in DOMAIN a, NEW k \in DOMAIN a, j < k, IsData(a[j]), IsData(a[k])
        PROVE  a[j].n < a[k].n
    <3>1. j \in DOMAIN s /\ a[j] = s[j] /\ s[j].n \in Nat
      BY <1>1, <1>2, <1>3, <2>2
    <3>2. CASE k \in DOMAIN s /\ a[k] = s[k]
      BY <2>2, <3>1, <3>2 DEF Continues
    <3>3. CASE a[k] = x
      <4>1. s[j].n <= m
        BY <2>2, <3>1 DEF Continues
      <4> QED
        BY <1>6, <3>1, <3>3, <4>1
    <3> QED
      BY <1>3, <3>2, <3>3
  <2>3. ASSUME NEW i \in n + 1 .. m + 1 PROVE \E j \in DOMAIN a : IsData(a[j]) /\ a[j].n = i
    <3>1. CASE i \in n + 1 .. m
      <4>1. PICK j \in DOMAIN s : IsData(s[j]) /\ s[j].n = i
        BY <3>1 DEF Continues
      <4> QED
        BY <1>1, <1>4, <4>1
    <3>2. CASE i = m + 1
      <4>1. Len(s) + 1 \in DOMAIN a
        BY <1>1
      <4> QED
        BY <1>1, <1>6, <3>2, <4>1
    <3> QED
      BY <3>1, <3>2
  <2> QED
    BY <2>1, <2>2, <2>3 DEF Continues
<1> QED
  BY <1>5, <1>6 DEF a

\* A step that touches nothing of the stream, or that ends the reader.
LEMMA StreamUntouched ==
    ASSUME StreamInv, UNCHANGED <<channel, received, stdout, emitted, session>>,
           \/ UNCHANGED <<rpc, hand>>
           \/ rpc # "sending" /\ rpc' # "sending" /\ (ReaderDone => ReaderDone')
    PROVE  StreamInv'
BY DEF StreamInv, Continues, Taken, Forwarded, ReaderDone

\* What was sent into the channel comes after what was in it.
LEMMA StreamOffer ==
    ASSUME channel \in Seq(Item), NEW x \in Item, Offer(x)
    PROVE  /\ Len(channel) \in Nat /\ Len(channel') = Len(channel) + 1
           /\ \A k \in DOMAIN channel' :
                \/ k \in DOMAIN channel /\ channel'[k] = channel[k] /\ k < Len(channel')
                \/ k = Len(channel') /\ channel'[k] = x
<1>1. channel' = Append(channel, x)
  BY DEF Offer
<1>2. /\ Len(channel) \in Nat /\ DOMAIN channel = 1 .. Len(channel)
      /\ DOMAIN channel' = 1 .. Len(channel) + 1 /\ Len(channel') = Len(channel) + 1
      /\ \A k \in 1 .. Len(channel) : channel'[k] = channel[k]
      /\ channel'[Len(channel) + 1] = x
  BY <1>1, LenProperties, AppendProperties
<1> QED
  BY <1>2

LEMMA ReaderStream ==
    ASSUME TypeOK, StreamInv, ReaderStep
    PROVE  StreamInv'
<1> USE DEF callerVars, controlVars, streamVars, ownerVars, outVars, cliVars
<1>0. /\ channel \in Seq(Item) /\ stdout \in Seq(Line) /\ received \in Nat /\ emitted \in Nat
      /\ Len(channel) \in Nat /\ Forwarded \in Nat
      /\ (rpc = "sending" => hand \in Data)
  BY LenProperties DEF TypeOK, ReaderOK, OwnerOK, CliOK, Forwarded
<1>1. CASE LoopTop \/ ReadTimesOut \/ ReadEof \/ ReadFails \/ DrainSenders \/ Reply \/ McpHandlerPanics
  <2>1. /\ UNCHANGED <<channel, received, stdout, emitted, session>>
        /\ rpc # "sending" /\ rpc' # "sending" /\ ~ReaderDone
    BY <1>1 DEF LoopTop, ReadTimesOut, ReadEof, ReadFails, DrainSenders, Reply, McpHandlerPanics,
                Reading, ReaderDone
  <2> QED
    BY <2>1, StreamUntouched
<1>2. CASE SendReadError
  <2> SUFFICES ASSUME session = "open" PROVE StreamInv'
    BY <1>2 DEF SendReadError, StreamInv
  <2>1. /\ Offer(ReadError) /\ ReaderDone' /\ ~ReaderDone /\ UNCHANGED <<received, session>>
    BY <1>2 DEF SendReadError, ReceiverDropped, ReaderDone
  <2>2. ReadError \in Item /\ ~IsData(ReadError)
    BY DEF Item, ReadError, IsData, DataKinds
  <2>3. \A k \in DOMAIN channel : channel[k] # ReadError /\ (IsData(channel[k]) => channel[k].n = received + k)
    BY <2>1 DEF StreamInv
  <2>4. \A k \in DOMAIN channel' : /\ channel'[k] = ReadError => k = Len(channel')
                                   /\ IsData(channel'[k]) => channel'[k].n = received + k
    BY <1>0, <2>1, <2>2, <2>3, StreamOffer
  <2> QED
    BY <2>1, <2>4 DEF StreamInv
<1>3. CASE RouteResponse \/ TakeRequest \/ SkipLine
  <2>1. /\ UNCHANGED <<channel, received, emitted, session>> /\ stdout # <<>> /\ stdout' = Tail(stdout)
        /\ rpc # "sending" /\ rpc' # "sending" /\ ~ReaderDone /\ ~ReaderDone'
        /\ ~IsData(Head(stdout))
    BY <1>3 DEF RouteResponse, TakeRequest, SkipLine, Next1, Reading, ReaderDone, IsData, DataKinds
  <2>2. ASSUME session = "open" PROVE Continues(Taken, stdout', emitted)
    <3>1. Taken = Forwarded /\ Continues(Taken, stdout, emitted)
      BY <2>1, <2>2 DEF StreamInv, Taken
    <3> QED
      BY <1>0, <2>1, <3>1, ContinuesRead
  <2>3. Taken' = Taken
    BY <2>1 DEF Taken, Forwarded
  <2> QED
    BY <2>1, <2>2, <2>3 DEF StreamInv, Continues
<1>4. CASE TakeMessage
  <2>1. /\ UNCHANGED <<channel, received, emitted, session>> /\ stdout # <<>> /\ stdout' = Tail(stdout)
        /\ rpc # "sending" /\ rpc' = "sending" /\ hand' = Head(stdout) /\ ~ReaderDone /\ ~ReaderDone'
        /\ IsData(Head(stdout))
    BY <1>4 DEF TakeMessage, Next1, Reading, ReaderDone, IsData
  <2> SUFFICES ASSUME session = "open" PROVE StreamInv'
    BY <2>1 DEF StreamInv
  <2>2. Taken = Forwarded /\ Taken' = Forwarded + 1 /\ Continues(Taken, stdout, emitted)
    BY <2>1 DEF StreamInv, Taken, Forwarded
  <2>3. Head(stdout).n = Forwarded + 1 /\ Forwarded + 1 <= emitted
        /\ Continues(Forwarded + 1, stdout', emitted)
    BY <1>0, <2>1, <2>2, ContinuesRead
  <2> QED
    BY <2>1, <2>2, <2>3 DEF StreamInv, Continues
<1>5. CASE Forward
  <2> SUFFICES ASSUME session = "open" PROVE StreamInv'
    BY <1>5 DEF Forward, StreamInv
  <2>1. /\ rpc = "sending" /\ rpc' = "top" /\ Offer(hand) /\ ~ReaderDone /\ ~ReaderDone'
        /\ UNCHANGED <<received, emitted, session, stdout>>
    BY <1>5 DEF Forward, ReceiverDropped, ReaderDone
  <2>2. hand \in Item /\ hand # ReadError /\ hand.n = Forwarded + 1
    BY <1>0, <2>1 DEF Item, Data, DataKinds, ReadError, StreamInv, Taken
  <2>3. Taken = Forwarded + 1 /\ Taken' = Taken
    BY <1>0, <2>1, <2>2, StreamOffer DEF Taken, Forwarded
  <2>4. \A k \in DOMAIN channel : channel[k] # ReadError /\ (IsData(channel[k]) => channel[k].n = received + k)
    BY <2>1 DEF StreamInv
  <2>5. \A k \in DOMAIN channel' : /\ channel'[k] # ReadError
                                   /\ IsData(channel'[k]) => channel'[k].n = received + k
    BY <1>0, <2>1, <2>2, <2>4, StreamOffer DEF Forwarded
  <2> QED
    BY <2>1, <2>3, <2>5 DEF StreamInv, Continues
<1> QED
  BY <1>1, <1>2, <1>3, <1>4, <1>5 DEF ReaderStep

\* The owner takes the first item; the CLI prints the next message.
LEMMA OwnerAndCliStream ==
    ASSUME TypeOK, StreamInv,
           FinalizeStreamInput \/ EndInput \/ Receive \/ BeginShutdown \/ FinishShutdown \/ Cli
    PROVE  StreamInv'
<1> USE DEF callerVars, controlVars, streamVars, ownerVars, outVars, cliVars
<1>0. /\ channel \in Seq(Item) /\ stdout \in Seq(Line) /\ received \in Nat /\ emitted \in Nat
      /\ Len(channel) \in Nat /\ Forwarded \in Nat /\ Taken \in Nat
  BY LenProperties DEF TypeOK, ReaderOK, OwnerOK, CliOK, Forwarded, Taken
<1>1. CASE FinalizeStreamInput \/ EndInput \/ ReceiveNone \/ \E how \in {"eof", "error"} : CliStops(how)
  BY <1>1, StreamUntouched DEF FinalizeStreamInput, EndInput, ReceiveNone, CliStops
<1>2. CASE ReceiveItem
  <2>1. /\ channel # <<>> /\ channel' = Tail(channel) /\ session = "open"
        /\ received' = IF Head(channel) = ReadError THEN received ELSE received + 1
        /\ UNCHANGED <<rpc, hand, stdout, emitted, session>>
    BY <1>2 DEF ReceiveItem
  <2>2. /\ Len(channel) > 0 /\ DOMAIN channel = 1 .. Len(channel) /\ Head(channel) = channel[1]
        /\ DOMAIN channel' = 1 .. Len(channel) - 1 /\ Len(channel') = Len(channel) - 1
        /\ \A k \in DOMAIN channel' : channel'[k] = channel[k + 1] /\ k + 1 \in DOMAIN channel
    BY <1>0, <2>1, EmptySeq, HeadTailProperties, LenProperties
  <2>3. CASE Head(channel) = ReadError
    <3>1. Len(channel) = 1 /\ ReaderDone
      BY <2>1, <2>2, <2>3 DEF StreamInv
    <3>2. DOMAIN channel' = {} /\ ReaderDone'
      BY <2>1, <2>2, <3>1 DEF ReaderDone
    <3> QED
      BY <3>2 DEF StreamInv
  <2>4. CASE Head(channel) # ReadError
    <3>1. received' = received + 1 /\ Forwarded' = Forwarded /\ Taken' = Taken
      BY <1>0, <2>1, <2>2, <2>4 DEF Forwarded, Taken
    <3>2. \A k \in DOMAIN channel' : /\ channel'[k] = ReadError => k = Len(channel') /\ ReaderDone'
                                     /\ IsData(channel'[k]) => channel'[k].n = received' + k
      <4> SUFFICES ASSUME NEW k \in DOMAIN channel'
                   PROVE  /\ channel'[k] = ReadError => k = Len(channel') /\ ReaderDone
                          /\ IsData(channel'[k]) => channel'[k].n = received + 1 + k
        BY <2>1, <3>1 DEF ReaderDone
      <4>1. /\ channel[k + 1] = ReadError => k + 1 = Len(channel) /\ ReaderDone
            /\ IsData(channel[k + 1]) => channel[k + 1].n = received + (k + 1)
        BY <2>1, <2>2 DEF StreamInv
      <4>2. /\ channel'[k] = channel[k + 1] /\ k \in Nat
            /\ k + 1 = Len(channel) => k = Len(channel')
        BY <1>0, <2>2
      <4>3. channel'[k] = ReadError => k = Len(channel') /\ ReaderDone
        BY <4>1, <4>2
      <4>4. ASSUME IsData(channel'[k]) PROVE channel'[k].n = received + 1 + k
        <5>1. channel'[k].n = received + (k + 1)
          BY <4>1, <4>2, <4>4
        <5> QED
          BY <1>0, <4>2, <5>1
      <4> QED
        BY <4>3, <4>4
    <3>3. ~ReaderDone' => /\ rpc' = "sending" => hand'.n = Taken'
                          /\ Taken' <= emitted' /\ Continues(Taken', stdout', emitted')
      BY <2>1, <3>1 DEF StreamInv, ReaderDone, Continues
    <3> QED
      BY <3>2, <3>3 DEF StreamInv, Continues
  <2> QED
    BY <2>3, <2>4
<1>3. CASE BeginShutdown \/ FinishShutdown
  BY <1>3 DEF BeginShutdown, FinishShutdown, StreamInv
<1>4. ASSUME NEW x \in Line, Prints(x), ~IsData(x), emitted' = emitted PROVE StreamInv'
  <2>1. stdout' = Append(stdout, x) /\ UNCHANGED <<channel, received, session, rpc, hand>>
    BY <1>4 DEF Prints
  <2>2. Taken' = Taken /\ ReaderDone' = ReaderDone
    BY <2>1 DEF Taken, Forwarded, ReaderDone
  <2>3. ASSUME session = "open", ~ReaderDone PROVE Continues(Taken, stdout', emitted)
    BY <1>0, <1>4, <2>1, <2>3, ContinuesPrint DEF StreamInv
  <2> QED
    BY <1>4, <2>1, <2>2, <2>3 DEF StreamInv, Continues
<1>5. ASSUME NEW i \in Ids, NEW a \in Answers, CliAnswers(i, a) PROVE StreamInv'
  <2>1. [kind |-> "response", id |-> i, answer |-> a] \in Line
    BY DEF Line, Response
  <2> QED
    BY <1>4, <1>5, <2>1 DEF CliAnswers, IsData, DataKinds
<1>6. ASSUME NEW s \in Subtypes \cup {"unsupported"}, CliAsks(s) PROVE StreamInv'
  <2>1. [kind |-> "request", sub |-> s, early |-> ~sawResult] \in Line
    BY DEF Line, Request, TypeOK, CliOK
  <2> QED
    BY <1>4, <1>6, <2>1 DEF CliAsks, IsData, DataKinds
<1>7. CASE CliPrintsOther
  <2>1. [kind |-> "ignored"] \in Line
    BY DEF Line, Ignored
  <2> QED
    BY <1>4, <1>7, <2>1 DEF CliPrintsOther, IsData, DataKinds
<1>8. ASSUME NEW k \in DataKinds, CliEmits(k) PROVE StreamInv'
  <2> DEFINE x == [kind |-> k, n |-> emitted + 1]
  <2>1. stdout' = Append(stdout, x) /\ emitted' = emitted + 1
        /\ UNCHANGED <<channel, received, session, rpc, hand>>
    BY <1>8 DEF CliEmits, Prints
  <2>2. x \in Line /\ IsData(x) /\ x.n = emitted + 1
    BY <1>0, <1>8 DEF CliEmits, Line, Data, IsData
  <2>3. Taken' = Taken /\ ReaderDone' = ReaderDone
    BY <2>1 DEF Taken, Forwarded, ReaderDone
  <2> HIDE DEF x
  <2>4. ASSUME session = "open", ~ReaderDone
        PROVE  Continues(Taken, stdout', emitted + 1) /\ Taken <= emitted + 1
    <3>1. Taken <= emitted /\ Continues(Taken, stdout, emitted)
      BY <2>4 DEF StreamInv
    <3> QED
      BY <1>0, <2>1, <2>2, <3>1, ContinuesPrint
  <2> QED
    BY <2>1, <2>3, <2>4 DEF StreamInv, Continues
<1> QED
  BY <1>1, <1>2, <1>3, <1>5, <1>6, <1>7, <1>8 DEF Receive, Cli


\* The tasks that issue control requests leave the stream alone.
LEMMA StreamInvInductive ==
    ASSUME TypeOK, StreamInv, [Next]_vars
    PROVE  StreamInv'
<1>1. CASE \E c \in Callers : Issue(c) \/ SendControlRequest(c) \/ Cancel(c)
  <2>1. UNCHANGED <<channel, received, stdout, emitted, session, rpc, hand>>
    BY <1>1 DEF Issue, SendControlRequest, Cancel, WriteRequest, WriteFails, Register, CheckReader,
                TakeAnswer, Expire, RemoveExpired, streamVars, ownerVars, outVars, cliVars
  <2> QED
    BY <2>1, StreamUntouched
<1>2. CASE UNCHANGED vars
  BY <1>2, StreamUntouched DEF vars
<1> QED
  BY <1>1, <1>2, ReaderStream, OwnerAndCliStream DEF Next

LEMMA StreamInvInit ==
    ASSUME Init
    PROVE  StreamInv
<1>1. channel = <<>> /\ stdout = <<>> /\ rpc = "top" /\ received = 0 /\ emitted = 0
  BY DEF Init
<1>2. Len(channel) = 0 /\ DOMAIN channel = {} /\ DOMAIN stdout = {}
  BY <1>1
<1> QED
  BY <1>1, <1>2 DEF StreamInv, Continues, Taken, Forwarded, ReaderDone

\* The channel, the line in hand and the pipe, one after the other.
LEMMA Queue ==
    ASSUME NEW a, NEW b, NEW c, NEW S, a \in Seq(S), b \in Seq(S), c \in Seq(S)
    PROVE  LET q == a \o b \o c IN
           /\ DOMAIN q = 1 .. Len(a) + Len(b) + Len(c)
           /\ Len(a) \in Nat /\ Len(b) \in Nat /\ Len(c) \in Nat
           /\ \A k \in 1 .. Len(a) : q[k] = a[k]
           /\ \A k \in 1 .. Len(b) : q[Len(a) + k] = b[k]
           /\ \A k \in 1 .. Len(c) : q[Len(a) + Len(b) + k] = c[k]
<1>1. Len(a) \in Nat /\ Len(b) \in Nat /\ Len(c) \in Nat
  BY LenProperties
<1>2. /\ a \o b \in Seq(S) /\ Len(a \o b) = Len(a) + Len(b)
      /\ \A k \in 1 .. Len(a) + Len(b) : (a \o b)[k] = IF k <= Len(a) THEN a[k] ELSE b[k - Len(a)]
  BY ConcatProperties
<1> DEFINE p == a \o b
           q == p \o c
<1>3. /\ q \in Seq(S) /\ Len(q) = Len(p) + Len(c)
      /\ \A k \in 1 .. Len(p) + Len(c) : q[k] = IF k <= Len(p) THEN p[k] ELSE c[k - Len(p)]
  BY <1>2, ConcatProperties
<1>4. DOMAIN q = 1 .. Len(q)
  BY <1>3, LenProperties
<1> HIDE DEF p, q
<1>5. Len(p) = Len(a) + Len(b) /\ \A k \in 1 .. Len(a) + Len(b) : p[k] = IF k <= Len(a) THEN a[k] ELSE b[k - Len(a)]
  BY <1>2 DEF p
<1>6. DOMAIN q = 1 .. Len(a) + Len(b) + Len(c)
  BY <1>3, <1>4, <1>5
<1>7. \A k \in 1 .. Len(a) : q[k] = a[k]
  BY <1>1, <1>3, <1>5
<1>8. ASSUME NEW k \in 1 .. Len(b) PROVE q[Len(a) + k] = b[k]
  <2>1. Len(a) + k \in 1 .. Len(a) + Len(b) /\ ~(Len(a) + k <= Len(a)) /\ (Len(a) + k) - Len(a) = k
    BY <1>1
  <2> QED
    BY <1>1, <1>3, <1>5, <2>1
<1>9. ASSUME NEW k \in 1 .. Len(c) PROVE q[Len(a) + Len(b) + k] = c[k]
  <2> DEFINE j == Len(a) + Len(b) + k
  <2>1. j \in 1 .. Len(p) + Len(c) /\ ~(j <= Len(p)) /\ j - Len(p) = k
    BY <1>1, <1>5
  <2> QED
    BY <1>3, <2>1
<1> QED
  BY <1>1, <1>6, <1>7, <1>8, <1>9 DEF q, p

LEMMA StreamIsDelivered ==
    ASSUME TypeOK, StreamInv
    PROVE  DeliveryInOrder
<1> SUFFICES ASSUME session = "open" PROVE DeliveryInOrder
  BY DEF DeliveryInOrder
<1>1. \A k \in DOMAIN channel :
        /\ channel[k] = ReadError => k = Len(channel) /\ ReaderDone
        /\ IsData(channel[k]) => channel[k].n = received + k
  BY DEF StreamInv
<1>2. CASE ReaderDone
  BY <1>1, <1>2 DEF DeliveryInOrder
<1>3. CASE ~ReaderDone
  <2> DEFINE inHand == IF rpc = "sending" THEN <<hand>> ELSE <<>>
             q == channel \o inHand \o stdout
             data == {k \in DOMAIN q : IsData(q[k])}
             h == Len(inHand)
             S == Item \cup Line
  <2>1. /\ channel \in Seq(Item) /\ stdout \in Seq(Line) /\ (rpc = "sending" => hand \in Data)
        /\ received \in Nat /\ emitted \in Nat
    BY DEF TypeOK, ReaderOK, OwnerOK, CliOK
  <2>2. channel \in Seq(S) /\ stdout \in Seq(S) /\ inHand \in Seq(S)
    <3>1. channel \in Seq(S)
      <4>1. \A T, U : T \subseteq U => Seq(T) \subseteq Seq(U)
        OBVIOUS
      <4> QED
        BY <2>1, <4>1
    <3>2. stdout \in Seq(S)
      <4>1. \A T, U : T \subseteq U => Seq(T) \subseteq Seq(U)
        OBVIOUS
      <4> QED
        BY <2>1, <4>1
    <3>3. CASE rpc = "sending"
      <4>1. hand \in S /\ inHand = <<hand>>
        BY <2>1, <3>3 DEF Item
      <4> HIDE DEF inHand, S
      <4> QED
        BY <3>1, <3>2, <4>1
    <3>4. CASE rpc # "sending"
      <4>1. inHand = <<>>
        BY <3>4
      <4> HIDE DEF inHand, S
      <4> QED
        BY <3>1, <3>2, <4>1
    <3> QED
      BY <3>3, <3>4
  <2>3. /\ DOMAIN q = 1 .. Len(channel) + h + Len(stdout)
        /\ Len(channel) \in Nat /\ h \in Nat /\ Len(stdout) \in Nat
        /\ \A k \in 1 .. Len(channel) : q[k] = channel[k]
        /\ \A k \in 1 .. h : q[Len(channel) + k] = inHand[k]
        /\ \A k \in 1 .. Len(stdout) : q[Len(channel) + h + k] = stdout[k]
    <3> HIDE DEF inHand, S
    <3> QED
      BY <2>2, Queue
  <2>4. IF rpc = "sending" THEN h = 1 /\ inHand[1] = hand ELSE h = 0
    OBVIOUS
  <2>5. DOMAIN channel = 1 .. Len(channel) /\ DOMAIN stdout = 1 .. Len(stdout)
    BY <2>1, LenProperties
  <2> HIDE DEF inHand, q, h
  <2>6. /\ Taken = received + (Len(channel) + h) /\ Taken <= emitted
        /\ Continues(Taken, stdout, emitted)
        /\ rpc = "sending" => hand.n = Taken
    <3>1. Taken = received + (Len(channel) + h)
      BY <2>1, <2>3, <2>4 DEF Taken, Forwarded
    <3> QED
      BY <1>3, <3>1 DEF StreamInv
  <2>7. ASSUME NEW k \in 1 .. Len(channel) + h PROVE IsData(q[k]) /\ q[k].n = received + k
    <3>1. CASE k <= Len(channel)
      <4>1. k \in DOMAIN channel /\ q[k] = channel[k]
        BY <2>3, <2>5, <3>1
      <4>2. channel[k] \in Item
        BY <2>1, <4>1, ElementOfSeq, <2>5
      <4>3. IsData(channel[k])
        BY <1>1, <1>3, <4>1, <4>2 DEF Item, Data, IsData
      <4> QED
        BY <1>1, <4>1, <4>3
    <3>2. CASE ~(k <= Len(channel))
      <4>1. rpc = "sending" /\ k = Len(channel) + 1 /\ h = 1
        BY <2>3, <2>4, <3>2
      <4>2. q[k] = hand
        BY <2>3, <2>4, <4>1
      <4>3. IsData(hand) /\ hand.n = received + k
        BY <2>1, <2>6, <4>1 DEF Data, IsData
      <4> QED
        BY <4>2, <4>3
    <3> QED
      BY <3>1, <3>2
  <2>8. ASSUME NEW k \in DOMAIN q, ~(k <= Len(channel) + h)
        PROVE  \E i \in DOMAIN stdout : k = Len(channel) + h + i /\ q[k] = stdout[i]
    <3>1. k - (Len(channel) + h) \in 1 .. Len(stdout)
          /\ k = Len(channel) + h + (k - (Len(channel) + h))
      BY <2>3, <2>8
    <3> QED
      BY <2>3, <2>5, <3>1
  <2>9. \A i \in DOMAIN stdout : IsData(stdout[i]) => stdout[i].n \in Nat /\ Taken < stdout[i].n /\ stdout[i].n <= emitted
    BY <2>1, <2>6, DataNumber DEF Continues
  <2>10. ASSUME NEW k \in data PROVE q[k].n \in received + 1 .. emitted
    <3>1. CASE k <= Len(channel) + h
      <4>1. k \in 1 .. Len(channel) + h
        BY <2>3, <3>1
      <4>2. q[k].n = received + k
        BY <2>7, <4>1
      <4> QED
        BY <2>1, <2>3, <2>6, <4>1, <4>2
    <3>2. CASE ~(k <= Len(channel) + h)
      <4>1. PICK i \in DOMAIN stdout : q[k] = stdout[i]
        BY <2>8, <3>2
      <4>2. IsData(stdout[i])
        BY <4>1
      <4>3. stdout[i].n \in Nat /\ Taken < stdout[i].n /\ stdout[i].n <= emitted
        BY <2>9, <4>2
      <4> QED
        BY <2>1, <2>3, <2>6, <4>1, <4>3
    <3> QED
      BY <3>1, <3>2
  <2>11. ASSUME NEW i \in received + 1 .. emitted PROVE \E k \in data : q[k].n = i
    <3>1. CASE i <= Taken
      <4>1. /\ i - received \in 1 .. Len(channel) + h /\ received + (i - received) = i
            /\ i - received \in DOMAIN q
        BY <2>1, <2>3, <2>6, <3>1
      <4> QED
        BY <2>7, <4>1
    <3>2. CASE ~(i <= Taken)
      <4>1. i \in Taken + 1 .. emitted
        BY <2>1, <2>3, <2>6, <3>2
      <4>2. PICK j \in DOMAIN stdout : IsData(stdout[j]) /\ stdout[j].n = i
        BY <2>6, <4>1 DEF Continues
      <4>3. Len(channel) + h + j \in DOMAIN q /\ q[Len(channel) + h + j] = stdout[j]
        BY <2>3, <2>5
      <4> QED
        BY <4>2, <4>3
    <3> QED
      BY <3>1, <3>2
  <2>12. ASSUME NEW j \in data, NEW k \in data, j < k PROVE q[j].n < q[k].n
    <3>0. j \in Nat /\ k \in Nat /\ j >= 1
      BY <2>3
    <3>1. CASE k <= Len(channel) + h
      <4>1. j \in 1 .. Len(channel) + h /\ k \in 1 .. Len(channel) + h
        BY <2>3, <2>12, <3>0, <3>1
      <4>2. q[j].n = received + j /\ q[k].n = received + k
        BY <2>7, <4>1
      <4> QED
        BY <2>1, <2>12, <3>0, <4>2
    <3>2. CASE ~(k <= Len(channel) + h)
      <4>1. PICK i \in DOMAIN stdout : k = Len(channel) + h + i /\ q[k] = stdout[i]
        BY <2>8, <3>2
      <4>2. stdout[i].n \in Nat /\ Taken < stdout[i].n
        BY <2>9, <4>1
      <4>3. CASE j <= Len(channel) + h
        <5>1. q[j].n = received + j
          BY <2>7, <3>0, <4>3, <2>3
        <5> QED
          BY <2>1, <2>3, <2>6, <3>0, <4>1, <4>2, <4>3, <5>1
      <4>4. CASE ~(j <= Len(channel) + h)
        <5>1. PICK g \in DOMAIN stdout : j = Len(channel) + h + g /\ q[j] = stdout[g]
          BY <2>8, <4>4
        <5>2. g < i
          BY <2>3, <2>5, <2>12, <4>1, <5>1
        <5>3. IsData(stdout[g]) /\ IsData(stdout[i])
          BY <4>1, <5>1
        <5> QED
          BY <2>6, <4>1, <5>1, <5>2, <5>3 DEF Continues
      <4> QED
        BY <4>3, <4>4
    <3> QED
      BY <3>1, <3>2
  <2>13. {q[k].n : k \in data} = received + 1 .. emitted
    BY <2>10, <2>11
  <2>14. \A j, k \in data : j < k => q[j].n < q[k].n
    BY <2>12
  <2> QED
    BY <1>1, <1>3, <2>13, <2>14 DEF DeliveryInOrder, q, inHand
<1> QED
  BY <1>2, <1>3

\* While the session is open, the channel, the line in the reader's hand and the
\* pipe hold, in order and once each, the SDK messages the CLI has printed and the
\* owner has not received, however the reader was blocked on the bounded channel;
\* a read error is the last thing in the channel.
THEOREM Delivery == Spec => []DeliveryInOrder
<1>1. TypeOK /\ StreamInv /\ [Next]_vars => StreamInv'
  BY StreamInvInductive
<1>2. Init => StreamInv
  BY StreamInvInit
<1>3. TypeOK /\ StreamInv => DeliveryInOrder
  BY StreamIsDelivered
<1> QED
  BY <1>1, <1>2, <1>3, TypeCorrect, PTL DEF Spec

----------------------------------------------------------------------------
(* Early requests *)

LEMMA EarlyInvInit ==
    ASSUME Init
    PROVE  EarlyInv
BY DEF Init, EarlyInv, EarlyRepliesSurvive

\* EarlyInv looks only at these variables, and gains from a shorter pipe.
LEMMA EarlyUntouched ==
    ASSUME EarlyInv, UNCHANGED <<stdout, sawResult, callbacks, lostReplies>>,
           \/ stdin' = stdin
           \/ stdin' \notin {"result", "finalize"},
           rpc' = "callback" => rpc = "callback" /\ hand' = hand
    PROVE  EarlyInv'
BY DEF EarlyInv, EarlyRepliesSurvive, HasHooksOrMcp, Early

\* What is left in the pipe after a line is read.
LEMMA RestOfPipe ==
    ASSUME NEW s \in Seq(Line), s # <<>>
    PROVE  /\ 1 \in DOMAIN s /\ Head(s) = s[1]
           /\ \A k \in DOMAIN Tail(s) : /\ k \in Nat /\ 1 < k + 1
                                        /\ k + 1 \in DOMAIN s /\ Tail(s)[k] = s[k + 1]
BY LenProperties, EmptySeq, HeadTailProperties

\* The first line can be read without disturbing what comes after it.
LEMMA EarlyRead ==
    ASSUME EarlyInv, stdout \in Seq(Line), stdout # <<>>, stdout' = Tail(stdout),
           UNCHANGED <<sawResult, callbacks, lostReplies>>,
           \/ stdin' = stdin
           \/ stdin' = "result" /\ Head(stdout).kind = "result",
           rpc' = "callback" => stdin' = stdin /\ hand' = Head(stdout)
    PROVE  EarlyInv'
<1>1. /\ 1 \in DOMAIN stdout /\ Head(stdout) = stdout[1]
      /\ \A k \in DOMAIN stdout' : /\ k \in Nat /\ 1 < k + 1
                                   /\ k + 1 \in DOMAIN stdout /\ stdout'[k] = stdout[k + 1]
  BY RestOfPipe
<1>2. \A k \in DOMAIN stdout' : stdout'[k].kind = "result" => sawResult'
  BY <1>1 DEF EarlyInv
<1>3. ASSUME NEW j \in DOMAIN stdout', NEW k \in DOMAIN stdout', j < k, stdout'[j].kind = "result"
      PROVE  ~Early(stdout'[k])
  <2>1. j + 1 < k + 1
    BY <1>1, <1>3
  <2> QED
    BY <1>1, <1>3, <2>1 DEF EarlyInv
<1>4. ASSUME stdin' = "result"
      PROVE  /\ sawResult' /\ \A k \in DOMAIN stdout' : ~Early(stdout'[k])
             /\ rpc' = "callback" => ~Early(hand')
  <2>1. CASE stdin' = stdin
    BY <1>1, <1>4, <2>1 DEF EarlyInv
  <2>2. CASE Head(stdout).kind = "result" /\ stdin' # stdin
    BY <1>1, <2>2 DEF EarlyInv
  <2> QED
    BY <2>1, <2>2
<1>5. EarlyRepliesSurvive' /\ (HasHooksOrMcp' => stdin' # "finalize")
  BY DEF EarlyInv, EarlyRepliesSurvive, HasHooksOrMcp
<1> QED
  BY <1>2, <1>3, <1>4, <1>5 DEF EarlyInv, Early

\* A line printed after a result is not an early request.
LEMMA EarlyPrint ==
    ASSUME EarlyInv, stdout \in Seq(Line), NEW x, x \in Line, stdout' = Append(stdout, x),
           UNCHANGED <<stdin, callbacks, lostReplies, rpc, hand>>,
           sawResult \in BOOLEAN, sawResult' \in BOOLEAN,
           sawResult => sawResult', x.kind = "result" => sawResult',
           Early(x) => ~sawResult
    PROVE  EarlyInv'
<1>1. /\ Len(stdout) \in Nat /\ DOMAIN stdout = 1 .. Len(stdout)
      /\ DOMAIN stdout' = 1 .. Len(stdout) + 1
      /\ \A k \in DOMAIN stdout : stdout'[k] = stdout[k]
      /\ stdout'[Len(stdout) + 1] = x
  BY LenProperties, AppendProperties
<1>2. \A k \in DOMAIN stdout' : (k \in DOMAIN stdout /\ stdout'[k] = stdout[k])
                                 \/ (k = Len(stdout) + 1 /\ stdout'[k] = x)
  BY <1>1
<1>3. \A k \in DOMAIN stdout' : stdout'[k].kind = "result" => sawResult'
  BY <1>2 DEF EarlyInv
<1>4. ASSUME NEW j \in DOMAIN stdout', NEW k \in DOMAIN stdout', j < k, stdout'[j].kind = "result"
      PROVE  ~Early(stdout'[k])
  <2>1. j \in DOMAIN stdout /\ stdout'[j] = stdout[j]
    BY <1>1, <1>4
  <2>2. sawResult
    BY <1>4, <2>1 DEF EarlyInv
  <2> QED
    BY <1>2, <1>4, <2>1, <2>2 DEF EarlyInv
<1>5. stdin' = "result" =>
        /\ sawResult' /\ \A k \in DOMAIN stdout' : ~Early(stdout'[k])
        /\ rpc' = "callback" => ~Early(hand')
  BY <1>2 DEF EarlyInv
<1>6. EarlyRepliesSurvive' /\ (HasHooksOrMcp' => stdin' # "finalize")
  BY DEF EarlyInv, EarlyRepliesSurvive, HasHooksOrMcp
<1> QED
  BY <1>3, <1>4, <1>5, <1>6 DEF EarlyInv, Early

LEMMA EarlyInvInductive ==
    ASSUME TypeOK, EarlyInv, [Next]_vars
    PROVE  EarlyInv'
<1> USE DEF callerVars, controlVars, streamVars, ownerVars, outVars, cliVars
<1>0. stdout \in Seq(Line) /\ sawResult \in BOOLEAN
  BY DEF TypeOK, CliOK
<1>1. CASE \E c \in Callers : Issue(c) \/ SendControlRequest(c) \/ Cancel(c)
  <2>1. UNCHANGED <<stdout, sawResult, callbacks, lostReplies, stdin, rpc, hand>>
    BY <1>1 DEF Issue, SendControlRequest, Cancel, WriteRequest, WriteFails, Register, CheckReader,
                TakeAnswer, Expire, RemoveExpired
  <2> QED
    BY <2>1, EarlyUntouched
<1>2. CASE \/ LoopTop \/ ReadTimesOut \/ ReadEof \/ ReadFails \/ DrainSenders \/ SendReadError
           \/ McpHandlerPanics \/ Forward
  <2>1. /\ UNCHANGED <<stdout, sawResult, callbacks, lostReplies>> /\ rpc' # "callback"
        /\ stdin' = stdin \/ stdin' \notin {"result", "finalize"}
    BY <1>2 DEF LoopTop, ReadTimesOut, ReadEof, ReadFails, DrainSenders, SendReadError,
                McpHandlerPanics, Forward, CloseDeferred
  <2> QED
    BY <2>1, EarlyUntouched
<1>3. CASE RouteResponse \/ TakeRequest \/ SkipLine
  <2>1. /\ stdout # <<>> /\ stdout' = Tail(stdout)
        /\ UNCHANGED <<sawResult, callbacks, lostReplies, stdin>>
        /\ rpc' = "callback" => hand' = Head(stdout)
    BY <1>3 DEF RouteResponse, TakeRequest, SkipLine, Next1
  <2> QED
    BY <1>0, <2>1, EarlyRead
<1>4. CASE TakeMessage
  <2>1. /\ stdout # <<>> /\ stdout' = Tail(stdout) /\ rpc' # "callback"
        /\ UNCHANGED <<sawResult, callbacks, lostReplies>>
        /\ \/ stdin' = stdin
           \/ stdin' = "result" /\ Head(stdout).kind = "result"
    BY <1>4 DEF TakeMessage, Next1, EndsInput, CloseDeferred
  <2> QED
    BY <1>0, <2>1, EarlyRead
<1>5. CASE Reply
  <2>1. /\ rpc = "callback" /\ rpc' = "top"
        /\ UNCHANGED <<stdout, sawResult, callbacks, stdin>>
        /\ lostReplies' = IF hand.early /\ stdin # "open"
                          THEN lostReplies \cup {<<stdin, hand.sub>>} ELSE lostReplies
    BY <1>5 DEF Reply
  <2>2. hand.kind = "request"
    BY <2>1 DEF TypeOK, ReaderOK, Request
  <2>3. HasHooksOrMcp /\ hand.early => stdin \notin {"finalize", "result"}
    BY <2>1, <2>2 DEF EarlyInv, Early
  <2>4. EarlyRepliesSurvive'
    BY <2>1, <2>3 DEF EarlyInv, EarlyRepliesSurvive, HasHooksOrMcp
  <2> QED
    BY <2>1, <2>4 DEF EarlyInv, Early, HasHooksOrMcp
<1>6. CASE EndInput \/ Receive \/ BeginShutdown \/ UNCHANGED vars
  <2>1. /\ UNCHANGED <<stdout, sawResult, callbacks, lostReplies, rpc, hand>>
        /\ stdin' = stdin \/ stdin' \notin {"result", "finalize"}
    BY <1>6 DEF EndInput, Receive, ReceiveItem, ReceiveNone, BeginShutdown, vars
  <2> QED
    BY <2>1, EarlyUntouched
<1>7. CASE FinalizeStreamInput
  BY <1>7 DEF FinalizeStreamInput, EarlyInv, EarlyRepliesSurvive, HasHooksOrMcp, Early
<1>8. CASE FinishShutdown
  <2>1. /\ stdout' = <<>> /\ rpc' \in {"gone", "aborted"}
        /\ UNCHANGED <<sawResult, callbacks, lostReplies>>
        /\ stdin' = stdin \/ stdin' = "shutdown"
    BY <1>8 DEF FinishShutdown
  <2>2. DOMAIN stdout' = {}
    BY <2>1
  <2> QED
    BY <2>1, <2>2 DEF EarlyInv, EarlyRepliesSurvive, HasHooksOrMcp, Early
<1>9. CASE Cli
  <2>1. ASSUME NEW how \in {"eof", "error"}, CliStops(how) PROVE EarlyInv'
    BY <2>1, EarlyUntouched DEF CliStops
  <2>2. ASSUME NEW i \in Ids, NEW a \in Answers, CliAnswers(i, a) PROVE EarlyInv'
    <3>1. [kind |-> "response", id |-> i, answer |-> a] \in Line
      BY DEF Line, Response
    <3> QED
      BY <1>0, <2>2, <3>1, EarlyPrint DEF CliAnswers, Prints, Early
  <2>3. ASSUME NEW s \in Subtypes \cup {"unsupported"}, CliAsks(s) PROVE EarlyInv'
    <3>1. [kind |-> "request", sub |-> s, early |-> ~sawResult] \in Line
      BY <1>0 DEF Line, Request
    <3> QED
      BY <1>0, <2>3, <3>1, EarlyPrint DEF CliAsks, Prints, Early
  <2>4. ASSUME NEW k \in DataKinds, CliEmits(k) PROVE EarlyInv'
    <3>1. [kind |-> k, n |-> emitted + 1] \in Line /\ k # "request"
      BY <2>4 DEF CliEmits, Line, Data, DataKinds, TypeOK, CliOK
    <3> QED
      BY <1>0, <2>4, <3>1, EarlyPrint DEF CliEmits, Prints, Early
  <2>5. ASSUME CliPrintsOther PROVE EarlyInv'
    <3>1. [kind |-> "ignored"] \in Line
      BY DEF Line, Ignored
    <3> QED
      BY <1>0, <2>5, <3>1, EarlyPrint DEF CliPrintsOther, Prints, Early
  <2> QED
    BY <1>9, <2>1, <2>2, <2>3, <2>4, <2>5 DEF Cli
<1> QED
  BY <1>1, <1>2, <1>3, <1>4, <1>5, <1>6, <1>7, <1>8, <1>9 DEF Next, ReaderStep

\* With hooks or SDK MCP servers registered, the end of the input never closes
\* stdin at once and a result closes it only when every request the CLI printed
\* before that result has been answered: the replies to those never meet a stdin
\* that either of them closed.
THEOREM EarlyRepliesAreKept == Spec => []EarlyRepliesSurvive
<1>1. EarlyInv => EarlyRepliesSurvive
  BY DEF EarlyInv
<1> QED
  BY <1>1, EarlyInvInit, EarlyInvInductive, TypeCorrect, PTL DEF Spec
============================================================================
