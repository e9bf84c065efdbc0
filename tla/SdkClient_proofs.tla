-------------------------- MODULE SdkClient_proofs --------------------------
(***************************************************************************)
(* Theorems about SdkClient, for any number of connections and any length  *)
(* of prompts and answers: who has the CLI of each connection, that the    *)
(* sessions of a client do not overlap, and that the task that feeds one   *)
(* ends with it.                                                           *)
(***************************************************************************)
EXTENDS SdkClient, TLAPS

USE BoundsAreNaturals

\* The places at which the future of an operation has a Query of its own.
Owning == {"close", "init", "prompt", "collect", "failing"}

\* What an operation has at each place of its course.
OpInv ==
    /\ op.conn # None <=> op.at \in Owning
    /\ op.at \in {"idle", "dropped"} <=> op.name = "none"
    /\ op.at = "join" => op.joined # None
    /\ op.at \in {"join", "joined"} => initTask = None
    /\ op.at \in {"join", "joined"} => op.name \in Names \ {"oneShot"}
    /\ op.at \in {"join", "joined", "close", "ready"} =>
         op.name \in {"wait", "disconnect"} \/ conns < MaxConns
    /\ op.at \in {"close", "ready", "start", "init", "prompt", "collect", "failing"} =>
         op.name # "wait" /\ query = None
    /\ op.at \in {"ready", "start", "init", "prompt"} => op.name # "disconnect"
    /\ op.at \in {"writing", "receiving"} => query # None
    /\ op.at = "start" => conns # 0
    /\ op.at \in {"init", "prompt"} => op.conn = conns
    /\ kind = "oneShot" => query = None /\ op.name \in {"none", "oneShot"}

\* The connections begun are numbered in turn, and what is not begun has no CLI.
ConnsInv ==
    /\ \A c \in Conns : cli[c] # "none" => c <= conns
    /\ \A c \in established \cup closers : cli[c] # "none"
    /\ op.conn # None => cli[op.conn] # "none"
    /\ query # None => cli[query] # "none"

\* A task that runs has its handle in the client, or in a wait for it, and
\* feeds the session that the client has: so that disconnect, which takes the
\* handle first, ends it before it takes the query.
FeederInv ==
    \A c \in Conns \ detached : task[c] = "running" =>
        /\ c = query
        /\ c = initTask \/ (op.at = "join" /\ op.name = "wait" /\ op.joined = c)

ClientInv == TypeOK /\ OpInv /\ ConnsInv /\ NoOrphanCli /\ SessionsDoNotOverlap /\ FeederInv

\* A new operation has nothing.
LEMMA OpIsNew ==
    ASSUME NEW name \in Names \cup {"none"}, NEW at \in Places
    PROVE  /\ Op(name, at) \in Ops
           /\ Op(name, at).name = name /\ Op(name, at).at = at
           /\ Op(name, at).conn = None /\ Op(name, at).joined = None
<1>1. <<>> \in Seq(Items)
  OBVIOUS
<1>2. "none" \in Prompts /\ 0 \in 0..MaxConns /\ 0 \in Nat
  BY DEF Prompts
<1> QED
  BY <1>1, <1>2 DEF Op, Ops, None

\* Between operations, and after the last, there is nothing.
LEMMA IdleIsNew ==
    /\ Idle \in Ops /\ Idle.at = "idle" /\ Idle.name = "none" /\ Idle.conn = None
    /\ Dropped \in Ops /\ Dropped.at = "dropped" /\ Dropped.name = "none" /\ Dropped.conn = None
BY OpIsNew DEF Idle, Dropped, Places

\* The initial states satisfy the invariant.
LEMMA InitClient == Init => ClientInv
<1> SUFFICES ASSUME Init PROVE ClientInv
  OBVIOUS
<1> USE DEF Init, Conns, None
<1>1. [c \in Conns |-> <<>>] \in [Conns -> Seq(Items)]
  BY DEF Items
<1>2. TypeOK
  <2>1. conns \in 0..MaxConns /\ query \in 0..MaxConns /\ initTask \in 0..MaxConns
    OBVIOUS
  <2>2. /\ task \in [Conns -> {"none", "running", "aborting", "ended", "failed"}]
        /\ cli \in [Conns -> {"none", "running", "dead"}]
    OBVIOUS
  <2>3. kind \in {"client", "oneShot"} /\ factory \in {"many", "single"}
    OBVIOUS
  <2> QED
    BY <1>1, <2>1, <2>2, <2>3, IdleIsNew DEF TypeOK
<1>3. OpInv
  BY IdleIsNew DEF OpInv, Owning
<1>4. ConnsInv /\ NoOrphanCli /\ SessionsDoNotOverlap /\ FeederInv
  BY IdleIsNew DEF ConnsInv, NoOrphanCli, SessionsDoNotOverlap, FeederInv
<1> QED
  BY <1>2, <1>3, <1>4 DEF ClientInv

\* The steps that take the initial task.
LEMMA TakeTaskClient ==
    ASSUME ClientInv, op = Idle, NEW name \in {"connect", "connectWith", "disconnect", "wait"},
           NEW prompt \in Prompts, name \in {"wait", "disconnect"} \/ conns < MaxConns,
           kind = "client", TakeTask(name, prompt)
    PROVE  ClientInv'
<1> USE DEF ClientInv, TypeOK, None, Conns, ownVars, cliVars
<1>1. /\ op' \in Ops /\ op'.name = name /\ op'.conn = None /\ op'.joined = initTask
      /\ op'.at = IF initTask = None THEN "joined" ELSE "join"
  <2>1. CASE initTask = None
    <3> DEFINE new == Op(name, "joined")
    <3>1. op' = [new EXCEPT !.prompt = prompt]
      BY <2>1 DEF TakeTask
    <3>2. new \in Ops /\ new.name = name /\ new.at = "joined" /\ new.conn = None /\ new.joined = None
      BY OpIsNew DEF Names, Places
    <3> HIDE DEF new
    <3> QED
      BY <2>1, <3>1, <3>2 DEF Ops
  <2>2. CASE initTask # None
    <3> DEFINE new == Op(name, "join")
    <3>1. op' = [new EXCEPT !.prompt = prompt, !.joined = initTask]
      BY <2>2 DEF TakeTask
    <3>2. new \in Ops /\ new.name = name /\ new.at = "join" /\ new.conn = None /\ new.joined = None
      BY OpIsNew DEF Names, Places
    <3> HIDE DEF new
    <3> QED
      BY <2>2, <3>1, <3>2 DEF Ops
  <2> QED
    BY <2>1, <2>2
<1>2. /\ UNCHANGED <<kind, options, factory, spent, conns, query, detached, closers>>
      /\ UNCHANGED <<cli, out, silent, established>> /\ initTask' = None
      /\ task' \in [Conns -> {"none", "running", "aborting", "ended", "failed"}]
      /\ \A c \in Conns : task'[c] = "running" => task[c] = "running" /\ (c = initTask => name = "wait")
  BY DEF TakeTask
<1> HIDE DEF TakeTask
<1>3. op.at = "idle" /\ op.conn = None
  BY IdleIsNew
<1>4. TypeOK'
  BY <1>1, <1>2
<1>5. OpInv'
  BY <1>1, <1>2, <1>3 DEF OpInv, Owning, Names
<1>6. ConnsInv' /\ NoOrphanCli' /\ SessionsDoNotOverlap'
  BY <1>1, <1>2, <1>3 DEF ConnsInv, NoOrphanCli, SessionsDoNotOverlap
<1>7. FeederInv'
  BY <1>1, <1>2, <1>3 DEF FeederInv
<1> QED
  BY <1>4, <1>5, <1>6, <1>7

\* Taking or dropping a message leaves a list of messages.
LEMMA OutType ==
    ASSUME TypeOK, NEW c \in Conns, NEW item \in Items
    PROVE  /\ [out EXCEPT ![c] = <<>>] \in [Conns -> Seq(Items)]
           /\ [out EXCEPT ![c] = Append(@, item)] \in [Conns -> Seq(Items)]
           /\ out[c] # <<>> => /\ [out EXCEPT ![c] = Tail(@)] \in [Conns -> Seq(Items)]
                               /\ Head(out[c]) \in Items
<1>1. <<>> \in Seq(Items) /\ Append(out[c], item) \in Seq(Items)
  BY DEF TypeOK
<1>2. out[c] # <<>> => Head(out[c]) \in Items /\ Tail(out[c]) \in Seq(Items)
  BY DEF TypeOK
<1> QED
  BY <1>1, <1>2 DEF TypeOK

\* The connections that the client and its operation have are connections.
LEMMA Owned ==
    ASSUME ClientInv
    PROVE  /\ op.at \in Owning => op.conn \in Conns
           /\ query # None => query \in Conns
           /\ initTask # None => initTask \in Conns
           /\ op.at = "join" => op.joined \in Conns
BY DEF ClientInv, TypeOK, OpInv, Ops, None, Conns

\* What the operations that begin on their own begin with.
LEMMA Begun ==
    /\ Op("stream", "writing") \in Ops /\ Op("stream", "writing").at = "writing"
    /\ Op("stream", "writing").conn = None /\ Op("stream", "writing").name = "stream"
    /\ Op("receive", "receiving") \in Ops /\ Op("receive", "receiving").at = "receiving"
    /\ Op("receive", "receiving").conn = None /\ Op("receive", "receiving").name = "receive"
BY OpIsNew DEF Names, Places

\* A one-shot query begins with its prompt and nothing else.
LEMMA OneShotIsNew ==
    ASSUME NEW prompt \in Prompts, NEW asStream \in BOOLEAN
    PROVE  LET new == [Op("oneShot", "ready") EXCEPT !.prompt = prompt, !.asStream = asStream]
           IN  new \in Ops /\ new.at = "ready" /\ new.name = "oneShot" /\ new.conn = None
<1>1. /\ Op("oneShot", "ready") \in Ops /\ Op("oneShot", "ready").at = "ready"
      /\ Op("oneShot", "ready").name = "oneShot" /\ Op("oneShot", "ready").conn = None
  BY OpIsNew DEF Names, Places
<1> QED
  BY <1>1 DEF Ops

\* The steps other than those that take the initial task, one disjunct each.
Step ==
    \/ (\E prompt \in {"text", "messages"}, asStream \in BOOLEAN : OneShot(prompt, asStream))
    \/ Send \/ QueryStream \/ ReceiveResponse \/ DropClient
    \/ Continue \/ Cancel
    \/ \E c \in Conns : Beside(c)

\* A step leaves the operation one of the operations.
LEMMA OpIsTyped ==
    ASSUME ClientInv, Step
    PROVE  op' \in Ops
<1> USE DEF Ops, Places, Items, Names, Prompts, None
<1>a. op \in Ops /\ query \in 0..MaxConns /\ conns \in 0..MaxConns
  BY DEF ClientInv, TypeOK
<1>1. CASE \E prompt \in {"text", "messages"}, asStream \in BOOLEAN : OneShot(prompt, asStream)
  <2>1. PICK prompt \in {"text", "messages"}, asStream \in BOOLEAN : OneShot(prompt, asStream)
    BY <1>1
  <2> QED
    BY <2>1, OneShotIsNew DEF OneShot
<1>2. CASE Join
  BY <1>a, <1>2, IdleIsNew DEF Join, Live
<1>3. CASE TakeQuery
  BY <1>a, <1>3 DEF TakeQuery, DropReceiver
<1>4. CASE NoQuery
  BY <1>a, <1>4, IdleIsNew DEF NoQuery
<1>5. CASE CloseEnds
  BY <1>a, <1>5, IdleIsNew DEF CloseEnds, Kill
<1>6. CASE CloseFails
  BY <1>a, <1>6, IdleIsNew DEF CloseFails, Kill
<1>7. CASE Refuse
  BY <1>a, <1>7, IdleIsNew DEF Refuse, Fail
<1>8. CASE CreateTransport
  BY <1>a, <1>8 DEF CreateTransport
<1>9. CASE StartFails
  BY <1>a, <1>9, IdleIsNew DEF StartFails, Fail
<1>10. CASE Start
  BY <1>a, <1>10 DEF Start
<1>11. CASE InitializeEnds
  BY <1>a, <1>11 DEF InitializeEnds
<1>12. CASE InitializeFails
  BY <1>a, <1>12, IdleIsNew DEF InitializeFails, Fail, DropQuery, DropReceiver
<1>13. CASE WritePrompt
  <2>1. op.left - 1 \in Nat
    BY <1>a, <1>13 DEF WritePrompt
  <2> QED
    BY <1>a, <1>13, <2>1 DEF WritePrompt
<1>14. CASE WritePromptFails
  BY <1>a, <1>14, IdleIsNew DEF WritePromptFails, Fail, DropQuery, DropReceiver
<1>15. CASE Establish
  BY <1>a, <1>15, IdleIsNew DEF Establish
<1>16. CASE PromptSent
  BY <1>a, <1>16 DEF PromptSent
<1>17. CASE Collect
  <2>1. op.conn \in Conns /\ out[op.conn] # <<>>
    BY <1>17, Owned DEF Collect, Owning
  <2>2. Head(out[op.conn]) \in Items
    BY <2>1, OutType DEF ClientInv
  <2>3. Append(op.got, Head(out[op.conn])) \in Seq(Items)
    BY <1>a, <2>2
  <2>4. \/ op' = [op EXCEPT !.at = "failing"]
        \/ op' = [op EXCEPT !.got = Append(op.got, Head(out[op.conn]))]
    BY <1>17 DEF Collect
  <2> HIDE DEF Items
  <2> QED
    BY <1>a, <2>3, <2>4
<1>18. CASE Collected
  BY <1>a, <1>18, IdleIsNew DEF Collected, Kill, DropReceiver
<1>19. CASE Send
  BY <1>a, <1>19, IdleIsNew DEF Send, Written
<1>20. CASE QueryStream
  BY <1>a, <1>20, IdleIsNew, Begun DEF QueryStream
<1>21. CASE WriteStream
  <2>1. op.left - 1 \in Nat
    BY <1>a, <1>21 DEF WriteStream
  <2> QED
    BY <1>a, <1>21, <2>1 DEF WriteStream
<1>22. CASE EndStream
  BY <1>a, <1>22, IdleIsNew DEF EndStream
<1>23. CASE ReceiveResponse
  BY <1>a, <1>23, IdleIsNew, Begun DEF ReceiveResponse
<1>24. CASE Receive
  BY <1>a, <1>24, IdleIsNew DEF Receive, Take
<1>25. CASE ReceiveEnd
  BY <1>a, <1>25, IdleIsNew DEF ReceiveEnd
<1>26. CASE CancelJoin
  BY <1>a, <1>26, IdleIsNew DEF CancelJoin, Live
<1>27. CASE CancelClose
  BY <1>a, <1>27, IdleIsNew DEF CancelClose, Kill, DropQuery, DropReceiver
<1>28. CASE CancelConnect
  BY <1>a, <1>28, IdleIsNew DEF CancelConnect, Fail, DropQuery, DropReceiver
<1>29. CASE CancelOther
  BY <1>a, <1>29, IdleIsNew DEF CancelOther, Fail
<1>30. CASE DropClient
  BY <1>a, <1>30, IdleIsNew DEF DropClient, DropQuery, DropReceiver
<1>31. CASE \E c \in Conns : CloserEnds(c)
  BY <1>a, <1>31 DEF CloserEnds, Kill
<1>32. CASE \E c \in Conns : TaskWrites(c)
  BY <1>a, <1>32 DEF TaskWrites, Live, Written
<1>33. CASE \E c \in Conns : TaskEnds(c)
  BY <1>a, <1>33 DEF TaskEnds, Live
<1>34. CASE \E c \in Conns : CliReplies(c)
  BY <1>a, <1>34 DEF CliReplies, Emits
<1>35. CASE \E c \in Conns : CliExits(c)
  BY <1>a, <1>35 DEF CliExits, Kill, Emits
<1>36. CASE \E c \in Conns : ReaderPanics(c)
  BY <1>a, <1>36 DEF ReaderPanics
<1> QED
  BY <1>1, <1>2, <1>3, <1>4, <1>5, <1>6, <1>7, <1>8, <1>9, <1>10, <1>11, <1>12, <1>13,
     <1>14, <1>15, <1>16, <1>17, <1>18, <1>19, <1>20, <1>21, <1>22, <1>23, <1>24, <1>25,
     <1>26, <1>27, <1>28, <1>29, <1>30, <1>31, <1>32, <1>33, <1>34, <1>35, <1>36
     DEF Step, Continue, Cancel, Beside

\* ... what is read and not received, lists of messages,
LEMMA OutIsTyped ==
    ASSUME ClientInv, Step
    PROVE  out' \in [Conns -> Seq(Items)]
<1> USE DEF Owning, cliVars
<1>a. out \in [Conns -> Seq(Items)] /\ "message" \in Items /\ "result" \in Items /\ "error" \in Items
  BY DEF ClientInv, TypeOK, Items
<1>b. \A c \in Conns :
        /\ [out EXCEPT ![c] = <<>>] \in [Conns -> Seq(Items)]
        /\ \A item \in Items : [out EXCEPT ![c] = Append(@, item)] \in [Conns -> Seq(Items)]
        /\ out[c] # <<>> => [out EXCEPT ![c] = Tail(@)] \in [Conns -> Seq(Items)]
  BY <1>a, OutType DEF ClientInv
<1>c. /\ op.at \in Owning => op.conn \in Conns
      /\ query # None => query \in Conns
      /\ op.at = "receiving" => query \in Conns
  BY Owned DEF ClientInv, OpInv
<1>1. CASE \E prompt \in {"text", "messages"}, asStream \in BOOLEAN : OneShot(prompt, asStream)
  BY <1>a, <1>b, <1>c, <1>1 DEF OneShot
<1>2. CASE Join
  BY <1>a, <1>b, <1>c, <1>2 DEF Join, Live
<1>3. CASE TakeQuery
  BY <1>a, <1>b, <1>c, <1>3 DEF TakeQuery, DropReceiver
<1>4. CASE NoQuery
  BY <1>a, <1>b, <1>c, <1>4 DEF NoQuery
<1>5. CASE CloseEnds
  BY <1>a, <1>b, <1>c, <1>5 DEF CloseEnds, Kill
<1>6. CASE CloseFails
  BY <1>a, <1>b, <1>c, <1>6 DEF CloseFails, Kill
<1>7. CASE Refuse
  BY <1>a, <1>b, <1>c, <1>7 DEF Refuse, Fail
<1>8. CASE CreateTransport
  BY <1>a, <1>b, <1>c, <1>8 DEF CreateTransport
<1>9. CASE StartFails
  BY <1>a, <1>b, <1>c, <1>9 DEF StartFails, Fail
<1>10. CASE Start
  BY <1>a, <1>b, <1>c, <1>10 DEF Start
<1>11. CASE InitializeEnds
  BY <1>a, <1>b, <1>c, <1>11 DEF InitializeEnds
<1>12. CASE InitializeFails
  BY <1>a, <1>b, <1>c, <1>12 DEF InitializeFails, Fail, DropQuery, DropReceiver
<1>13. CASE WritePrompt
  BY <1>a, <1>b, <1>c, <1>13 DEF WritePrompt, Written
<1>14. CASE WritePromptFails
  BY <1>a, <1>b, <1>c, <1>14 DEF WritePromptFails, Fail, DropQuery, DropReceiver
<1>15. CASE Establish
  BY <1>a, <1>b, <1>c, <1>15 DEF Establish
<1>16. CASE PromptSent
  BY <1>a, <1>b, <1>c, <1>16 DEF PromptSent
<1>17. CASE Collect
  BY <1>a, <1>b, <1>c, <1>17 DEF Collect, Take
<1>18. CASE Collected
  BY <1>a, <1>b, <1>c, <1>18 DEF Collected, Kill, DropReceiver
<1>19. CASE Send
  BY <1>a, <1>b, <1>c, <1>19 DEF Send, Written
<1>20. CASE QueryStream
  BY <1>a, <1>b, <1>c, <1>20 DEF QueryStream
<1>21. CASE WriteStream
  BY <1>a, <1>b, <1>c, <1>21 DEF WriteStream, Written
<1>22. CASE EndStream
  BY <1>a, <1>b, <1>c, <1>22 DEF EndStream
<1>23. CASE ReceiveResponse
  BY <1>a, <1>b, <1>c, <1>23 DEF ReceiveResponse
<1>24. CASE Receive
  BY <1>a, <1>b, <1>c, <1>24 DEF Receive, Take
<1>25. CASE ReceiveEnd
  BY <1>a, <1>b, <1>c, <1>25 DEF ReceiveEnd
<1>26. CASE CancelJoin
  BY <1>a, <1>b, <1>c, <1>26 DEF CancelJoin, Live
<1>27. CASE CancelClose
  BY <1>a, <1>b, <1>c, <1>27 DEF CancelClose, Kill, DropQuery, DropReceiver
<1>28. CASE CancelConnect
  BY <1>a, <1>b, <1>c, <1>28 DEF CancelConnect, Fail, DropQuery, DropReceiver
<1>29. CASE CancelOther
  BY <1>a, <1>b, <1>c, <1>29 DEF CancelOther, Fail
<1>30. CASE DropClient
  BY <1>a, <1>b, <1>c, <1>30 DEF DropClient, DropQuery, DropReceiver
<1>31. CASE \E c \in Conns : CloserEnds(c)
  BY <1>a, <1>b, <1>c, <1>31 DEF CloserEnds, Kill
<1>32. CASE \E c \in Conns : TaskWrites(c)
  BY <1>a, <1>b, <1>c, <1>32 DEF TaskWrites, Live, Written
<1>33. CASE \E c \in Conns : TaskEnds(c)
  BY <1>a, <1>b, <1>c, <1>33 DEF TaskEnds, Live
<1>34. CASE \E c \in Conns : CliReplies(c)
  <2>1. PICK c \in Conns : CliReplies(c)
    BY <1>34
  <2>2. out' = out \/ \E item \in Items : out' = [out EXCEPT ![c] = Append(@, item)]
    BY <2>1, <1>a DEF CliReplies, Emits
  <2>3. \A item \in Items : [out EXCEPT ![c] = Append(@, item)] \in [Conns -> Seq(Items)]
    BY <1>a, OutType DEF ClientInv
  <2> QED
    BY <1>a, <2>2, <2>3
<1>35. CASE \E c \in Conns : CliExits(c)
  <2>1. PICK c \in Conns : CliExits(c)
    BY <1>35
  <2>2. out' = out \/ out' = [out EXCEPT ![c] = Append(@, "error")]
    BY <2>1 DEF CliExits, Emits
  <2>3. [out EXCEPT ![c] = Append(@, "error")] \in [Conns -> Seq(Items)]
    BY <1>a, OutType DEF ClientInv
  <2> QED
    BY <1>a, <2>2, <2>3
<1>36. CASE \E c \in Conns : ReaderPanics(c)
  BY <1>a, <1>b, <1>c, <1>36 DEF ReaderPanics
<1> QED
  BY <1>1, <1>2, <1>3, <1>4, <1>5, <1>6, <1>7, <1>8, <1>9, <1>10, <1>11, <1>12, <1>13,
     <1>14, <1>15, <1>16, <1>17, <1>18, <1>19, <1>20, <1>21, <1>22, <1>23, <1>24, <1>25,
     <1>26, <1>27, <1>28, <1>29, <1>30, <1>31, <1>32, <1>33, <1>34, <1>35, <1>36
     DEF Step, Continue, Cancel, Beside

\* ... and every other variable in its type.
LEMMA RestIsTyped ==
    ASSUME ClientInv, Step
    PROVE  /\ UNCHANGED <<kind, options, factory>> /\ spent' \in BOOLEAN
           /\ conns' \in 0..MaxConns /\ query' \in 0..MaxConns /\ initTask' \in 0..MaxConns
           /\ task' \in [Conns -> {"none", "running", "aborting", "ended", "failed"}]
           /\ cli' \in [Conns -> {"none", "running", "dead"}]
           /\ closers' \subseteq Conns /\ established' \subseteq Conns /\ detached' \subseteq Conns
           /\ silent' \subseteq Conns
<1> USE DEF ClientInv, TypeOK, OpInv, None, Conns, ownVars, cliVars, taskVars, Owning, Ops
<1>1. CASE \E prompt \in {"text", "messages"}, asStream \in BOOLEAN : OneShot(prompt, asStream)
  <2>1. PICK prompt \in {"text", "messages"}, asStream \in BOOLEAN : OneShot(prompt, asStream)
    BY <1>1
  <2> QED
    BY <2>1, IdleIsNew, OneShotIsNew, Owned DEF OneShot
<1>2. CASE Join
  BY <1>2, IdleIsNew, Owned DEF Join, Live
<1>3. CASE TakeQuery
  BY <1>3, Owned DEF TakeQuery, DropReceiver
<1>4. CASE NoQuery
  BY <1>4, IdleIsNew, Owned DEF NoQuery
<1>5. CASE CloseEnds
  BY <1>5, IdleIsNew, Owned DEF CloseEnds, Kill
<1>6. CASE CloseFails
  BY <1>6, IdleIsNew, Owned DEF CloseFails, Kill
<1>7. CASE Refuse
  BY <1>7, IdleIsNew, Owned DEF Refuse, Fail
<1>8. CASE CreateTransport
  <2>1. conns < MaxConns
    BY <1>8 DEF CreateTransport, Rejected
  <2>2. /\ UNCHANGED <<kind, options, factory, query, initTask, task, detached, cli, closers, silent, established>>
        /\ spent' \in BOOLEAN /\ conns' = conns + 1
    BY <1>8 DEF CreateTransport
  <2> QED
    BY <2>1, <2>2
<1>9. CASE StartFails
  BY <1>9, IdleIsNew, Owned DEF StartFails, Fail
<1>10. CASE Start
  BY <1>10, Owned DEF Start
<1>11. CASE InitializeEnds
  BY <1>11, Owned DEF InitializeEnds
<1>12. CASE InitializeFails
  BY <1>12, IdleIsNew, Owned DEF InitializeFails, Fail, DropQuery, DropReceiver
<1>13. CASE WritePrompt
  BY <1>13, Owned DEF WritePrompt, Written
<1>14. CASE WritePromptFails
  BY <1>14, IdleIsNew, Owned DEF WritePromptFails, Fail, DropQuery, DropReceiver
<1>15. CASE Establish
  BY <1>15, IdleIsNew, Owned DEF Establish
<1>16. CASE PromptSent
  BY <1>16, Owned DEF PromptSent
<1>17. CASE Collect
  BY <1>17, Owned DEF Collect, Take
<1>18. CASE Collected
  BY <1>18, IdleIsNew, Owned DEF Collected, Kill, DropReceiver
<1>19. CASE Send
  BY <1>19, IdleIsNew, Owned DEF Send, Written
<1>20. CASE QueryStream
  BY <1>20, IdleIsNew, Begun, Owned DEF QueryStream
<1>21. CASE WriteStream
  BY <1>21, Owned DEF WriteStream, Written
<1>22. CASE EndStream
  BY <1>22, IdleIsNew, Owned DEF EndStream
<1>23. CASE ReceiveResponse
  BY <1>23, IdleIsNew, Begun, Owned DEF ReceiveResponse
<1>24. CASE Receive
  BY <1>24, IdleIsNew, Owned DEF Receive, Take
<1>25. CASE ReceiveEnd
  BY <1>25, IdleIsNew, Owned DEF ReceiveEnd
<1>26. CASE CancelJoin
  BY <1>26, IdleIsNew, Owned DEF CancelJoin, Live
<1>27. CASE CancelClose
  BY <1>27, IdleIsNew, Owned DEF CancelClose, Kill, DropQuery, DropReceiver
<1>28. CASE CancelConnect
  BY <1>28, IdleIsNew, Owned DEF CancelConnect, Fail, DropQuery, DropReceiver
<1>29. CASE CancelOther
  BY <1>29, IdleIsNew, Owned DEF CancelOther, Fail
<1>30. CASE DropClient
  <2>1. /\ UNCHANGED <<kind, options, factory, spent, conns, detached, cli, silent, established>>
        /\ query' = None /\ initTask' = None
    BY <1>30 DEF DropClient
  <2>2. task' = task \/ (initTask # None /\ task' = [task EXCEPT ![initTask] = "aborting"])
    BY <1>30 DEF DropClient
  <2>3. closers' = closers \/ (query # None /\ closers' = closers \cup {query})
    BY <1>30 DEF DropClient, DropQuery
  <2> QED
    BY <2>1, <2>2, <2>3, Owned
<1>31. CASE \E c \in Conns : CloserEnds(c)
  BY <1>31, Owned DEF CloserEnds, Kill
<1>32. CASE \E c \in Conns : TaskWrites(c)
  BY <1>32, Owned DEF TaskWrites, Live, Written
<1>33. CASE \E c \in Conns : TaskEnds(c)
  BY <1>33, Owned DEF TaskEnds, Live
<1>34. CASE \E c \in Conns : CliReplies(c)
  BY <1>34, Owned DEF CliReplies, Emits
<1>35. CASE \E c \in Conns : CliExits(c)
  BY <1>35, Owned DEF CliExits, Kill, Emits
<1>36. CASE \E c \in Conns : ReaderPanics(c)
  BY <1>36, Owned DEF ReaderPanics
<1> QED
  BY <1>1, <1>2, <1>3, <1>4, <1>5, <1>6, <1>7, <1>8, <1>9, <1>10, <1>11, <1>12, <1>13,
     <1>14, <1>15, <1>16, <1>17, <1>18, <1>19, <1>20, <1>21, <1>22, <1>23, <1>24, <1>25,
     <1>26, <1>27, <1>28, <1>29, <1>30, <1>31, <1>32, <1>33, <1>34, <1>35, <1>36
     DEF Step, Continue, Cancel, Beside

\* A step keeps what an operation has at each place.
LEMMA StepKeepsOp ==
    ASSUME ClientInv, Step
    PROVE  OpInv'
<1> USE DEF ClientInv, TypeOK, OpInv, None, Conns, ownVars, cliVars, taskVars, Owning,
            Names, Ops
<1>1. CASE \E prompt \in {"text", "messages"}, asStream \in BOOLEAN : OneShot(prompt, asStream)
  <2>1. PICK prompt \in {"text", "messages"}, asStream \in BOOLEAN : OneShot(prompt, asStream)
    BY <1>1
  <2>2. op.conn = None /\ op'.conn = None /\ op'.at = "ready" /\ op'.name = "oneShot"
    BY <2>1, IdleIsNew, OneShotIsNew DEF Prompts, OneShot, Ops
  <2>3. /\ UNCHANGED <<kind, cli, query, closers, conns, established, initTask>>
        /\ kind = "oneShot" /\ conns < 1
    BY <2>1 DEF OneShot
  <2> QED
    BY <2>2, <2>3
<1>2. CASE Join
  BY <1>2, IdleIsNew DEF Join, Live
<1>3. CASE TakeQuery
  BY <1>3 DEF TakeQuery, DropReceiver
<1>4. CASE NoQuery
  BY <1>4, IdleIsNew DEF NoQuery
<1>5. CASE CloseEnds
  BY <1>5, IdleIsNew DEF CloseEnds, Kill
<1>6. CASE CloseFails
  BY <1>6, IdleIsNew DEF CloseFails, Kill
<1>7. CASE Refuse
  BY <1>7, IdleIsNew DEF Refuse, Fail
<1>8. CASE CreateTransport
  BY <1>8 DEF CreateTransport
<1>9. CASE StartFails
  BY <1>9, IdleIsNew DEF StartFails, Fail
<1>10. CASE Start
  BY <1>10 DEF Start
<1>11. CASE InitializeEnds
  BY <1>11 DEF InitializeEnds
<1>12. CASE InitializeFails
  BY <1>12, IdleIsNew DEF InitializeFails, Fail, DropQuery, DropReceiver
<1>13. CASE WritePrompt
  BY <1>13 DEF WritePrompt, Written
<1>14. CASE WritePromptFails
  BY <1>14, IdleIsNew DEF WritePromptFails, Fail, DropQuery, DropReceiver
<1>15. CASE Establish
  <2>1. op.name # "oneShot" /\ op.name # "none" /\ op.conn # None
    BY <1>15 DEF Establish
  <2>2. op' = Idle /\ query' = op.conn /\ UNCHANGED <<kind, conns>>
    BY <1>15 DEF Establish
  <2>3. kind # "oneShot"
    BY <2>1
  <2> QED
    BY <2>1, <2>2, <2>3, IdleIsNew
<1>16. CASE PromptSent
  BY <1>16 DEF PromptSent
<1>17. CASE Collect
  BY <1>17 DEF Collect, Take
<1>18. CASE Collected
  BY <1>18, IdleIsNew DEF Collected, Kill, DropReceiver
<1>19. CASE Send
  BY <1>19, IdleIsNew DEF Send, Written
<1>20. CASE QueryStream
  BY <1>20, IdleIsNew, Begun DEF QueryStream
<1>21. CASE WriteStream
  BY <1>21 DEF WriteStream, Written
<1>22. CASE EndStream
  BY <1>22, IdleIsNew DEF EndStream
<1>23. CASE ReceiveResponse
  BY <1>23, IdleIsNew, Begun DEF ReceiveResponse
<1>24. CASE Receive
  BY <1>24, IdleIsNew DEF Receive, Take
<1>25. CASE ReceiveEnd
  BY <1>25, IdleIsNew DEF ReceiveEnd
<1>26. CASE CancelJoin
  BY <1>26, IdleIsNew DEF CancelJoin, Live
<1>27. CASE CancelClose
  BY <1>27, IdleIsNew DEF CancelClose, Kill, DropQuery, DropReceiver
<1>28. CASE CancelConnect
  BY <1>28, IdleIsNew DEF CancelConnect, Fail, DropQuery, DropReceiver
<1>29. CASE CancelOther
  BY <1>29, IdleIsNew DEF CancelOther, Fail
<1>30. CASE DropClient
  BY <1>30, IdleIsNew DEF DropClient, DropQuery, DropReceiver
<1>31. CASE \E c \in Conns : CloserEnds(c)
  BY <1>31 DEF CloserEnds, Kill
<1>32. CASE \E c \in Conns : TaskWrites(c)
  BY <1>32 DEF TaskWrites, Live, Written
<1>33. CASE \E c \in Conns : TaskEnds(c)
  BY <1>33 DEF TaskEnds, Live
<1>34. CASE \E c \in Conns : CliReplies(c)
  BY <1>34 DEF CliReplies, Emits
<1>35. CASE \E c \in Conns : CliExits(c)
  BY <1>35 DEF CliExits, Kill, Emits
<1>36. CASE \E c \in Conns : ReaderPanics(c)
  BY <1>36 DEF ReaderPanics
<1> QED
  BY <1>1, <1>2, <1>3, <1>4, <1>5, <1>6, <1>7, <1>8, <1>9, <1>10, <1>11, <1>12, <1>13,
     <1>14, <1>15, <1>16, <1>17, <1>18, <1>19, <1>20, <1>21, <1>22, <1>23, <1>24, <1>25,
     <1>26, <1>27, <1>28, <1>29, <1>30, <1>31, <1>32, <1>33, <1>34, <1>35, <1>36
     DEF Step, Continue, Cancel, Beside

\* A step leaves no CLI without an owner: what spawns one has it, and what
\* gives one up kills it or leaves it to a task that does.
LEMMA StepKeepsConns ==
    ASSUME ClientInv, Step
    PROVE  ConnsInv' /\ NoOrphanCli'
<1> USE DEF ClientInv, TypeOK, OpInv, None, Conns, ownVars, cliVars, taskVars, ConnsInv,
            NoOrphanCli, Owning, Ops
<1>1. CASE \E prompt \in {"text", "messages"}, asStream \in BOOLEAN : OneShot(prompt, asStream)
  <2>1. PICK prompt \in {"text", "messages"}, asStream \in BOOLEAN : OneShot(prompt, asStream)
    BY <1>1
  <2>2. op.conn = None /\ op'.conn = None /\ op'.at = "ready" /\ op'.name = "oneShot"
    BY <2>1, IdleIsNew, OneShotIsNew DEF Prompts, OneShot, Ops
  <2>3. /\ UNCHANGED <<kind, cli, query, closers, conns, established, initTask>>
        /\ kind = "oneShot" /\ conns < 1
    BY <2>1 DEF OneShot
  <2> QED
    BY <2>2, <2>3
<1>2. CASE Join
  BY <1>2, IdleIsNew DEF Join, Live
<1>3. CASE TakeQuery
  BY <1>3 DEF TakeQuery, DropReceiver
<1>4. CASE NoQuery
  BY <1>4, IdleIsNew DEF NoQuery
<1>5. CASE CloseEnds
  BY <1>5, IdleIsNew DEF CloseEnds, Kill
<1>6. CASE CloseFails
  BY <1>6, IdleIsNew DEF CloseFails, Kill
<1>7. CASE Refuse
  BY <1>7, IdleIsNew DEF Refuse, Fail
<1>8. CASE CreateTransport
  BY <1>8 DEF CreateTransport
<1>9. CASE StartFails
  BY <1>9, IdleIsNew DEF StartFails, Fail
<1>10. CASE Start
  BY <1>10 DEF Start
<1>11. CASE InitializeEnds
  BY <1>11 DEF InitializeEnds
<1>12. CASE InitializeFails
  BY <1>12, IdleIsNew DEF InitializeFails, Fail, DropQuery, DropReceiver
<1>13. CASE WritePrompt
  BY <1>13 DEF WritePrompt, Written
<1>14. CASE WritePromptFails
  BY <1>14, IdleIsNew DEF WritePromptFails, Fail, DropQuery, DropReceiver
<1>15. CASE Establish
  BY <1>15, IdleIsNew DEF Establish
<1>16. CASE PromptSent
  BY <1>16 DEF PromptSent
<1>17. CASE Collect
  BY <1>17 DEF Collect, Take
<1>18. CASE Collected
  BY <1>18, IdleIsNew DEF Collected, Kill, DropReceiver
<1>19. CASE Send
  BY <1>19, IdleIsNew DEF Send, Written
<1>20. CASE QueryStream
  <2>1. op.conn = None /\ op'.conn = None
    BY <1>20, IdleIsNew, Begun DEF QueryStream, Ops
  <2>2. UNCHANGED <<cli, query, closers, conns, established>>
    BY <1>20 DEF QueryStream
  <2> QED
    BY <2>1, <2>2
<1>21. CASE WriteStream
  BY <1>21 DEF WriteStream, Written
<1>22. CASE EndStream
  BY <1>22, IdleIsNew DEF EndStream
<1>23. CASE ReceiveResponse
  <2>1. op.conn = None /\ op'.conn = None
    BY <1>23, IdleIsNew, Begun DEF ReceiveResponse, Ops
  <2>2. UNCHANGED <<cli, query, closers, conns, established>>
    BY <1>23 DEF ReceiveResponse
  <2> QED
    BY <2>1, <2>2
<1>24. CASE Receive
  BY <1>24, IdleIsNew DEF Receive, Take
<1>25. CASE ReceiveEnd
  BY <1>25, IdleIsNew DEF ReceiveEnd
<1>26. CASE CancelJoin
  BY <1>26, IdleIsNew DEF CancelJoin, Live
<1>27. CASE CancelClose
  <2>1. /\ op' = Idle /\ UNCHANGED <<query, conns, established>>
        /\ op.conn \in Conns /\ op.conn # None /\ query = None
    BY <1>27, Owned DEF CancelClose
  <2>2. op'.conn = None
    BY <2>1, IdleIsNew
  <2>3. CASE closers' = closers \cup {op.conn} /\ cli' = cli
    BY <2>1, <2>2, <2>3
  <2>4. CASE closers' = closers /\ cli' = [cli EXCEPT ![op.conn] = "dead"]
    BY <2>1, <2>2, <2>4
  <2> QED
    BY <1>27, <2>3, <2>4 DEF CancelClose, DropQuery, Kill
<1>28. CASE CancelConnect
  BY <1>28, IdleIsNew DEF CancelConnect, Fail, DropQuery, DropReceiver
<1>29. CASE CancelOther
  BY <1>29, IdleIsNew DEF CancelOther, Fail
<1>30. CASE DropClient
  BY <1>30, IdleIsNew DEF DropClient, DropQuery, DropReceiver
<1>31. CASE \E c \in Conns : CloserEnds(c)
  BY <1>31 DEF CloserEnds, Kill
<1>32. CASE \E c \in Conns : TaskWrites(c)
  BY <1>32 DEF TaskWrites, Live, Written
<1>33. CASE \E c \in Conns : TaskEnds(c)
  BY <1>33 DEF TaskEnds, Live
<1>34. CASE \E c \in Conns : CliReplies(c)
  BY <1>34 DEF CliReplies, Emits
<1>35. CASE \E c \in Conns : CliExits(c)
  BY <1>35 DEF CliExits, Kill, Emits
<1>36. CASE \E c \in Conns : ReaderPanics(c)
  BY <1>36 DEF ReaderPanics
<1> QED
  BY <1>1, <1>2, <1>3, <1>4, <1>5, <1>6, <1>7, <1>8, <1>9, <1>10, <1>11, <1>12, <1>13,
     <1>14, <1>15, <1>16, <1>17, <1>18, <1>19, <1>20, <1>21, <1>22, <1>23, <1>24, <1>25,
     <1>26, <1>27, <1>28, <1>29, <1>30, <1>31, <1>32, <1>33, <1>34, <1>35, <1>36
     DEF Step, Continue, Cancel, Beside

\* A step begins no session before the last is over: a CLI is spawned by a
\* connect that found no query, so that the CLIs before it are dead or have
\* only a closing task left.
LEMMA StepKeepsSessions ==
    ASSUME ClientInv, Step
    PROVE  SessionsDoNotOverlap'
<1> USE DEF ClientInv, TypeOK, OpInv, None, Conns, ownVars, cliVars, taskVars, ConnsInv,
            NoOrphanCli, SessionsDoNotOverlap, Owning
<1>1. CASE \E prompt \in {"text", "messages"}, asStream \in BOOLEAN : OneShot(prompt, asStream)
  BY <1>1, IdleIsNew, Begun DEF OneShot
<1>2. CASE Join
  BY <1>2, IdleIsNew DEF Join, Live
<1>3. CASE TakeQuery
  BY <1>3 DEF TakeQuery, DropReceiver
<1>4. CASE NoQuery
  BY <1>4, IdleIsNew DEF NoQuery
<1>5. CASE CloseEnds
  BY <1>5, IdleIsNew DEF CloseEnds, Kill
<1>6. CASE CloseFails
  BY <1>6, IdleIsNew DEF CloseFails, Kill
<1>7. CASE Refuse
  BY <1>7, IdleIsNew DEF Refuse, Fail
<1>8. CASE CreateTransport
  BY <1>8 DEF CreateTransport
<1>9. CASE StartFails
  BY <1>9, IdleIsNew DEF StartFails, Fail
<1>10. CASE Start
  <2>1. op.conn = None /\ query = None /\ op.at = "start"
    BY <1>10 DEF Start
  <2>2. ASSUME NEW c \in established, NEW d \in Conns, c < d, cli'[d] # "none"
        PROVE  cli'[c] = "dead" \/ c \in closers'
    <3>1. cli[c] = "dead" \/ c \in closers
      BY <2>1, <2>2
    <3>2. c # conns
      <4>1. cli[c] # "none"
        OBVIOUS
      <4>2. d <= conns
        BY <1>10, <2>2 DEF Start
      <4> QED
        BY <2>2, <4>2
    <3> QED
      BY <1>10, <3>1, <3>2 DEF Start
  <2>3. established' = established
    BY <1>10 DEF Start
  <2> QED
    BY <2>2, <2>3
<1>11. CASE InitializeEnds
  BY <1>11 DEF InitializeEnds
<1>12. CASE InitializeFails
  BY <1>12, IdleIsNew DEF InitializeFails, Fail, DropQuery, DropReceiver
<1>13. CASE WritePrompt
  BY <1>13 DEF WritePrompt, Written
<1>14. CASE WritePromptFails
  BY <1>14, IdleIsNew DEF WritePromptFails, Fail, DropQuery, DropReceiver
<1>15. CASE Establish
  BY <1>15, IdleIsNew DEF Establish
<1>16. CASE PromptSent
  BY <1>16 DEF PromptSent
<1>17. CASE Collect
  BY <1>17 DEF Collect, Take
<1>18. CASE Collected
  BY <1>18, IdleIsNew DEF Collected, Kill, DropReceiver
<1>19. CASE Send
  BY <1>19, IdleIsNew DEF Send, Written
<1>20. CASE QueryStream
  BY <1>20, IdleIsNew, Begun DEF QueryStream
<1>21. CASE WriteStream
  BY <1>21 DEF WriteStream, Written
<1>22. CASE EndStream
  BY <1>22, IdleIsNew DEF EndStream
<1>23. CASE ReceiveResponse
  BY <1>23, IdleIsNew, Begun DEF ReceiveResponse
<1>24. CASE Receive
  BY <1>24, IdleIsNew DEF Receive, Take
<1>25. CASE ReceiveEnd
  BY <1>25, IdleIsNew DEF ReceiveEnd
<1>26. CASE CancelJoin
  BY <1>26, IdleIsNew DEF CancelJoin, Live
<1>27. CASE CancelClose
  BY <1>27, IdleIsNew DEF CancelClose, Kill, DropQuery, DropReceiver
<1>28. CASE CancelConnect
  BY <1>28, IdleIsNew DEF CancelConnect, Fail, DropQuery, DropReceiver
<1>29. CASE CancelOther
  BY <1>29, IdleIsNew DEF CancelOther, Fail
<1>30. CASE DropClient
  BY <1>30, IdleIsNew DEF DropClient, DropQuery, DropReceiver
<1>31. CASE \E c \in Conns : CloserEnds(c)
  <2>1. PICK c \in Conns : CloserEnds(c)
    BY <1>31
  <2>2. c \in closers /\ established' = established /\ closers' = closers \ {c}
    BY <2>1 DEF CloserEnds
  <2>3. cli' = [cli EXCEPT ![c] = "dead"]
    BY <2>1 DEF CloserEnds, Kill
  <2> QED
    BY <2>2, <2>3
<1>32. CASE \E c \in Conns : TaskWrites(c)
  BY <1>32 DEF TaskWrites, Live, Written
<1>33. CASE \E c \in Conns : TaskEnds(c)
  BY <1>33 DEF TaskEnds, Live
<1>34. CASE \E c \in Conns : CliReplies(c)
  BY <1>34 DEF CliReplies, Emits
<1>35. CASE \E c \in Conns : CliExits(c)
  BY <1>35 DEF CliExits, Kill, Emits
<1>36. CASE \E c \in Conns : ReaderPanics(c)
  BY <1>36 DEF ReaderPanics
<1> QED
  BY <1>1, <1>2, <1>3, <1>4, <1>5, <1>6, <1>7, <1>8, <1>9, <1>10, <1>11, <1>12, <1>13,
     <1>14, <1>15, <1>16, <1>17, <1>18, <1>19, <1>20, <1>21, <1>22, <1>23, <1>24, <1>25,
     <1>26, <1>27, <1>28, <1>29, <1>30, <1>31, <1>32, <1>33, <1>34, <1>35, <1>36
     DEF Step, Continue, Cancel, Beside

\* A step that takes the query of the client away has taken the task first.
LEMMA StepKeepsFeeder ==
    ASSUME ClientInv, Step
    PROVE  FeederInv'
<1> USE DEF ClientInv, TypeOK, OpInv, None, Conns, ownVars, cliVars, taskVars, FeederInv,
            Ops
<1>1. CASE \E prompt \in {"text", "messages"}, asStream \in BOOLEAN : OneShot(prompt, asStream)
  BY <1>1, IdleIsNew, Begun DEF OneShot
<1>2. CASE Join
  BY <1>2, IdleIsNew DEF Join, Live
<1>3. CASE TakeQuery
  BY <1>3 DEF TakeQuery, DropReceiver
<1>4. CASE NoQuery
  BY <1>4, IdleIsNew DEF NoQuery
<1>5. CASE CloseEnds
  BY <1>5, IdleIsNew DEF CloseEnds, Kill
<1>6. CASE CloseFails
  BY <1>6, IdleIsNew DEF CloseFails, Kill
<1>7. CASE Refuse
  BY <1>7, IdleIsNew DEF Refuse, Fail
<1>8. CASE CreateTransport
  BY <1>8 DEF CreateTransport
<1>9. CASE StartFails
  BY <1>9, IdleIsNew DEF StartFails, Fail
<1>10. CASE Start
  BY <1>10 DEF Start
<1>11. CASE InitializeEnds
  BY <1>11 DEF InitializeEnds
<1>12. CASE InitializeFails
  BY <1>12, IdleIsNew DEF InitializeFails, Fail, DropQuery, DropReceiver
<1>13. CASE WritePrompt
  BY <1>13 DEF WritePrompt, Written
<1>14. CASE WritePromptFails
  BY <1>14, IdleIsNew DEF WritePromptFails, Fail, DropQuery, DropReceiver
<1>15. CASE Establish
  BY <1>15, IdleIsNew DEF Establish
<1>16. CASE PromptSent
  BY <1>16 DEF PromptSent
<1>17. CASE Collect
  BY <1>17 DEF Collect, Take
<1>18. CASE Collected
  BY <1>18, IdleIsNew DEF Collected, Kill, DropReceiver
<1>19. CASE Send
  BY <1>19, IdleIsNew DEF Send, Written
<1>20. CASE QueryStream
  BY <1>20, IdleIsNew, Begun DEF QueryStream
<1>21. CASE WriteStream
  BY <1>21 DEF WriteStream, Written
<1>22. CASE EndStream
  BY <1>22, IdleIsNew DEF EndStream
<1>23. CASE ReceiveResponse
  BY <1>23, IdleIsNew, Begun DEF ReceiveResponse
<1>24. CASE Receive
  BY <1>24, IdleIsNew DEF Receive, Take
<1>25. CASE ReceiveEnd
  BY <1>25, IdleIsNew DEF ReceiveEnd
<1>26. CASE CancelJoin
  BY <1>26, IdleIsNew DEF CancelJoin, Live
<1>27. CASE CancelClose
  BY <1>27, IdleIsNew DEF CancelClose, Kill, DropQuery, DropReceiver
<1>28. CASE CancelConnect
  BY <1>28, IdleIsNew DEF CancelConnect, Fail, DropQuery, DropReceiver
<1>29. CASE CancelOther
  BY <1>29, IdleIsNew DEF CancelOther, Fail
<1>30. CASE DropClient
  BY <1>30, IdleIsNew DEF DropClient, DropQuery, DropReceiver
<1>31. CASE \E c \in Conns : CloserEnds(c)
  BY <1>31 DEF CloserEnds, Kill
<1>32. CASE \E c \in Conns : TaskWrites(c)
  BY <1>32 DEF TaskWrites, Live, Written
<1>33. CASE \E c \in Conns : TaskEnds(c)
  <2>1. PICK c \in Conns : TaskEnds(c)
    BY <1>33
  <2>2. UNCHANGED <<op, query, initTask, detached>>
    BY <2>1 DEF TaskEnds
  <2>3. \A d \in Conns : task'[d] = "running" => task[d] = "running"
    BY <2>1 DEF TaskEnds
  <2> QED
    BY <2>2, <2>3
<1>34. CASE \E c \in Conns : CliReplies(c)
  BY <1>34 DEF CliReplies, Emits
<1>35. CASE \E c \in Conns : CliExits(c)
  BY <1>35 DEF CliExits, Kill, Emits
<1>36. CASE \E c \in Conns : ReaderPanics(c)
  BY <1>36 DEF ReaderPanics
<1> QED
  BY <1>1, <1>2, <1>3, <1>4, <1>5, <1>6, <1>7, <1>8, <1>9, <1>10, <1>11, <1>12, <1>13,
     <1>14, <1>15, <1>16, <1>17, <1>18, <1>19, <1>20, <1>21, <1>22, <1>23, <1>24, <1>25,
     <1>26, <1>27, <1>28, <1>29, <1>30, <1>31, <1>32, <1>33, <1>34, <1>35, <1>36
     DEF Step, Continue, Cancel, Beside

\* The invariant is inductive.
LEMMA NextClient == ClientInv /\ [Next]_vars => ClientInv'
<1> SUFFICES ASSUME ClientInv, [Next]_vars PROVE ClientInv'
  OBVIOUS
<1>1. CASE Step
  <2>1. op' \in Ops
    BY <1>1, OpIsTyped
  <2>2. out' \in [Conns -> Seq(Items)]
    BY <1>1, OutIsTyped
  <2>3. TypeOK'
    BY <1>1, <2>1, <2>2, RestIsTyped DEF TypeOK, ClientInv, Conns
  <2>4. OpInv' /\ ConnsInv' /\ NoOrphanCli'
    BY <1>1, StepKeepsOp, StepKeepsConns
  <2>5. SessionsDoNotOverlap' /\ FeederInv'
    BY <1>1, StepKeepsSessions, StepKeepsFeeder
  <2> QED
    BY <2>3, <2>4, <2>5 DEF ClientInv
<1>2. CASE \E name \in {"connect", "connectWith"}, prompt \in Prompts : Connect(name, prompt)
  BY <1>2, TakeTaskClient DEF Connect
<1>3. CASE Disconnect
  BY <1>3, TakeTaskClient DEF Disconnect, Prompts
<1>4. CASE WaitForInitialMessages
  BY <1>4, TakeTaskClient DEF WaitForInitialMessages, Prompts
<1>5. CASE UNCHANGED vars
  BY <1>5 DEF vars, ownVars, taskVars, cliVars, ClientInv, TypeOK, OpInv, ConnsInv,
              NoOrphanCli, SessionsDoNotOverlap, FeederInv
<1> QED
  BY <1>1, <1>2, <1>3, <1>4, <1>5 DEF Next, Call, Step

\* At every moment each CLI that runs has one that owns it, the sessions are
\* apart and the tasks have their handles.
THEOREM Ownership == Spec => []ClientInv
<1>1. Init => ClientInv
  BY InitClient
<1>2. ClientInv /\ [Next]_vars => ClientInv'
  BY NextClient
<1> QED
  BY <1>1, <1>2, PTL DEF Spec

\* Every variable keeps its type.
THEOREM TypeCorrect == Spec => []TypeOK
BY Ownership, PTL DEF ClientInv

\* However an operation of client.rs, or a one-shot query, ends or is dropped,
\* it leaves no CLI that runs without an owner.
THEOREM NoOrphan == Spec => []NoOrphanCli
BY Ownership, PTL DEF ClientInv

\* A connect spawns its CLI when those of the earlier sessions are dead, or
\* are being closed by the tasks of dropped disconnects.
THEOREM SessionsApart == Spec => []SessionsDoNotOverlap
BY Ownership, PTL DEF ClientInv

\* The task that writes the initial messages is aborted before its session
\* ends, but for one whose handle a dropped wait took with it.
THEOREM FeederStays == Spec => []FeederStaysInSession
<1>1. ClientInv => FeederStaysInSession
  BY DEF ClientInv, FeederInv, FeederStaysInSession
<1> QED
  BY <1>1, Ownership, PTL

----------------------------------------------------------------------------
(* What a one-shot query returns *)

\* Only a one-shot query collects, and it closes no earlier query.
OneShotInv ==
    /\ op.name = "oneShot" => kind = "oneShot"
    /\ op.at \in {"collect", "failing"} => op.name = "oneShot"
    /\ op.at = "close" => op.name # "oneShot"

NoError(s) == \A i \in DOMAIN s : s[i] # "error"

\* All of what was printed begins with s, and is s unless the reader is quiet.
Behind(all, s, quiet) == \E rest \in Seq(Items) : all = s \o rest /\ (~quiet => rest = <<>>)

\* What the CLI has printed is what was collected, then what is still to be
\* received, and then what a reader that fell silent did not read.
SaidInv ==
    kind = "oneShot" =>
        /\ said \in Seq(Items)
        /\ op.at \in {"idle", "ready", "start"} => said = <<>> /\ \A c \in Conns : out[c] = <<>>
        /\ op.at \in {"ready", "start", "init", "prompt"} => op.got = <<>>
        /\ op.at \in {"init", "prompt"} => Behind(said, out[op.conn], op.conn \in silent)
        /\ op.at = "collect" =>
             /\ Behind(said, op.got \o out[op.conn], op.conn \in silent)
             /\ op.asStream \/ NoError(op.got)

\* A success is the end, with all of it collected that the reader read.
OutcomeInv ==
    outcome.ok =>
        /\ kind = "oneShot" /\ op.at = "dropped"
        /\ outcome.conn \in Conns /\ cli[outcome.conn] = "dead"
        /\ outcome.got \in Seq(Items) /\ NoError(outcome.got)
        /\ Behind(said, outcome.got, outcome.conn \in silent)

WholeInv == OneShotInv /\ SaidInv /\ OutcomeInv

LEMMA InitWhole == Init => WholeInv
<1> SUFFICES ASSUME Init PROVE WholeInv
  OBVIOUS
<1>1. said = <<>> /\ said \in Seq(Items) /\ op = Idle /\ ~outcome.ok /\ \A c \in Conns : out[c] = <<>>
  BY DEF Init
<1> QED
  BY <1>1, IdleIsNew DEF WholeInv, OneShotInv, SaidInv, OutcomeInv

LEMMA StepKeepsOneShot ==
    ASSUME ClientInv, OneShotInv, Step
    PROVE  OneShotInv'
<1> USE DEF OneShotInv, ownVars
<1>a. op \in Ops /\ OpInv
  BY DEF ClientInv, TypeOK
<1>1. CASE \E prompt \in {"text", "messages"}, asStream \in BOOLEAN : OneShot(prompt, asStream)
  <2>1. PICK prompt \in {"text", "messages"}, asStream \in BOOLEAN : OneShot(prompt, asStream)
    BY <1>1
  <2>2. kind' = "oneShot" /\ op'.at = "ready"
    BY <2>1, OneShotIsNew DEF OneShot, Prompts
  <2> QED
    BY <2>2
<1>2. CASE Join \/ TakeQuery \/ NoQuery \/ CloseEnds \/ CloseFails
  BY <1>a, <1>2, IdleIsNew DEF Join, TakeQuery, NoQuery, CloseEnds, CloseFails, OpInv, Ops
<1>3. CASE \/ Refuse \/ StartFails \/ InitializeFails \/ WritePromptFails \/ Establish \/ Collected
           \/ EndStream \/ ReceiveEnd \/ Cancel \/ DropClient
  BY <1>a, <1>3, IdleIsNew
     DEF Refuse, StartFails, InitializeFails, WritePromptFails, Establish, Collected, EndStream,
         ReceiveEnd, Cancel, CancelJoin, CancelClose, CancelConnect, CancelOther, DropClient, Fail
<1>4. CASE CreateTransport \/ Start \/ InitializeEnds \/ WritePrompt \/ PromptSent \/ WriteStream
  BY <1>a, <1>4 DEF CreateTransport, Start, InitializeEnds, WritePrompt, PromptSent, WriteStream, Ops
<1>5. CASE Collect
  BY <1>a, <1>5 DEF Collect, Ops
<1>6. CASE Send \/ QueryStream \/ ReceiveResponse \/ Receive
  BY <1>6, IdleIsNew, Begun DEF Send, QueryStream, ReceiveResponse, Receive, Ops
<1>7. CASE \E c \in Conns : Beside(c)
  BY <1>7 DEF Beside, CloserEnds, TaskWrites, TaskEnds, CliReplies, CliExits, ReaderPanics
<1> QED
  BY <1>1, <1>2, <1>3, <1>4, <1>5, <1>6, <1>7 DEF Step, Continue

\* The places of a one-shot query.
LEMMA OneShotPlaces ==
    ASSUME ClientInv, OneShotInv, kind = "oneShot"
    PROVE  /\ query = None
           /\ op.at \in {"idle", "ready", "start", "init", "prompt", "collect", "failing", "dropped"}
           /\ op.at \notin {"idle", "dropped"} => op.name = "oneShot"
           /\ op.at \in {"init", "prompt", "collect", "failing"} => op.conn \in Conns
           /\ op.at \in {"idle", "ready", "start", "dropped"} => op.conn = None
           /\ op.at = "start" => conns \in Conns
<1>1. op \in Ops /\ OpInv /\ conns \in 0..MaxConns
  BY DEF ClientInv, TypeOK
<1> QED
  BY <1>1, Owned DEF OpInv, OneShotInv, Ops, Places, Names, Owning, None, Conns

LEMMA NothingBehind ==
    ASSUME NEW all \in Seq(Items), NEW quiet
    PROVE  Behind(all, all, quiet)
<1>1. <<>> \in Seq(Items) /\ all = all \o <<>>
  OBVIOUS
<1> QED
  BY <1>1 DEF Behind

\* One more item is printed, and read unless the reader is quiet.
LEMMA BehindGrows ==
    ASSUME NEW all \in Seq(Items), NEW s \in Seq(Items), NEW quiet, NEW item \in Items,
           Behind(all, s, quiet)
    PROVE  /\ quiet => Behind(Append(all, item), s, quiet)
           /\ ~quiet => Behind(Append(all, item), Append(s, item), quiet)
<1>1. PICK rest \in Seq(Items) : all = s \o rest /\ (~quiet => rest = <<>>)
  BY DEF Behind
<1>2. CASE quiet
  <2>1. Append(rest, item) \in Seq(Items)
    OBVIOUS
  <2>2. Append(s \o rest, item) = s \o Append(rest, item)
    <3>1. \A q \in Seq(Items) : s \o Append(q, item) = Append(s \o q, item)
      OBVIOUS
    <3> QED
      BY <3>1
  <2> QED
    BY <1>1, <1>2, <2>1, <2>2 DEF Behind
<1>3. CASE ~quiet
  <2>1. all = s
    BY <1>1, <1>3
  <2>2. Append(all, item) \in Seq(Items)
    OBVIOUS
  <2>3. Behind(Append(all, item), Append(all, item), quiet)
    BY <2>2, NothingBehind
  <2> QED
    BY <1>3, <2>1, <2>3
<1> QED
  BY <1>2, <1>3

\* A step that leaves the operation, what was printed and what was received.
LEMMA SaidUntouched ==
    ASSUME SaidInv, UNCHANGED <<kind, said, silent, out>>,
           UNCHANGED <<op>> \/ op'.at \in {"dropped", "failing"}
    PROVE  SaidInv'
BY DEF SaidInv, NoError

\* What the CLI prints is read into the end of what is to be received.
LEMMA Printing ==
    ASSUME ClientInv, OneShotInv, SaidInv, NEW c \in Conns, NEW item \in Items, Open(c),
           Emits(c, item), UNCHANGED <<kind, op, silent>>
    PROVE  SaidInv'
<1> SUFFICES ASSUME kind = "oneShot" PROVE SaidInv'
  BY DEF SaidInv
<1>1. /\ c = op.conn
      /\ op.at \in {"init", "prompt", "collect", "failing"}
  BY OneShotPlaces DEF Open, None, Conns
<1>2. said' = Append(said, item) /\ said \in Seq(Items) /\ said' \in Seq(Items)
  BY DEF Emits, SaidInv
<1>3. /\ out \in [Conns -> Seq(Items)] /\ out[c] \in Seq(Items) /\ op.got \in Seq(Items)
      /\ out'[c] = IF c \in silent THEN out[c] ELSE Append(out[c], item)
  BY DEF Emits, ClientInv, TypeOK, Ops
<1>4. ASSUME NEW s \in Seq(Items), Behind(said, s, c \in silent)
      PROVE  Behind(said', IF c \in silent THEN s ELSE Append(s, item), c \in silent)
  BY <1>2, <1>4, BehindGrows
<1>5. CASE op.at = "collect"
  <2> DEFINE o == out[c]
             g == op.got
  <2>1. o \in Seq(Items) /\ g \in Seq(Items) /\ g \o o \in Seq(Items)
    BY <1>3
  <2>2. Behind(said, g \o o, c \in silent)
    BY <1>1, <1>5 DEF SaidInv
  <2>3. g \o out'[c] = IF c \in silent THEN g \o o ELSE Append(g \o o, item)
    <3>1. out'[c] = IF c \in silent THEN o ELSE Append(o, item)
      BY <1>3
    <3>2. g \o Append(o, item) = Append(g \o o, item)
      <4> HIDE DEF g, o
      <4> QED
        BY <2>1
    <3> QED
      BY <3>1, <3>2
  <2>4. Behind(said', g \o out'[c], c \in silent)
    BY <1>4, <2>1, <2>2, <2>3
  <2> QED
    BY <1>1, <1>2, <1>5, <2>4 DEF SaidInv
<1>6. CASE op.at \in {"init", "prompt"}
  <2>1. Behind(said', out'[c], c \in silent)
    BY <1>1, <1>3, <1>4, <1>6 DEF SaidInv
  <2> QED
    BY <1>1, <1>2, <1>6, <2>1 DEF SaidInv
<1>7. CASE op.at = "failing"
  BY <1>1, <1>2, <1>7 DEF SaidInv
<1> QED
  BY <1>1, <1>5, <1>6, <1>7

LEMMA StepKeepsSaid ==
    ASSUME ClientInv, OneShotInv, SaidInv, Step
    PROVE  SaidInv'
<1> SUFFICES ASSUME kind' = "oneShot" PROVE SaidInv'
  BY DEF SaidInv
<1> USE DEF ownVars, cliVars
<1>a. kind = "oneShot"
  BY DEF Step, Continue, Cancel, Beside, OneShot, Send, QueryStream, ReceiveResponse, DropClient,
         Join, TakeQuery, NoQuery, CloseEnds, CloseFails, Refuse, CreateTransport, StartFails, Start,
         InitializeEnds, InitializeFails, WritePrompt, WritePromptFails, Establish, PromptSent,
         Collect, Collected, WriteStream, EndStream, Receive, ReceiveEnd, CancelJoin, CancelClose,
         CancelConnect, CancelOther, CloserEnds, TaskWrites, TaskEnds, CliReplies, CliExits, ReaderPanics, Fail
<1>b. op \in Ops /\ out \in [Conns -> Seq(Items)]
  BY DEF ClientInv, TypeOK
<1>1. CASE \E prompt \in {"text", "messages"}, asStream \in BOOLEAN : OneShot(prompt, asStream)
  <2>1. PICK prompt \in {"text", "messages"}, asStream \in BOOLEAN : OneShot(prompt, asStream)
    BY <1>1
  <2>2. op'.at = "ready" /\ op'.got = <<>>
    BY <2>1, OneShotIsNew DEF OneShot, Prompts, Op
  <2> QED
    BY <2>1, <2>2, IdleIsNew DEF OneShot, SaidInv
<1>2. CASE \/ Join \/ TakeQuery \/ NoQuery \/ CloseEnds \/ CloseFails \/ Establish \/ Send \/ QueryStream
           \/ ReceiveResponse \/ WriteStream \/ EndStream \/ Receive \/ ReceiveEnd \/ DropClient
           \/ CancelJoin \/ CancelClose
  <2>1. FALSE
    BY <1>a, <1>2, OneShotPlaces, IdleIsNew
       DEF Join, TakeQuery, NoQuery, CloseEnds, CloseFails, Establish, Send, QueryStream,
           ReceiveResponse, WriteStream, EndStream, Receive, ReceiveEnd, DropClient, CancelJoin,
           CancelClose, ClientInv, OpInv
  <2> QED
    BY <2>1
<1>3. CASE Refuse \/ StartFails \/ CancelOther \/ InitializeFails \/ WritePromptFails \/ CancelConnect \/ Collected
  <2>1. op'.at = "dropped" /\ UNCHANGED said
    BY <1>a, <1>3, OneShotPlaces, IdleIsNew
       DEF Refuse, StartFails, CancelOther, InitializeFails, WritePromptFails, CancelConnect,
           Collected, Fail, ClientInv, OpInv
  <2> QED
    BY <1>a, <2>1 DEF SaidInv
<1>4. CASE CreateTransport \/ InitializeEnds \/ WritePrompt \/ PromptSent \/ Start
  <2>1. UNCHANGED <<said, silent, out>> /\ op'.got = op.got
    BY <1>b, <1>4 DEF CreateTransport, InitializeEnds, WritePrompt, PromptSent, Start, Ops
  <2>2. CASE CreateTransport \/ InitializeEnds \/ WritePrompt
    <3>1. \/ op.at = "ready" /\ op'.at = "start"
          \/ op.at \in {"init", "prompt"} /\ op'.at = "prompt" /\ op'.conn = op.conn
      BY <1>b, <2>2 DEF CreateTransport, InitializeEnds, WritePrompt, Ops
    <3> QED
      BY <1>a, <2>1, <3>1 DEF SaidInv
  <2>3. CASE PromptSent
    <3>1. op.at = "prompt" /\ op'.at = "collect" /\ op'.conn = op.conn /\ op.conn \in Conns
      BY <1>a, <1>b, <2>3, OneShotPlaces DEF PromptSent, Ops
    <3>2. op'.got = <<>> /\ Behind(said, out[op.conn], op.conn \in silent)
          /\ <<>> \o out[op.conn] = out[op.conn]
      BY <1>a, <1>b, <2>1, <3>1 DEF SaidInv
    <3> QED
      BY <1>a, <2>1, <3>1, <3>2 DEF SaidInv, NoError
  <2>4. CASE Start
    <3>1. op.at = "start" /\ op'.at = "init" /\ op'.conn = conns /\ conns \in Conns
      BY <1>a, <1>b, <2>4, OneShotPlaces DEF Start, Ops
    <3>2. said = <<>> /\ out[conns] = <<>> /\ <<>> \in Seq(Items)
      BY <1>a, <3>1 DEF SaidInv
    <3>3. Behind(said, out[conns], conns \in silent)
      BY <3>2, NothingBehind
    <3> QED
      BY <1>a, <2>1, <3>1, <3>3 DEF SaidInv
  <2> QED
    BY <1>4, <2>2, <2>3, <2>4
<1>5. CASE Collect
  <2>1. op.at = "collect" /\ op.conn \in Conns /\ out[op.conn] # <<>> /\ UNCHANGED <<said, silent>>
        /\ out'[op.conn] = Tail(out[op.conn])
    BY <1>a, <1>b, <1>5, OneShotPlaces DEF Collect, Take
  <2> DEFINE item == Head(out[op.conn])
  <2>2. CASE item = "error" /\ ~op.asStream
    <3>1. op'.at = "failing"
      BY <1>b, <1>5, <2>2 DEF Collect, Ops
    <3> QED
      BY <1>a, <2>1, <3>1 DEF SaidInv
  <2>3. CASE ~(item = "error" /\ ~op.asStream)
    <3>1. /\ op'.at = "collect" /\ op'.conn = op.conn /\ op'.asStream = op.asStream
          /\ op'.got = Append(op.got, item)
      BY <1>b, <1>5, <2>1, <2>3 DEF Collect, Ops
    <3>2. op.got \in Seq(Items) /\ out[op.conn] \in Seq(Items)
      BY <1>b, <2>1 DEF Ops
    <3>3. Append(op.got, item) \o Tail(out[op.conn]) = op.got \o out[op.conn]
      <4> DEFINE o == out[op.conn]
                 g == op.got
      <4>0. o \in Seq(Items) /\ g \in Seq(Items) /\ o # <<>>
        BY <2>1, <3>2
      <4> SUFFICES Append(g, Head(o)) \o Tail(o) = g \o o
        OBVIOUS
      <4> HIDE DEF o, g
      <4> QED
        BY <4>0
    <3>4. op.asStream \/ NoError(op'.got)
      BY <1>a, <2>1, <2>3, <3>1, <3>2 DEF SaidInv, NoError
    <3> QED
      BY <1>a, <2>1, <3>1, <3>3, <3>4 DEF SaidInv
  <2> QED
    BY <2>2, <2>3
<1>6. CASE \E c \in Conns : Beside(c)
  <2>1. PICK c \in Conns : Beside(c)
    BY <1>6
  <2>2. CASE CloserEnds(c) \/ TaskWrites(c) \/ TaskEnds(c)
    BY <2>2, SaidUntouched DEF CloserEnds, TaskWrites, TaskEnds
  <2>3. CASE CliReplies(c)
    BY <2>3, Printing DEF CliReplies, Items
  <2>4. CASE CliExits(c)
    BY <2>4, Printing, SaidUntouched DEF CliExits, Items
  <2>5. CASE ReaderPanics(c)
    <3>1. UNCHANGED <<kind, op, said, out>> /\ silent' = silent \cup {c}
      BY <2>5 DEF ReaderPanics
    <3>2. \A s : Behind(said, s, op.conn \in silent) => Behind(said, s, op.conn \in silent')
      BY <3>1 DEF Behind
    <3> QED
      BY <3>1, <3>2 DEF SaidInv
  <2> QED
    BY <2>1, <2>2, <2>3, <2>4, <2>5 DEF Beside
<1> QED
  BY <1>1, <1>2, <1>3, <1>4, <1>5, <1>6 DEF Step, Continue, Cancel

LEMMA StepKeepsOutcome ==
    ASSUME ClientInv, OneShotInv, SaidInv, OutcomeInv, Step
    PROVE  OutcomeInv'
<1> USE DEF ownVars, cliVars
<1>a. cli \in [Conns -> {"none", "running", "dead"}]
  BY DEF ClientInv, TypeOK
<1>1. CASE Collected
  <2> SUFFICES ASSUME outcome'.ok PROVE OutcomeInv'
    BY DEF OutcomeInv
  <2>1. /\ op.at = "collect" /\ ~op.asStream /\ Over(op.conn) /\ op'.at = "dropped"
        /\ outcome'.conn = op.conn /\ outcome'.got = op.got /\ UNCHANGED <<kind, said, silent>>
    <3>1. PICK closed \in BOOLEAN :
            outcome' = [ok |-> op.at = "collect" /\ closed /\ ~op.asStream, conn |-> op.conn, got |-> op.got]
      BY <1>1 DEF Collected
    <3>2. op' = Dropped /\ UNCHANGED <<kind, said, silent>> /\ (op.at = "collect" => Over(op.conn))
      BY <1>1 DEF Collected
    <3> QED
      BY <3>1, <3>2, IdleIsNew
  <2>2. kind = "oneShot" /\ op.conn \in Conns
    BY <2>1, Owned DEF OneShotInv, Owning
  <2>3. cli'[op.conn] = "dead"
    BY <1>1, <1>a, <2>2 DEF Collected, Kill
  <2>4. op.got \in Seq(Items) /\ Behind(said, op.got, op.conn \in silent) /\ NoError(op.got)
    <3>1. /\ Behind(said, op.got \o out[op.conn], op.conn \in silent)
          /\ out[op.conn] = <<>> /\ op.got \in Seq(Items) /\ NoError(op.got)
      BY <2>1, <2>2 DEF SaidInv, Over, ClientInv, TypeOK, Ops
    <3>2. \A g \in Seq(Items) : g \o <<>> = g
      OBVIOUS
    <3> QED
      BY <3>1, <3>2
  <2> QED
    BY <2>1, <2>2, <2>3, <2>4 DEF OutcomeInv
<1>2. CASE ~Collected
  <2>1. outcome' = outcome
    BY <1>2 DEF Step, Continue, Cancel, Beside, OneShot, Send, QueryStream, ReceiveResponse, DropClient,
         Join, TakeQuery, NoQuery, CloseEnds, CloseFails, Refuse, CreateTransport, StartFails, Start,
         InitializeEnds, InitializeFails, WritePrompt, WritePromptFails, Establish, PromptSent,
         Collect, WriteStream, EndStream, Receive, ReceiveEnd, CancelJoin, CancelClose,
         CancelConnect, CancelOther, CloserEnds, TaskWrites, TaskEnds, CliReplies, CliExits, ReaderPanics, Fail
  <2> SUFFICES ASSUME outcome.ok PROVE OutcomeInv'
    BY <2>1 DEF OutcomeInv
  <2>2. kind = "oneShot" /\ op.at = "dropped" /\ query = None /\ op.conn = None
    BY OneShotPlaces DEF OutcomeInv
  <2>3. \E c \in Conns : Beside(c)
    BY <1>2, <2>2, IdleIsNew DEF Step, Continue, Cancel, OneShot, Send, QueryStream, ReceiveResponse,
         DropClient, Join, TakeQuery, NoQuery, CloseEnds, CloseFails, Refuse, CreateTransport,
         StartFails, Start, InitializeEnds, InitializeFails, WritePrompt, WritePromptFails, Establish,
         PromptSent, Collect, WriteStream, EndStream, Receive, ReceiveEnd, CancelJoin, CancelClose,
         CancelConnect, CancelOther
  <2>4. PICK c \in Conns : Beside(c)
    BY <2>3
  <2>5. ~Open(c)
    BY <2>2 DEF Open, None, Conns
  <2>6. UNCHANGED <<kind, op, said, silent>>
    BY <2>4, <2>5 DEF Beside, CloserEnds, TaskWrites, TaskEnds, CliReplies, CliExits, ReaderPanics
  <2>7. cli' = cli \/ cli' = [cli EXCEPT ![c] = "dead"]
    BY <2>4 DEF Beside, CloserEnds, TaskWrites, TaskEnds, CliReplies, CliExits, ReaderPanics, Kill
  <2> QED
    BY <1>a, <2>1, <2>6, <2>7 DEF OutcomeInv
<1> QED
  BY <1>1, <1>2

LEMMA NextWhole == ClientInv /\ WholeInv /\ [Next]_vars => WholeInv'
<1> SUFFICES ASSUME ClientInv, WholeInv, [Next]_vars PROVE WholeInv'
  OBVIOUS
<1> USE DEF WholeInv
<1>1. CASE Step
  BY <1>1, StepKeepsOneShot, StepKeepsSaid, StepKeepsOutcome
<1>2. ASSUME NEW name \in Names \ {"oneShot"}, NEW prompt \in Prompts, kind = "client", op = Idle,
             TakeTask(name, prompt)
      PROVE  WholeInv'
  <2>1. kind' = "client" /\ outcome' = outcome /\ ~outcome.ok
    BY <1>2 DEF TakeTask, ownVars, OutcomeInv
  <2>2. op'.name = name /\ op'.at \in {"joined", "join"}
    <3>1. CASE initTask = None
      <4> DEFINE new == Op(name, "joined")
      <4>1. op' = [new EXCEPT !.prompt = prompt]
        BY <1>2, <3>1 DEF TakeTask
      <4>2. new \in Ops /\ new.name = name /\ new.at = "joined"
        BY OpIsNew DEF Names, Places
      <4> HIDE DEF new
      <4> QED
        BY <4>1, <4>2 DEF Ops
    <3>2. CASE initTask # None
      <4> DEFINE new == Op(name, "join")
      <4>1. op' = [new EXCEPT !.prompt = prompt, !.joined = initTask]
        BY <1>2, <3>2 DEF TakeTask
      <4>2. new \in Ops /\ new.name = name /\ new.at = "join"
        BY OpIsNew DEF Names, Places
      <4> HIDE DEF new
      <4> QED
        BY <4>1, <4>2 DEF Ops
    <3> QED
      BY <3>1, <3>2
  <2> QED
    BY <2>1, <2>2 DEF OneShotInv, SaidInv, OutcomeInv
<1>3. CASE \E name \in {"connect", "connectWith"}, prompt \in Prompts : Connect(name, prompt)
  BY <1>2, <1>3 DEF Connect, Names
<1>4. CASE Disconnect \/ WaitForInitialMessages
  BY <1>2, <1>4 DEF Disconnect, WaitForInitialMessages, Names, Prompts
<1>5. CASE UNCHANGED vars
  BY <1>5 DEF vars, ownVars, taskVars, cliVars, OneShotInv, SaidInv, OutcomeInv
<1> QED
  BY <1>1, <1>3, <1>4, <1>5 DEF Next, Call, Step

\* A one-shot query that returns Ok returns what its CLI printed from the first
\* message on, in order, with no error among it, and leaves that CLI dead; all
\* that was printed, unless a panicking tool handler silenced the reader.
\* collect_messages stops at an error, and closes the query before it returns.
THEOREM Collecting == Spec => []CollectedIsWhole
<1>1. Init => ClientInv /\ WholeInv
  BY InitClient, InitWhole
<1>2. ClientInv /\ WholeInv /\ [Next]_vars => ClientInv' /\ WholeInv'
  BY NextClient, NextWhole
<1>3. WholeInv => CollectedIsWhole
  <2> SUFFICES ASSUME OutcomeInv, outcome.ok PROVE CollectedIsWhole
    BY DEF WholeInv, CollectedIsWhole
  <2> DEFINE got == outcome.got
  <2>1. got \in Seq(Items) /\ NoError(got) /\ cli[outcome.conn] = "dead"
    BY DEF OutcomeInv
  <2>2. PICK rest \in Seq(Items) : said = got \o rest /\ (outcome.conn \notin silent => rest = <<>>)
    BY DEF OutcomeInv, Behind
  <2> HIDE DEF got
  <2>3. \A i \in DOMAIN got : i \in DOMAIN said /\ got[i] = said[i]
    BY <2>1, <2>2
  <2>4. outcome.conn \notin silent => got = said
    BY <2>1, <2>2
  <2> QED
    BY <2>1, <2>3, <2>4 DEF CollectedIsWhole, NoError, got
<1> QED
  BY <1>1, <1>2, <1>3, PTL DEF Spec
============================================================================
