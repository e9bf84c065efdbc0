--------------------------- MODULE Opencode_proofs ---------------------------
(***************************************************************************)
(* Theorems about Opencode: what becomes of the child process of a server, *)
(* for any number of log lines, whatever the client does beside it; that   *)
(* each request is the one its caller named; and that a stream yields the  *)
(* events of its body, whatever the body and its chunks.                   *)
(***************************************************************************)
EXTENDS Opencode, FiniteSetTheorems, SequenceTheorems, TLAPS

USE MaxLogsIsNatural

\* A start that waits, or has got anywhere, has a child.  NoChildLeft alone is not
\* inductive: it says nothing of where "failed" and "dropped" are reached from.
ChildFits ==
    /\ start = "idle" => child = "none"
    /\ start \notin {"idle", "failed"} => child # "none"
    /\ start \in {"terminating", "closing"} => child \in {"dying", "dead"}

\* What is true of the server and its child in every state.
ServerInv == ServerTypeOK /\ ChildFits /\ NoChildLeft

\* No log lines are a sequence of them.
LEMMA NoLogs == <<>> \in Seq(LogLines)
OBVIOUS

\* The initial states satisfy the invariant.
LEMMA ServerInitInv == Init => ServerInv
BY NoLogs DEF Init, ServerInit, ServerInv, ServerTypeOK, ChildFits, NoChildLeft, Starts, Streams

\* A step of create_opencode_server keeps it.
LEMMA StartInv ==
    ASSUME ServerInv,
           \/ LaunchFails \/ Launch \/ Timeout \/ ReadLine \/ LogsEnd
           \/ ChildExited \/ Terminated \/ Abandon
    PROVE  ServerInv'
<1> USE DEF ServerInv, ServerTypeOK, ChildFits, NoChildLeft, Starts, Over
<1>1. CASE LaunchFails \/ Launch \/ ChildExited \/ Terminated \/ Abandon
  BY <1>1, NoLogs DEF LaunchFails, Launch, ChildExited, Terminated, Abandon
<1>2. CASE Timeout
  BY <1>2, NoLogs DEF Timeout, Terminate, KillChild
<1>3. CASE ReadLine
  <2>1. CASE Head(logs) = "log"
    <3>1. start' = start /\ child' = child /\ readers' = readers /\ logs' = Tail(logs)
      BY <1>3, <2>1 DEF ReadLine
    <3>2. logs' \in Seq(LogLines)
      BY <1>3, <3>1 DEF ReadLine
    <3> QED
      BY <3>1, <3>2
  <2>2. CASE Head(logs) = "url"
    BY <1>3, <2>2, NoLogs DEF ReadLine
  <2>3. CASE Head(logs) = "noUrl"
    BY <1>3, <2>3, NoLogs DEF ReadLine, Terminate, KillChild
  <2>4. Head(logs) \in LogLines
    BY <1>3 DEF ReadLine
  <2> QED
    BY <2>1, <2>2, <2>3, <2>4 DEF LogLines
<1>4. CASE LogsEnd
  BY <1>4, NoLogs DEF LogsEnd, Terminate, KillChild
<1> QED
  BY <1>1, <1>2, <1>3, <1>4

\* A step of the OpencodeServer, of a reader task or of the child keeps it.
LEMMA RunningInv ==
    ASSUME ServerInv,
           \/ Close \/ Closed \/ DropServer \/ Exits
           \/ \E s \in Streams : ReaderEnds(s) \/ \E line \in LogLines : Prints(s, line)
    PROVE  ServerInv'
<1> USE DEF ServerInv, ServerTypeOK, ChildFits, NoChildLeft, Starts
<1>1. CASE Close \/ Closed \/ DropServer \/ Exits
  BY <1>1 DEF Close, Closed, DropServer, Exits, KillChild
<1>2. CASE \E s \in Streams : ReaderEnds(s)
  BY <1>2 DEF ReaderEnds
<1>3. CASE \E s \in Streams : \E line \in LogLines : Prints(s, line)
  <2>1. PICK s \in Streams, line \in LogLines : Prints(s, line)
    BY <1>3
  <2>2. logs' \in Seq(LogLines)
    BY <2>1 DEF Prints
  <2> QED
    BY <2>1, <2>2 DEF Prints
<1> QED
  BY <1>1, <1>2, <1>3

\* The client leaves the server's process alone.
LEMMA ClientLeavesServer == Client => UNCHANGED serverVars
BY DEF Client, CallOperation, CallMethod, AnswerJson, AnswerStream, RequestFails,
       PullChunk, PullEnd, PullFails, DropStream

\* Every step keeps the invariant.
LEMMA NextServerInv == ServerInv /\ [Next]_vars => ServerInv'
<1> SUFFICES ASSUME ServerInv, [Next]_vars PROVE ServerInv'
  OBVIOUS
<1>1. CASE ServerNext
  BY <1>1, StartInv, RunningInv DEF ServerNext
<1>2. CASE UNCHANGED serverVars
  BY <1>2 DEF serverVars, ServerInv, ServerTypeOK, ChildFits, NoChildLeft
<1> QED
  BY <1>1, <1>2, ClientLeavesServer DEF Next, Server, vars

\* The server's variables keep their types, and where the start or the server is
\* agrees with what is left of the child (create_opencode_server).
THEOREM ServerInvariant == Spec => []ServerInv
<1>1. Init => ServerInv
  BY ServerInitInv
<1>2. ServerInv /\ [Next]_vars => ServerInv'
  BY NextServerInv
<1> QED
  BY <1>1, <1>2, PTL DEF Spec

\* A failed start and a closed or dropped server leave no child that runs on:
\* terminate_child, OpencodeServer::close and OpencodeServer::drop.
THEOREM NoChildRemains == Spec => []NoChildLeft
<1>1. ServerInv => NoChildLeft
  BY DEF ServerInv
<1> QED
  BY <1>1, ServerInvariant, PTL

----------------------------------------------------------------------------
(* Numbers, sequences, and what Keep makes of them *)

\* A set of numbers has a least one: their initial segments, ordered by
\* inclusion, are well founded.
LEMMA LeastNumber ==
    ASSUME NEW T \in SUBSET Nat, T # {}
    PROVE  \E m \in T : \A k \in T : m <= k
<1> DEFINE F == {0 .. n : n \in T}
<1>1. F \subseteq FiniteSubsetsOf(Nat)
  <2> SUFFICES ASSUME NEW n \in T PROVE 0 .. n \in FiniteSubsetsOf(Nat)
    OBVIOUS
  <2>1. IsFiniteSet(0 .. n)
    BY FS_Interval
  <2> QED
    BY <2>1 DEF FiniteSubsetsOf
<1>2. F # {}
  OBVIOUS
<1>3. PICK x \in F : \A y \in F : <<y, x>> \notin StrictSubsetOrdering(Nat)
  <2> HIDE DEF F
  <2> QED
    BY <1>1, <1>2, FS_StrictSubsetOrderingWellFounded, WFMin
<1>4. PICK m \in T : x = 0 .. m
  OBVIOUS
<1>5. ASSUME NEW k \in T, k < m PROVE FALSE
  <2>1. 0 .. k \subseteq 0 .. m /\ 0 .. k # 0 .. m /\ 0 .. k \in SUBSET Nat /\ 0 .. m \in SUBSET Nat
    <3>1. m \in 0 .. m /\ m \notin 0 .. k
      BY <1>5
    <3> QED
      BY <1>5, <3>1
  <2>2. <<0 .. k, 0 .. m>> \in StrictSubsetOrdering(Nat)
    BY <2>1 DEF StrictSubsetOrdering
  <2> QED
    BY <1>3, <1>4, <2>2
<1> QED
  BY <1>5

\* What holds of 0, and of n + 1 if of n, holds of every number.
LEMMA Induction ==
    ASSUME NEW S, 0 \in S, \A n \in Nat : n \in S => n + 1 \in S
    PROVE  Nat \subseteq S
<1> SUFFICES ASSUME Nat \ S # {} PROVE FALSE
  OBVIOUS
<1>1. PICK m \in Nat \ S : \A k \in Nat \ S : m <= k
  BY LeastNumber
<1>2. m # 0 /\ m - 1 \in Nat /\ ~(m <= m - 1)
  BY <1>1
<1>3. m - 1 \in S
  BY <1>1, <1>2
<1> QED
  BY <1>1, <1>2, <1>3

\* Two that begin alike and go on alike are alike.
GoAlike(N, g, h) == g[0] = h[0] /\ \A i \in 1 .. N : g[i - 1] = h[i - 1] => g[i] = h[i]

\* Which follows by induction.
LEMMA SameSteps ==
    ASSUME NEW N \in Nat, NEW g, NEW h, GoAlike(N, g, h)
    PROVE  \A i \in 0 .. N : g[i] = h[i]
<1> USE DEF GoAlike
<1> DEFINE T == {n \in Nat : n <= N => g[n] = h[n]}
<1>1. 0 \in T
  OBVIOUS
<1>2. ASSUME NEW n \in Nat, n \in T PROVE n + 1 \in T
  <2> SUFFICES ASSUME n + 1 <= N PROVE g[n + 1] = h[n + 1]
    OBVIOUS
  <2>1. n + 1 \in 1 .. N /\ (n + 1) - 1 = n /\ g[n] = h[n]
    BY <1>2
  <2> QED
    BY <2>1
<1>3. Nat \subseteq T
  <2> HIDE DEF T
  <2> QED
    BY <1>1, <1>2, Induction
<1> QED
  BY <1>3

\* A base and steps, and the values they lead to.
Steps(N, K) == [1 .. N -> [K -> K]]
IsRun(N, base, step, g) == g[0] = base /\ \A i \in 1 .. N : g[i] = step[i][g[i - 1]]

\* Steps that stay in a set define such values.
LEMMA Recursion ==
    ASSUME NEW N \in Nat, NEW K, NEW base \in K, NEW step \in Steps(N, K)
    PROVE  \E g \in [0 .. N -> K] : IsRun(N, base, step, g)
<1> USE DEF Steps
<1> DEFINE Fits(n, g) == g[0] = base /\ \A i \in 1 .. n : g[i] = step[i][g[i - 1]]
           T == {n \in Nat : n <= N => \E g \in [0 .. n -> K] : Fits(n, g)}
<1>1. 0 \in T
  <2> DEFINE g == [i \in 0 .. 0 |-> base]
  <2>1. g \in [0 .. 0 -> K] /\ Fits(0, g)
    OBVIOUS
  <2> HIDE DEF g, Fits
  <2> QED
    BY <2>1
<1>2. ASSUME NEW n \in Nat, n \in T PROVE n + 1 \in T
  <2> SUFFICES ASSUME n + 1 <= N PROVE \E h \in [0 .. n + 1 -> K] : Fits(n + 1, h)
    <3> HIDE DEF Fits
    <3> QED
      OBVIOUS
  <2>1. PICK g \in [0 .. n -> K] : Fits(n, g)
    <3> HIDE DEF Fits
    <3> QED
      BY <1>2
  <2> DEFINE h == [i \in 0 .. n + 1 |-> IF i = n + 1 THEN step[n + 1][g[n]] ELSE g[i]]
  <2>2. step[n + 1][g[n]] \in K
    <3>1. n + 1 \in 1 .. N /\ g[n] \in K
      OBVIOUS
    <3> QED
      BY <3>1
  <2>3. h \in [0 .. n + 1 -> K]
    BY <2>2
  <2>4. Fits(n + 1, h)
    <3>1. h[0] = base
      BY <2>1
    <3>2. ASSUME NEW i \in 1 .. n + 1 PROVE h[i] = step[i][h[i - 1]]
      <4>1. CASE i = n + 1
        <5>1. i - 1 = n /\ h[i - 1] = g[n]
          BY <4>1
        <5> QED
          BY <4>1, <5>1
      <4>2. CASE i \in 1 .. n
        <5>1. h[i] = g[i] /\ h[i - 1] = g[i - 1]
          BY <4>2
        <5> QED
          BY <2>1, <4>2, <5>1
      <4> QED
        BY <4>1, <4>2
    <3> QED
      BY <3>1, <3>2
  <2> HIDE DEF h, Fits
  <2> QED
    BY <2>3, <2>4
<1>3. Nat \subseteq T
  <2> HIDE DEF T
  <2> QED
    BY <1>1, <1>2, Induction
<1> HIDE DEF Fits
<1>4. \E g \in [0 .. N -> K] : Fits(N, g)
  BY <1>3
<1> QED
  BY <1>4 DEF Fits, IsRun

\* The recursive definition of Keep is of a function.
KeepRun(s, W, g) ==
    /\ Keep(s, W) = g[Len(s)]
    /\ g[0] = <<>>
    /\ \A i \in 1 .. Len(s) : g[i] = IF i \in W THEN Append(g[i - 1], s[i]) ELSE g[i - 1]

\* There is one, since CHOOSE picks it.
LEMMA KeepRuns ==
    ASSUME NEW A, NEW s \in Seq(A), NEW W
    PROVE  \E g \in [0 .. Len(s) -> Seq(A)] : KeepRun(s, W, g)
<1> DEFINE N == Len(s)
           K == Seq(A)
           step == [i \in 1 .. N |-> [x \in K |-> IF i \in W THEN Append(x, s[i]) ELSE x]]
           Fits(g) == g = [i \in 0 .. N |-> IF i = 0 THEN <<>>
                                            ELSE IF i \in W THEN Append(g[i - 1], s[i]) ELSE g[i - 1]]
           upTo == CHOOSE g : Fits(g)
<1>1. N \in Nat /\ <<>> \in K /\ \A i \in 1 .. N : s[i] \in A
  BY EmptySeq, LenProperties, ElementOfSeq
<1>2. step \in Steps(N, K)
  <2>1. ASSUME NEW i \in 1 .. N, NEW x \in K PROVE (IF i \in W THEN Append(x, s[i]) ELSE x) \in K
    BY <1>1, AppendProperties
  <2> HIDE DEF K, N
  <2> QED
    BY <2>1 DEF Steps
<1>3. PICK g \in [0 .. N -> K] : IsRun(N, <<>>, step, g)
  <2> HIDE DEF K, N, step
  <2> QED
    BY <1>1, <1>2, Recursion
<1>4. ASSUME NEW i \in 1 .. N
      PROVE  g[i] = IF i \in W THEN Append(g[i - 1], s[i]) ELSE g[i - 1]
  <2> HIDE DEF K, N
  <2>1. i - 1 \in 0 .. N
    BY <1>1
  <2> QED
    BY <1>3, <2>1 DEF IsRun
<1>5. Fits(g)
  <2> HIDE DEF K, N
  <2>1. \A i \in 0 .. N : i # 0 => i \in 1 .. N
    BY <1>1
  <2> QED
    BY <1>3, <1>4, <2>1 DEF IsRun
<1>6. Fits(upTo)
  <2> HIDE DEF Fits
  <2> QED
    BY <1>5
<1>7. Keep(s, W) = upTo[N]
  BY DEF Keep
<1>8. upTo[0] = <<>> /\ \A i \in 1 .. N : upTo[i] = IF i \in W THEN Append(upTo[i - 1], s[i]) ELSE upTo[i - 1]
  <2> HIDE DEF upTo, N
  <2>1. 0 \in 0 .. N /\ \A i \in 1 .. N : i \in 0 .. N /\ i # 0
    BY <1>1
  <2> QED
    BY <1>6, <2>1
<1>9. \A i \in 0 .. N : upTo[i] = g[i]
  <2> HIDE DEF upTo, N
  <2>1. \A i \in 1 .. N : upTo[i - 1] = g[i - 1] => upTo[i] = g[i]
    BY <1>4, <1>8
  <2> QED
    <3>1. upTo[0] = g[0] /\ N \in Nat
      BY <1>1, <1>3, <1>8 DEF IsRun
    <3>2. GoAlike(N, upTo, g)
      BY <2>1, <3>1 DEF GoAlike
    <3> QED
      BY <3>1, <3>2, SameSteps
<1>10. Keep(s, W) = g[N]
  <2> HIDE DEF upTo, N
  <2>1. N \in 0 .. N
    BY <1>1
  <2> QED
    BY <1>7, <1>9, <2>1
<1> QED
  BY <1>3, <1>4, <1>10 DEF IsRun, KeepRun

\* Keep of a longer sequence.
LEMMA KeepAppend ==
    ASSUME NEW A
    PROVE  /\ \A W : Keep(<<>>, W) = <<>>
           /\ \A s \in Seq(A), e \in A : \A W :
                /\ Keep(s, W) \in Seq(A)
                /\ Keep(Append(s, e), W) = IF Len(s) + 1 \in W THEN Append(Keep(s, W), e) ELSE Keep(s, W)
<1>1. ASSUME NEW W PROVE Keep(<<>>, W) = <<>>
  BY EmptySeq, KeepRuns DEF KeepRun
<1>2. ASSUME NEW s \in Seq(A), NEW e \in A, NEW W
      PROVE  /\ Keep(s, W) \in Seq(A)
             /\ Keep(Append(s, e), W) = IF Len(s) + 1 \in W THEN Append(Keep(s, W), e) ELSE Keep(s, W)
  <2> DEFINE t == Append(s, e)
             N == Len(s)
  <2>1. /\ t \in Seq(A) /\ N \in Nat /\ Len(t) = N + 1 /\ t[N + 1] = e
        /\ \A i \in 1 .. N : t[i] = s[i]
    BY AppendProperties, LenProperties
  <2> HIDE DEF t
  <2>2. PICK g \in [0 .. N -> Seq(A)] : KeepRun(s, W, g)
    BY KeepRuns
  <2>3. PICK h \in [0 .. Len(t) -> Seq(A)] : KeepRun(t, W, h)
    BY <2>1, KeepRuns
  <2> HIDE DEF N
  <2>4. \A i \in 1 .. N : h[i - 1] = g[i - 1] => h[i] = g[i]
    <3> SUFFICES ASSUME NEW i \in 1 .. N, h[i - 1] = g[i - 1] PROVE h[i] = g[i]
      OBVIOUS
    <3>1. i \in 1 .. Len(t) /\ t[i] = s[i] /\ i \in 1 .. Len(s)
      BY <2>1 DEF N
    <3> QED
      BY <2>2, <2>3, <3>1 DEF KeepRun
  <2>5. \A i \in 0 .. N : h[i] = g[i]
    <3>1. h[0] = g[0] /\ N \in Nat
      BY <2>1, <2>2, <2>3 DEF KeepRun
    <3>2. GoAlike(N, h, g)
      BY <2>4, <3>1 DEF GoAlike
    <3> QED
      BY <3>1, <3>2, SameSteps
  <2>6. h[N] = g[N] /\ N + 1 \in 1 .. Len(t) /\ (N + 1) - 1 = N /\ g[N] \in Seq(A)
    BY <2>1, <2>2, <2>5
  <2> QED
    BY <2>1, <2>2, <2>3, <2>6 DEF N, t, KeepRun
<1> QED
  BY <1>1, <1>2

\* What holds of the empty sequence, and of a longer one if of the one before,
\* holds of all.
LEMMA SequenceInduction ==
    ASSUME NEW A, NEW S, <<>> \in S,
           \A s \in Seq(A) : \A e \in A : s \in S => Append(s, e) \in S
    PROVE  Seq(A) \subseteq S
<1> DEFINE T == {n \in Nat : \A s \in Seq(A) : Len(s) = n => s \in S}
<1>1. 0 \in T
  BY EmptySeq
<1>2. ASSUME NEW n \in Nat, n \in T PROVE n + 1 \in T
  <2> SUFFICES ASSUME NEW s \in Seq(A), Len(s) = n + 1 PROVE s \in S
    OBVIOUS
  <2>1. DOMAIN s = 1 .. n + 1 /\ n + 1 \in 1 .. n + 1
    BY LenProperties
  <2> DEFINE front == [i \in 1 .. n |-> s[i]]
  <2>2. s[n + 1] \in A /\ \A i \in 1 .. n : s[i] \in A
    BY <2>1, ElementOfSeq
  <2>3. front \in Seq(A) /\ Len(front) = n
    BY <2>2, SeqDef, LenProperties
  <2>4. s = Append(front, s[n + 1])
    <3>1. Append(front, s[n + 1]) \in Seq(A) /\ Len(Append(front, s[n + 1])) = n + 1
      BY <2>2, <2>3, AppendProperties
    <3>2. \A i \in 1 .. n + 1 : s[i] = Append(front, s[n + 1])[i]
      BY <2>2, <2>3, AppendProperties
    <3> QED
      BY <3>1, <3>2, SeqEqual
  <2>5. front \in S
    BY <1>2, <2>3
  <2> HIDE DEF front
  <2> QED
    BY <2>2, <2>3, <2>4, <2>5
<1>3. Nat \subseteq T
  <2> HIDE DEF T
  <2> QED
    BY <1>1, <1>2, Induction
<1> QED
  BY <1>3, LenProperties

\* Only what W says of the places of s matters.
LEMMA KeepAgrees ==
    ASSUME NEW A, NEW s \in Seq(A), NEW W, NEW V, \A i \in 1 .. Len(s) : i \in W <=> i \in V
    PROVE  Keep(s, W) = Keep(s, V)
<1> DEFINE N == Len(s)
<1>1. N \in Nat
  BY LenProperties
<1>2. PICK g \in [0 .. N -> Seq(A)] : KeepRun(s, W, g)
  BY KeepRuns
<1>3. PICK h \in [0 .. N -> Seq(A)] : KeepRun(s, V, h)
  BY KeepRuns
<1>4. GoAlike(N, g, h)
  BY <1>2, <1>3 DEF GoAlike, KeepRun
<1>5. g[N] = h[N]
  <2> HIDE DEF N
  <2>1. \A i \in 0 .. N : g[i] = h[i]
    BY <1>1, <1>4, SameSteps
  <2>2. N \in 0 .. N
    BY <1>1
  <2> QED
    BY <2>1, <2>2
<1> QED
  BY <1>2, <1>3, <1>5 DEF KeepRun

\* Keep of a longer sequence, where W adds nothing to V but perhaps the last place.
LEMMA KeepStep ==
    ASSUME NEW A, NEW s \in Seq(A), NEW e \in A, NEW W, NEW V,
           \A i \in 1 .. Len(s) : i \in W <=> i \in V
    PROVE  /\ Keep(s, V) \in Seq(A)
           /\ Len(s) + 1 \in W => Keep(Append(s, e), W) = Append(Keep(s, V), e)
           /\ Len(s) + 1 \notin W => Keep(Append(s, e), W) = Keep(s, V)
<1>1. Keep(s, W) = Keep(s, V)
  BY KeepAgrees
<1>2. /\ Keep(s, W) \in Seq(A)
      /\ Keep(Append(s, e), W) = IF Len(s) + 1 \in W THEN Append(Keep(s, W), e) ELSE Keep(s, W)
  BY KeepAppend
<1> QED
  BY <1>1, <1>2

\* Keep of s is empty if no place of s is kept, and only then.
LEMMA KeepNothing ==
    ASSUME NEW A, NEW s \in Seq(A), NEW W
    PROVE  Keep(s, W) = <<>> <=> \A i \in 1 .. Len(s) : i \notin W
<1> DEFINE S == {u \in Seq(A) : Keep(u, W) = <<>> <=> \A i \in 1 .. Len(u) : i \notin W}
<1>1. <<>> \in S
  BY KeepAppend, EmptySeq
<1>2. ASSUME NEW u \in Seq(A), NEW e \in A, u \in S PROVE Append(u, e) \in S
  <2>1. PICK t \in Seq(A) : t = Append(u, e) /\ Len(t) = Len(u) + 1
    BY AppendProperties
  <2>2. Len(u) \in Nat
    BY LenProperties
  <2>3. Len(u) + 1 \in 1 .. Len(t) /\ \A i \in 1 .. Len(u) : i \in 1 .. Len(t)
    BY <2>1, <2>2
  <2>4. \A i \in 1 .. Len(t) : i \in 1 .. Len(u) \/ i = Len(u) + 1
    BY <2>1, <2>2
  <2>5. CASE Len(u) + 1 \in W
    <3>1. Keep(t, W) = Append(Keep(u, W), e) /\ Keep(u, W) \in Seq(A)
      BY <2>1, <2>5, KeepStep
    <3>2. Keep(t, W) # <<>>
      BY <3>1, AppendProperties
    <3>3. ~ \A i \in 1 .. Len(t) : i \notin W
      BY <2>3, <2>5
    <3>4. t \in S
      BY <3>2, <3>3
    <3> QED
      BY <2>1, <3>4
  <2>6. CASE Len(u) + 1 \notin W
    <3>1. Keep(t, W) = Keep(u, W)
      BY <2>1, <2>6, KeepStep
    <3>2. (\A i \in 1 .. Len(t) : i \notin W) <=> (\A i \in 1 .. Len(u) : i \notin W)
      BY <2>3, <2>4, <2>6
    <3>3. Keep(u, W) = <<>> <=> \A i \in 1 .. Len(u) : i \notin W
      BY <1>2
    <3>4. t \in S
      BY <3>1, <3>2, <3>3
    <3> QED
      BY <2>1, <3>4
  <2> QED
    BY <2>5, <2>6
<1>3. Seq(A) \subseteq S
  <2> HIDE DEF S
  <2> QED
    BY <1>1, <1>2, SequenceInduction
<1> QED
  BY <1>3

\* What makes a sequence another with an element more.
LEMMA IsAppend ==
    ASSUME NEW A, NEW s \in Seq(A), NEW e \in A, NEW t \in Seq(A),
           Len(t) = Len(s) + 1, \A i \in 1 .. Len(s) : t[i] = s[i], t[Len(s) + 1] = e
    PROVE  t = Append(s, e)
<1>1. /\ Append(s, e) \in Seq(A) /\ Len(Append(s, e)) = Len(s) + 1 /\ Len(s) \in Nat
      /\ \A i \in 1 .. Len(s) : Append(s, e)[i] = s[i]
      /\ Append(s, e)[Len(s) + 1] = e
  BY AppendProperties, LenProperties
<1>2. ASSUME NEW i \in 1 .. Len(t) PROVE t[i] = Append(s, e)[i]
  <2>1. i \in 1 .. Len(s) \/ i = Len(s) + 1
    BY <1>1
  <2> QED
    BY <1>1, <2>1
<1> QED
  BY <1>1, <1>2, SeqEqual

\* A set of numbers up to n has a greatest one.
LEMMA GreatestIsMax ==
    ASSUME NEW n \in Nat, NEW S \in SUBSET (1 .. n), S # {}
    PROVE  Max(S) \in S /\ \A k \in S : k <= Max(S)
<1> DEFINE T == {n - k : k \in S}
<1>0. \A k \in S : k \in Nat /\ k <= n /\ n - k \in Nat
  OBVIOUS
<1>1. T \in SUBSET Nat /\ T # {}
  BY <1>0
<1>2. PICK m \in T : \A k \in T : m <= k
  <2> HIDE DEF T
  <2> QED
    BY <1>1, LeastNumber
<1>3. PICK x \in S : m = n - x
  BY <1>2
<1>4. \A k \in S : x >= k
  <2> SUFFICES ASSUME NEW k \in S PROVE x >= k
    OBVIOUS
  <2>1. n - k \in T /\ k \in Nat /\ x \in Nat
    BY <1>0
  <2>2. n - x <= n - k
    BY <1>2, <1>3, <2>1
  <2> HIDE DEF T
  <2> QED
    BY <2>1, <2>2
<1>5. Max(S) \in S /\ \A k \in S : Max(S) >= k
  BY <1>4 DEF Max
<1>6. \A k \in S : Max(S) >= k => k <= Max(S)
  <2> SUFFICES ASSUME NEW k \in S, NEW y \in S, y >= k PROVE k <= y
    BY <1>5
  <2> QED
    BY SMT
<1> QED
  BY <1>5, <1>6

----------------------------------------------------------------------------
(* RequestsAreAsNamed: no two placeholders of a route have a key in common,   *)
(* and what a namespace sends are rows of the table of operations.            *)

\* Something that is a sequence, of whatever.
IsSeq(s) == \E A : s \in Seq(A)
\* Two placeholders share no key.
Apart(a, b) == \A m \in DOMAIN Keys(a), n \in DOMAIN Keys(b) : Keys(a)[m] # Keys(b)[n]
\* No two placeholders of a path share a key.
Clear(path) ==
    IsSeq(path) /\ \A i, j \in Placeholders(path) : i # j => Apart(path[i], path[j])
\* Segments without a placeholder, and with at most one.
Plain(tail) == IsSeq(tail) /\ \A i \in DOMAIN tail : ~IsPlaceholder(tail[i])
Single(base) == IsSeq(base) /\ \A i, j \in Placeholders(base) : i = j

\* Short sequences are sequences.
LEMMA Sequences ==
    /\ IsSeq(<<>>)
    /\ \A s : IsSeq(<<s>>)
    /\ \A s, t : IsSeq(<<s, t>>)
<1>1. IsSeq(<<>>)
  BY EmptySeq DEF IsSeq
<1>2. \A s : IsSeq(<<s>>)
  <2> TAKE s
  <2>1. <<s>> \in Seq({s})
    OBVIOUS
  <2> QED
    BY <2>1 DEF IsSeq
<1>3. \A s, t : IsSeq(<<s, t>>)
  <2> TAKE s, t
  <2>1. <<s, t>> \in Seq({s, t})
    OBVIOUS
  <2> QED
    BY <2>1 DEF IsSeq
<1> QED
  BY <1>1, <1>2, <1>3

\* The tails of the table that have no placeholder.
LEMMA Tails ==
    /\ Plain(<<>>)
    /\ \A s : ~IsPlaceholder(s) => Plain(<<s>>)
    /\ \A s, t : ~IsPlaceholder(s) /\ ~IsPlaceholder(t) => Plain(<<s, t>>)
BY Sequences DEF Plain

\* The beginnings of the table that have one placeholder at most.
LEMMA Bases ==
    /\ \A s : Single(<<s>>)
    /\ \A s, t : ~IsPlaceholder(s) => Single(<<s, t>>)
BY Sequences DEF Single, Placeholders

\* Concatenation of sequences of unlike things.
LEMMA IsSeqConcat ==
    ASSUME NEW s, NEW t, IsSeq(s), IsSeq(t)
    PROVE  /\ Len(s) \in Nat /\ DOMAIN s = 1 .. Len(s)
           /\ Len(t) \in Nat /\ DOMAIN t = 1 .. Len(t)
           /\ IsSeq(s \o t) /\ DOMAIN (s \o t) = 1 .. Len(s) + Len(t)
           /\ \A i \in 1 .. Len(s) + Len(t) : (s \o t)[i] = IF i <= Len(s) THEN s[i] ELSE t[i - Len(s)]
<1>1. PICK A : s \in Seq(A)
  BY DEF IsSeq
<1>2. PICK B : t \in Seq(B)
  BY DEF IsSeq
<1>3. s \in Seq(A \cup B) /\ t \in Seq(A \cup B)
  BY <1>1, <1>2
<1> QED
  BY <1>3, ConcatProperties, LenProperties DEF IsSeq

\* One placeholder shares no key with another.
LEMMA OnePlaceholder ==
    ASSUME NEW base, NEW tail, (Single(base) /\ Plain(tail)) \/ (Plain(base) /\ Single(tail))
    PROVE  Clear(base \o tail)
<1> DEFINE path == base \o tail
           n == Len(base)
<1>1. IsSeq(base) /\ IsSeq(tail)
  BY DEF Single, Plain
<1>2. /\ n \in Nat /\ DOMAIN base = 1 .. n
      /\ Len(tail) \in Nat /\ DOMAIN tail = 1 .. Len(tail)
      /\ DOMAIN path = 1 .. n + Len(tail)
      /\ \A i \in 1 .. n + Len(tail) : path[i] = IF i <= n THEN base[i] ELSE tail[i - n]
  BY <1>1, IsSeqConcat
<1> HIDE DEF path, n
<1>3. ASSUME NEW i \in Placeholders(path)
      PROVE  \/ i \in Placeholders(base)
             \/ i - n \in Placeholders(tail) /\ i - n \in Nat /\ i \in Nat
  BY <1>2 DEF Placeholders
<1>0. IsSeq(base \o tail)
  BY <1>1, IsSeqConcat
<1>4. \A i, j \in Placeholders(path) : i = j
  <2>1. CASE Plain(tail)
    BY <1>3, <2>1 DEF Single, Plain, Placeholders
  <2>2. CASE Plain(base)
    <3>1. \A i \in Placeholders(path) : i - n \in Placeholders(tail) /\ i - n \in Nat /\ i \in Nat
      BY <1>3, <2>2 DEF Plain, Placeholders
    <3>2. CASE Single(tail)
      <4> SUFFICES ASSUME NEW i \in Placeholders(path), NEW j \in Placeholders(path) PROVE i = j
        OBVIOUS
      <4>1. i - n = j - n /\ i \in Nat /\ j \in Nat
        BY <3>1, <3>2 DEF Single
      <4> QED
        BY <1>2, <4>1
    <3> QED
      BY <2>2, <3>1, <3>2 DEF Single, Plain, Placeholders
  <2> QED
    BY <2>1, <2>2
<1> QED
  BY <1>0, <1>4 DEF Clear, path

\* A row of the table with one placeholder at most is of a clear path.
LEMMA RouteClear ==
    ASSUME NEW ns, NEW base, NEW r, (Single(base) /\ Plain(r[3])) \/ (Plain(base) /\ Single(r[3]))
    PROVE  Clear(Route(ns, base, r).path)
BY OnePlaceholder DEF Route

\* The keys of a placeholder, as a set.
Names(p) == {Keys(p)[m] : m \in DOMAIN Keys(p)}

\* The keys of a placeholder with four of them.
LEMMA FourKeys ==
    ASSUME NEW p, NEW a, NEW b, NEW c, NEW d, Keys(p) = <<a, b, c, d>>
    PROVE  Names(p) \subseteq {a, b, c, d}
<1> DEFINE k == <<a, b, c, d>>
<1>1. \A m \in DOMAIN k : k[m] \in {a, b, c, d}
  <2>1. \A m \in DOMAIN k : m \in {1, 2, 3, 4}
    OBVIOUS
  <2> QED
    BY <2>1
<1> HIDE DEF k
<1> QED
  BY <1>1 DEF Names, k

\* The placeholders that occur together, in the routes of a session, share no key.
LEMMA KeysApart ==
    \A a, b \in {"{sessionID}", "{messageID}", "{partID}", "{permissionID}"} :
        a # b => Apart(a, b)
<1>1. Names("{sessionID}") \subseteq {"sessionID", "sessionid", "session", "session_id"}
  <2>1. Keys("{sessionID}") = <<"sessionID", "sessionid", "session", "session_id">>
    BY DEF Keys, KeysOf
  <2> QED
    BY <2>1, FourKeys
<1>2. Names("{messageID}") \subseteq {"messageID", "messageid", "message", "message_id"}
  <2>1. Keys("{messageID}") = <<"messageID", "messageid", "message", "message_id">>
    BY DEF Keys, KeysOf
  <2> QED
    BY <2>1, FourKeys
<1>3. Names("{partID}") \subseteq {"partID", "partid", "part", "part_id"}
  <2>1. Keys("{partID}") = <<"partID", "partid", "part", "part_id">>
    BY DEF Keys, KeysOf
  <2> QED
    BY <2>1, FourKeys
<1>4. Names("{permissionID}") \subseteq {"permissionID", "permissionid", "permission", "permission_id"}
  <2>1. Keys("{permissionID}") = <<"permissionID", "permissionid", "permission", "permission_id">>
    BY DEF Keys, KeysOf
  <2> QED
    BY <2>1, FourKeys
<1>5. \A a, b \in {"{sessionID}", "{messageID}", "{partID}", "{permissionID}"} :
         a # b => Names(a) \cap Names(b) = {}
  BY <1>1, <1>2, <1>3, <1>4
<1>6. \A a, b : Names(a) \cap Names(b) = {} => Apart(a, b)
  BY DEF Names, Apart
<1> QED
  BY <1>5, <1>6

\* Concatenation to a sequence of two.
LEMMA Concat22 ==
    ASSUME NEW s, NEW t, IsSeq(s), IsSeq(t), Len(s) = 2
    PROVE  /\ DOMAIN (s \o t) = 1 .. 2 + Len(t)
           /\ Len(t) >= 1 => \A i \in {1, 2} : (s \o t)[i] = s[i]
           /\ \A i \in 1 .. Len(t) : (s \o t)[2 + i] = t[i]
<1> DEFINE n == Len(t)
<1>0. n \in Nat
  BY IsSeqConcat
<1>1. /\ DOMAIN (s \o t) = 1 .. Len(s) + Len(t)
      /\ \A i \in 1 .. Len(s) + Len(t) : (s \o t)[i] = IF i <= Len(s) THEN s[i] ELSE t[i - Len(s)]
  BY IsSeqConcat
<1> DEFINE st == s \o t
<1> HIDE DEF st
<1>2. /\ DOMAIN st = 1 .. 2 + n
      /\ \A i \in 1 .. 2 + n : st[i] = IF i <= 2 THEN s[i] ELSE t[i - 2]
  BY <1>0, <1>1 DEF st
<1> HIDE DEF n
<1>3. ASSUME NEW i \in 1 .. n PROVE st[2 + i] = t[i]
  <2>1. 2 + i \in 1 .. 2 + n /\ ~(2 + i <= 2) /\ (2 + i) - 2 = i
    BY <1>0
  <2> QED
    BY <1>2, <2>1
<1>4. n >= 1 => \A i \in {1, 2} : st[i] = s[i]
  BY <1>0, <1>2
<1> QED
  BY <1>2, <1>3, <1>4 DEF st, n

\* A path of four segments, of which every other is a placeholder.
LEMMA TwoPlaceholders ==
    ASSUME NEW base, NEW tail, IsSeq(base), IsSeq(tail), Len(base) = 2, Len(tail) = 2,
           ~IsPlaceholder(base[1]), ~IsPlaceholder(tail[1]),
           Apart(base[2], tail[2]), Apart(tail[2], base[2])
    PROVE  Clear(base \o tail)
<1> DEFINE path == base \o tail
<1>1. /\ DOMAIN path = 1 .. 2 + Len(tail)
      /\ Len(tail) >= 1 => \A i \in {1, 2} : path[i] = base[i]
      /\ \A i \in 1 .. Len(tail) : path[2 + i] = tail[i]
  BY Concat22
<1> HIDE DEF path
<1>2. path[1] = base[1] /\ path[2] = base[2] /\ path[2 + 1] = tail[1] /\ path[2 + 2] = tail[2]
  BY <1>1
<1>3. DOMAIN path = 1 .. 4 /\ \A i \in 1 .. 4 : i \in {1, 2, 3, 4}
  BY <1>1
<1>4. Placeholders(path) \subseteq {2, 4}
  BY <1>2, <1>3 DEF Placeholders
<1>5. path[2] = base[2] /\ path[4] = tail[2]
  BY <1>2
<1> QED
  BY <1>4, <1>5, IsSeqConcat DEF Clear, path

\* A path of six segments, of which every other is a placeholder.
LEMMA ThreePlaceholders ==
    ASSUME NEW base, NEW tail, IsSeq(base), IsSeq(tail), Len(base) = 2, Len(tail) = 4,
           ~IsPlaceholder(base[1]), ~IsPlaceholder(tail[1]), ~IsPlaceholder(tail[3]),
           \A a, b \in {base[2], tail[2], tail[4]} : a # b => Apart(a, b),
           base[2] # tail[2], base[2] # tail[4], tail[2] # tail[4]
    PROVE  Clear(base \o tail)
<1> DEFINE path == base \o tail
<1>1. /\ DOMAIN path = 1 .. 2 + Len(tail)
      /\ Len(tail) >= 1 => \A i \in {1, 2} : path[i] = base[i]
      /\ \A i \in 1 .. Len(tail) : path[2 + i] = tail[i]
  BY Concat22
<1> HIDE DEF path
<1>2. /\ path[1] = base[1] /\ path[2] = base[2] /\ path[2 + 1] = tail[1] /\ path[2 + 2] = tail[2]
      /\ path[2 + 3] = tail[3] /\ path[2 + 4] = tail[4]
  BY <1>1
<1>3. DOMAIN path = 1 .. 6 /\ \A i \in 1 .. 6 : i \in {1, 2, 3, 4, 5, 6}
  BY <1>1
<1>4. Placeholders(path) \subseteq {2, 4, 6}
  BY <1>2, <1>3 DEF Placeholders
<1>5. path[2] = base[2] /\ path[4] = tail[2] /\ path[6] = tail[4]
  BY <1>2
<1> QED
  BY <1>4, <1>5, IsSeqConcat DEF Clear, path

\* The rows of the table with more than one placeholder.
LEMMA SessionTails ==
    \A ns, name, method :
        LET session(tail) == Route(ns, <<"session", "{sessionID}">>, <<name, method, tail>>)
        IN  /\ Clear(session(<<"message", "{messageID}">>).path)
            /\ Clear(session(<<"permissions", "{permissionID}">>).path)
            /\ Clear(session(<<"message", "{messageID}", "part", "{partID}">>).path)
<1> DEFINE base == <<"session", "{sessionID}">>
           t1 == <<"message", "{messageID}">>
           t2 == <<"permissions", "{permissionID}">>
           t3 == <<"message", "{messageID}", "part", "{partID}">>
<1>1. /\ ~IsPlaceholder("message") /\ ~IsPlaceholder("permissions") /\ ~IsPlaceholder("part")
      /\ ~IsPlaceholder("session")
  BY DEF IsPlaceholder, KeysOf
<1>2. IsSeq(base) /\ Len(base) = 2 /\ base[1] = "session" /\ base[2] = "{sessionID}"
  BY Sequences
<1>3. IsSeq(t1) /\ Len(t1) = 2 /\ t1[1] = "message" /\ t1[2] = "{messageID}"
  BY Sequences
<1>4. IsSeq(t2) /\ Len(t2) = 2 /\ t2[1] = "permissions" /\ t2[2] = "{permissionID}"
  BY Sequences
<1>5. /\ IsSeq(t3) /\ Len(t3) = 4
      /\ t3[1] = "message" /\ t3[2] = "{messageID}" /\ t3[3] = "part" /\ t3[4] = "{partID}"
  <2>1. \A s, t, u, v : <<s, t, u, v>> \in Seq({s, t, u, v})
    OBVIOUS
  <2> QED
    BY <2>1 DEF IsSeq
<1>6. /\ Apart("{sessionID}", "{messageID}") /\ Apart("{messageID}", "{sessionID}")
      /\ Apart("{sessionID}", "{permissionID}") /\ Apart("{permissionID}", "{sessionID}")
  BY KeysApart
<1> HIDE DEF base, t1, t2, t3
<1>7. Clear(base \o t1)
  BY <1>1, <1>2, <1>3, <1>6, TwoPlaceholders
<1>8. Clear(base \o t2)
  BY <1>1, <1>2, <1>4, <1>6, TwoPlaceholders
<1>9. Clear(base \o t3)
  BY <1>1, <1>2, <1>5, KeysApart, ThreePlaceholders
<1> QED
  BY <1>7, <1>8, <1>9 DEF Route, base, t1, t2, t3

\* No two placeholders of an operation share a key, in any row of OPERATION_SPECS.
LEMMA TableClear == \A r \in OperationSpec : Clear(r.path)
<1>1. \A r \in AppOperations : Clear(r.path)
  BY Tails, Bases, RouteClear DEF On, AppOperations, IsPlaceholder, KeysOf
<1>2. \A r \in AuthOperations : Clear(r.path)
  BY Tails, Bases, RouteClear DEF On, AuthOperations, IsPlaceholder, KeysOf
<1>3. \A r \in CommandOperations : Clear(r.path)
  BY Tails, Bases, RouteClear DEF On, CommandOperations, IsPlaceholder, KeysOf
<1>4. \A r \in ConfigOperations : Clear(r.path)
  BY Tails, Bases, RouteClear DEF On, ConfigOperations, IsPlaceholder, KeysOf
<1>5. \A r \in EventOperations : Clear(r.path)
  BY Tails, Bases, RouteClear DEF On, EventOperations, IsPlaceholder, KeysOf
<1>6. \A r \in ExperimentalOperations : Clear(r.path)
  BY Tails, Bases, RouteClear DEF On, ExperimentalOperations, IsPlaceholder, KeysOf
<1>7. \A r \in FileOperations : Clear(r.path)
  BY Tails, Bases, RouteClear DEF On, FileOperations, IsPlaceholder, KeysOf
<1>8. \A r \in FindOperations : Clear(r.path)
  BY Tails, Bases, RouteClear DEF On, FindOperations, IsPlaceholder, KeysOf
<1>9. \A r \in FormatterOperations : Clear(r.path)
  BY Tails, Bases, RouteClear DEF On, FormatterOperations, IsPlaceholder, KeysOf
<1>10. \A r \in GlobalOperations : Clear(r.path)
  BY Tails, Bases, RouteClear DEF On, GlobalOperations, IsPlaceholder, KeysOf
<1>11. \A r \in InstanceOperations : Clear(r.path)
  BY Tails, Bases, RouteClear DEF On, InstanceOperations, IsPlaceholder, KeysOf
<1>12. \A r \in LspOperations : Clear(r.path)
  BY Tails, Bases, RouteClear DEF On, LspOperations, IsPlaceholder, KeysOf
<1>13. \A r \in McpOperations : Clear(r.path)
  BY Tails, Bases, RouteClear DEF On, McpOperations, IsPlaceholder, KeysOf
<1>14. \A r \in PartOperations : Clear(r.path)
  BY Tails, Bases, RouteClear, SessionTails DEF On, PartOperations, IsPlaceholder, KeysOf
<1>15. \A r \in PathOperations : Clear(r.path)
  BY Tails, Bases, RouteClear DEF On, PathOperations, IsPlaceholder, KeysOf
<1>16. \A r \in PermissionOperations : Clear(r.path)
  BY Tails, Bases, RouteClear, SessionTails DEF On, PermissionOperations, IsPlaceholder, KeysOf
<1>17. \A r \in ProjectOperations : Clear(r.path)
  BY Tails, Bases, RouteClear DEF On, ProjectOperations, IsPlaceholder, KeysOf
<1>18. \A r \in ProviderOperations : Clear(r.path)
  BY Tails, Bases, RouteClear DEF On, ProviderOperations, IsPlaceholder, KeysOf
<1>19. \A r \in PtyOperations : Clear(r.path)
  BY Tails, Bases, RouteClear DEF On, PtyOperations, IsPlaceholder, KeysOf
<1>20. \A r \in QuestionOperations : Clear(r.path)
  BY Tails, Bases, RouteClear DEF On, QuestionOperations, IsPlaceholder, KeysOf
<1>21. \A r \in SessionOperations : Clear(r.path)
  BY Tails, Bases, RouteClear, SessionTails DEF On, SessionOperations, IsPlaceholder, KeysOf
<1>22. \A r \in ToolOperations : Clear(r.path)
  BY Tails, Bases, RouteClear DEF On, ToolOperations, IsPlaceholder, KeysOf
<1>23. \A r \in TuiOperations : Clear(r.path)
  BY Tails, Bases, RouteClear DEF On, TuiOperations, IsPlaceholder, KeysOf
<1>24. \A r \in VcsOperations : Clear(r.path)
  BY Tails, Bases, RouteClear DEF On, VcsOperations, IsPlaceholder, KeysOf
<1>25. \A r \in WorktreeOperations : Clear(r.path)
  BY Tails, Bases, RouteClear DEF On, WorktreeOperations, IsPlaceholder, KeysOf
<1> QED
  BY <1>1, <1>2, <1>3, <1>4, <1>5, <1>6, <1>7, <1>8, <1>9, <1>10, <1>11, <1>12, <1>13,
     <1>14, <1>15, <1>16, <1>17, <1>18, <1>19, <1>20, <1>21, <1>22, <1>23, <1>24, <1>25 DEF OperationSpec

\* The two routes of the OAuth methods have one placeholder each.
LEMMA OauthClear == \A r \in OauthApi : Clear(r.path)
BY Tails, Bases, RouteClear DEF On, OauthApi, IsPlaceholder, KeysOf

\* A placeholder has keys.
LEMMA KeysAreNamed ==
    ASSUME NEW segment, IsPlaceholder(segment)
    PROVE  IsSeq(Keys(segment)) /\ Len(Keys(segment)) \in Nat /\ Len(Keys(segment)) >= 1
<1>1. \A a : IsSeq(<<a>>) /\ Len(<<a>>) = 1
  BY Sequences
<1>2. \A a, b, c, d : IsSeq(<<a, b, c, d>>) /\ Len(<<a, b, c, d>>) = 4
  <2> TAKE a, b, c, d
  <2>1. <<a, b, c, d>> \in Seq({a, b, c, d})
    OBVIOUS
  <2> QED
    BY <2>1 DEF IsSeq
<1>3. \/ \E a : Keys(segment) = <<a>>
      \/ \E a, b, c, d : Keys(segment) = <<a, b, c, d>>
  BY DEF Keys, KeysOf, IsPlaceholder
<1> QED
  BY <1>1, <1>2, <1>3

\* Min is the least number of a set.
LEMMA LeastIsMin ==
    ASSUME NEW S \in SUBSET Nat, S # {}
    PROVE  Min(S) \in S /\ \A k \in S : Min(S) <= k
BY LeastNumber DEF Min

\* In a path of several placeholders each is filled from a key of its own.
LEMMA ResolvedIsNamed ==
    ASSUME NEW params, NEW path, NEW i \in Placeholders(path), Cardinality(Placeholders(path)) # 1,
           ResolvePathValue(params, path, i) # NoKey
    PROVE  ResolvePathValue(params, path, i) \in Names(path[i])
<1> DEFINE keys == Keys(path[i]) \o Fallback(path)
           given == {n \in DOMAIN keys : keys[n] \in params}
<1>1. IsSeq(Keys(path[i])) /\ IsPlaceholder(path[i])
  BY KeysAreNamed DEF Placeholders
<1>2. keys = Keys(path[i])
  <2>1. Fallback(path) = <<>>
    BY DEF Fallback
  <2> QED
    BY <1>1, <2>1, ConcatEmptySeq DEF IsSeq
<1>3. given # {} /\ ResolvePathValue(params, path, i) = keys[Min(given)]
  BY DEF ResolvePathValue
<1>4. DOMAIN keys \subseteq Nat
  BY <1>1, <1>2, LenProperties DEF IsSeq
<1>5. Min(given) \in DOMAIN keys
  <2> HIDE DEF keys
  <2> QED
    BY <1>3, <1>4, LeastIsMin
<1> HIDE DEF keys, given
<1> QED
  BY <1>2, <1>3, <1>5 DEF Names

\* No two placeholders of a path whose placeholders share no key are filled from one.
LEMMA FilledApart ==
    ASSUME NEW params, NEW path, Clear(path), \A i \in Placeholders(path) : Filled(params, path)[i] # NoKey
    PROVE  IsInjective(Filled(params, path))
<1> DEFINE filled == Filled(params, path)
<1>1. /\ DOMAIN filled = Placeholders(path)
      /\ \A i \in Placeholders(path) : filled[i] = ResolvePathValue(params, path, i)
  BY DEF Filled
<1>2. IsFiniteSet(Placeholders(path))
  <2>1. IsFiniteSet(DOMAIN path)
    BY LenProperties, FS_Interval DEF Clear, IsSeq
  <2>2. Placeholders(path) \subseteq DOMAIN path
    BY DEF Placeholders
  <2> QED
    BY <2>1, <2>2, FS_Subset
<1>3. CASE Cardinality(Placeholders(path)) = 1
  <2>1. PICK x : Placeholders(path) = {x}
    BY <1>2, <1>3, FS_Singleton
  <2> QED
    BY <1>1, <2>1 DEF IsInjective
<1>4. CASE Cardinality(Placeholders(path)) # 1
  <2>1. \A i \in Placeholders(path) : filled[i] \in Names(path[i])
    BY <1>1, <1>4, ResolvedIsNamed
  <2>2. \A i, j \in Placeholders(path) : i # j => Names(path[i]) \cap Names(path[j]) = {}
    BY DEF Clear, Apart, Names
  <2> HIDE DEF filled
  <2> QED
    BY <1>1, <2>1, <2>2 DEF IsInjective, filled
<1> QED
  BY <1>3, <1>4

\* A parameter given under the exact name is the one that is taken.
LEMMA FirstKey ==
    ASSUME NEW params, NEW path, NEW i \in Placeholders(path), Keys(path[i])[1] \in params
    PROVE  ResolvePathValue(params, path, i) = Keys(path[i])[1]
<1> DEFINE fallback == Fallback(path)
           keys == Keys(path[i]) \o fallback
           given == {n \in DOMAIN keys : keys[n] \in params}
<1>1. IsSeq(Keys(path[i])) /\ Len(Keys(path[i])) \in Nat /\ Len(Keys(path[i])) >= 1
  BY KeysAreNamed DEF Placeholders
<1>2. IsSeq(fallback)
  BY Sequences DEF Fallback
<1>3. DOMAIN keys \subseteq Nat \ {0} /\ 1 \in DOMAIN keys /\ keys[1] = Keys(path[i])[1]
  <2> HIDE DEF fallback
  <2>1. Len(fallback) \in Nat
    BY <1>2, LenProperties DEF IsSeq
  <2>2. /\ DOMAIN keys = 1 .. Len(Keys(path[i])) + Len(fallback)
        /\ \A n \in 1 .. Len(Keys(path[i])) + Len(fallback) :
             keys[n] = IF n <= Len(Keys(path[i])) THEN Keys(path[i])[n] ELSE fallback[n - Len(Keys(path[i]))]
    BY <1>1, <1>2, IsSeqConcat
  <2> HIDE DEF keys
  <2> QED
    BY <1>1, <2>1, <2>2
<1> HIDE DEF keys
<1>4. 1 \in given /\ given \subseteq Nat \ {0}
  BY <1>3
<1>5. Min(given) = 1
  <2> HIDE DEF given
  <2>1. PICK m \in given : m = Min(given) /\ m <= 1
    BY <1>4, LeastIsMin
  <2>2. m \in Nat \ {0}
    BY <1>4
  <2> QED
    BY <2>1, <2>2
<1>6. ResolvePathValue(params, path, i) = keys[Min(given)]
  BY <1>4 DEF ResolvePathValue, keys
<1> QED
  BY <1>3, <1>5, <1>6

\* What the methods of the namespaces send, but for OAuth, are rows of the table.
LEMMA DirectIn == Direct \subseteq OauthApi \cup OperationSpec
<1>1. FindApi \subseteq FindOperations
  BY DEF On, FindApi, FindOperations
<1>2. SessionApi \subseteq SessionOperations \cup PartOperations \cup PermissionOperations
  BY DEF On, SessionApi, SessionOperations, PartOperations, PermissionOperations
<1>3. GlobalApi \subseteq GlobalOperations
  BY DEF On, GlobalApi, GlobalOperations
<1>4. ProjectApi \subseteq ProjectOperations
  BY DEF On, ProjectApi, ProjectOperations
<1>5. FileApi \subseteq FileOperations
  BY DEF On, FileApi, FileOperations
<1>6. LspApi \subseteq LspOperations
  BY DEF On, LspApi, LspOperations
<1>7. ToolApi \subseteq ToolOperations
  BY DEF On, ToolApi, ToolOperations
<1>8. McpApi \cup McpAuthApi \subseteq McpOperations
  BY DEF On, McpApi, McpAuthApi, McpOperations
<1>9. PtyApi \subseteq PtyOperations
  BY DEF On, PtyApi, PtyOperations
<1>10. EventApi \subseteq EventOperations
  BY DEF On, EventApi, EventOperations
<1>11. ProviderApi \subseteq ProviderOperations
  BY DEF On, ProviderApi, ProviderOperations
<1> QED
  BY <1>1, <1>2, <1>3, <1>4, <1>5, <1>6, <1>7, <1>8, <1>9, <1>10, <1>11 DEF Direct, OperationSpec

\* The routes that a call may take.
RoutesOf(via, op) == IF via = "method" THEN MethodRoutes(op) ELSE OperationRoutes(op)

\* What is sent is what Render makes of one of them.  RequestsAreAsNamed follows
\* from it alone, and the parameters of the call are part of it.
SentInv ==
    call.phase = "sent" =>
        call.request.sent /\ \E r \in RoutesOf(call.via, call.op) : call.request = Render(r, call.params)

\* send_request sends such a request.
LEMMA SendRequestInv ==
    ASSUME NEW via, NEW op, NEW stream, NEW route \in RoutesOf(via, op), NEW params,
           SendRequest(via, op, stream, route, params)
    PROVE  SentInv'
<1> DEFINE request == Render(route, params)
<1>1. CASE call'.phase = "sent"
  <2>1. /\ request.sent
        /\ call' = [phase |-> "sent", via |-> via, op |-> op, stream |-> stream,
                    params |-> params, request |-> request]
    <3>1. \A error : Refused(error) => call'.phase = "done"
      BY DEF Refused
    <3>2. ~Refused("missing parameter") /\ ~Refused("invalid")
      BY <1>1, <3>1
    <3> QED
      BY <3>2 DEF SendRequest
  <2> HIDE DEF request
  <2>2. call'.request = request /\ call'.via = via /\ call'.op = op /\ call'.params = params
    BY <2>1
  <2> QED
    BY <2>1, <2>2 DEF SentInv, request
<1> QED
  BY <1>1 DEF SentInv

\* Every step keeps SentInv.
LEMMA SentInvStep == SentInv /\ [Next]_vars => SentInv'
<1> SUFFICES ASSUME SentInv, [Next]_vars PROVE SentInv'
  OBVIOUS
<1>1. CASE call' = call
  BY <1>1 DEF SentInv
<1>2. \A outcome : Done(outcome) \/ Refused(outcome) => SentInv'
  BY DEF Done, Refused, SentInv
<1>3. ASSUME NEW op, NEW stream, NEW params, CallOperation(op, stream, params) PROVE SentInv'
  <2>1. CASE \E r \in OperationRoutes(op) : SendRequest("operation", op, stream, r, params)
    BY <2>1, SendRequestInv DEF RoutesOf
  <2> QED
    BY <1>2, <1>3, <2>1 DEF CallOperation
<1>4. ASSUME NEW op, NEW params, CallMethod(op, params) PROVE SentInv'
  <2>1. PICK r \in MethodRoutes(op) : SendRequest("method", op, op \in SseOperations, r, params)
    BY <1>4 DEF CallMethod
  <2>2. r \in RoutesOf("method", op)
    BY DEF RoutesOf
  <2> QED
    BY <2>1, <2>2, SendRequestInv
<1>5. CASE AnswerJson \/ AnswerStream \/ RequestFails
  BY <1>2, <1>5 DEF AnswerJson, AnswerStream, RequestFails
<1>6. CASE PullChunk \/ PullEnd \/ PullFails \/ DropStream
  BY <1>1, <1>6 DEF PullChunk, PullEnd, PullFails, DropStream
<1> QED
  BY <1>1, <1>3, <1>4, <1>5, <1>6 DEF Next, Client, Server, vars

\* No two placeholders of a route that a call may take share a key.
LEMMA RoutesClear ==
    ASSUME NEW via, NEW op, NEW r \in RoutesOf(via, op)
    PROVE  Clear(r.path)
<1>1. r \in OauthApi \cup OperationSpec
  BY DirectIn DEF RoutesOf, MethodRoutes, OperationRoutes
<1> QED
  BY <1>1, TableClear, OauthClear

\* A method of a namespace sends a route of its operation.
LEMMA MethodsAreOperations ==
    ASSUME NEW op, op \notin {r.op : r \in OauthApi}
    PROVE  MethodRoutes(op) \subseteq OperationRoutes(op)
BY DirectIn DEF MethodRoutes, OperationRoutes

\* A request that is sent has all of its placeholders filled.
LEMMA Rendered ==
    ASSUME NEW r, NEW params, Render(r, params).sent
    PROVE  /\ Render(r, params).filled = Filled(params, r.path)
           /\ \A i \in Placeholders(r.path) : Filled(params, r.path)[i] # NoKey
<1> DEFINE filled == Filled(params, r.path)
<1>1. DOMAIN filled = Placeholders(r.path)
  BY DEF Filled
<1> HIDE DEF filled
<1>2. NoKey \notin {filled[i] : i \in DOMAIN filled}
  BY DEF Render, filled
<1> QED
  BY <1>1, <1>2 DEF Render, filled

\* Every request is the one its caller named (Opencode.RequestsAreAsNamed): of all the
\* operations and methods, for any parameters, no placeholder is filled from the
\* value of another (resolve_path_value, render_path).
THEOREM EachIsAsNamed == Spec => []RequestsAreAsNamed
<1>1. Init => SentInv
  BY DEF Init, NoCall, SentInv
<1>2. SentInv => RequestsAreAsNamed
  <2> SUFFICES ASSUME SentInv, call.phase = "sent" PROVE NoAccidentalSubstitution /\ MethodIsOperation
    BY DEF RequestsAreAsNamed
  <2>1. PICK r \in RoutesOf(call.via, call.op) : call.request = Render(r, call.params) /\ call.request.sent
    BY DEF SentInv
  <2>2. IsInjective(call.request.filled)
    BY <2>1, Rendered, RoutesClear, FilledApart
  <2>3. ASSUME NEW q, call.request = Render(q, call.params),
               \A i \in Placeholders(q.path) : Keys(q.path[i])[1] \in call.params
        PROVE  call.request.filled = [i \in Placeholders(q.path) |-> Keys(q.path[i])[1]]
    <3>1. call.request.filled = [i \in Placeholders(q.path) |-> ResolvePathValue(call.params, q.path, i)]
      BY <2>1, <2>3, Rendered DEF Filled
    <3>2. \A i \in Placeholders(q.path) : ResolvePathValue(call.params, q.path, i) = Keys(q.path[i])[1]
      BY <2>3, FirstKey
    <3> QED
      BY <3>1, <3>2
  <2>4. NoAccidentalSubstitution
    BY <2>2, <2>3 DEF NoAccidentalSubstitution
  <2>5. MethodIsOperation
    BY <2>1, MethodsAreOperations DEF MethodIsOperation, RoutesOf
  <2> QED
    BY <2>4, <2>5
<1> QED
  BY <1>1, <1>2, SentInvStep, PTL DEF Spec

----------------------------------------------------------------------------
(* EventsAreWhole: the state of the parser is a function of the bytes it has  *)
(* read, however they were cut into chunks, and that function is the reading  *)
(* of the whole.                                                              *)

\* Where the piece that ends before n begins.
Start(s, n, separator) ==
    LET cuts == {m \in 1 .. n - 1 : s[m] = separator}
    IN  IF cuts = {} THEN 1 ELSE Max(cuts) + 1

\* A piece begins before its end n, or is empty.
LEMMA StartInRange ==
    ASSUME NEW s, NEW n \in Nat \ {0}, NEW separator
    PROVE  Start(s, n, separator) \in 1 .. n
<1> DEFINE cuts == {m \in 1 .. n - 1 : s[m] = separator}
<1>1. CASE cuts = {}
  BY <1>1 DEF Start
<1>2. CASE cuts # {}
  <2>1. cuts \in SUBSET (1 .. n - 1) /\ n - 1 \in Nat
    OBVIOUS
  <2>2. PICK x \in cuts : x = Max(cuts)
    <3> HIDE DEF cuts
    <3> QED
      BY <1>2, <2>1, GreatestIsMax
  <2>3. x + 1 \in 1 .. n
    OBVIOUS
  <2> QED
    BY <1>2, <2>2, <2>3 DEF Start
<1> QED
  BY <1>1, <1>2

\* Start and Piece agree.
LEMMA PieceIs ==
    ASSUME NEW s, NEW n, NEW separator
    PROVE  Piece(s, n, separator) = SubSeq(s, Start(s, n, separator), n - 1)
BY DEF Piece, Start

\* A piece of a sequence is of the same elements.
LEMMA PieceType ==
    ASSUME NEW A, NEW s \in Seq(A), NEW n \in 1 .. Len(s) + 1, NEW separator
    PROVE  Piece(s, n, separator) \in Seq(A)
<1>1. Len(s) \in Nat /\ \A i \in 1 .. Len(s) : s[i] \in A
  BY LenProperties, ElementOfSeq
<1>2. PICK k \in 1 .. n : k = Start(s, n, separator)
  BY <1>1, StartInRange
<1>3. k \in Int /\ n - 1 \in Int /\ \A i \in k .. n - 1 : s[i] \in A
  BY <1>1
<1> QED
  BY <1>2, <1>3, PieceIs, SubSeqProperties

\* What came before does not change.
LEMMA PieceKeeps ==
    ASSUME NEW A, NEW s \in Seq(A), NEW e \in A, NEW n \in 1 .. Len(s) + 1, NEW separator
    PROVE  Piece(Append(s, e), n, separator) = Piece(s, n, separator)
<1> DEFINE t == Append(s, e)
<1>1. Len(s) \in Nat /\ \A i \in 1 .. Len(s) : t[i] = s[i]
  BY AppendProperties, LenProperties
<1>2. \A i \in 1 .. n - 1 : t[i] = s[i]
  BY <1>1
<1> HIDE DEF t
<1>3. Start(t, n, separator) = Start(s, n, separator)
  <2>1. {m \in 1 .. n - 1 : t[m] = separator} = {m \in 1 .. n - 1 : s[m] = separator}
    BY <1>2
  <2> QED
    BY <2>1 DEF Start
<1>4. PICK k \in 1 .. n : k = Start(s, n, separator)
  BY <1>1, StartInRange
<1>5. \A i \in k .. n - 1 : t[i] = s[i]
  BY <1>2
<1>6. SubSeq(t, k, n - 1) = SubSeq(s, k, n - 1)
  BY <1>1, <1>5
<1> QED
  BY <1>3, <1>4, <1>6, PieceIs DEF t

\* After a separator nothing is left.
LEMMA RestAfterCut ==
    ASSUME NEW A, NEW s \in Seq(A), NEW e \in A
    PROVE  Piece(Append(s, e), Len(s) + 2, e) = <<>>
<1> DEFINE t == Append(s, e)
           n == Len(s) + 2
           cuts == {m \in 1 .. n - 1 : t[m] = e}
<1>1. Len(s) \in Nat /\ t[Len(s) + 1] = e
  BY AppendProperties, LenProperties
<1> HIDE DEF t
<1>2. n - 1 \in cuts /\ n - 1 = Len(s) + 1 /\ n \in Nat
  BY <1>1
<1>3. PICK x \in cuts : x = Max(cuts) /\ n - 1 <= x
  <2>1. cuts \in SUBSET (1 .. n - 1) /\ cuts # {} /\ n - 1 \in Nat
    BY <1>1, <1>2
  <2> HIDE DEF cuts, n
  <2> QED
    BY <1>2, <2>1, GreatestIsMax
<1>4. x + 1 = n
  BY <1>1, <1>2, <1>3
<1>5. Start(t, n, e) = n
  <2>1. Start(t, n, e) = Max(cuts) + 1
    BY <1>2 DEF Start
  <2> QED
    BY <1>3, <1>4, <2>1
<1>6. SubSeq(t, n, n - 1) = <<>>
  BY <1>2, SubSeqEmpty
<1> QED
  BY <1>5, <1>6, PieceIs DEF t

\* What is no separator is added to what is left.
LEMMA RestGrows ==
    ASSUME NEW A, NEW s \in Seq(A), NEW e \in A, NEW separator, e # separator
    PROVE  Piece(Append(s, e), Len(s) + 2, separator) = Append(Piece(s, Len(s) + 1, separator), e)
<1> DEFINE t == Append(s, e)
           n == Len(s) + 1
<1>1. /\ Len(s) \in Nat /\ n \in Nat \ {0} /\ t[n] = e /\ n = Len(s) + 1 /\ n + 1 = Len(s) + 2
      /\ \A i \in 1 .. n - 1 : t[i] = s[i]
      /\ \A i \in 1 .. n - 1 : s[i] \in A
  BY AppendProperties, LenProperties, ElementOfSeq
<1> HIDE DEF t, n
<1>2. {m \in 1 .. (n + 1) - 1 : t[m] = separator} = {m \in 1 .. n - 1 : s[m] = separator}
  BY <1>1
<1>3. Start(t, n + 1, separator) = Start(s, n, separator)
  BY <1>2 DEF Start
<1>4. PICK k \in 1 .. n : k = Start(s, n, separator)
  BY <1>1, StartInRange
<1>5. SubSeq(t, k, (n + 1) - 1) = Append(SubSeq(s, k, n - 1), e)
  <2> DEFINE a == SubSeq(t, k, (n + 1) - 1)
             b == SubSeq(s, k, n - 1)
  <2>1. /\ a \in Seq(A) /\ Len(a) = n - k + 1
        /\ \A i \in 1 .. n - k + 1 : a[i] = t[k + i - 1]
    <3>1. k \in Int /\ n \in Int /\ (n + 1) - 1 = n /\ k <= n /\ \A i \in k .. n : t[i] \in A
      BY <1>1
    <3> QED
      BY <3>1, SubSeqProperties
  <2>2. /\ b \in Seq(A) /\ Len(b) = n - k
        /\ \A i \in 1 .. n - k : b[i] = s[k + i - 1]
    <3>1. k \in Int /\ n - 1 \in Int /\ (n - 1) - k + 1 = n - k /\ \A i \in k .. n - 1 : s[i] \in A
      BY <1>1
    <3>2. n - k = IF k <= n - 1 THEN (n - 1) - k + 1 ELSE 0
      BY <1>1
    <3> QED
      BY <3>1, <3>2, SubSeqProperties
  <2>3. /\ Append(b, e) \in Seq(A) /\ Len(Append(b, e)) = n - k + 1
        /\ \A i \in 1 .. n - k : Append(b, e)[i] = b[i]
        /\ Append(b, e)[n - k + 1] = e
    BY <2>2, AppendProperties
  <2> HIDE DEF a, b
  <2>4. ASSUME NEW i \in 1 .. n - k + 1 PROVE a[i] = Append(b, e)[i]
    <3>1. CASE i = n - k + 1
      <4>1. k + i - 1 = n
        BY <1>1, <3>1
      <4> QED
        BY <1>1, <2>1, <2>3, <3>1, <4>1
    <3>2. CASE i # n - k + 1
      <4>1. i \in 1 .. n - k /\ k + i - 1 \in 1 .. n - 1
        BY <1>1, <3>2
      <4> QED
        BY <1>1, <2>1, <2>2, <2>3, <4>1
    <3> QED
      BY <3>1, <3>2
  <2> QED
    BY <2>1, <2>3, <2>4, SeqEqual DEF a, b
<1> QED
  BY <1>1, <1>3, <1>4, <1>5, PieceIs DEF t

\* What lines of bytes of A are decoded to.
DecodedLines(A) == {Decoded(x) : x \in Seq(A)}
\* The line that each byte would end.
LineEnds(t) == [n \in DOMAIN t |-> Decoded(Piece(t, n, LF))]

\* The lines that the bytes would end are decoded lines, one for each byte.
LEMMA LineEndsType ==
    ASSUME NEW A, NEW t \in Seq(A)
    PROVE  LineEnds(t) \in Seq(DecodedLines(A)) /\ Len(LineEnds(t)) = Len(t)
<1>1. DOMAIN t = 1 .. Len(t) /\ Len(t) \in Nat
  BY LenProperties
<1>2. ASSUME NEW n \in 1 .. Len(t) PROVE Decoded(Piece(t, n, LF)) \in DecodedLines(A)
  <2>1. Piece(t, n, LF) \in Seq(A)
    <3>1. n \in 1 .. Len(t) + 1
      BY <1>1
    <3> QED
      BY <3>1, PieceType
  <2> QED
    BY <2>1 DEF DecodedLines
<1>3. LineEnds(t) = [n \in 1 .. Len(t) |-> Decoded(Piece(t, n, LF))]
  BY <1>1 DEF LineEnds
<1>4. LineEnds(t) \in [1 .. Len(t) -> DecodedLines(A)]
  BY <1>2, <1>3
<1> QED
  BY <1>1, <1>4, SeqDef, LenProperties

\* An LF ends a line, and any other byte leaves the lines as they are.
LEMMA LinesStep ==
    ASSUME NEW A, NEW t \in Seq(A), NEW b \in A
    PROVE  /\ Lines(t) \in Seq(DecodedLines(A))
           /\ b # LF => Lines(Append(t, b)) = Lines(t)
           /\ b = LF => Lines(Append(t, b)) = Append(Lines(t), Decoded(Piece(t, Len(t) + 1, LF)))
<1> DEFINE D == DecodedLines(A)
           u == Append(t, b)
           s == LineEnds(t)
           e == Decoded(Piece(t, Len(t) + 1, LF))
           V == {n \in DOMAIN t : t[n] = LF}
           W == {n \in DOMAIN u : u[n] = LF}
<1>1. /\ Len(t) \in Nat /\ u \in Seq(A) /\ Len(u) = Len(t) + 1 /\ u[Len(t) + 1] = b
      /\ DOMAIN t = 1 .. Len(t) /\ DOMAIN u = 1 .. Len(t) + 1
      /\ \A i \in 1 .. Len(t) : u[i] = t[i]
  BY AppendProperties, LenProperties
<1>2. s \in Seq(D) /\ Len(s) = Len(t) /\ LineEnds(u) \in Seq(D) /\ Len(LineEnds(u)) = Len(t) + 1
  BY <1>1, LineEndsType
<1>3. e \in D
  <2>1. Len(t) + 1 \in 1 .. Len(t) + 1
    BY <1>1
  <2> QED
    BY <2>1, PieceType DEF DecodedLines
<1>4. LineEnds(u) = Append(s, e)
  <2>1. \A n \in 1 .. Len(t) + 1 : Piece(u, n, LF) = Piece(t, n, LF)
    BY PieceKeeps
  <2>2. \A n \in 1 .. Len(t) : LineEnds(u)[n] = s[n]
    <3> SUFFICES ASSUME NEW n \in 1 .. Len(t) PROVE LineEnds(u)[n] = s[n]
      OBVIOUS
    <3>1. n \in 1 .. Len(t) + 1 /\ n \in DOMAIN u /\ n \in DOMAIN t
      BY <1>1
    <3> HIDE DEF u
    <3> QED
      BY <2>1, <3>1 DEF LineEnds
  <2>3. LineEnds(u)[Len(t) + 1] = e
    <3>1. Len(t) + 1 \in DOMAIN u /\ Len(t) + 1 \in 1 .. Len(t) + 1
      BY <1>1
    <3> HIDE DEF u
    <3> QED
      BY <2>1, <3>1 DEF LineEnds
  <2> HIDE DEF s, e, u, D
  <2> QED
    BY <1>2, <1>3, <2>2, <2>3, IsAppend
<1>5. Lines(t) = Keep(s, V) /\ Lines(u) = Keep(LineEnds(u), W)
  BY DEF Lines, LineEnds
<1>6. /\ \A i \in 1 .. Len(s) : i \in W <=> i \in V
      /\ Len(s) + 1 \in W <=> b = LF
  <2> HIDE DEF u, s
  <2> QED
    BY <1>1, <1>2
<1> HIDE DEF s, V, W, u, e, D
<1>7. /\ Keep(s, V) \in Seq(D)
      /\ Len(s) + 1 \in W => Keep(Append(s, e), W) = Append(Keep(s, V), e)
      /\ Len(s) + 1 \notin W => Keep(Append(s, e), W) = Keep(s, V)
  BY <1>2, <1>3, <1>6, KeepStep
<1> QED
  BY <1>4, <1>5, <1>6, <1>7 DEF u, e, D

\* The last of the values at some places.
LastOf(values, places) == IF places = {} THEN None ELSE Some(values[Max(places)])

\* The last of some values is the same when there are values more.
LEMMA LastStays ==
    ASSUME NEW A, NEW values \in Seq(A), NEW e \in A, NEW places,
           \A p \in places : p \in 1 .. Len(values)
    PROVE  LastOf(Append(values, e), places) = LastOf(values, places)
<1> DEFINE longer == Append(values, e)
<1>1. Len(values) \in Nat /\ \A i \in 1 .. Len(values) : longer[i] = values[i]
  BY AppendProperties, LenProperties
<1> HIDE DEF longer
<1>2. CASE places = {}
  BY <1>2 DEF LastOf, longer
<1>3. CASE places # {}
  <2>1. Max(places) \in 1 .. Len(values)
    <3>1. places \in SUBSET (1 .. Len(values)) /\ Len(values) \in Nat
      BY <1>1
    <3> QED
      BY <1>3, <3>1, GreatestIsMax
  <2>2. LastOf(longer, places) = LastOf(values, places)
    BY <1>1, <1>3, <2>1 DEF LastOf
  <2> QED
    BY <2>2 DEF longer
<1> QED
  BY <1>2, <1>3

\* A value that is added at one of the places is the last.
LEMMA LastIsNew ==
    ASSUME NEW A, NEW values \in Seq(A), NEW e \in A, NEW places, Len(values) + 1 \in places,
           \A p \in places : p \in 1 .. Len(values) \/ p = Len(values) + 1
    PROVE  LastOf(Append(values, e), places) = Some(e)
<1>1. PICK n \in Nat : n = Len(values)
  BY LenProperties
<1>2. Append(values, e)[n + 1] = e
  BY <1>1, AppendProperties
<1>3. places \in SUBSET (1 .. n + 1) /\ places # {} /\ n + 1 \in Nat /\ n + 1 \in places
  BY <1>1
<1>4. PICK x \in places : x = Max(places) /\ n + 1 <= x
  BY <1>3, GreatestIsMax
<1>5. x = n + 1
  BY <1>3, <1>4
<1> QED
  BY <1>2, <1>3, <1>4, <1>5 DEF LastOf

\* The values of the lines of a block, and the places of each field.
Values(block) == [n \in DOMAIN block |-> Value(block[n])]
Of(block, field) == {n \in DOMAIN block : Field(block[n]) = field}
NumbersOf(block, field) == {n \in Of(block, field) : IsNumber(Values(block)[n])}
DataPlaces(block, field) ==
    {n \in Of(block, field) : \E m \in Of(block, field) : m <= n /\ Values(block)[m] # <<>>}

ValuesOf(D) == {Value(x) : x \in D}

\* The values of a longer block.
LEMMA ValuesGrow ==
    ASSUME NEW D, NEW block \in Seq(D), NEW line \in D
    PROVE  /\ Values(block) \in Seq(ValuesOf(D)) /\ Len(Values(block)) = Len(block)
           /\ Value(line) \in ValuesOf(D)
           /\ Values(Append(block, line)) = Append(Values(block), Value(line))
<1>1. ASSUME NEW s \in Seq(D) PROVE Values(s) \in Seq(ValuesOf(D)) /\ Len(Values(s)) = Len(s)
  <2>1. DOMAIN s = 1 .. Len(s) /\ Len(s) \in Nat /\ \A n \in 1 .. Len(s) : s[n] \in D
    BY LenProperties, ElementOfSeq
  <2>2. Values(s) \in [1 .. Len(s) -> ValuesOf(D)]
    <3>1. Values(s) = [n \in 1 .. Len(s) |-> Value(s[n])]
      BY <2>1 DEF Values
    <3>2. \A n \in 1 .. Len(s) : Value(s[n]) \in ValuesOf(D)
      BY <2>1 DEF ValuesOf
    <3> QED
      BY <3>1, <3>2
  <2> QED
    BY <2>1, <2>2, SeqDef, LenProperties
<1>2. Value(line) \in ValuesOf(D)
  BY DEF ValuesOf
<1>3. PICK s \in Seq(D) : /\ s = Append(block, line) /\ Len(s) = Len(block) + 1
                          /\ s[Len(block) + 1] = line
                          /\ \A i \in 1 .. Len(block) : s[i] = block[i]
  <2>1. PICK s : s = Append(block, line)
    OBVIOUS
  <2>2. s \in Seq(D) /\ Len(s) = Len(block) + 1
    BY <2>1, AppendProperties
  <2>3. s[Len(block) + 1] = line
    BY <2>1, AppendProperties
  <2>4. \A i \in 1 .. Len(block) : s[i] = block[i]
    BY <2>1, AppendProperties
  <2> QED
    BY <2>1, <2>2, <2>3, <2>4
<1>4. /\ Len(block) \in Nat /\ DOMAIN block = 1 .. Len(block) /\ DOMAIN s = 1 .. Len(block) + 1
      /\ Len(block) + 1 \in 1 .. Len(block) + 1
      /\ \A i \in 1 .. Len(block) : i \in 1 .. Len(block) + 1
  BY <1>3, LenProperties
<1>5. Values(s)[Len(block) + 1] = Value(line) /\ \A i \in 1 .. Len(block) : Values(s)[i] = Values(block)[i]
  BY <1>3, <1>4 DEF Values
<1>6. /\ Values(s) \in Seq(ValuesOf(D)) /\ Len(Values(s)) = Len(Values(block)) + 1
      /\ Values(block) \in Seq(ValuesOf(D)) /\ Len(Values(block)) = Len(block)
  BY <1>1, <1>3
<1>7. Values(s) = Append(Values(block), Value(line))
  BY <1>2, <1>5, <1>6, IsAppend
<1> QED
  BY <1>2, <1>3, <1>6, <1>7

\* The places of the fields of a block, and of a longer one.
LEMMA PlacesGrow ==
    ASSUME NEW D, NEW block \in Seq(D), NEW line \in D, NEW field
    PROVE  LET n == Len(block)
               longer == Append(block, line)
           IN  /\ Of(block, field) \in SUBSET (1 .. n)
               /\ NumbersOf(block, field) \in SUBSET (1 .. n)
               /\ Field(line) = field => Of(longer, field) = Of(block, field) \cup {n + 1}
               /\ Field(line) # field => Of(longer, field) = Of(block, field)
               /\ Field(line) = field /\ IsNumber(Value(line)) =>
                    NumbersOf(longer, field) = NumbersOf(block, field) \cup {n + 1}
               /\ ~(Field(line) = field /\ IsNumber(Value(line))) =>
                    NumbersOf(longer, field) = NumbersOf(block, field)
<1>1. PICK s \in Seq(D) : /\ s = Append(block, line) /\ Len(s) = Len(block) + 1
                          /\ s[Len(block) + 1] = line
                          /\ \A i \in 1 .. Len(block) : s[i] = block[i]
  <2>1. PICK s : s = Append(block, line)
    OBVIOUS
  <2>2. s \in Seq(D) /\ Len(s) = Len(block) + 1
    BY <2>1, AppendProperties
  <2>3. s[Len(block) + 1] = line
    BY <2>1, AppendProperties
  <2>4. \A i \in 1 .. Len(block) : s[i] = block[i]
    BY <2>1, AppendProperties
  <2> QED
    BY <2>1, <2>2, <2>3, <2>4
<1>2. PICK n \in Nat : n = Len(block)
  BY LenProperties
<1>3. DOMAIN block = 1 .. n /\ DOMAIN s = 1 .. n + 1 /\ s[n + 1] = line /\ \A i \in 1 .. n : s[i] = block[i]
  BY <1>1, <1>2, LenProperties
<1>4. /\ \A i : i \in 1 .. n + 1 <=> i \in 1 .. n \/ i = n + 1
      /\ n + 1 \notin 1 .. n
  BY <1>2
<1>5. /\ Of(block, field) \in SUBSET (1 .. n)
      /\ Field(line) = field => Of(s, field) = Of(block, field) \cup {n + 1}
      /\ Field(line) # field => Of(s, field) = Of(block, field)
  BY <1>3, <1>4 DEF Of
<1>6. Values(s)[n + 1] = Value(line) /\ \A i \in 1 .. n : Values(s)[i] = Values(block)[i]
  BY <1>3, <1>4 DEF Values
<1>7. /\ NumbersOf(block, field) \in SUBSET (1 .. n)
      /\ \A i \in 1 .. n : i \in NumbersOf(s, field) <=> i \in NumbersOf(block, field)
      /\ n + 1 \in NumbersOf(s, field) <=> Field(line) = field /\ IsNumber(Value(line))
      /\ NumbersOf(s, field) \in SUBSET (1 .. n + 1)
  <2>1. \A i \in 1 .. n : i \in Of(s, field) <=> i \in Of(block, field)
    BY <1>4, <1>5
  <2>2. n + 1 \in Of(s, field) <=> Field(line) = field
    BY <1>4, <1>5
  <2>3. Of(s, field) \in SUBSET (1 .. n + 1)
    BY <1>4, <1>5
  <2> QED
    BY <1>5, <1>6, <2>1, <2>2, <2>3 DEF NumbersOf
<1>8. /\ Field(line) = field /\ IsNumber(Value(line)) =>
           NumbersOf(s, field) = NumbersOf(block, field) \cup {n + 1}
      /\ ~(Field(line) = field /\ IsNumber(Value(line))) =>
           NumbersOf(s, field) = NumbersOf(block, field)
  BY <1>4, <1>7
<1> QED
  BY <1>1, <1>2, <1>5, <1>7, <1>8

\* The places of the data of a longer block.
LEMMA DataGrows ==
    ASSUME NEW D, NEW block \in Seq(D), NEW line \in D, NEW field
    PROVE  LET n == Len(block)
               longer == Append(block, line)
               some == \E m \in Of(block, field) : Values(block)[m] # <<>>
           IN  /\ \A i \in 1 .. n : i \in DataPlaces(longer, field) <=> i \in DataPlaces(block, field)
               /\ n + 1 \in DataPlaces(longer, field) <=>
                    Field(line) = field /\ (Value(line) # <<>> \/ some)
               /\ some <=> \E i \in 1 .. n : i \in DataPlaces(block, field)
<1>1. PICK n \in Nat : n = Len(block)
  BY LenProperties
<1>2. PICK s \in Seq(D) : s = Append(block, line)
  BY AppendProperties
<1>3. /\ Of(block, field) \in SUBSET (1 .. n)
      /\ Field(line) = field => Of(s, field) = Of(block, field) \cup {n + 1}
      /\ Field(line) # field => Of(s, field) = Of(block, field)
  BY <1>1, <1>2, PlacesGrow
<1>4. Values(s)[n + 1] = Value(line) /\ \A i \in 1 .. n : Values(s)[i] = Values(block)[i]
  <2>1. /\ Values(s) = Append(Values(block), Value(line))
        /\ Values(block) \in Seq(ValuesOf(D)) /\ Len(Values(block)) = n /\ Value(line) \in ValuesOf(D)
    BY <1>1, <1>2, ValuesGrow
  <2> QED
    BY <2>1, AppendProperties
<1>5. /\ \A i \in 1 .. n : i \in Of(s, field) <=> i \in Of(block, field)
      /\ n + 1 \in Of(s, field) <=> Field(line) = field
      /\ Of(s, field) \in SUBSET (1 .. n + 1)
  <2>1. /\ \A i : i \in 1 .. n + 1 <=> i \in 1 .. n \/ i = n + 1
        /\ n + 1 \notin 1 .. n
    BY <1>1
  <2> QED
    BY <1>3, <2>1
<1>6. ASSUME NEW i \in 1 .. n PROVE i \in DataPlaces(s, field) <=> i \in DataPlaces(block, field)
  <2>1. \A m \in Of(s, field) : m <= i => m \in 1 .. n
    BY <1>5
  <2>2. (\E m \in Of(s, field) : m <= i /\ Values(s)[m] # <<>>)
          <=> (\E m \in Of(block, field) : m <= i /\ Values(block)[m] # <<>>)
    BY <1>3, <1>4, <1>5, <2>1
  <2> QED
    BY <1>5, <2>2 DEF DataPlaces
<1>7. n + 1 \in DataPlaces(s, field) <=>
        Field(line) = field /\ (Value(line) # <<>> \/ \E m \in Of(block, field) : Values(block)[m] # <<>>)
  <2>1. \A m \in Of(s, field) : m <= n + 1 /\ (m = n + 1 \/ m \in 1 .. n)
    BY <1>5
  <2>2. (\E m \in Of(s, field) : m <= n + 1 /\ Values(s)[m] # <<>>)
          <=> \/ n + 1 \in Of(s, field) /\ Value(line) # <<>>
              \/ \E m \in Of(block, field) : Values(block)[m] # <<>>
    <3>1. \A m \in Of(block, field) : m \in Of(s, field) /\ Values(s)[m] = Values(block)[m]
      BY <1>3, <1>4, <1>5
    <3>2. \A m \in Of(s, field) : m = n + 1 \/ (m \in Of(block, field) /\ Values(s)[m] = Values(block)[m])
      BY <1>4, <1>5, <2>1
    <3> QED
      BY <1>4, <2>1, <3>1, <3>2
  <2>3. n + 1 \in DataPlaces(s, field) <=>
          n + 1 \in Of(s, field) /\ \E m \in Of(s, field) : m <= n + 1 /\ Values(s)[m] # <<>>
    BY DEF DataPlaces
  <2> QED
    BY <1>5, <2>2, <2>3
<1>8. (\E m \in Of(block, field) : Values(block)[m] # <<>>)
         <=> \E i \in 1 .. n : i \in DataPlaces(block, field)
  <2>1. \A m \in Of(block, field) : m <= m /\ m \in 1 .. n
    BY <1>3
  <2> QED
    BY <2>1 DEF DataPlaces
<1> QED
  BY <1>1, <1>2, <1>6, <1>7, <1>8

\* EventOf in the terms above, for any names of its fields.
Event(block, f1, f2, f3, f4) ==
    [event |-> LastOf(Values(block), Of(block, f1)), id |-> LastOf(Values(block), Of(block, f2)),
     retry |-> LastOf(Values(block), NumbersOf(block, f3)),
     data |-> Keep(Values(block), DataPlaces(block, f4))]

\* EventOf is of that form, with the names of the four fields.
LEMMA EventIs ==
    ASSUME NEW block PROVE EventOf(block) = Event(block, "event", "id", "retry", "data")
BY DEF EventOf, Event, LastOf, Values, Of, NumbersOf, DataPlaces

\* One field of the event, as a line more changes it.
LEMMA FieldGrows ==
    ASSUME NEW D, NEW block \in Seq(D), NEW line \in D, NEW field
    PROVE  LET longer == Append(block, line)
               of(b) == LastOf(Values(b), Of(b, field))
               number(b) == LastOf(Values(b), NumbersOf(b, field))
           IN  /\ Field(line) = field => of(longer) = Some(Value(line))
               /\ Field(line) # field => of(longer) = of(block)
               /\ Field(line) = field /\ IsNumber(Value(line)) => number(longer) = Some(Value(line))
               /\ ~(Field(line) = field /\ IsNumber(Value(line))) => number(longer) = number(block)
<1>1. PICK s \in Seq(D) : s = Append(block, line)
  BY AppendProperties
<1>2. /\ Values(s) = Append(Values(block), Value(line))
      /\ Values(block) \in Seq(ValuesOf(D)) /\ Len(Values(block)) = Len(block)
      /\ Value(line) \in ValuesOf(D)
  BY <1>1, ValuesGrow
<1>3. /\ Of(block, field) \in SUBSET (1 .. Len(block))
      /\ NumbersOf(block, field) \in SUBSET (1 .. Len(block))
      /\ Field(line) = field => Of(s, field) = Of(block, field) \cup {Len(block) + 1}
      /\ Field(line) # field => Of(s, field) = Of(block, field)
      /\ Field(line) = field /\ IsNumber(Value(line)) =>
           NumbersOf(s, field) = NumbersOf(block, field) \cup {Len(block) + 1}
      /\ ~(Field(line) = field /\ IsNumber(Value(line))) =>
           NumbersOf(s, field) = NumbersOf(block, field)
  BY <1>1, PlacesGrow
<1>4. ASSUME NEW places, \A p \in places : p \in 1 .. Len(block)
      PROVE  LastOf(Values(s), places) = LastOf(Values(block), places)
  BY <1>2, <1>4, LastStays
<1>5. ASSUME NEW places, Len(block) + 1 \in places,
             \A p \in places : p \in 1 .. Len(block) \/ p = Len(block) + 1
      PROVE  LastOf(Values(s), places) = Some(Value(line))
  BY <1>2, <1>5, LastIsNew
<1> QED
  BY <1>1, <1>3, <1>4, <1>5

\* The data of the event, as a line more changes them.
LEMMA DataIs ==
    ASSUME NEW D, NEW block \in Seq(D), NEW line \in D, NEW field
    PROVE  LET data(b) == Keep(Values(b), DataPlaces(b, field))
           IN  /\ Field(line) = field => data(Append(block, line)) = PushData(data(block), Value(line))
               /\ Field(line) # field => data(Append(block, line)) = data(block)
<1>1. PICK s \in Seq(D) : s = Append(block, line)
  BY AppendProperties
<1>2. /\ Values(s) = Append(Values(block), Value(line))
      /\ Values(block) \in Seq(ValuesOf(D)) /\ Len(Values(block)) = Len(block)
      /\ Value(line) \in ValuesOf(D)
  BY <1>1, ValuesGrow
<1> DEFINE some == \E m \in Of(block, field) : Values(block)[m] # <<>>
           W == DataPlaces(s, field)
           V == DataPlaces(block, field)
           n == Len(block)
<1>3. /\ \A i \in 1 .. n : i \in W <=> i \in V
      /\ n + 1 \in W <=> Field(line) = field /\ (Value(line) # <<>> \/ some)
      /\ some <=> \E i \in 1 .. n : i \in V
  BY <1>1, DataGrows
<1> HIDE DEF some, W, V, n
<1>4. /\ n + 1 \in W => Keep(Values(s), W) = Append(Keep(Values(block), V), Value(line))
      /\ n + 1 \notin W => Keep(Values(s), W) = Keep(Values(block), V)
  BY <1>2, <1>3, KeepStep DEF n
<1>5. Keep(Values(block), V) = <<>> <=> ~some
  <2>1. Keep(Values(block), V) = <<>> <=> \A i \in 1 .. Len(Values(block)) : i \notin V
    BY <1>2, KeepNothing
  <2> QED
    BY <1>2, <1>3, <2>1 DEF n
<1> QED
  BY <1>1, <1>3, <1>4, <1>5 DEF PushData, W, V

\* The event of a longer block is what apply_sse_line makes of the event of the block.
LEMMA EventGrows ==
    ASSUME NEW D, NEW block \in Seq(D), NEW line \in D
    PROVE  EventOf(Append(block, line)) = ApplySseLine(line, EventOf(block))
<1> DEFINE longer == Append(block, line)
           of(b, field) == LastOf(Values(b), Of(b, field))
           number(b, field) == LastOf(Values(b), NumbersOf(b, field))
           data(b, field) == Keep(Values(b), DataPlaces(b, field))
           e(b) == [event |-> of(b, "event"), id |-> of(b, "id"), retry |-> number(b, "retry"),
                    data |-> data(b, "data")]
           f == Field(line)
           v == Value(line)
<1>1. ASSUME NEW field
      PROVE  /\ f = field => of(longer, field) = Some(v)
             /\ f # field => of(longer, field) = of(block, field)
             /\ f = field /\ IsNumber(v) => number(longer, field) = Some(v)
             /\ ~(f = field /\ IsNumber(v)) => number(longer, field) = number(block, field)
             /\ f = field => data(longer, field) = PushData(data(block, field), v)
             /\ f # field => data(longer, field) = data(block, field)
  BY FieldGrows, DataIs
<1>2. EventOf(longer) = e(longer) /\ EventOf(block) = e(block)
  BY EventIs DEF Event
<1> HIDE DEF longer, of, number, data, f, v
<1>3. CASE f = "event"
  <2>1. of(longer, "event") = Some(v) /\ of(longer, "id") = of(block, "id")
        /\ number(longer, "retry") = number(block, "retry") /\ data(longer, "data") = data(block, "data")
    BY <1>1, <1>3
  <2>2. ApplySseLine(line, e(block)) = [e(block) EXCEPT !.event = Some(v)]
    BY <1>3 DEF ApplySseLine, f, v
  <2> QED
    BY <1>2, <2>1, <2>2 DEF longer
<1>4. CASE f = "id"
  <2>1. of(longer, "event") = of(block, "event") /\ of(longer, "id") = Some(v)
        /\ number(longer, "retry") = number(block, "retry") /\ data(longer, "data") = data(block, "data")
    BY <1>1, <1>4
  <2>2. ApplySseLine(line, e(block)) = [e(block) EXCEPT !.id = Some(v)]
    BY <1>4 DEF ApplySseLine, f, v
  <2> QED
    BY <1>2, <2>1, <2>2 DEF longer
<1>5. CASE f = "retry" /\ IsNumber(v)
  <2>1. of(longer, "event") = of(block, "event") /\ of(longer, "id") = of(block, "id")
        /\ number(longer, "retry") = Some(v) /\ data(longer, "data") = data(block, "data")
    BY <1>1, <1>5
  <2>2. ApplySseLine(line, e(block)) = [e(block) EXCEPT !.retry = Some(v)]
    BY <1>5 DEF ApplySseLine, f, v
  <2> QED
    BY <1>2, <2>1, <2>2 DEF longer
<1>6. CASE f = "data"
  <2>1. of(longer, "event") = of(block, "event") /\ of(longer, "id") = of(block, "id")
        /\ number(longer, "retry") = number(block, "retry")
        /\ data(longer, "data") = PushData(data(block, "data"), v)
    BY <1>1, <1>6
  <2>2. ApplySseLine(line, e(block)) = [e(block) EXCEPT !.data = PushData(@, v)]
    BY <1>6 DEF ApplySseLine, f, v
  <2> QED
    BY <1>2, <2>1, <2>2 DEF longer
<1>7. CASE f # "event" /\ f # "id" /\ ~(f = "retry" /\ IsNumber(v)) /\ f # "data"
  <2>1. of(longer, "event") = of(block, "event") /\ of(longer, "id") = of(block, "id")
        /\ number(longer, "retry") = number(block, "retry") /\ data(longer, "data") = data(block, "data")
    BY <1>1, <1>7
  <2>2. ApplySseLine(line, e(block)) = e(block)
    BY <1>7 DEF ApplySseLine, f, v
  <2> QED
    BY <1>2, <2>1, <2>2 DEF longer
<1> QED
  BY <1>3, <1>4, <1>5, <1>6, <1>7

\* A block without lines is no event.
LEMMA NoLines == EventOf(<<>>) = EmptyEvent
<1>1. Values(<<>>) = <<>>
  BY DEF Values
<1>2. DOMAIN <<>> = {}
  OBVIOUS
<1>3. ASSUME NEW field PROVE Of(<<>>, field) = {} /\ NumbersOf(<<>>, field) = {}
  BY <1>2 DEF Of, NumbersOf
<1>4. \A W : Keep(<<>>, W) = <<>>
  BY KeepAppend
<1> QED
  BY <1>1, <1>3, <1>4, EventIs DEF Event, LastOf, EmptyEvent

\* The event that each line would end.
Ends(lines) == [n \in DOMAIN lines |-> EventOf(Block(lines, n))]
Rest(lines) == EventOf(Block(lines, Len(lines) + 1))
EndPlaces(lines) == {n \in DOMAIN lines : lines[n] = <<>> /\ ~IsEmpty(EventOf(Block(lines, n)))}
EventsIn(lines) == Keep(Ends(lines), EndPlaces(lines))
EventSet(D) == {EventOf(x) : x \in Seq(D)}

\* The events that the lines would end are events of blocks, one for each line.
LEMMA EndsType ==
    ASSUME NEW D, NEW lines \in Seq(D)
    PROVE  Ends(lines) \in Seq(EventSet(D)) /\ Len(Ends(lines)) = Len(lines)
<1>1. DOMAIN lines = 1 .. Len(lines) /\ Len(lines) \in Nat
  BY LenProperties
<1>2. ASSUME NEW n \in 1 .. Len(lines) PROVE EventOf(Block(lines, n)) \in EventSet(D)
  <2>1. Block(lines, n) \in Seq(D)
    <3>1. n \in 1 .. Len(lines) + 1
      BY <1>1
    <3> QED
      BY <3>1, PieceType DEF Block
  <2> QED
    BY <2>1 DEF EventSet
<1>3. Ends(lines) = [n \in 1 .. Len(lines) |-> EventOf(Block(lines, n))]
  BY <1>1 DEF Ends
<1>4. Ends(lines) \in [1 .. Len(lines) -> EventSet(D)]
  BY <1>2, <1>3
<1> QED
  BY <1>1, <1>4, SeqDef, LenProperties

\* What a line more does to the events and to the block that has not ended.
LEMMA EventsStep ==
    ASSUME NEW D, NEW lines \in Seq(D), NEW line \in D
    PROVE  /\ line = <<>> /\ ~IsEmpty(Rest(lines)) =>
                EventsIn(Append(lines, line)) = Append(EventsIn(lines), Rest(lines))
           /\ ~(line = <<>> /\ ~IsEmpty(Rest(lines))) =>
                EventsIn(Append(lines, line)) = EventsIn(lines)
           /\ line = <<>> => Rest(Append(lines, line)) = EmptyEvent
           /\ line # <<>> => Rest(Append(lines, line)) = ApplySseLine(line, Rest(lines))
<1>1. PICK u \in Seq(D) : u = Append(lines, line)
  BY AppendProperties
<1>2. PICK n \in Nat : n = Len(lines)
  BY LenProperties
<1>3. /\ Len(u) = n + 1 /\ u[n + 1] = line /\ DOMAIN lines = 1 .. n /\ DOMAIN u = 1 .. n + 1
      /\ \A i \in 1 .. n : u[i] = lines[i]
  BY <1>1, <1>2, AppendProperties, LenProperties
<1>4. \A i \in 1 .. n + 1 : Block(u, i) = Block(lines, i)
  BY <1>1, <1>2, PieceKeeps DEF Block
<1>5. n + 1 \in 1 .. n + 1 /\ \A i \in 1 .. n : i \in 1 .. n + 1
  BY <1>2
<1>6. /\ Ends(lines) \in Seq(EventSet(D)) /\ Len(Ends(lines)) = n
      /\ Ends(u) \in Seq(EventSet(D)) /\ Len(Ends(u)) = n + 1
  BY <1>2, <1>3, EndsType
<1>7. Ends(u)[n + 1] = Rest(lines) /\ \A i \in 1 .. n : Ends(u)[i] = Ends(lines)[i]
  BY <1>2, <1>3, <1>4, <1>5 DEF Ends, Rest
<1>8. Rest(lines) \in EventSet(D)
  <2>1. Block(lines, n + 1) \in Seq(D)
    BY <1>2, <1>5, PieceType DEF Block
  <2> QED
    BY <1>2, <2>1 DEF EventSet, Rest
<1>9. Ends(u) = Append(Ends(lines), Rest(lines))
  BY <1>6, <1>7, <1>8, IsAppend
<1>10. /\ \A i \in 1 .. n : i \in EndPlaces(u) <=> i \in EndPlaces(lines)
       /\ n + 1 \in EndPlaces(u) <=> line = <<>> /\ ~IsEmpty(Rest(lines))
  BY <1>2, <1>3, <1>4, <1>5 DEF EndPlaces, Rest
<1>11. /\ n + 1 \in EndPlaces(u) => EventsIn(u) = Append(EventsIn(lines), Rest(lines))
       /\ n + 1 \notin EndPlaces(u) => EventsIn(u) = EventsIn(lines)
  BY <1>6, <1>8, <1>9, <1>10, KeepStep DEF EventsIn
<1>12. ASSUME line = <<>> PROVE Rest(u) = EmptyEvent
  <2>1. Block(u, n + 2) = <<>>
    BY <1>1, <1>2, <1>12, RestAfterCut DEF Block
  <2>2. Len(u) + 1 = n + 2
    BY <1>3
  <2> QED
    BY <2>1, <2>2, NoLines DEF Rest
<1>13. ASSUME line # <<>> PROVE Rest(u) = ApplySseLine(line, Rest(lines))
  <2>1. Block(u, n + 2) = Append(Block(lines, n + 1), line)
    BY <1>1, <1>2, <1>13, RestGrows DEF Block
  <2>2. Len(u) + 1 = n + 2
    BY <1>3
  <2>3. Block(lines, n + 1) \in Seq(D)
    BY <1>2, <1>5, PieceType DEF Block
  <2> QED
    BY <1>2, <2>1, <2>2, <2>3, EventGrows DEF Rest
<1> QED
  BY <1>1, <1>10, <1>11, <1>12, <1>13

\* EventsOf in the terms above.
LEMMA EventsAre ==
    ASSUME NEW t
    PROVE  EventsOf(t) = EventsIn(Lines(t))
<1> DEFINE event(n) == EventOf(Block(Lines(t), n))
<1>1. EventsOf(t) = Keep([n \in DOMAIN Lines(t) |-> event(n)],
                         {n \in DOMAIN Lines(t) : Lines(t)[n] = <<>> /\ ~IsEmpty(event(n))})
  BY DEF EventsOf
<1> QED
  BY <1>1 DEF EventsIn, Ends, EndPlaces

\* What the parser has made of the bytes t.
Parsed(t) == [buffer |-> Piece(t, Len(t) + 1, LF), current |-> Rest(Lines(t)), events |-> EventsIn(Lines(t))]

\* A byte more: the parser keeps up with what it has read (request_sse).
LEMMA ByteTaken ==
    ASSUME NEW A, NEW t \in Seq(A), NEW b \in A
    PROVE  TakeByte(Parsed(t), b) = Parsed(Append(t, b))
<1> DEFINE D == DecodedLines(A)
           buffer == Piece(t, Len(t) + 1, LF)
           line == Decoded(buffer)
<1>1. PICK u \in Seq(A) : u = Append(t, b)
  BY AppendProperties
<1>2. Len(u) + 1 = Len(t) + 2
  BY <1>1, AppendProperties, LenProperties
<1>3. /\ Lines(t) \in Seq(D)
      /\ b # LF => Lines(u) = Lines(t)
      /\ b = LF => Lines(u) = Append(Lines(t), line)
  BY <1>1, LinesStep
<1>4. CASE b # LF
  <2>1. Piece(u, Len(u) + 1, LF) = Append(buffer, b)
    BY <1>1, <1>2, <1>4, RestGrows
  <2>2. Parsed(u) = [Parsed(t) EXCEPT !.buffer = Append(@, b)]
    <3>1. Parsed(t) = [buffer |-> buffer, current |-> Rest(Lines(t)), events |-> EventsIn(Lines(t))]
      BY DEF Parsed
    <3>2. Parsed(u) = [buffer |-> Append(buffer, b), current |-> Rest(Lines(t)),
                       events |-> EventsIn(Lines(t))]
      BY <1>3, <1>4, <2>1 DEF Parsed
    <3>3. Parsed(t).buffer = buffer
      BY DEF Parsed
    <3>4. [Parsed(t) EXCEPT !.buffer = Append(buffer, b)] = Parsed(u)
      <4> HIDE DEF buffer, line
      <4>1. PICK x, y, z, w : /\ Parsed(t) = [buffer |-> x, current |-> y, events |-> z]
                              /\ Parsed(u) = [buffer |-> w, current |-> y, events |-> z]
                              /\ w = Append(buffer, b)
        BY <3>1, <3>2
      <4>2. [Parsed(t) EXCEPT !.buffer = w] = Parsed(u)
        <5>1. [Parsed(t) EXCEPT !.buffer = w]
                = [[buffer |-> x, current |-> y, events |-> z] EXCEPT !.buffer = w]
          BY <4>1
        <5>2. [[buffer |-> x, current |-> y, events |-> z] EXCEPT !.buffer = w]
                = [buffer |-> w, current |-> y, events |-> z]
          OBVIOUS
        <5> QED
          BY <4>1, <5>1, <5>2
      <4> QED
        BY <4>1, <4>2
    <3> QED
      BY <3>3, <3>4
  <2> QED
    BY <1>1, <1>4, <2>2 DEF TakeByte
<1>5. CASE b = LF
  <2>1. Piece(u, Len(u) + 1, LF) = <<>>
    BY <1>1, <1>2, <1>5, RestAfterCut
  <2>2. line \in D
    <3>1. buffer \in Seq(A)
      <4>1. Len(t) + 1 \in 1 .. Len(t) + 1
        BY LenProperties
      <4> QED
        BY <4>1, PieceType
    <3> QED
      BY <3>1 DEF DecodedLines
  <2> DEFINE lines == Lines(t)
             parsed == [buffer |-> <<>>, current |-> Rest(lines), events |-> EventsIn(lines)]
  <2>3. /\ line = <<>> /\ ~IsEmpty(Rest(lines)) =>
             EventsIn(Lines(u)) = Append(EventsIn(lines), Rest(lines))
        /\ ~(line = <<>> /\ ~IsEmpty(Rest(lines))) => EventsIn(Lines(u)) = EventsIn(lines)
        /\ line = <<>> => Rest(Lines(u)) = EmptyEvent
        /\ line # <<>> => Rest(Lines(u)) = ApplySseLine(line, Rest(lines))
    <3>1. lines \in Seq(D) /\ line \in D /\ Lines(u) = Append(lines, line)
      BY <1>3, <1>5, <2>2
    <3> HIDE DEF line, lines, D
    <3> QED
      BY <3>1, EventsStep
  <2>4. [Parsed(t) EXCEPT !.buffer = <<>>] = parsed /\ Parsed(t).buffer = buffer
    BY DEF Parsed
  <2>5. TakeLine(Parsed(t)) = IF line = <<>> THEN Yield(parsed)
                              ELSE [parsed EXCEPT !.current = ApplySseLine(line, @)]
    <3> HIDE DEF parsed
    <3> QED
      BY <2>4 DEF TakeLine
  <2>6. Parsed(u) = [buffer |-> <<>>, current |-> Rest(Lines(u)), events |-> EventsIn(Lines(u))]
    BY <2>1 DEF Parsed
  <2> HIDE DEF line, lines, buffer
  <2>7. CASE line # <<>>
    BY <1>1, <1>5, <2>3, <2>5, <2>6, <2>7 DEF TakeByte
  <2>8. CASE line = <<>> /\ IsEmpty(Rest(lines))
    <3>1. Yield(parsed) = parsed /\ Rest(lines) = EmptyEvent
      BY <2>8 DEF Yield, IsEmpty
    <3> QED
      BY <1>1, <1>5, <2>3, <2>5, <2>6, <2>8, <3>1 DEF TakeByte
  <2>9. CASE line = <<>> /\ ~IsEmpty(Rest(lines))
    <3>1. Yield(parsed) = [buffer |-> <<>>, current |-> EmptyEvent,
                           events |-> Append(EventsIn(lines), Rest(lines))]
      BY <2>9 DEF Yield
    <3> QED
      BY <1>1, <1>5, <2>3, <2>5, <2>6, <2>9, <3>1 DEF TakeByte
  <2> QED
    BY <2>7, <2>8, <2>9
<1> QED
  BY <1>4, <1>5

\* A parser that has read nothing is as it starts.
LEMMA NothingParsed == Parsed(<<>>) = StreamStart
<1>1. /\ Len(<<>>) = 0 /\ <<>> \in Seq({}) /\ DOMAIN <<>> = {}
  BY EmptySeq
<1>2. \A separator : Piece(<<>>, 1, separator) = <<>>
  <2>1. 1 \in 1 .. Len(<<>>) + 1
    BY <1>1
  <2>2. ASSUME NEW separator PROVE Piece(<<>>, 1, separator) = <<>>
    <3>1. Start(<<>>, 1, separator) = 1
      <4>1. Start(<<>>, 1, separator) \in 1 .. 1
        BY StartInRange
      <4> QED
        BY <4>1
    <3>2. SubSeq(<<>>, 1, 1 - 1) = <<>>
      BY SubSeqEmpty
    <3> QED
      BY <3>1, <3>2, PieceIs
  <2> QED
    BY <2>2
<1>3. LineEnds(<<>>) = <<>>
  BY DEF LineEnds
<1>4. Lines(<<>>) = <<>>
  <2>1. \A W : Keep(LineEnds(<<>>), W) = <<>>
    BY <1>3, KeepAppend
  <2> QED
    BY <2>1 DEF Lines, LineEnds
<1>5. EventsIn(<<>>) = <<>>
  <2>1. Ends(<<>>) = <<>>
    BY DEF Ends
  <2> QED
    BY <2>1, KeepAppend DEF EventsIn
<1>6. Rest(<<>>) = EmptyEvent
  BY <1>1, <1>2, NoLines DEF Rest, Block
<1> QED
  BY <1>1, <1>2, <1>4, <1>5, <1>6 DEF Parsed, StreamStart

\* The beginning of a sequence.
LEMMA PrefixIs ==
    ASSUME NEW A, NEW s \in Seq(A), NEW n \in 0 .. Len(s)
    PROVE  /\ SubSeq(s, 1, n) \in Seq(A) /\ Len(SubSeq(s, 1, n)) = n
           /\ \A i \in 1 .. n : SubSeq(s, 1, n)[i] = s[i]
<1>1. Len(s) \in Nat /\ \A i \in 1 .. Len(s) : s[i] \in A
  BY LenProperties, ElementOfSeq
<1>2. n \in Int /\ 1 \in Int /\ \A i \in 1 .. n : s[i] \in A
  BY <1>1
<1>3. /\ SubSeq(s, 1, n) \in Seq(A) /\ Len(SubSeq(s, 1, n)) = IF 1 <= n THEN n - 1 + 1 ELSE 0
      /\ \A i \in 1 .. n - 1 + 1 : SubSeq(s, 1, n)[i] = s[1 + i - 1]
  BY <1>2, SubSeqProperties
<1> QED
  BY <1>1, <1>2, <1>3

\* The beginning that is longer by one.
LEMMA PrefixGrows ==
    ASSUME NEW A, NEW s \in Seq(A), NEW n \in 1 .. Len(s)
    PROVE  SubSeq(s, 1, n) = Append(SubSeq(s, 1, n - 1), s[n])
<1>1. Len(s) \in Nat /\ s[n] \in A
  BY LenProperties, ElementOfSeq
<1>2. PICK k \in 0 .. Len(s) : k = n - 1
  BY <1>1
<1>3. n \in 0 .. Len(s) /\ n = k + 1 /\ k \in Nat
  BY <1>1, <1>2
<1>4. PICK u, t : u = SubSeq(s, 1, n) /\ t = SubSeq(s, 1, k)
  OBVIOUS
<1>5. u \in Seq(A) /\ Len(u) = n /\ \A i \in 1 .. n : u[i] = s[i]
  BY <1>3, <1>4, PrefixIs
<1>6. t \in Seq(A) /\ Len(t) = k /\ \A i \in 1 .. k : t[i] = s[i]
  BY <1>4, PrefixIs
<1>7. \A i \in 1 .. Len(t) : u[i] = t[i]
  BY <1>3, <1>5, <1>6
<1>8. Len(u) = Len(t) + 1 /\ u[Len(t) + 1] = s[n]
  BY <1>3, <1>5, <1>6
<1>9. u = Append(t, s[n])
  BY <1>1, <1>5, <1>6, <1>7, <1>8, IsAppend
<1> QED
  BY <1>2, <1>4, <1>9

\* The bytes of a chunk, taken after those that came before.
LEMMA BytesTaken ==
    ASSUME NEW A, NEW body \in Seq(A), NEW r \in 0 .. Len(body), NEW n \in r .. Len(body)
    PROVE  TakeBytes(Parsed(SubSeq(body, 1, r)), SubSeq(body, r + 1, n)) = Parsed(SubSeq(body, 1, n))
<1> DEFINE bytes == SubSeq(body, r + 1, n)
           base == Parsed(SubSeq(body, 1, r))
           N == Len(bytes)
           Fits(g) == g = [i \in 0 .. N |-> IF i = 0 THEN base ELSE TakeByte(g[i - 1], bytes[i])]
           upTo == CHOOSE g : Fits(g)
           h == [i \in 0 .. N |-> Parsed(SubSeq(body, 1, r + i))]
<1>1. Len(body) \in Nat /\ r \in Nat /\ n \in Nat /\ r <= n /\ n <= Len(body)
  BY LenProperties
<1>2. /\ N = n - r /\ N \in Nat /\ r + N = n
      /\ \A i \in 1 .. N : bytes[i] = body[r + i]
  <2>1. r + 1 \in Int /\ n \in Int /\ \A i \in r + 1 .. n : body[i] \in A
    BY <1>1, ElementOfSeq
  <2>2. /\ Len(bytes) = IF r + 1 <= n THEN n - (r + 1) + 1 ELSE 0
        /\ \A i \in 1 .. n - (r + 1) + 1 : bytes[i] = body[(r + 1) + i - 1]
    BY <2>1, SubSeqProperties
  <2> HIDE DEF bytes
  <2>3. N = n - r
    BY <1>1, <2>2
  <2>4. \A i \in 1 .. N : i \in 1 .. n - (r + 1) + 1 /\ (r + 1) + i - 1 = r + i
    BY <1>1, <2>3
  <2>5. \A i \in 1 .. N : bytes[i] = body[r + i]
    BY <2>2, <2>4
  <2> QED
    BY <1>1, <2>3, <2>5
<1>3. ASSUME NEW i \in 1 .. N
      PROVE  Parsed(SubSeq(body, 1, r + i)) = TakeByte(Parsed(SubSeq(body, 1, r + (i - 1))), bytes[i])
  <2> HIDE DEF N, bytes
  <2>1. PICK k \in 1 .. Len(body) : k = r + i
    BY <1>1, <1>2
  <2>2. k - 1 = r + (i - 1) /\ k - 1 \in 0 .. Len(body)
    BY <1>1, <1>2, <2>1
  <2>3. SubSeq(body, 1, k) = Append(SubSeq(body, 1, k - 1), body[k])
    BY PrefixGrows
  <2>4. SubSeq(body, 1, k - 1) \in Seq(A) /\ body[k] \in A
    BY <2>2, PrefixIs, ElementOfSeq
  <2>5. Parsed(SubSeq(body, 1, k)) = TakeByte(Parsed(SubSeq(body, 1, k - 1)), body[k])
    BY <2>3, <2>4, ByteTaken
  <2> QED
    BY <1>2, <2>1, <2>2, <2>5
<1>4. h[0] = base /\ \A i \in 1 .. N : h[i] = TakeByte(h[i - 1], bytes[i])
  <2> HIDE DEF N, bytes
  <2>1. 0 \in 0 .. N /\ r + 0 = r /\ \A i \in 1 .. N : i \in 0 .. N /\ i - 1 \in 0 .. N
    BY <1>1, <1>2
  <2> QED
    BY <1>3, <2>1
<1>5. Fits(h)
  <2> HIDE DEF h, N, bytes, base
  <2>1. h = [i \in 0 .. N |-> h[i]]
    BY DEF h
  <2>2. \A i \in 0 .. N : h[i] = IF i = 0 THEN base ELSE TakeByte(h[i - 1], bytes[i])
    <3>1. \A i \in 0 .. N : i # 0 => i \in 1 .. N
      BY <1>2
    <3> QED
      BY <1>4, <3>1
  <2> QED
    BY <2>1, <2>2
<1>6. Fits(upTo)
  <2> HIDE DEF Fits
  <2> QED
    BY <1>5
<1>7. TakeBytes(base, bytes) = upTo[N]
  BY DEF TakeBytes
<1> HIDE DEF h, base
<1>8. upTo[0] = base /\ \A i \in 1 .. N : upTo[i] = TakeByte(upTo[i - 1], bytes[i])
  <2> HIDE DEF upTo, N, bytes
  <2>1. 0 \in 0 .. N /\ \A i \in 1 .. N : i \in 0 .. N /\ i # 0
    BY <1>2
  <2> QED
    BY <1>6, <2>1
<1> HIDE DEF upTo, N, Fits, bytes
<1>9. GoAlike(N, upTo, h)
  BY <1>4, <1>8 DEF GoAlike
<1>10. upTo[N] = h[N]
  <2>1. N \in 0 .. N
    BY <1>2
  <2> QED
    BY <1>2, <1>9, <2>1, SameSteps
<1>11. h[N] = Parsed(SubSeq(body, 1, n))
  <2>1. N \in 0 .. N
    BY <1>2
  <2> QED
    BY <1>2, <2>1 DEF h
<1> QED
  BY <1>7, <1>10, <1>11 DEF base, bytes

\* An empty line stays empty.
LEMMA NothingDecoded == Decoded(<<>>) = <<>>
<1>1. StripCr(<<>>) = <<>>
  BY DEF StripCr
<1>2. FlattenSeq(<<>>) = <<>>
  BY DEF FlattenSeq
<1>3. FromUtf8Lossy(<<>>) = <<>>
  <2> DEFINE whole(i) == <<>>[i] = "c1" /\ i < Len(<<>>) /\ <<>>[i + 1] = "c2"
             char(i) == CASE whole(i) -> <<"char">>
                          [] <<>>[i] = "c2" /\ i > 1 /\ whole(i - 1) -> <<>>
                          [] <<>>[i] \in {"c1", "c2"} /\ ~whole(i) -> <<"?">>
                          [] OTHER -> <<<<>>[i]>>
  <2>1. FromUtf8Lossy(<<>>) = FlattenSeq([i \in DOMAIN <<>> |-> char(i)])
    BY DEF FromUtf8Lossy
  <2> HIDE DEF char
  <2>2. [i \in DOMAIN <<>> |-> char(i)] = <<>>
    OBVIOUS
  <2> QED
    BY <1>2, <2>1, <2>2
<1> QED
  BY <1>1, <1>3 DEF Decoded

\* The end of the body is as good as the end of a line and a blank line.
LEMMA EndTaken ==
    ASSUME NEW A, NEW t \in Seq(A)
    PROVE  TakeEnd(Parsed(t)).events = EventsOf(t \o <<LF, LF>>)
<1> DEFINE B == A \cup {LF}
           D == DecodedLines(B)
           lines == Lines(t)
           line == Decoded(Piece(t, Len(t) + 1, LF))
<1>0. t \in Seq(B) /\ LF \in B
  BY SeqDef
<1>1. PICK u \in Seq(B) : u = Append(t, LF)
  BY <1>0, AppendProperties
<1>2. PICK w \in Seq(B) : w = Append(u, LF)
  BY <1>0, AppendProperties
<1>3. t \o <<LF, LF>> = w
  <2> HIDE DEF B
  <2> QED
    BY <1>0, <1>1, <1>2
<1>4. Lines(t) \in Seq(D) /\ Lines(u) = Append(lines, line)
  BY <1>0, <1>1, LinesStep
<1>5. Lines(u) \in Seq(D) /\ Lines(w) = Append(Lines(u), <<>>)
  <2>1. Lines(w) = Append(Lines(u), Decoded(Piece(u, Len(u) + 1, LF))) /\ Lines(u) \in Seq(D)
    BY <1>0, <1>2, LinesStep
  <2>2. Len(u) + 1 = Len(t) + 2
    BY <1>0, <1>1, AppendProperties, LenProperties
  <2>3. Piece(u, Len(u) + 1, LF) = <<>>
    BY <1>0, <1>1, <2>2, RestAfterCut
  <2> QED
    BY <2>1, <2>3, NothingDecoded
<1>6. line \in D /\ <<>> \in D
  <2>1. Len(t) + 1 \in 1 .. Len(t) + 1
    BY <1>0, LenProperties
  <2>2. Piece(t, Len(t) + 1, LF) \in Seq(B)
    BY <1>0, <2>1, PieceType
  <2>3. <<>> \in Seq(B)
    OBVIOUS
  <2> QED
    BY <2>2, <2>3, NothingDecoded DEF DecodedLines
<1> HIDE DEF B, D
<1>7. /\ line = <<>> /\ ~IsEmpty(Rest(lines)) =>
           EventsIn(Lines(u)) = Append(EventsIn(lines), Rest(lines))
      /\ ~(line = <<>> /\ ~IsEmpty(Rest(lines))) => EventsIn(Lines(u)) = EventsIn(lines)
      /\ line = <<>> => Rest(Lines(u)) = EmptyEvent
      /\ line # <<>> => Rest(Lines(u)) = ApplySseLine(line, Rest(lines))
  <2> HIDE DEF lines, line
  <2>1. lines \in Seq(D)
    BY <1>4 DEF lines
  <2> QED
    BY <1>4, <1>6, <2>1, EventsStep
<1>8. /\ ~IsEmpty(Rest(Lines(u))) => EventsIn(Lines(w)) = Append(EventsIn(Lines(u)), Rest(Lines(u)))
      /\ IsEmpty(Rest(Lines(u))) => EventsIn(Lines(w)) = EventsIn(Lines(u))
  BY <1>5, <1>6, EventsStep
<1> DEFINE parsed == [buffer |-> <<>>, current |-> Rest(lines), events |-> EventsIn(lines)]
<1>9. [Parsed(t) EXCEPT !.buffer = <<>>] = parsed /\ Parsed(t).buffer = Piece(t, Len(t) + 1, LF)
  BY DEF Parsed
<1>10. TakeEnd(Parsed(t)) = Yield(IF line = <<>> THEN parsed
                                  ELSE [parsed EXCEPT !.current = ApplySseLine(line, @)])
  <2> HIDE DEF parsed
  <2> QED
    BY <1>9 DEF TakeEnd
<1>11. IsEmpty(EmptyEvent)
  BY DEF IsEmpty
<1> HIDE DEF line, lines
<1>12. ASSUME NEW c
       PROVE  /\ IsEmpty(c) => Yield([parsed EXCEPT !.current = c]).events = EventsIn(lines)
              /\ ~IsEmpty(c) => Yield([parsed EXCEPT !.current = c]).events = Append(EventsIn(lines), c)
  BY DEF Yield
<1>13. parsed = [parsed EXCEPT !.current = Rest(lines)] /\ parsed.current = Rest(lines)
  OBVIOUS
<1> HIDE DEF parsed
<1>14. TakeEnd(Parsed(t)).events = EventsIn(Lines(w))
  <2>1. CASE line = <<>>
    <3>1. TakeEnd(Parsed(t)) = Yield([parsed EXCEPT !.current = Rest(lines)])
      BY <1>10, <1>13, <2>1
    <3>2. CASE IsEmpty(Rest(lines))
      BY <1>7, <1>8, <1>11, <1>12, <2>1, <3>1, <3>2
    <3>3. CASE ~IsEmpty(Rest(lines))
      BY <1>7, <1>8, <1>11, <1>12, <2>1, <3>1, <3>3
    <3> QED
      BY <3>2, <3>3
  <2>2. CASE line # <<>>
    <3>1. TakeEnd(Parsed(t)) = Yield([parsed EXCEPT !.current = ApplySseLine(line, Rest(lines))])
      BY <1>10, <1>13, <2>2
    <3> QED
      BY <1>7, <1>8, <1>12, <2>2, <3>1
  <2> QED
    BY <2>1, <2>2
<1> QED
  BY <1>3, <1>14, EventsAre

\* A stream that has not ended has parsed what it has read.  EventsAreWhole alone is not
\* inductive: it says nothing of the line and the event that have not ended.
SseInv ==
    sse # NoStream =>
        \E body \in Bodies : \E r \in 0 .. Len(body) : \E state \in {"open", "ended", "failed"} :
            \E parser :
                /\ sse = [state |-> state, body |-> body, read |-> r, parser |-> parser]
                /\ state # "ended" => parser = Parsed(SubSeq(body, 1, r))
                /\ state = "ended" => parser.events = EventsOf(SubSeq(body, 1, r) \o <<LF, LF>>)

\* The bodies are sequences.
LEMMA Body ==
    ASSUME NEW body \in Bodies
    PROVE  body \in Seq(STRING)
BY BodiesAreSequences

\* Every step keeps SseInv.
LEMMA SseInvStep == SseInv /\ [Next]_vars => SseInv'
<1> SUFFICES ASSUME SseInv, [Next]_vars PROVE SseInv'
  OBVIOUS
<1>1. CASE UNCHANGED sse
  BY <1>1 DEF SseInv
<1>2. CASE AnswerStream
  <2>1. CASE \E body \in Bodies :
               sse' = [state |-> "open", body |-> body, read |-> 0, parser |-> StreamStart]
    <3>1. PICK body \in Bodies :
               sse' = [state |-> "open", body |-> body, read |-> 0, parser |-> StreamStart]
      BY <2>1
    <3>2. SubSeq(body, 1, 0) = <<>>
      BY SubSeqEmpty
    <3>3. Parsed(SubSeq(body, 1, 0)) = StreamStart
      BY <3>2, NothingParsed
    <3>4. 0 \in 0 .. Len(body)
      BY Body, LenProperties
    <3> QED
      BY <3>1, <3>3, <3>4 DEF SseInv
  <2> QED
    BY <1>1, <1>2, <2>1 DEF AnswerStream
<1>3. ASSUME sse # NoStream, sse.state = "open"
      PROVE  \E body \in Bodies, r \in Nat :
               /\ r \in 0 .. Len(body)
               /\ sse = [state |-> "open", body |-> body, read |-> r, parser |-> Parsed(SubSeq(body, 1, r))]
  BY <1>3 DEF SseInv
<1>4. CASE PullChunk
  <2>1. PICK body \in Bodies, r \in Nat :
            /\ r \in 0 .. Len(body)
            /\ sse = [state |-> "open", body |-> body, read |-> r, parser |-> Parsed(SubSeq(body, 1, r))]
    <3>1. sse.state = "open"
      BY <1>4 DEF PullChunk
    <3>2. sse # NoStream
      BY <3>1 DEF NoStream
    <3> QED
      BY <1>3, <3>1, <3>2
  <2>2. PICK n \in r + 1 .. Len(body) :
            sse' = [sse EXCEPT !.read = n, !.parser = TakeChunk(@, SubSeq(body, r + 1, n))]
    BY <1>4, <2>1 DEF PullChunk
  <2>3. n \in 0 .. Len(body) /\ n \in r .. Len(body)
    BY Body, LenProperties
  <2>4. TakeChunk(Parsed(SubSeq(body, 1, r)), SubSeq(body, r + 1, n)) = Parsed(SubSeq(body, 1, n))
    BY <2>3, Body, BytesTaken DEF TakeChunk
  <2>5. sse' = [state |-> "open", body |-> body, read |-> n, parser |-> Parsed(SubSeq(body, 1, n))]
    BY <2>1, <2>2, <2>4
  <2> QED
    BY <2>3, <2>5 DEF SseInv
<1>5. CASE PullEnd
  <2>1. PICK body \in Bodies, r \in Nat :
            /\ r \in 0 .. Len(body)
            /\ sse = [state |-> "open", body |-> body, read |-> r, parser |-> Parsed(SubSeq(body, 1, r))]
    BY <1>3, <1>5 DEF PullEnd, NoStream
  <2>2. PICK parser : parser = TakeEnd(Parsed(SubSeq(body, 1, r)))
    OBVIOUS
  <2>3. sse' = [state |-> "ended", body |-> body, read |-> r, parser |-> parser]
    BY <1>5, <2>1, <2>2 DEF PullEnd
  <2>4. SubSeq(body, 1, r) \in Seq(STRING)
    BY <2>1, Body, PrefixIs
  <2>5. parser.events = EventsOf(SubSeq(body, 1, r) \o <<LF, LF>>)
    BY <2>2, <2>4, EndTaken
  <2> QED
    BY <2>1, <2>3, <2>5 DEF SseInv
<1>6. CASE PullFails
  <2>1. PICK body \in Bodies, r \in Nat :
            /\ r \in 0 .. Len(body)
            /\ sse = [state |-> "open", body |-> body, read |-> r, parser |-> Parsed(SubSeq(body, 1, r))]
    BY <1>3, <1>6 DEF PullFails, NoStream
  <2>2. sse' = [state |-> "failed", body |-> body, read |-> r, parser |-> Parsed(SubSeq(body, 1, r))]
    BY <1>6, <2>1 DEF PullFails
  <2> QED
    BY <2>1, <2>2 DEF SseInv
<1>7. CASE DropStream
  BY <1>7 DEF DropStream, SseInv
<1>8. CASE \E op, stream, params : CallOperation(op, stream, params) \/ CallMethod(op, params)
  BY <1>1, <1>8 DEF CallOperation, CallMethod
<1>9. CASE AnswerJson \/ RequestFails
  BY <1>1, <1>9 DEF AnswerJson, RequestFails
<1> QED
  BY <1>1, <1>2, <1>4, <1>5, <1>6, <1>7, <1>8, <1>9 DEF Next, Client, Server, vars

\* A stream yields the events of what it has read, whole and in order, however
\* the chunks are cut (Opencode.EventsAreWhole): for any bodies, of any length.
THEOREM EventsComeWhole == Spec => []EventsAreWhole
<1>1. Init => SseInv
  BY DEF Init, SseInv
<1>2. SseInv => EventsAreWhole
  <2> SUFFICES ASSUME SseInv, sse # NoStream PROVE EventsAreWhole
    BY DEF EventsAreWhole
  <2>1. PICK body \in Bodies, r \in Nat, state \in {"open", "ended", "failed"} :
          \E parser :
            /\ r \in 0 .. Len(body)
            /\ sse = [state |-> state, body |-> body, read |-> r, parser |-> parser]
            /\ state # "ended" => parser = Parsed(SubSeq(body, 1, r))
            /\ state = "ended" => parser.events = EventsOf(SubSeq(body, 1, r) \o <<LF, LF>>)
    BY DEF SseInv
  <2>0. PICK parser :
            /\ r \in 0 .. Len(body)
            /\ sse = [state |-> state, body |-> body, read |-> r, parser |-> parser]
            /\ state # "ended" => parser = Parsed(SubSeq(body, 1, r))
            /\ state = "ended" => parser.events = EventsOf(SubSeq(body, 1, r) \o <<LF, LF>>)
    BY <2>1
  <2>2. CASE state = "ended"
    BY <2>0, <2>2 DEF EventsAreWhole
  <2>3. CASE state # "ended"
    <3>1. parser.events = EventsOf(SubSeq(body, 1, r))
      BY <2>0, <2>3, EventsAre DEF Parsed
    <3>2. SubSeq(body, 1, r) \o <<>> = SubSeq(body, 1, r)
      BY Body, PrefixIs, ConcatEmptySeq
    <3>3. sse.parser = parser /\ sse.body = body /\ sse.read = r /\ sse.state # "ended"
      BY <2>0, <2>3
    <3> QED
      BY <3>1, <3>2, <3>3 DEF EventsAreWhole
  <2> QED
    BY <2>2, <2>3
<1> QED
  BY <1>1, <1>2, SseInvStep, PTL DEF Spec
=============================================================================
