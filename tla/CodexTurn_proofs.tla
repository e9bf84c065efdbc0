------------------------- MODULE CodexTurn_proofs -------------------------
(***************************************************************************)
(* Theorems about CodexTurn, for any turns, inputs and pipe capacities.    *)
(***************************************************************************)
EXTENDS CodexTurn, FiniteSetTheorems, SequenceTheorems, TLAPS

USE TurnBounds, TurnsAssumption DEF TurnBounds, TurnsAssumption

\* The initial states have the types.
LEMMA InitType == Init => TypeOK
<1> SUFFICES ASSUME Init PROVE TypeOK
  OBVIOUS
<1> USE DEF Init
<1>1. <<>> \in Seq(Line) /\ Len(<<>>) = 0 /\ Len(<<>>) <= StdoutCap
  OBVIOUS
<1> QED
  BY <1>1 DEF TypeOK, ThreadIds, Outcomes

\* Taking the first line of a pipe leaves a pipe.
LEMMA PopType ==
    ASSUME TypeOK, NEW t \in Turns, out[t] # <<>>
    PROVE  /\ Head(out[t]) \in Line
           /\ Pop(t) => out' \in [Turns -> Seq(Line)] /\ \A u \in Turns : Len(out'[u]) <= StdoutCap
<1>1. out \in [Turns -> Seq(Line)] /\ \A u \in Turns : Len(out[u]) <= StdoutCap
  BY DEF TypeOK
<1>2. /\ Head(out[t]) \in Line /\ Tail(out[t]) \in Seq(Line)
      /\ Len(Tail(out[t])) = Len(out[t]) - 1 /\ Len(out[t]) \in Nat
  BY <1>1, HeadTailProperties
<1>3. ASSUME Pop(t)
      PROVE  out' \in [Turns -> Seq(Line)] /\ \A u \in Turns : Len(out'[u]) <= StdoutCap
  <2>1. out' = [out EXCEPT ![t] = Tail(out[t])]
    BY <1>3 DEF Pop
  <2>2. Len(Tail(out[t])) <= StdoutCap
    BY <1>1, <1>2
  <2>3. out' \in [Turns -> Seq(Line)]
    BY <1>1, <1>2, <2>1
  <2>4. \A u \in Turns : out'[u] = IF u = t THEN Tail(out[t]) ELSE out[u]
    BY <1>1, <2>1
  <2> QED
    BY <1>1, <2>2, <2>3, <2>4
<1> QED
  BY <1>2, <1>3

\* The end of a turn and the end of a child keep the types.
LEMMA ReturnType ==
    ASSUME TypeOK, NEW t \in Turns, NEW what \in Outcomes, Return(t, what)
    PROVE  /\ pc' \in [Turns -> {"idle", "writing", "reading", "killed", "waiting", "done"}]
           /\ outcome' \in [Turns -> Outcomes] /\ stdin' \in [Turns -> 0 .. StdinCap]
           /\ out' \in [Turns -> Seq(Line)] /\ \A u \in Turns : Len(out'[u]) <= StdoutCap
<1>1. <<>> \in Seq(Line) /\ Len(<<>>) = 0
  OBVIOUS
<1> QED
  BY <1>1 DEF TypeOK, Return, Goto

LEMMA EndsType ==
    ASSUME TypeOK, NEW t \in Turns,
           \/ KillOnDrop(t)
           \/ \E how \in {"ok", "failed", "killed"} : Ends(t, how)
    PROVE  /\ proc' \in [Turns -> {"none", "running", "ok", "failed", "killed"}]
           /\ outOpen' \in [Turns -> BOOLEAN] /\ held' \in [Turns -> BOOLEAN]
<1>1. ASSUME NEW how \in {"ok", "failed", "killed"}, Ends(t, how)
      PROVE  /\ proc' \in [Turns -> {"none", "running", "ok", "failed", "killed"}]
             /\ outOpen' \in [Turns -> BOOLEAN] /\ held' \in [Turns -> BOOLEAN]
  <2> PICK h \in BOOLEAN : held' = [held EXCEPT ![t] = h]
    BY <1>1 DEF Ends
  <2> QED
    BY <1>1 DEF Ends, TypeOK
<1>2. ASSUME UNCHANGED <<proc, outOpen, held>>
      PROVE  /\ proc' \in [Turns -> {"none", "running", "ok", "failed", "killed"}]
             /\ outOpen' \in [Turns -> BOOLEAN] /\ held' \in [Turns -> BOOLEAN]
  BY <1>2 DEF TypeOK
<1> QED
  BY <1>1, <1>2 DEF KillOnDrop

\* A step of a turn keeps the types.
LEMMA RunType ==
    ASSUME TypeOK, NEW t \in Turns, RunStep(t) \/ Drop(t)
    PROVE  TypeOK'
<1> USE DEF turnVars, outVars, Goto
<1>1. CASE WriteInput(t)
  BY <1>1 DEF WriteInput, TypeOK, HasRoom
<1>2. CASE CloseStdin(t)
  BY <1>2 DEF CloseStdin, TypeOK
<1>3. CASE SeeCancel(t)
  BY <1>3, EndsType DEF SeeCancel, TypeOK
<1>4. CASE Cancelled(t)
  BY <1>4, ReturnType DEF Cancelled, TypeOK, Outcomes
<1>5. CASE TakeStarted(t)
  <2>1. out[t] # <<>> /\ Head(out[t]).kind = "started" /\ Pop(t)
    BY <1>5 DEF TakeStarted, Next1
  <2>2. Head(out[t]) \in Line
    BY <2>1, PopType
  <2>3. Head(out[t]).id \in Turns
    BY <2>1, <2>2 DEF Line, Finals
  <2> QED
    BY <1>5, <2>1, <2>3, PopType DEF TakeStarted, TypeOK, ThreadIds
<1>6. CASE TakeItem(t)
  <2>1. out[t] # <<>> /\ Pop(t)
    BY <1>6 DEF TakeItem, Next1
  <2>2. items' \in [Turns -> Nat]
    BY <1>6 DEF TakeItem, TypeOK
  <2>3. out' \in [Turns -> Seq(Line)] /\ \A u \in Turns : Len(out'[u]) <= StdoutCap
    BY <2>1, PopType
  <2> QED
    BY <1>6, <2>2, <2>3 DEF TakeItem, TypeOK
<1>7. CASE EndOfOutput(t)
  BY <1>7 DEF EndOfOutput, TypeOK
<1>8. CASE Finish(t)
  <2>1. ExitOutcome(t) \in Outcomes
    BY DEF ExitOutcome, Outcomes
  <2> QED
    BY <1>8, <2>1, ReturnType DEF Finish, TypeOK
<1>9. ASSUME NEW what \in Outcomes, Abandon(t, what),
             UNCHANGED <<threadId, token, turnVars, printed, final>>
      PROVE  TypeOK'
  BY <1>9, ReturnType, EndsType DEF Abandon, TypeOK
<1>10. CASE WriteFails(t) \/ TakeFailure(t) \/ Drop(t)
  BY <1>9, <1>10 DEF WriteFails, TakeFailure, Drop, Outcomes
<1> QED
  BY <1>1, <1>2, <1>3, <1>4, <1>5, <1>6, <1>7, <1>8, <1>10 DEF RunStep

\* A line printed goes into a pipe with room for it.
LEMMA PrintsType ==
    ASSUME TypeOK, NEW t \in Turns, NEW line \in Line, Prints(t, line)
    PROVE  out' \in [Turns -> Seq(Line)] /\ \A u \in Turns : Len(out'[u]) <= StdoutCap
<1>1. out \in [Turns -> Seq(Line)] /\ \A u \in Turns : Len(out[u]) <= StdoutCap
  BY DEF TypeOK
<1>2. Append(out[t], line) \in Seq(Line) /\ Len(Append(out[t], line)) = Len(out[t]) + 1
  BY <1>1, AppendProperties
<1>3. Len(out[t]) < StdoutCap /\ Len(out[t]) \in Nat
  BY <1>1 DEF Prints
<1> QED
  BY <1>1, <1>2, <1>3 DEF Prints

\* A step of a child keeps the types.
LEMMA ChildType ==
    ASSUME TypeOK, NEW t \in Turns, Child(t)
    PROVE  TypeOK'
<1> USE DEF turnVars, outVars
<1>1. CASE ReadInput(t)
  <2>1. stdin[t] \in 0 .. StdinCap /\ stdin[t] > 0
    BY <1>1 DEF ReadInput, TypeOK
  <2>2. stdin[t] - 1 \in 0 .. StdinCap
    BY <2>1
  <2>3. stdin' \in [Turns -> 0 .. StdinCap]
    BY <1>1, <2>2 DEF ReadInput, TypeOK
  <2> QED
    BY <1>1, <2>3 DEF ReadInput, TypeOK
<1>2. CASE PrintStarted(t)
  <2> DEFINE id == IF resumed[t] = "none" THEN t ELSE resumed[t]
  <2>1. id \in Turns
    BY DEF TypeOK, ThreadIds
  <2>2. [kind |-> "started", id |-> id] \in Line
    BY <2>1 DEF Line
  <2> QED
    BY <1>2, <2>2, PrintsType DEF PrintStarted, Prints, TypeOK
<1>3. CASE PrintItem(t) \/ PrintJunk(t) \/ \E f \in Finals : PrintFinal(t, f)
  <2>1. \A k \in {"item", "junk"} \cup Finals : [kind |-> k] \in Line
    BY DEF Line
  <2>2. CASE PrintItem(t)
    <3>1. printed' \in [Turns -> 0 .. MaxItems]
      BY <2>2 DEF PrintItem, TypeOK
    <3>2. Prints(t, [kind |-> "item"]) /\ [kind |-> "item"] \in Line
      BY <2>1, <2>2 DEF PrintItem
    <3>3. out' \in [Turns -> Seq(Line)] /\ \A u \in Turns : Len(out'[u]) <= StdoutCap
      BY <3>2, PrintsType
    <3> QED
      BY <2>2, <3>1, <3>3 DEF PrintItem, Prints, TypeOK
  <2>3. CASE PrintJunk(t)
    BY <2>1, <2>3, PrintsType DEF PrintJunk, Prints, TypeOK
  <2>4. ASSUME NEW f \in Finals, PrintFinal(t, f) PROVE TypeOK'
    BY <2>1, <2>4, PrintsType DEF PrintFinal, Prints, TypeOK
  <2> QED
    BY <1>3, <2>2, <2>3, <2>4
<1>4. CASE CloseStdout(t)
  BY <1>4 DEF CloseStdout, TypeOK
<1>5. ASSUME NEW status \in {"ok", "failed"}, Exit(t, status) PROVE TypeOK'
  <2>1. Ends(t, status)
    BY <1>5 DEF Exit
  <2>2. /\ proc' \in [Turns -> {"none", "running", "ok", "failed", "killed"}]
        /\ outOpen' \in [Turns -> BOOLEAN] /\ held' \in [Turns -> BOOLEAN]
    BY <2>1, EndsType
  <2> QED
    BY <1>5, <2>2 DEF Exit, TypeOK
<1>6. CASE DescendantEnds(t)
  BY <1>6 DEF DescendantEnds, TypeOK
<1> QED
  BY <1>1, <1>2, <1>3, <1>4, <1>5, <1>6 DEF Child

\* Every variable keeps its type, and the pipes hold no more than their
\* capacity (the Thread of thread.rs, the pipes of CodexExec::run).
THEOREM TypeCorrect == Spec => []TypeOK
<1>1. ASSUME TypeOK, Next PROVE TypeOK'
  <2> PICK t \in Turns :
          \/ \E why \in {"cancelled", "rejected"} : Refuse(t, why)
          \/ Start(t) \/ RunStep(t) \/ Drop(t) \/ CancelToken(t) \/ Child(t)
    BY <1>1 DEF Next
  <2>1. ASSUME NEW why \in {"cancelled", "rejected"}, Refuse(t, why) PROVE TypeOK'
    <3>1. Return(t, why) /\ why \in Outcomes
      BY <2>1 DEF Refuse, Outcomes
    <3> QED
      BY <1>1, <2>1, <3>1, ReturnType DEF Refuse, TypeOK, turnVars
  <2>2. CASE Start(t)
    BY <1>1, <2>2 DEF Start, TypeOK, Goto, Resume
  <2>3. CASE CancelToken(t)
    BY <1>1, <2>3 DEF CancelToken, TypeOK, turnVars, outVars
  <2> QED
    BY <1>1, <2>1, <2>2, <2>3, RunType, ChildType
<1>2. TypeOK /\ UNCHANGED vars => TypeOK'
  BY DEF TypeOK, vars, turnVars, outVars
<1> QED
  BY <1>1, <1>2, InitType, PTL DEF Spec

----------------------------------------------------------------------------
(* What a turn has read and what its pipe still holds *)

ItemsAt(s) == {i \in 1 .. Len(s) : s[i].kind = "item"}
InPipe(s) == Cardinality(ItemsAt(s))
HasFailure(s) == \E i \in 1 .. Len(s) : s[i].kind = "failed"

\* The lines of a pipe are finitely many.
LEMMA ItemsFinite ==
    ASSUME NEW s \in Seq(Line)
    PROVE  IsFiniteSet(ItemsAt(s)) /\ InPipe(s) \in Nat
<1>1. Len(s) \in Nat /\ IsFiniteSet(1 .. Len(s))
  BY LenProperties, FS_Interval
<1>2. ItemsAt(s) \in SUBSET (1 .. Len(s))
  BY DEF ItemsAt
<1> QED
  BY <1>1, <1>2, FS_Subset, FS_CardinalityType DEF InPipe

\* An empty pipe holds no item and no failure.
LEMMA EmptyPipe == InPipe(<<>>) = 0 /\ ~HasFailure(<<>>)
<1>1. ItemsAt(<<>>) = {}
  BY DEF ItemsAt
<1>2. InPipe(<<>>) = 0
  BY <1>1, FS_EmptySet DEF InPipe
<1>3. ~HasFailure(<<>>)
  BY DEF HasFailure
<1> QED
  BY <1>2, <1>3

\* A line printed adds what it is.
LEMMA AppendPipe ==
    ASSUME NEW s \in Seq(Line), NEW line \in Line
    PROVE  /\ InPipe(Append(s, line)) = IF line.kind = "item" THEN InPipe(s) + 1 ELSE InPipe(s)
           /\ HasFailure(Append(s, line)) <=> HasFailure(s) \/ line.kind = "failed"
<1> DEFINE n == Len(s)
           a == Append(s, line)
<1>1. /\ n \in Nat /\ Len(a) = n + 1
      /\ \A i \in 1 .. n : a[i] = s[i]
      /\ a[n + 1] = line
  BY AppendProperties, LenProperties
<1>2. ItemsAt(a) = IF line.kind = "item" THEN ItemsAt(s) \cup {n + 1} ELSE ItemsAt(s)
  BY <1>1 DEF ItemsAt
<1>3. n + 1 \notin ItemsAt(s)
  BY <1>1 DEF ItemsAt
<1>4. InPipe(a) = IF line.kind = "item" THEN InPipe(s) + 1 ELSE InPipe(s)
  BY <1>2, <1>3, ItemsFinite, FS_AddElement DEF InPipe
<1>5. HasFailure(a) <=> HasFailure(s) \/ line.kind = "failed"
  BY <1>1 DEF HasFailure
<1> QED
  BY <1>4, <1>5

\* A line taken removes what it is.
LEMMA TailPipe ==
    ASSUME NEW s \in Seq(Line), s # <<>>
    PROVE  /\ InPipe(s) = IF Head(s).kind = "item" THEN InPipe(Tail(s)) + 1 ELSE InPipe(Tail(s))
           /\ HasFailure(s) => HasFailure(Tail(s)) \/ Head(s).kind = "failed"
<1> DEFINE r == Tail(s)
           moved == {i + 1 : i \in ItemsAt(r)}
           f == [i \in ItemsAt(r) |-> i + 1]
<1>1. /\ Len(s) \in Nat \ {0} /\ r \in Seq(Line) /\ Len(r) = Len(s) - 1
      /\ \A i \in 1 .. Len(r) : r[i] = s[i + 1]
      /\ Head(s) = s[1]
  BY EmptySeq, HeadTailProperties
<1>2. ItemsAt(r) \subseteq Int
  BY <1>1 DEF ItemsAt
<1>3. ExistsBijection(ItemsAt(r), moved)
  <2>1. f \in Injection(ItemsAt(r), moved)
    BY <1>2 DEF Injection, IsInjective
  <2>2. f \in Surjection(ItemsAt(r), moved)
    BY <1>2 DEF Surjection
  <2> QED
    BY <2>1, <2>2 DEF ExistsBijection, Bijection
<1>4. IsFiniteSet(moved) /\ Cardinality(moved) = InPipe(r)
  BY <1>1, <1>3, ItemsFinite, FS_Bijection DEF InPipe
<1>5. 1 \notin moved
  BY <1>1 DEF ItemsAt
<1>6. ItemsAt(s) = IF Head(s).kind = "item" THEN moved \cup {1} ELSE moved
  <2>1. ASSUME NEW i \in ItemsAt(s), i # 1 PROVE i \in moved
    <3>1. i - 1 \in ItemsAt(r)
      BY <1>1, <2>1 DEF ItemsAt
    <3> QED
      BY <1>1, <2>1, <3>1 DEF ItemsAt
  <2>2. moved \subseteq ItemsAt(s)
    BY <1>1 DEF ItemsAt
  <2>3. 1 \in ItemsAt(s) <=> Head(s).kind = "item"
    BY <1>1 DEF ItemsAt
  <2> HIDE DEF moved
  <2>4. CASE Head(s).kind = "item"
    <3>1. ItemsAt(s) = moved \cup {1}
      BY <2>1, <2>2, <2>3, <2>4
    <3> QED
      BY <2>4, <3>1
  <2>5. CASE Head(s).kind # "item"
    <3>1. ItemsAt(s) = moved
      BY <2>1, <2>2, <2>3, <2>5
    <3> QED
      BY <2>5, <3>1
  <2> QED
    BY <2>4, <2>5
<1>7. InPipe(s) = IF Head(s).kind = "item" THEN InPipe(r) + 1 ELSE InPipe(r)
  <2> HIDE DEF moved
  <2> QED
    BY <1>4, <1>5, <1>6, FS_AddElement DEF InPipe
<1>8. ASSUME HasFailure(s), Head(s).kind # "failed" PROVE HasFailure(r)
  <2> PICK i \in 1 .. Len(s) : s[i].kind = "failed"
    BY <1>8 DEF HasFailure
  <2>1. i - 1 \in 1 .. Len(r) /\ r[i - 1] = s[i]
    BY <1>1, <1>8
  <2> QED
    BY <2>1 DEF HasFailure
<1> QED
  BY <1>7, <1>8

----------------------------------------------------------------------------
(* The invariant, turn by turn *)

\* A turn that is over has no running child.
ChildFits(t) ==
    /\ pc[t] = "idle" => proc[t] = "none"
    /\ pc[t] = "killed" => proc[t] # "running"
    /\ Over(t) => proc[t] # "running"

\* While a turn reads, every item printed is collected or in the pipe, and a
\* failure printed is still to come; when it waits for the child all is read.
Accounted(t) ==
    /\ pc[t] \in {"idle", "writing", "reading", "waiting"} =>
          /\ items[t] + InPipe(out[t]) = printed[t]
          /\ final[t] = "failed" => HasFailure(out[t])
    /\ pc[t] = "waiting" => out[t] = <<>> /\ ~outOpen[t]

\* OkIsComplete for one turn.
OkComplete(t) ==
    outcome[t] = "ok" =>
        Over(t) /\ proc[t] = "ok" /\ final[t] # "failed" /\ items[t] = printed[t]

TurnInv(t) == ChildFits(t) /\ Accounted(t) /\ OkComplete(t)

Own(t) ==
    <<pc[t], items[t], outcome[t], proc[t], out[t], outOpen[t], printed[t], final[t]>>

Step(t) ==
    \/ \E why \in {"cancelled", "rejected"} : Refuse(t, why)
    \/ Start(t) \/ RunStep(t) \/ Drop(t) \/ CancelToken(t) \/ Child(t)

\* The invariant of a turn depends only on the turn.
LEMMA OwnInv ==
    ASSUME NEW u \in Turns, TurnInv(u), UNCHANGED Own(u)
    PROVE  TurnInv(u)'
BY DEF TurnInv, ChildFits, Accounted, OkComplete, Own, Over

\* The initial states satisfy the invariant.
LEMMA InitTurnInv == ASSUME Init, NEW t \in Turns PROVE TurnInv(t)
BY EmptyPipe DEF Init, TurnInv, ChildFits, Accounted, OkComplete, Over

\* A step of one turn leaves the others alone.
LEMMA OthersUntouched ==
    ASSUME TypeOK, NEW t \in Turns, Step(t), NEW u \in Turns, u # t
    PROVE  UNCHANGED Own(u)
<1> USE DEF Own, TypeOK, turnVars, outVars, Goto, Return, Ends, KillOnDrop, Abandon, Pop, Prints
<1>1. ASSUME NEW why \in {"cancelled", "rejected"}, Refuse(t, why) PROVE UNCHANGED Own(u)
  BY <1>1 DEF Refuse
<1>2. CASE Start(t) \/ CancelToken(t)
  BY <1>2 DEF Start, CancelToken
<1>3. CASE WriteInput(t) \/ CloseStdin(t) \/ Cancelled(t) \/ EndOfOutput(t) \/ Finish(t)
  BY <1>3 DEF WriteInput, CloseStdin, Cancelled, EndOfOutput, Finish
<1>4. CASE SeeCancel(t) \/ WriteFails(t) \/ TakeFailure(t) \/ Drop(t)
  BY <1>4 DEF SeeCancel, WriteFails, TakeFailure, Drop
<1>5. CASE TakeStarted(t) \/ TakeItem(t)
  BY <1>5 DEF TakeStarted, TakeItem
<1>6. CASE Child(t)
  BY <1>6 DEF Child, ReadInput, PrintStarted, PrintItem, PrintJunk, PrintFinal, CloseStdout, Exit,
              DescendantEnds
<1> QED
  BY <1>1, <1>2, <1>3, <1>4, <1>5, <1>6 DEF Step, RunStep

\* The end of a turn that is not a success keeps its invariant if the child
\* has ended.
LEMMA ReturnInv ==
    ASSUME TypeOK, NEW t \in Turns, NEW what, what # "ok", Return(t, what), proc'[t] # "running"
    PROVE  TurnInv(t)'
BY DEF TypeOK, Return, Goto, TurnInv, ChildFits, Accounted, OkComplete, Over

\* A step of the turn keeps its invariant.
LEMMA RunInv ==
    ASSUME TypeOK, NEW t \in Turns, TurnInv(t), RunStep(t) \/ Drop(t)
    PROVE  TurnInv(t)'
<1> USE DEF TurnInv, ChildFits, Accounted, OkComplete, Over, turnVars, outVars, Goto
<1>1. CASE WriteInput(t) \/ CloseStdin(t) \/ EndOfOutput(t)
  BY <1>1 DEF TypeOK, WriteInput, CloseStdin, EndOfOutput, AtEof
<1>2. ASSUME KillOnDrop(t) PROVE proc'[t] # "running"
  BY <1>2 DEF TypeOK, KillOnDrop, Ends
<1>3. CASE SeeCancel(t)
  BY <1>2, <1>3 DEF TypeOK, SeeCancel
<1>4. CASE Cancelled(t)
  BY <1>4, ReturnInv DEF Cancelled
<1>5. CASE WriteFails(t) \/ TakeFailure(t) \/ Drop(t)
  BY <1>2, <1>5, ReturnInv DEF WriteFails, TakeFailure, Drop, Abandon
<1>6. CASE TakeStarted(t) \/ TakeItem(t)
  <2> DEFINE s == out[t]
  <2>1. s \in Seq(Line) /\ s # <<>> /\ out'[t] = Tail(s) /\ pc[t] = "reading" /\ pc'[t] = pc[t]
    BY <1>6 DEF TypeOK, TakeStarted, TakeItem, Next1, Pop
  <2>2. /\ InPipe(s) = IF Head(s).kind = "item" THEN InPipe(Tail(s)) + 1 ELSE InPipe(Tail(s))
        /\ HasFailure(s) => HasFailure(Tail(s)) \/ Head(s).kind = "failed"
    BY <2>1, TailPipe
  <2>3. InPipe(Tail(s)) \in Nat /\ items[t] \in Nat
    BY <2>1, ItemsFinite, HeadTailProperties DEF TypeOK
  <2>4. items'[t] = IF Head(s).kind = "item" THEN items[t] + 1 ELSE items[t]
    BY <1>6 DEF TypeOK, TakeStarted, TakeItem, Next1
  <2>5. Head(s).kind # "failed"
    BY <1>6 DEF TakeStarted, TakeItem, Next1
  <2>6. UNCHANGED <<printed, final, outcome, proc>>
    BY <1>6 DEF TakeStarted, TakeItem
  <2>7. items'[t] + InPipe(out'[t]) = printed'[t]
    BY <2>1, <2>2, <2>3, <2>4, <2>6
  <2> QED
    BY <2>1, <2>2, <2>5, <2>6, <2>7
<1>7. CASE Finish(t)
  <2>1. items[t] = printed[t] /\ final[t] # "failed"
    BY <1>7, EmptyPipe DEF Finish, TypeOK
  <2>2. proc[t] # "running" /\ UNCHANGED <<proc, items, printed, final>> /\ pc'[t] = "done"
    BY <1>7 DEF Finish, TypeOK, Return
  <2>3. outcome'[t] = "ok" => proc[t] = "ok"
    BY <1>7 DEF Finish, TypeOK, Return, ExitOutcome
  <2> QED
    BY <2>1, <2>2, <2>3
<1> QED
  BY <1>1, <1>3, <1>4, <1>5, <1>6, <1>7 DEF RunStep

\* A step of the child keeps the invariant of its turn.
LEMMA ChildInv ==
    ASSUME TypeOK, NEW t \in Turns, TurnInv(t), Child(t)
    PROVE  TurnInv(t)'
<1> USE DEF TurnInv, ChildFits, Accounted, OkComplete, Over, turnVars, outVars
<1>1. CASE ReadInput(t) \/ CloseStdout(t) \/ DescendantEnds(t)
  BY <1>1 DEF TypeOK, ReadInput, CloseStdout, DescendantEnds
<1>2. ASSUME NEW status \in {"ok", "failed"}, Exit(t, status) PROVE TurnInv(t)'
  BY <1>2 DEF TypeOK, Exit, Ends
<1>3. ASSUME NEW line \in Line, Prints(t, line),
             printed'[t] = IF line.kind = "item" THEN printed[t] + 1 ELSE printed[t],
             final'[t] = "failed" => final[t] = "failed" \/ line.kind = "failed"
      PROVE  TurnInv(t)'
  <2>1. /\ proc[t] = "running" /\ outOpen[t] /\ out'[t] = Append(out[t], line)
        /\ UNCHANGED <<pc, items, outcome, proc, outOpen>>
    BY <1>3 DEF TypeOK, Prints
  <2>2. out[t] \in Seq(Line) /\ items[t] \in Nat /\ InPipe(out[t]) \in Nat
    BY ItemsFinite DEF TypeOK
  <2>3. /\ InPipe(out'[t]) = IF line.kind = "item" THEN InPipe(out[t]) + 1 ELSE InPipe(out[t])
        /\ HasFailure(out'[t]) <=> HasFailure(out[t]) \/ line.kind = "failed"
    BY <2>1, <2>2, AppendPipe
  <2> QED
    BY <1>3, <2>1, <2>2, <2>3
<1>4. CASE PrintStarted(t)
  <2> DEFINE id == IF resumed[t] = "none" THEN t ELSE resumed[t]
             line == [kind |-> "started", id |-> id]
  <2>1. line \in Line /\ line.kind = "started"
    BY DEF TypeOK, ThreadIds, Line
  <2> QED
    BY <1>3, <1>4, <2>1 DEF PrintStarted
<1>5. CASE PrintItem(t)
  <2>1. [kind |-> "item"] \in Line
    BY DEF Line
  <2> QED
    BY <1>3, <1>5, <2>1 DEF PrintItem, TypeOK
<1>6. CASE PrintJunk(t)
  <2>1. [kind |-> "junk"] \in Line
    BY DEF Line
  <2> QED
    BY <1>3, <1>6, <2>1 DEF PrintJunk
<1>7. ASSUME NEW f \in Finals, PrintFinal(t, f) PROVE TurnInv(t)'
  <2>1. [kind |-> f] \in Line /\ f # "item"
    BY DEF Line, Finals
  <2> QED
    BY <1>3, <1>7, <2>1 DEF PrintFinal, TypeOK
<1> QED
  BY <1>1, <1>2, <1>4, <1>5, <1>6, <1>7 DEF Child

\* Every step keeps the invariant of every turn.
LEMMA NextTurnInv ==
    ASSUME TypeOK, \A t \in Turns : TurnInv(t), [Next]_vars
    PROVE  \A t \in Turns : TurnInv(t)'
<1>1. CASE UNCHANGED vars
  BY <1>1, OwnInv DEF vars, turnVars, outVars, Own
<1>2. CASE Next
  <2> PICK t \in Turns : Step(t)
    BY <1>2 DEF Next, Step
  <2>1. ASSUME NEW u \in Turns, u # t PROVE TurnInv(u)'
    BY <2>1, OthersUntouched, OwnInv
  <2>2. TurnInv(t)'
    <3>1. ASSUME NEW why \in {"cancelled", "rejected"}, Refuse(t, why) PROVE TurnInv(t)'
      <4>1. pc[t] = "idle" /\ proc' = proc /\ Return(t, why) /\ why # "ok"
        BY <3>1 DEF Refuse
      <4> QED
        BY <4>1, ReturnInv DEF TurnInv, ChildFits
    <3>2. CASE Start(t) \/ CancelToken(t)
      BY <3>2 DEF Start, CancelToken, TypeOK, Goto, turnVars, outVars,
                  TurnInv, ChildFits, Accounted, OkComplete, Over
    <3> QED
      BY <3>1, <3>2, RunInv, ChildInv DEF Step
  <2> QED
    BY <2>1, <2>2
<1> QED
  BY <1>1, <1>2

LEMMA TurnsKeepInv == Spec => [](\A t \in Turns : TurnInv(t))
<1>1. Init => \A t \in Turns : TurnInv(t)
  BY InitTurnInv
<1>2. TypeOK /\ (\A t \in Turns : TurnInv(t)) /\ [Next]_vars => (\A t \in Turns : TurnInv(t))'
  BY NextTurnInv
<1> QED
  BY <1>1, <1>2, TypeCorrect, PTL DEF Spec

\* However a turn ends, by success, failure, a bad line, a broken pipe, its
\* token or a dropped future, its child does not run on: kill_on_drop and the
\* waits of CodexExec::run and next_line_or_cancel.
THEOREM NoChildOutlivesTurn == Spec => []NoOrphan
<1>1. (\A t \in Turns : TurnInv(t)) => NoOrphan
  BY DEF TurnInv, ChildFits, NoOrphan
<1> QED
  BY <1>1, TurnsKeepInv, PTL

\* Thread::run returns Ok only for a child that exited with success and
\* reported no failure, and with every item it printed.
THEOREM OkMeansComplete == Spec => []OkIsComplete
<1>1. (\A t \in Turns : TurnInv(t)) => OkIsComplete
  BY DEF TurnInv, OkComplete, OkIsComplete
<1> QED
  BY <1>1, TurnsKeepInv, PTL

----------------------------------------------------------------------------
(* The thread of turns that follow one another *)

\* The id a turn's child gives its thread.
ThreadOf(t) == IF resumed[t] = "none" THEN t ELSE resumed[t]

\* A turn that has not started has printed nothing, one under way has a child,
\* the child names one thread, and the turns before it are over.
ThreadFits(t) ==
    /\ pc[t] = "idle" => out[t] = <<>>
    /\ pc[t] \in {"writing", "reading", "killed", "waiting"} => proc[t] # "none"
    /\ \A i \in 1 .. Len(out[t]) : out[t][i].kind = "started" => out[t][i].id = ThreadOf(t)
    /\ \A u \in before[t] : Over(u)

\* The thread's id is the one every turn has seen, and the one a turn under way
\* resumed or has started.
OneThread ==
    Sequential =>
        /\ \A t \in Turns : thread[t] # "none" => thread[t] = threadId
        /\ \A t \in Turns : Started(t) /\ ~Over(t) => threadId \in {resumed[t], ThreadOf(t)}

ThreadInv == OneThread /\ \A t \in Turns : ThreadFits(t)

\* What a step of a turn may do to what the invariant speaks of.
LEMMA ThreadStep ==
    ASSUME TypeOK, NEW t \in Turns, Step(t)
    PROVE  /\ \/ Start(t) \/ TakeStarted(t)
              \/ UNCHANGED <<threadId, thread, resumed, before>>
           /\ pc'[t] = "idle" => pc[t] = "idle"
           /\ Over(t) => Over(t)'
           /\ proc[t] # "none" => proc'[t] # "none"
           /\ pc'[t] \in {"writing", "reading", "killed", "waiting"} =>
                 Start(t) \/ pc[t] \in {"writing", "reading", "killed", "waiting"}
<1> USE DEF TypeOK, turnVars, outVars, Goto, Return, Ends, KillOnDrop, Abandon, Over
<1>1. ASSUME NEW why \in {"cancelled", "rejected"}, Refuse(t, why)
      PROVE  /\ UNCHANGED <<threadId, thread, resumed, before, proc>>
             /\ pc[t] = "idle" /\ pc'[t] = "done"
  BY <1>1 DEF Refuse
<1>2. CASE Start(t)
  BY <1>2 DEF Start
<1>3. CASE CancelToken(t) \/ WriteInput(t) \/ CloseStdin(t) \/ EndOfOutput(t)
  BY <1>3 DEF CancelToken, WriteInput, CloseStdin, EndOfOutput
<1>4. CASE SeeCancel(t) \/ Cancelled(t) \/ Finish(t)
  BY <1>4 DEF SeeCancel, Cancelled, Finish
<1>5. CASE WriteFails(t) \/ TakeFailure(t) \/ Drop(t)
  BY <1>5 DEF WriteFails, TakeFailure, Drop, Next1
<1>6. CASE TakeStarted(t) \/ TakeItem(t)
  BY <1>6 DEF TakeStarted, TakeItem, Next1
<1>7. CASE Child(t)
  BY <1>7 DEF Child, ReadInput, PrintStarted, PrintItem, PrintJunk, PrintFinal, Prints, CloseStdout,
              Exit, DescendantEnds
<1> QED
  BY <1>1, <1>2, <1>3, <1>4, <1>5, <1>6, <1>7 DEF Step, RunStep

\* What it may do to its own pipe: drop all, take a line or print one.
LEMMA PipeStep ==
    ASSUME TypeOK, NEW t \in Turns, Step(t)
    PROVE  \/ out'[t] = out[t] \/ out'[t] = <<>>
           \/ pc[t] = "reading" /\ out[t] # <<>> /\ out'[t] = Tail(out[t])
           \/ \E line \in Line : /\ proc[t] = "running" /\ pc'[t] = pc[t]
                                 /\ line.kind = "started" => line.id = ThreadOf(t)
                                 /\ out'[t] = Append(out[t], line)
<1> USE DEF TypeOK, turnVars, outVars, Return, Abandon
<1>1. CASE \E why \in {"cancelled", "rejected"} : Refuse(t, why)
  BY <1>1 DEF Refuse
<1>2. CASE Start(t) \/ CancelToken(t) \/ WriteInput(t) \/ CloseStdin(t) \/ EndOfOutput(t) \/ SeeCancel(t)
  BY <1>2 DEF Start, CancelToken, WriteInput, CloseStdin, EndOfOutput, SeeCancel
<1>3. CASE Cancelled(t) \/ Finish(t) \/ WriteFails(t) \/ TakeFailure(t) \/ Drop(t)
  BY <1>3 DEF Cancelled, Finish, WriteFails, TakeFailure, Drop
<1>4. CASE TakeStarted(t) \/ TakeItem(t)
  BY <1>4 DEF TakeStarted, TakeItem, Next1, Pop
<1>5. CASE ReadInput(t) \/ CloseStdout(t) \/ DescendantEnds(t) \/ \E s \in {"ok", "failed"} : Exit(t, s)
  BY <1>5 DEF ReadInput, CloseStdout, DescendantEnds, Exit
<1>6. ASSUME NEW line \in Line, Prints(t, line), line.kind = "started" => line.id = ThreadOf(t)
      PROVE  \E l \in Line : /\ proc[t] = "running" /\ pc'[t] = pc[t]
                             /\ l.kind = "started" => l.id = ThreadOf(t)
                             /\ out'[t] = Append(out[t], l)
  BY <1>6 DEF Prints
<1>7. CASE PrintStarted(t)
  <2>1. [kind |-> "started", id |-> ThreadOf(t)] \in Line
    BY DEF ThreadOf, ThreadIds, Line
  <2> QED
    BY <1>6, <1>7, <2>1 DEF PrintStarted, ThreadOf
<1>8. CASE PrintItem(t) \/ PrintJunk(t) \/ \E f \in Finals : PrintFinal(t, f)
  <2>1. PICK k \in {"item", "junk"} \cup Finals : Prints(t, [kind |-> k])
    BY <1>8 DEF PrintItem, PrintJunk, PrintFinal
  <2>2. [kind |-> k] \in Line /\ k # "started"
    BY DEF Line, Finals
  <2> QED
    BY <1>6, <2>1, <2>2
<1> QED
  BY <1>1, <1>2, <1>3, <1>4, <1>5, <1>7, <1>8 DEF Step, RunStep, Child

\* What a turn that has started resumed, and what was over then, is settled.
LEMMA Settled ==
    ASSUME TypeOK, TypeOK', NEW t \in Turns, ThreadFits(t), Step(t), NEW u \in Turns
    PROVE  /\ resumed'[u] # resumed[u] \/ before'[u] # before[u] => u = t /\ Start(t)
           /\ Over(u) => Over(u)'
           /\ Started(u) => Started(u)'
           /\ Started(u)' => Started(u) \/ (u = t /\ Start(t)) \/ Over(u)'
<1>1. CASE u # t
  <2>1. UNCHANGED <<pc[u], proc[u], out[u]>>
    BY <1>1, OthersUntouched DEF Own
  <2>2. UNCHANGED <<resumed[u], before[u]>>
    <3>1. CASE Start(t)
      BY <1>1, <3>1 DEF Start, TypeOK
    <3>2. CASE TakeStarted(t)
      BY <3>2 DEF TakeStarted
    <3> QED
      BY <3>1, <3>2, ThreadStep
  <2>3. (Over(u)' <=> Over(u)) /\ (Started(u)' <=> Started(u))
    BY <2>1 DEF Over, Started
  <2> QED
    BY <2>2, <2>3
<1>2. CASE u = t
  <2>1. Over(t) => Over(t)'
    BY ThreadStep
  <2>2. Started(t) => Started(t)'
    BY ThreadStep DEF Started
  <2>3. resumed'[t] # resumed[t] \/ before'[t] # before[t] => Start(t)
    BY ThreadStep DEF TakeStarted, TypeOK
  <2>4. Started(t)' => Started(t) \/ Start(t) \/ Over(t)'
    <3> SUFFICES ASSUME Started(t)', ~Over(t)' PROVE Started(t) \/ Start(t)
      OBVIOUS
    <3>1. pc'[t] \in {"writing", "reading", "killed", "waiting"}
      BY DEF Started, Over, TypeOK
    <3>2. Start(t) \/ pc[t] \in {"writing", "reading", "killed", "waiting"}
      BY <3>1, ThreadStep
    <3> QED
      BY <3>2 DEF Started, ThreadFits
  <2> QED
    BY <1>2, <2>1, <2>2, <2>3, <2>4
<1> QED
  BY <1>1, <1>2

\* A step keeps what is true of a turn by itself.
LEMMA StepThreadFits ==
    ASSUME TypeOK, TypeOK', NEW t \in Turns, Step(t),
           \A u \in Turns : ThreadFits(u) /\ TurnInv(u), NEW u \in Turns
    PROVE  ThreadFits(u)'
<1>1. \A v \in before'[u] : Over(v)'
  <2> TAKE v \in before'[u]
  <2>1. v \in Turns
    BY DEF TypeOK
  <2>2. CASE u = t /\ Start(t)
    <3>1. v \in {w \in Turns : Over(w)}
      BY <2>2 DEF Start, TypeOK
    <3> QED
      BY <2>1, <3>1, Settled
  <2>3. CASE before'[u] = before[u]
    BY <2>1, <2>3, Settled DEF ThreadFits
  <2> QED
    BY <2>2, <2>3, Settled
<1>2. CASE u # t
  <2>1. UNCHANGED <<pc[u], proc[u], out[u]>> /\ resumed'[u] = resumed[u]
    BY <1>2, OthersUntouched, Settled DEF Own
  <2> QED
    BY <1>1, <2>1 DEF ThreadFits, ThreadOf
<1>3. CASE u = t
  <2>1. pc'[t] \in {"writing", "reading", "killed", "waiting"} => proc'[t] # "none"
    <3>1. CASE Start(t)
      BY <3>1 DEF Start, TypeOK
    <3>2. CASE pc[t] \in {"writing", "reading", "killed", "waiting"}
      BY <3>2, ThreadStep DEF ThreadFits
    <3> QED
      BY <3>1, <3>2, ThreadStep
  <2>2. pc'[t] = "idle" => out'[t] = <<>>
    <3> SUFFICES ASSUME pc'[t] = "idle" PROVE out'[t] = <<>>
      OBVIOUS
    <3>1. pc[t] = "idle" /\ proc[t] = "none" /\ out[t] = <<>>
      BY ThreadStep DEF ThreadFits, TurnInv, ChildFits
    <3> QED
      BY <3>1, PipeStep
  <2>3. out[t] # <<>> => ThreadOf(t)' = ThreadOf(t)
    <3>1. ASSUME Start(t) PROVE out[t] = <<>>
      BY <3>1 DEF Start, ThreadFits
    <3> QED
      BY <3>1, Settled DEF ThreadOf
  <2>4. out[t] \in Seq(Line) /\ Len(out[t]) \in Nat
    BY LenProperties DEF TypeOK
  <2>5. \A i \in 1 .. Len(out'[t]) : out'[t][i].kind = "started" => out'[t][i].id = ThreadOf(t)'
    <3>1. CASE out'[t] = <<>>
      BY <3>1
    <3>2. CASE out[t] # <<>> /\ out'[t] = out[t]
      BY <2>3, <3>2 DEF ThreadFits
    <3>3. CASE out[t] # <<>> /\ out'[t] = Tail(out[t])
      <4>1. /\ Len(out'[t]) = Len(out[t]) - 1
            /\ \A i \in 1 .. Len(out'[t]) : out'[t][i] = out[t][i + 1]
        BY <2>4, <3>3, HeadTailProperties
      <4> QED
        BY <2>3, <2>4, <3>3, <4>1 DEF ThreadFits
    <3>4. ASSUME NEW line \in Line, proc[t] = "running", pc'[t] = pc[t],
                 line.kind = "started" => line.id = ThreadOf(t),
                 out'[t] = Append(out[t], line)
          PROVE  \A i \in 1 .. Len(out'[t]) : out'[t][i].kind = "started" => out'[t][i].id = ThreadOf(t)'
      <4>1. /\ Len(out'[t]) = Len(out[t]) + 1 /\ out'[t][Len(out[t]) + 1] = line
            /\ \A i \in 1 .. Len(out[t]) : out'[t][i] = out[t][i]
        BY <2>4, <3>4, AppendProperties
      <4>2. ~Start(t)
        BY <3>4 DEF Start, TurnInv, ChildFits
      <4>3. ThreadOf(t)' = ThreadOf(t)
        BY <4>2, Settled DEF ThreadOf
      <4>4. \A i \in 1 .. Len(out[t]) : out[t][i].kind = "started" => out[t][i].id = ThreadOf(t)
        BY DEF ThreadFits
      <4>5. ASSUME NEW i \in 1 .. Len(out'[t]), out'[t][i].kind = "started"
            PROVE  out'[t][i].id = ThreadOf(t)'
        <5>1. CASE i \in 1 .. Len(out[t])
          BY <4>1, <4>3, <4>4, <4>5, <5>1
        <5>2. CASE i = Len(out[t]) + 1
          BY <3>4, <4>1, <4>3, <4>5, <5>2
        <5> QED
          BY <2>4, <4>1, <4>5, <5>1, <5>2
      <4> QED
        BY <4>5
    <3> QED
      BY <3>1, <3>2, <3>3, <3>4, PipeStep
  <2> QED
    BY <1>1, <1>3, <2>1, <2>2, <2>5 DEF ThreadFits
<1> QED
  BY <1>2, <1>3

\* Turns that overlapped do not follow one another later.
LEMMA StaySequential ==
    ASSUME TypeOK, TypeOK', NEW t \in Turns, Step(t), ThreadFits(t), Sequential'
    PROVE  Sequential
<1> SUFFICES ASSUME NEW u \in Turns, NEW v \in Turns, Started(u), Started(v), u # v
             PROVE  u \in before[v] \/ v \in before[u]
  BY DEF Sequential
<1>1. Started(u)' /\ Started(v)'
  BY Settled
<1>2. before'[u] = before[u] /\ before'[v] = before[v]
  BY Settled DEF Start, Started
<1> QED
  BY <1>1, <1>2 DEF Sequential

\* Only the turn under way, if there is one, touches the thread's id.
LEMMA StepOneThread ==
    ASSUME TypeOK, TypeOK', NEW t \in Turns, Step(t), ThreadInv
    PROVE  OneThread'
<1> SUFFICES ASSUME Sequential'
             PROVE  /\ \A u \in Turns : thread'[u] # "none" => thread'[u] = threadId'
                    /\ \A u \in Turns : Started(u)' /\ ~Over(u)' => threadId' \in {resumed'[u], ThreadOf(u)'}
  BY DEF OneThread
<1>0. ThreadFits(t) /\ \A u \in Turns : ThreadFits(u)
  BY DEF ThreadInv
<1>1. Sequential
  BY <1>0, StaySequential
<1>2. /\ \A u \in Turns : thread[u] # "none" => thread[u] = threadId
      /\ \A u \in Turns : Started(u) /\ ~Over(u) => threadId \in {resumed[u], ThreadOf(u)}
  BY <1>1 DEF ThreadInv, OneThread
<1>3. ASSUME NEW u \in Turns, Started(u)', ~Over(u)', ~(u = t /\ Start(t))
      PROVE  /\ Started(u) /\ ~Over(u) /\ threadId \in {resumed[u], ThreadOf(u)}
             /\ resumed'[u] = resumed[u] /\ ThreadOf(u)' = ThreadOf(u)
  <2>1. Started(u) /\ ~Over(u) /\ resumed'[u] = resumed[u]
    BY <1>0, <1>3, Settled
  <2> QED
    BY <1>2, <2>1 DEF ThreadOf
<1>4. CASE Start(t)
  <2>1. threadId' = threadId /\ thread' = thread /\ resumed'[t] = threadId
    BY <1>4 DEF Start, Resume, TypeOK
  <2> QED
    BY <1>2, <1>3, <2>1
<1>5. CASE TakeStarted(t)
  <2>1. /\ pc[t] = "reading" /\ pc' = pc /\ proc' = proc /\ resumed' = resumed /\ before' = before
        /\ out[t] # <<>> /\ Head(out[t]).kind = "started"
        /\ threadId' = Head(out[t]).id
        /\ thread' = [thread EXCEPT ![t] = Head(out[t]).id]
    BY <1>5 DEF TakeStarted, Next1
  <2>2. Head(out[t]).id = ThreadOf(t)
    <3>1. Head(out[t]) = out[t][1] /\ 1 \in 1 .. Len(out[t])
      <4>1. out[t] \in Seq(Line) /\ out[t] # <<>>
        BY <2>1 DEF TypeOK
      <4> QED
        BY <4>1, EmptySeq
    <3> QED
      BY <1>0, <2>1, <3>1 DEF ThreadFits
  <2>3. Started(t) /\ ~Over(t)
    BY <1>0, <2>1 DEF ThreadFits, Started, Over
  <2>4. threadId \in {resumed[t], ThreadOf(t)}
    BY <1>2, <2>3
  <2>5. threadId # "none" => threadId = ThreadOf(t)
    BY <2>4 DEF ThreadOf
  <2>6. ASSUME NEW u \in Turns, thread'[u] # "none" PROVE thread'[u] = threadId'
    <3>1. CASE u = t
      BY <2>1, <3>1 DEF TypeOK
    <3>2. CASE u # t
      BY <1>2, <2>1, <2>2, <2>5, <2>6, <3>2 DEF TypeOK
    <3> QED
      BY <3>1, <3>2
  <2>7. ASSUME NEW u \in Turns, Started(u)', ~Over(u)' PROVE u = t
    <3>1. Started(u) /\ ~Over(u)
      BY <2>1, <2>7 DEF Started, Over
    <3> QED
      BY <1>0, <1>1, <2>3, <3>1 DEF Sequential, ThreadFits
  <2>8. ThreadOf(t)' = ThreadOf(t)
    BY <2>1 DEF ThreadOf
  <2> QED
    BY <2>1, <2>2, <2>6, <2>7, <2>8
<1>6. CASE UNCHANGED <<threadId, thread, resumed, before>>
  <2>1. threadId' = threadId /\ thread' = thread
    BY <1>6
  <2>2. ~Start(t) \/ resumed'[t] = threadId
    BY DEF Start, Resume, TypeOK
  <2> QED
    BY <1>2, <1>3, <2>1, <2>2
<1> QED
  BY <1>4, <1>5, <1>6, ThreadStep

LEMMA InitThreadInv == Init => ThreadInv
<1> SUFFICES ASSUME Init PROVE ThreadInv
  OBVIOUS
<1>1. \A t \in Turns : thread[t] = "none" /\ ~Started(t) /\ out[t] = <<>> /\ before[t] = {} /\ pc[t] = "idle"
  BY DEF Init, Started
<1> QED
  BY <1>1 DEF ThreadInv, OneThread, ThreadFits

LEMMA TurnsKeepThread == Spec => []ThreadInv
<1>1. ASSUME TypeOK, TypeOK', \A t \in Turns : TurnInv(t), ThreadInv, [Next]_vars
      PROVE  ThreadInv'
  <2>1. CASE UNCHANGED vars
    BY <1>1, <2>1 DEF vars, turnVars, outVars, ThreadInv, OneThread, ThreadFits, ThreadOf, Sequential,
                      Started, Over
  <2>2. CASE Next
    <3> PICK t \in Turns : Step(t)
      BY <2>2 DEF Next, Step
    <3>1. OneThread'
      BY <1>1, StepOneThread
    <3>2. \A u \in Turns : ThreadFits(u)'
      BY <1>1, StepThreadFits DEF ThreadInv
    <3> QED
      BY <3>1, <3>2 DEF ThreadInv
  <2> QED
    BY <1>1, <2>1, <2>2
<1> QED
  BY <1>1, InitThreadInv, TypeCorrect, TurnsKeepInv, PTL DEF Spec

\* Turns of one Thread that follow one another are turns of one thread of the
\* CLI: the id is taken from the first event of the first, and each later one
\* resumes it (Thread::run_streamed reads and its parser stores Thread.id).
THEOREM SequentialTurnsAreOneThread == Spec => []SequentialTurnsShareThread
<1>1. ThreadInv => SequentialTurnsShareThread
  BY DEF ThreadInv, OneThread, SequentialTurnsShareThread
<1> QED
  BY <1>1, TurnsKeepThread, PTL

============================================================================
