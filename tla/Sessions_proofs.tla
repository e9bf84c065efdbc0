--------------------------- MODULE Sessions_proofs ---------------------------
(***************************************************************************)
(* Theorems about sessions: those an executor keeps (SessionRegistry), for *)
(* any number of calls, any session ids and any limit, and those the CLI   *)
(* has written to disk (SessionFiles), for transcripts and listings of any *)
(* length.                                                                 *)
(***************************************************************************)
EXTENDS SessionRegistry, SessionFiles, FiniteSetTheorems, SequenceTheorems, TLAPS

----------------------------------------------------------------------------
(* The sessions on disk *)

----------------------------------------------------------------------------
(* Induction, and functions that are defined by it *)

\* A set of numbers has a least one: their initial segments, ordered by
\* inclusion, are well founded.
LEMMA LeastNumber ==
    ASSUME NEW T \in SUBSET Nat, T # {}
    PROVE  \E m \in T : \A k \in T : m <= k
<1> DEFINE F == {0 .. n : n \in T}
<1>1. F \subseteq FiniteSubsetsOf(Nat)
  <2> SUFFICES ASSUME NEW n \in T PROVE 0 .. n \in FiniteSubsetsOf(Nat)
    OBVIOUS
  <2>1. IsFiniteSet(0 .. n)
    BY FS_Interval
  <2> QED
    BY <2>1 DEF FiniteSubsetsOf
<1>2. F # {}
  OBVIOUS
<1>3. PICK x \in F : \A y \in F : <<y, x>> \notin StrictSubsetOrdering(Nat)
  <2> HIDE DEF F
  <2> QED
    BY <1>1, <1>2, FS_StrictSubsetOrderingWellFounded, WFMin
<1>4. PICK m \in T : x = 0 .. m
  OBVIOUS
<1>5. ASSUME NEW k \in T, k < m PROVE FALSE
  <2>1. 0 .. k \subseteq 0 .. m /\ 0 .. k # 0 .. m /\ 0 .. k \in SUBSET Nat /\ 0 .. m \in SUBSET Nat
    <3>1. m \in 0 .. m /\ m \notin 0 .. k
      BY <1>5
    <3> QED
      BY <1>5, <3>1
  <2>2. <<0 .. k, 0 .. m>> \in StrictSubsetOrdering(Nat)
    BY <2>1 DEF StrictSubsetOrdering
  <2> QED
    BY <1>3, <1>4, <2>2
<1> QED
  BY <1>5

\* What holds of 0, and of a number if of all before it, holds up to any bound.
LEMMA Induction ==
    ASSUME NEW N \in Nat, NEW S, 0 \in S, \A i \in 1 .. N : (0 .. i - 1) \subseteq S => i \in S
    PROVE  0 .. N \subseteq S
<1> SUFFICES ASSUME (0 .. N) \ S # {} PROVE FALSE
  OBVIOUS
<1>1. PICK m \in (0 .. N) \ S : \A k \in (0 .. N) \ S : m <= k
  <2>1. (0 .. N) \ S \in SUBSET Nat
    OBVIOUS
  <2> QED
    BY <2>1, LeastNumber
<1>2. m \in 1 .. N
  OBVIOUS
<1>3. 0 .. m - 1 \subseteq S
  <2>1. ASSUME NEW k \in 0 .. m - 1 PROVE k \in S
    <3>1. k \in 0 .. N /\ ~(m <= k)
      BY <1>2
    <3> QED
      BY <1>1, <3>1
  <2> QED
    BY <2>1
<1> QED
  BY <1>2, <1>3

\* A set of numbers below a bound has a greatest one.
LEMMA GreatestNumber ==
    ASSUME NEW N \in Nat, NEW T \in SUBSET (0 .. N), T # {}
    PROVE  \E m \in T : \A k \in T : k <= m
<1> DEFINE B == {b \in Nat : \A k \in T : k <= b}
<1>1. B \in SUBSET Nat /\ N \in B
  OBVIOUS
<1>2. PICK b \in B : \A c \in B : b <= c
  <2> HIDE DEF B
  <2> QED
    BY <1>1, LeastNumber
<1>3. CASE b \in T
  BY <1>3
<1>4. CASE b \notin T
  <2>1. PICK k \in T : TRUE
    OBVIOUS
  <2>2. b # 0
    BY <1>4, <2>1
  <2>3. \A j \in T : j <= b - 1
    BY <1>4, <2>2
  <2>4. b - 1 \in B /\ ~(b <= b - 1)
    BY <2>2, <2>3
  <2> QED
    BY <1>2, <2>4
<1> QED
  BY <1>3, <1>4

\* Max finds it.
LEMMA MaxIsGreatest ==
    ASSUME NEW T \in SUBSET Nat, NEW m \in T, \A k \in T : k <= m
    PROVE  Max(T) = m
<1>1. \A x \in T : (\A y \in T : x >= y) => x = m
  OBVIOUS
<1>2. m \in T /\ \A y \in T : m >= y
  OBVIOUS
<1> QED
  BY <1>1, <1>2 DEF Max

\* Max of numbers up to a bound is one of them, and none is greater.
LEMMA MaxIsMember ==
    ASSUME NEW N \in Nat, NEW T \in SUBSET (0 .. N), T # {}
    PROVE  Max(T) \in T /\ \A k \in T : k <= Max(T)
<1>1. PICK m \in T : \A k \in T : k <= m
  BY GreatestNumber
<1>2. T \in SUBSET Nat
  OBVIOUS
<1> QED
  BY <1>1, <1>2, MaxIsGreatest

\* A base, and for each number a number below it and a step from the value there.
Below(N) == {up \in [1 .. N -> Nat] : \A i \in 1 .. N : up[i] < i}
Steps(N, K) == [1 .. N -> [K -> K]]
IsRun(N, base, up, step, g) == g[0] = base /\ \A i \in 1 .. N : g[i] = step[i][g[up[i]]]

\* Two functions that begin alike and go on alike are alike.
GoAlike(N, g, h) ==
    /\ g[0] = h[0]
    /\ \A i \in 1 .. N : (\A j \in 0 .. i - 1 : g[j] = h[j]) => g[i] = h[i]

\* Functions that begin and go on alike have the same values.
LEMMA Alike ==
    ASSUME NEW N \in Nat, NEW g, NEW h, GoAlike(N, g, h)
    PROVE  \A i \in 0 .. N : g[i] = h[i]
<1> DEFINE T == {i \in 0 .. N : g[i] = h[i]}
<1>1. 0 \in T
  BY DEF GoAlike
<1>2. ASSUME NEW i \in 1 .. N, 0 .. i - 1 \subseteq T PROVE i \in T
  BY <1>2 DEF GoAlike
<1>3. 0 .. N \subseteq T
  <2> HIDE DEF T
  <2> QED
    BY <1>1, <1>2, Induction
<1> QED
  BY <1>3

\* Steps that stay in a set define a value for each number.
LEMMA Recursion ==
    ASSUME NEW N \in Nat, NEW K, NEW base \in K, NEW up \in Below(N), NEW step \in Steps(N, K)
    PROVE  \E g \in [0 .. N -> K] : IsRun(N, base, up, step, g)
<1> DEFINE Fits(n, g) == g[0] = base /\ \A i \in 1 .. n : g[i] = step[i][g[up[i]]]
           T == {n \in 0 .. N : \E g \in [0 .. n -> K] : Fits(n, g)}
<1>1. 0 \in T
  <2> DEFINE g == [i \in 0 .. 0 |-> base]
  <2>1. g \in [0 .. 0 -> K] /\ Fits(0, g)
    OBVIOUS
  <2> HIDE DEF g, Fits
  <2> QED
    BY <2>1
<1>2. ASSUME NEW n \in 1 .. N, 0 .. n - 1 \subseteq T PROVE n \in T
  <2>1. n - 1 \in T
    BY <1>2
  <2>2. PICK g \in [0 .. n - 1 -> K] : Fits(n - 1, g)
    <3> HIDE DEF Fits
    <3> QED
      BY <2>1
  <2>3. \A i \in 1 .. n : up[i] \in 0 .. i - 1 /\ up[i] \in 0 .. n - 1
    BY DEF Below
  <2> DEFINE h == [i \in 0 .. n |-> IF i = n THEN step[n][g[up[n]]] ELSE g[i]]
  <2>4. step[n][g[up[n]]] \in K
    <3>1. g[up[n]] \in K
      BY <2>3
    <3> QED
      BY <3>1 DEF Steps
  <2>5. h \in [0 .. n -> K]
    BY <2>4
  <2>6. Fits(n, h)
    <3>1. h[0] = base
      BY <2>2
    <3>2. ASSUME NEW i \in 1 .. n PROVE h[i] = step[i][h[up[i]]]
      <4>1. h[up[i]] = g[up[i]]
        BY <2>3
      <4>2. CASE i = n
        <5>1. h[n] = step[n][g[up[n]]]
          OBVIOUS
        <5> HIDE DEF h
        <5> QED
          BY <4>1, <4>2, <5>1
      <4>3. CASE i \in 1 .. n - 1
        <5>1. h[i] = g[i]
          BY <4>3
        <5> QED
          BY <2>2, <4>1, <4>3, <5>1
      <4>4. i = n \/ i \in 1 .. n - 1
        OBVIOUS
      <4> HIDE DEF h
      <4> QED
        BY <4>2, <4>3, <4>4
    <3> QED
      BY <3>1, <3>2
  <2> HIDE DEF h, Fits
  <2> QED
    BY <2>5, <2>6
<1>3. 0 .. N \subseteq T
  <2> HIDE DEF T
  <2> QED
    BY <1>1, <1>2, Induction
<1> HIDE DEF Fits
<1>4. \E g \in [0 .. N -> K] : Fits(N, g)
  <2>1. N \in 0 .. N
    OBVIOUS
  <2> QED
    BY <1>3, <2>1
<1> QED
  BY <1>4 DEF Fits, IsRun

----------------------------------------------------------------------------
(* Keep, one element at a time *)

\* The recursive definition of Keep is of a function.
KeepRun(s, W, g) ==
    /\ Keep(s, W) = g[Len(s)]
    /\ g[0] = <<>>
    /\ \A i \in 1 .. Len(s) : g[i] = IF i \in W THEN Append(g[i - 1], s[i]) ELSE g[i - 1]

\* Keep is the end of a run through the sequence.
LEMMA KeepRuns ==
    ASSUME NEW A, NEW s \in Seq(A), NEW W
    PROVE  \E g \in [0 .. Len(s) -> Seq(A)] : KeepRun(s, W, g)
<1> DEFINE N == Len(s)
           K == Seq(A)
           up == [i \in 1 .. N |-> i - 1]
           step == [i \in 1 .. N |-> [x \in K |-> IF i \in W THEN Append(x, s[i]) ELSE x]]
           Fits(g) == g = [i \in 0 .. N |-> IF i = 0 THEN <<>>
                                            ELSE IF i \in W THEN Append(g[i - 1], s[i]) ELSE g[i - 1]]
           upTo == CHOOSE g : Fits(g)
<1>1. N \in Nat /\ <<>> \in K /\ \A i \in 1 .. N : s[i] \in A
  BY EmptySeq, LenProperties, ElementOfSeq
<1>2. step \in Steps(N, K)
  <2>1. ASSUME NEW i \in 1 .. N, NEW x \in K PROVE (IF i \in W THEN Append(x, s[i]) ELSE x) \in K
    BY <1>1, AppendProperties
  <2> HIDE DEF K, N
  <2> QED
    BY <2>1 DEF Steps
<1>3. up \in Below(N) /\ \A i \in 1 .. N : up[i] = i - 1 /\ i - 1 \in 0 .. N
  <2> HIDE DEF N
  <2> QED
    BY <1>1 DEF Below
<1>4. PICK g \in [0 .. N -> K] : IsRun(N, <<>>, up, step, g)
  <2> HIDE DEF K, N, step, up
  <2> QED
    BY <1>1, <1>2, <1>3, Recursion
<1>5. ASSUME NEW i \in 1 .. N
      PROVE  g[i] = IF i \in W THEN Append(g[i - 1], s[i]) ELSE g[i - 1]
  <2> HIDE DEF K, N, up
  <2> QED
    BY <1>3, <1>4 DEF IsRun
<1>6. Fits(g)
  <2> HIDE DEF K, N
  <2>1. \A i \in 0 .. N : i # 0 => i \in 1 .. N
    BY <1>1
  <2> QED
    BY <1>4, <1>5, <2>1 DEF IsRun
<1>7. Fits(upTo)
  <2> HIDE DEF Fits
  <2> QED
    BY <1>6
<1>8. Keep(s, W) = upTo[N]
  BY DEF Keep
<1>9. /\ upTo[0] = <<>>
      /\ \A i \in 1 .. N : upTo[i] = IF i \in W THEN Append(upTo[i - 1], s[i]) ELSE upTo[i - 1]
  <2> HIDE DEF upTo, N
  <2>1. 0 \in 0 .. N /\ \A i \in 1 .. N : i \in 0 .. N /\ i # 0
    BY <1>1
  <2> QED
    BY <1>7, <2>1
<1>10. \A i \in 0 .. N : upTo[i] = g[i]
  <2> HIDE DEF upTo, N
  <2>1. \A i \in 1 .. N : i - 1 \in 0 .. i - 1
    BY <1>1
  <2>2. GoAlike(N, upTo, g)
    BY <1>4, <1>5, <1>9, <2>1 DEF GoAlike, IsRun
  <2> QED
    BY <1>1, <2>2, Alike
<1>11. Keep(s, W) = g[N]
  <2> HIDE DEF upTo, N
  <2>1. N \in 0 .. N
    BY <1>1
  <2> QED
    BY <1>8, <1>10, <2>1
<1> QED
  BY <1>4, <1>5, <1>11 DEF IsRun, KeepRun

\* Nothing is kept of nothing.
LEMMA KeepEmpty == \A W : Keep(<<>>, W) = <<>>
<1> SUFFICES ASSUME NEW W PROVE Keep(<<>>, W) = <<>>
  OBVIOUS
<1>1. <<>> \in Seq({}) /\ Len(<<>>) = 0
  BY EmptySeq
<1>2. PICK g \in [0 .. Len(<<>>) -> Seq({})] : KeepRun(<<>>, W, g)
  BY <1>1, KeepRuns
<1> QED
  BY <1>1, <1>2 DEF KeepRun

\* Of a longer sequence as much is kept, and maybe its last element.
LEMMA KeepAppend ==
    ASSUME NEW A, NEW s \in Seq(A), NEW e \in A, NEW V, NEW W,
           V \cap 1 .. Len(s) = W \cap 1 .. Len(s)
    PROVE  /\ Keep(s, W) \in Seq(A)
           /\ Keep(Append(s, e), V) =
                IF Len(s) + 1 \in V THEN Append(Keep(s, W), e) ELSE Keep(s, W)
<1> DEFINE t == Append(s, e)
           N == Len(s)
<1>1. /\ t \in Seq(A) /\ N \in Nat /\ Len(t) = N + 1 /\ t[N + 1] = e
      /\ \A i \in 1 .. N : t[i] = s[i]
  BY AppendProperties, LenProperties
<1> HIDE DEF t
<1>2. PICK g \in [0 .. Len(s) -> Seq(A)] : KeepRun(s, W, g)
  BY KeepRuns
<1>3. PICK h \in [0 .. Len(t) -> Seq(A)] : KeepRun(t, V, h)
  BY <1>1, KeepRuns
<1>4. \A i \in 1 .. N : i \in V <=> i \in W
  OBVIOUS
<1> HIDE DEF N
<1>5. ASSUME NEW i \in 1 .. N, h[i - 1] = g[i - 1] PROVE h[i] = g[i]
  <2>1. N \in Nat /\ Len(t) = N + 1 /\ t[i] = s[i]
    BY <1>1
  <2>2. i \in 1 .. Len(t)
    BY <2>1
  <2>3. i \in 1 .. Len(s)
    BY DEF N
  <2> QED
    BY <1>2, <1>3, <1>4, <1>5, <2>1, <2>2, <2>3 DEF KeepRun
<1>6. \A i \in 0 .. N : h[i] = g[i]
  <2>1. h[0] = g[0] /\ \A i \in 1 .. N : i - 1 \in 0 .. i - 1
    BY <1>1, <1>2, <1>3 DEF KeepRun
  <2>2. GoAlike(N, h, g)
    <3>1. ASSUME NEW i \in 1 .. N, \A j \in 0 .. i - 1 : h[j] = g[j] PROVE h[i] = g[i]
      BY <1>5, <2>1, <3>1
    <3> QED
      BY <2>1, <3>1 DEF GoAlike
  <2>3. N \in Nat
    BY <1>1
  <2> QED
    BY <2>2, <2>3, Alike
<1>7. h[N] = g[N] /\ N + 1 \in 1 .. Len(t) /\ (N + 1) - 1 = N /\ g[N] \in Seq(A)
  BY <1>1, <1>2, <1>6 DEF N
<1> QED
  BY <1>1, <1>2, <1>3, <1>7 DEF N, t, KeepRun

----------------------------------------------------------------------------
(* The tree in a transcript *)

AnEntry ==
    [uuid : Nat, type : {"message", "note"}, parent : Nat, side : BOOLEAN, whole : BOOLEAN]

\* Entries are named by their places, and below older ones.
Tree(es) ==
    /\ es \in Seq(AnEntry)
    /\ \A i \in 1 .. Len(es) : es[i].uuid = i /\ es[i].parent < i

\* Each entry of a tree has the name of its place, and its parent comes before it.
LEMMA EntriesInTree ==
    ASSUME NEW es, Tree(es), NEW i \in 1 .. Len(es)
    PROVE  /\ Len(es) \in Nat /\ DOMAIN es = 1 .. Len(es)
           /\ es[i] \in AnEntry /\ es[i].uuid = i
           /\ es[i].parent \in 0 .. i - 1 /\ es[i].parent \in 0 .. Len(es)
<1>1. Len(es) \in Nat /\ DOMAIN es = 1 .. Len(es) /\ es[i] \in AnEntry
  BY LenProperties, ElementOfSeq DEF Tree
<1>2. es[i].parent \in Nat
  BY <1>1 DEF AnEntry
<1> QED
  BY <1>1, <1>2 DEF Tree

\* The parent of an entry is found by its name.
LEMMA ParentInTree ==
    ASSUME NEW es, Tree(es), NEW i \in 1 .. Len(es)
    PROVE  ByUuid(es, es[i].parent) = es[i].parent
<1> DEFINE p == es[i].parent
           found == {j \in DOMAIN es : es[j].uuid = p}
<1>1. /\ Len(es) \in Nat /\ DOMAIN es = 1 .. Len(es) /\ p \in 0 .. Len(es)
      /\ \A j \in 1 .. Len(es) : es[j].uuid = j
  BY EntriesInTree
<1>2. found = {j \in 1 .. Len(es) : j = p}
  BY <1>1
<1>3. ByUuid(es, p) = IF found = {} THEN NoEntry ELSE Max(found)
  BY DEF ByUuid
<1> HIDE DEF found, p
<1>4. CASE p = 0
  <2>1. found = {}
    BY <1>1, <1>2, <1>4
  <2> QED
    BY <1>3, <1>4, <2>1 DEF p, NoEntry
<1>5. CASE p # 0
  <2>1. found = {p} /\ p \in Nat
    BY <1>1, <1>2, <1>5
  <2>2. Max(found) = p
    BY <2>1, MaxIsGreatest
  <2> QED
    BY <1>3, <2>1, <2>2 DEF p
<1> QED
  BY <1>4, <1>5

\* The way to an entry is the way to its parent, and the entry.
ChainRun(es, chain) ==
    /\ chain \in [0 .. Len(es) -> Seq(AnEntry)]
    /\ chain[0] = <<>>
    /\ \A i \in 1 .. Len(es) : chain[i] = Append(chain[es[i].parent], es[i])

\* The chain to an entry is the chain to its parent, and the entry.
LEMMA ChainRuns ==
    ASSUME NEW es, Tree(es)
    PROVE  ChainRun(es, ChainTo(es))
<1> DEFINE N == Len(es)
           K == Seq(AnEntry)
           up == [i \in 1 .. N |-> es[i].parent]
           step == [i \in 1 .. N |-> [x \in K |-> Append(x, es[i])]]
           Fits(g) == g = [i \in 0 .. N |-> IF i = NoEntry THEN <<>>
                                            ELSE Append(g[ByUuid(es, es[i].parent)], es[i])]
           chain == CHOOSE g : Fits(g)
<1>1. N \in Nat /\ <<>> \in K
  BY EmptySeq, LenProperties DEF Tree
<1>2. \A i \in 1 .. N : /\ es[i] \in AnEntry /\ es[i].parent \in 0 .. i - 1 /\ es[i].parent \in 0 .. N
                        /\ ByUuid(es, es[i].parent) = es[i].parent
  BY EntriesInTree, ParentInTree
<1> HIDE DEF N, K
<1>3. step \in Steps(N, K)
  <2>1. ASSUME NEW i \in 1 .. N, NEW x \in K PROVE Append(x, es[i]) \in K
    BY <1>2, AppendProperties DEF K
  <2> QED
    BY <2>1 DEF Steps
<1>4. up \in Below(N) /\ \A i \in 1 .. N : up[i] = es[i].parent
  BY <1>1, <1>2 DEF Below
<1>5. PICK g \in [0 .. N -> K] : IsRun(N, <<>>, up, step, g)
  <2> HIDE DEF step, up
  <2> QED
    BY <1>1, <1>3, <1>4, Recursion
<1>6. \A i \in 1 .. N : g[i] = Append(g[es[i].parent], es[i])
  <2> SUFFICES ASSUME NEW i \in 1 .. N PROVE g[i] = Append(g[es[i].parent], es[i])
    OBVIOUS
  <2>1. g[i] = step[i][g[es[i].parent]]
    <3> HIDE DEF step, up
    <3> QED
      BY <1>4, <1>5 DEF IsRun
  <2>2. g[es[i].parent] \in K
    BY <1>2
  <2> QED
    BY <2>1, <2>2
<1>7. g[0] = <<>>
  BY <1>5 DEF IsRun
<1> HIDE DEF step, up
<1>8. Fits(g)
  <2>1. \A i \in 0 .. N : i # 0 => i \in 1 .. N
    BY <1>1
  <2> QED
    BY <1>2, <1>6, <1>7, <2>1 DEF NoEntry
<1>9. Fits(chain)
  <2> HIDE DEF Fits
  <2> QED
    BY <1>8
<1>10. ChainTo(es) = chain
  BY DEF ChainTo, N
<1> HIDE DEF chain
<1>11. chain[0] = <<>> /\ \A i \in 1 .. N : chain[i] = Append(chain[es[i].parent], es[i])
  <2>1. 0 \in 0 .. N /\ \A i \in 1 .. N : i \in 0 .. N /\ i # 0
    BY <1>1
  <2> QED
    BY <1>2, <1>9, <2>1 DEF NoEntry
<1>12. chain \in [0 .. N -> K]
  <2>1. GoAlike(N, chain, g)
    BY <1>2, <1>6, <1>7, <1>11 DEF GoAlike
  <2>2. \A i \in 0 .. N : chain[i] = g[i]
    BY <1>1, <2>1, Alike
  <2> QED
    BY <1>9, <2>2
<1> QED
  BY <1>10, <1>11, <1>12 DEF ChainRun, N, K

\* The nearest message above an entry is it, or that above its parent.
NearestRun(es, nearest) ==
    /\ nearest \in [0 .. Len(es) -> 0 .. Len(es)]
    /\ nearest[0] = 0
    /\ \A i \in 1 .. Len(es) :
         nearest[i] = IF es[i].type = "message" THEN i ELSE nearest[es[i].parent]

\* The nearest message of an entry is itself, or that of its parent.
LEMMA NearestRuns ==
    ASSUME NEW es, Tree(es)
    PROVE  NearestRun(es, Nearest(es))
<1> DEFINE N == Len(es)
           K == 0 .. N
           up == [i \in 1 .. N |-> es[i].parent]
           step == [i \in 1 .. N |-> [x \in K |-> IF es[i].type = "message" THEN i ELSE x]]
           Fits(g) == g = [i \in 0 .. N |-> IF i = NoEntry \/ es[i].type = "message" THEN i
                                            ELSE g[ByUuid(es, es[i].parent)]]
           nearest == CHOOSE g : Fits(g)
<1>1. N \in Nat /\ 0 \in K /\ \A i \in 1 .. N : i \in K
  BY LenProperties DEF Tree
<1>2. \A i \in 1 .. N : /\ es[i].parent \in 0 .. i - 1 /\ es[i].parent \in 0 .. N
                        /\ ByUuid(es, es[i].parent) = es[i].parent
  BY EntriesInTree, ParentInTree
<1> HIDE DEF N
<1>3. step \in Steps(N, K)
  BY <1>1 DEF Steps
<1>4. up \in Below(N) /\ \A i \in 1 .. N : up[i] = es[i].parent
  BY <1>1, <1>2 DEF Below
<1>5. PICK g \in [0 .. N -> K] : IsRun(N, 0, up, step, g)
  <2> HIDE DEF step, up, K
  <2> QED
    BY <1>1, <1>3, <1>4, Recursion
<1>6. \A i \in 1 .. N : g[i] = IF es[i].type = "message" THEN i ELSE g[es[i].parent]
  <2> SUFFICES ASSUME NEW i \in 1 .. N PROVE g[i] = IF es[i].type = "message" THEN i ELSE g[es[i].parent]
    OBVIOUS
  <2>1. g[i] = step[i][g[es[i].parent]]
    <3> HIDE DEF step, up
    <3> QED
      BY <1>4, <1>5 DEF IsRun
  <2>2. g[es[i].parent] \in K
    BY <1>2
  <2> HIDE DEF K
  <2> QED
    BY <2>1, <2>2
<1>7. g[0] = 0
  BY <1>5 DEF IsRun
<1> HIDE DEF step, up
<1>8. Fits(g)
  <2>1. \A i \in 0 .. N : i # 0 => i \in 1 .. N
    BY <1>1
  <2> QED
    BY <1>2, <1>6, <1>7, <2>1 DEF NoEntry
<1>9. Fits(nearest)
  <2> HIDE DEF Fits
  <2> QED
    BY <1>8
<1>10. Nearest(es) = nearest
  BY DEF Nearest, N
<1> HIDE DEF nearest
<1>11. /\ nearest[0] = 0
       /\ \A i \in 1 .. N :
            nearest[i] = IF es[i].type = "message" THEN i ELSE nearest[es[i].parent]
  <2>1. 0 \in 0 .. N /\ \A i \in 1 .. N : i \in 0 .. N /\ i # 0
    BY <1>1
  <2> QED
    BY <1>2, <1>9, <2>1 DEF NoEntry
<1>12. nearest \in [0 .. N -> K]
  <2>1. GoAlike(N, nearest, g)
    BY <1>2, <1>6, <1>7, <1>11 DEF GoAlike
  <2>2. \A i \in 0 .. N : nearest[i] = g[i]
    BY <1>1, <2>1, Alike
  <2> QED
    BY <1>9, <2>2
<1> QED
  BY <1>10, <1>11, <1>12 DEF NearestRun, N

----------------------------------------------------------------------------
(* Prefixes *)

\* The first elements of a sequence.
LEMMA FirstOnes ==
    ASSUME NEW A, NEW s \in Seq(A), NEW m \in 0 .. Len(s)
    PROVE  /\ SubSeq(s, 1, m) \in Seq(A) /\ Len(SubSeq(s, 1, m)) = m
           /\ \A i \in 1 .. m : SubSeq(s, 1, m)[i] = s[i]
<1>1. Len(s) \in Nat /\ m \in Int /\ 1 \in Int
  BY LenProperties
<1>2. \A i \in 1 .. m : s[i] \in A
  <2> SUFFICES ASSUME NEW i \in 1 .. m PROVE s[i] \in A
    OBVIOUS
  <2>1. i \in 1 .. Len(s)
    BY <1>1
  <2> QED
    BY <2>1, ElementOfSeq
<1>3. /\ SubSeq(s, 1, m) \in Seq(A)
      /\ Len(SubSeq(s, 1, m)) = IF 1 <= m THEN m - 1 + 1 ELSE 0
      /\ \A i \in 1 .. m - 1 + 1 : SubSeq(s, 1, m)[i] = s[1 + i - 1]
  BY <1>1, <1>2, SubSeqProperties
<1>4. m - 1 + 1 = m /\ \A i \in 1 .. m : 1 + i - 1 = i
  BY <1>1
<1> QED
  BY <1>1, <1>3, <1>4

\* Keep of the first places is a prefix.
LEMMA KeepFirst ==
    ASSUME NEW A, NEW s \in Seq(A), NEW m \in 0 .. Len(s), NEW W, W \cap 1 .. Len(s) = 1 .. m
    PROVE  Keep(s, W) = SubSeq(s, 1, m)
<1> DEFINE first == [i \in 0 .. Len(s) |-> IF i <= m THEN i ELSE m]
<1>1. Len(s) \in Nat
  BY LenProperties
<1>2. PICK g \in [0 .. Len(s) -> Seq(A)] : KeepRun(s, W, g)
  BY KeepRuns
<1> DEFINE T == {i \in 0 .. Len(s) : g[i] = SubSeq(s, 1, first[i])}
<1>3. 0 \in T
  <2>1. SubSeq(s, 1, 0) = <<>>
    BY SubSeqEmpty
  <2>2. first[0] = 0
    BY <1>1
  <2> HIDE DEF first
  <2> QED
    BY <1>1, <1>2, <2>1, <2>2 DEF KeepRun
<1>4. ASSUME NEW i \in 1 .. Len(s), 0 .. i - 1 \subseteq T PROVE i \in T
  <2> SUFFICES g[i] = SubSeq(s, 1, first[i])
    <3> HIDE DEF first
    <3>1. i \in 0 .. Len(s)
      BY <1>1
    <3> QED
      BY <3>1
  <2>1. g[i - 1] = SubSeq(s, 1, first[i - 1])
    <3>1. i - 1 \in T
      <4>1. i - 1 \in 0 .. i - 1
        BY <1>1
      <4> HIDE DEF T
      <4> QED
        BY <1>4, <4>1
    <3> QED
      BY <3>1
  <2>2. g[i] = IF i \in W THEN Append(g[i - 1], s[i]) ELSE g[i - 1]
    BY <1>2 DEF KeepRun
  <2>3. CASE i <= m
    <3>1. i \in W /\ first[i] = i /\ first[i - 1] = i - 1
      <4>1. i \in 1 .. m
        BY <1>1, <2>3
      <4>2. i \in W
        BY <4>1
      <4>3. i - 1 <= m /\ i \in 0 .. Len(s) /\ i - 1 \in 0 .. Len(s)
        BY <1>1, <2>3
      <4> QED
        BY <2>3, <4>2, <4>3
    <3>2. Append(SubSeq(s, 1, i - 1), s[i]) = SubSeq(s, 1, i)
      <4> DEFINE a == SubSeq(s, 1, i - 1)
                 b == SubSeq(s, 1, i)
      <4>1. /\ a \in Seq(A) /\ Len(a) = i - 1 /\ (\A j \in 1 .. i - 1 : a[j] = s[j])
            /\ b \in Seq(A) /\ Len(b) = i /\ (\A j \in 1 .. i : b[j] = s[j])
        <5>1. i \in 0 .. Len(s) /\ i - 1 \in 0 .. Len(s)
          BY <1>1
        <5> QED
          BY <5>1, FirstOnes
      <4>2. s[i] \in A
        BY ElementOfSeq
      <4> HIDE DEF a, b
      <4>3. /\ Append(a, s[i]) \in Seq(A) /\ Len(Append(a, s[i])) = i
            /\ \A j \in 1 .. i - 1 : Append(a, s[i])[j] = a[j]
            /\ Append(a, s[i])[i] = s[i]
        BY <4>1, <4>2, AppendProperties
      <4>4. \A j \in 1 .. i : Append(a, s[i])[j] = b[j]
        <5> SUFFICES ASSUME NEW j \in 1 .. i PROVE Append(a, s[i])[j] = b[j]
          OBVIOUS
        <5>1. CASE j = i
          BY <4>1, <4>3, <5>1
        <5>2. CASE j \in 1 .. i - 1
          BY <4>1, <4>3, <5>2
        <5>3. j = i \/ j \in 1 .. i - 1
          BY <1>1
        <5> QED
          BY <5>1, <5>2, <5>3
      <4>5. Append(a, s[i]) = b
        BY <4>1, <4>3, <4>4, SeqEqual
      <4> QED
        BY <4>5 DEF a, b
    <3> HIDE DEF first
    <3> QED
      BY <2>1, <2>2, <3>1, <3>2
  <2>4. CASE ~(i <= m)
    <3>1. i \notin W /\ first[i] = m /\ first[i - 1] = m
      BY <1>1, <2>4
    <3> HIDE DEF first
    <3> QED
      BY <2>1, <2>2, <3>1
  <2> QED
    BY <2>3, <2>4
<1>5. 0 .. Len(s) \subseteq T
  <2> HIDE DEF T
  <2> QED
    BY <1>1, <1>3, <1>4, Induction
<1>6. Len(s) \in T /\ first[Len(s)] = m
  BY <1>1, <1>5
<1> HIDE DEF first
<1> QED
  BY <1>2, <1>6 DEF KeepRun

\* A prefix of numbers, place by place.
LEMMA PrefixPoints ==
    ASSUME NEW s \in Seq(Nat), NEW t \in Seq(Nat)
    PROVE  IsPrefix(s, t) <=> Len(s) <= Len(t) /\ \A i \in 1 .. Len(s) : s[i] = t[i]
<1> DEFINE n == Len(s)
           a == SubSeq(s, 1, n)
           b == SubSeq(t, 1, n)
<1>1. n \in Nat /\ Len(t) \in Nat
  BY LenProperties
<1>2. CASE n <= Len(t)
  <2>1. /\ a \in Seq(Nat) /\ Len(a) = n /\ (\A i \in 1 .. n : a[i] = s[i])
        /\ b \in Seq(Nat) /\ Len(b) = n /\ (\A i \in 1 .. n : b[i] = t[i])
    <3>1. n \in 0 .. Len(s) /\ n \in 0 .. Len(t)
      BY <1>1, <1>2
    <3> QED
      BY <3>1, FirstOnes
  <2> HIDE DEF a, b
  <2>2. a = b <=> \A i \in 1 .. n : s[i] = t[i]
    BY <2>1, SeqEqual
  <2> QED
    BY <1>2, <2>2 DEF IsPrefix, a, b
<1>3. CASE ~(n <= Len(t))
  BY <1>3 DEF IsPrefix
<1> QED
  BY <1>2, <1>3

\* Of two prefixes, one after the other.
LEMMA PrefixTransitive ==
    ASSUME NEW s \in Seq(Nat), NEW t \in Seq(Nat), NEW u \in Seq(Nat),
           IsPrefix(s, t), IsPrefix(t, u)
    PROVE  IsPrefix(s, u)
<1>1. Len(s) \in Nat /\ Len(t) \in Nat /\ Len(u) \in Nat
  BY LenProperties
<1> QED
  BY <1>1, PrefixPoints

\* A sequence is a prefix of itself and of a longer one, and the empty one is of any.
LEMMA PrefixAppend ==
    ASSUME NEW s \in Seq(Nat), NEW e \in Nat
    PROVE  IsPrefix(s, s) /\ IsPrefix(s, Append(s, e)) /\ IsPrefix(<<>>, s)
<1>1. /\ Len(s) \in Nat /\ Append(s, e) \in Seq(Nat) /\ Len(Append(s, e)) = Len(s) + 1
      /\ \A i \in 1 .. Len(s) : Append(s, e)[i] = s[i]
  BY LenProperties, AppendProperties
<1>2. IsPrefix(s, s)
  BY <1>1, PrefixPoints
<1>3. IsPrefix(s, Append(s, e))
  <2>1. Len(s) <= Len(Append(s, e)) /\ \A i \in 1 .. Len(s) : s[i] = Append(s, e)[i]
    BY <1>1
  <2> QED
    BY <1>1, <2>1, PrefixPoints
<1>4. IsPrefix(<<>>, s)
  <2>1. <<>> \in Seq(Nat) /\ Len(<<>>) = 0
    BY EmptySeq
  <2>2. Len(<<>>) <= Len(s) /\ \A i \in 1 .. Len(<<>>) : <<>>[i] = s[i]
    BY <1>1, <2>1
  <2> QED
    BY <2>1, <2>2, PrefixPoints
<1> QED
  BY <1>2, <1>3, <1>4

----------------------------------------------------------------------------
(* The transcript that the CLI writes *)

\* the messages of a conversation up to an entry, or none
ConvAt(convs, e) == IF e = NoEntry THEN <<>> ELSE convs[e]

TypeInv ==
    /\ Tree(lines)
    /\ head \in 0 .. Len(lines)
    /\ torn \in {"no", "now", "died"}
    /\ conv \in Seq(Seq(Nat)) /\ Len(conv) = Len(lines)
    /\ rewound \in BOOLEAN /\ broken \in BOOLEAN

\* Only the last line may be unfinished, until the CLI has died in one.
WholeInv ==
    /\ torn = "died" => broken
    /\ torn = "now" => lines # <<>>
    /\ ~broken => \A i \in 1 .. Len(lines) : ~lines[i].whole => i = Len(lines) /\ torn = "now"

\* The conversation up to an entry goes through its parent.
ConvInv ==
    \A i \in 1 .. Len(lines) :
      conv[i] = IF IsVisibleMessage(lines[i]) THEN Append(ConvAt(conv, lines[i].parent), i)
                ELSE ConvAt(conv, lines[i].parent)

\* While the CLI does not rewind there is one conversation, and a page is of it.
PathInv ==
    ~rewound => /\ \A i \in 1 .. Len(lines) : IsPrefix(conv[i], ConvAt(conv, head))
                /\ ~broken => got \in Seq(Nat) /\ IsPrefix(got, ConvAt(conv, head))

TranscriptInv == TypeInv /\ WholeInv /\ ConvInv /\ PathInv

\* A new line leaves the older ones, and the conversations up to them, alone.
LEMMA LineAppended ==
    ASSUME TypeInv, NEW e \in AnEntry, e.uuid = Len(lines) + 1, e.parent \in 0 .. Len(lines),
           NEW c \in Seq(Nat), lines' = Append(lines, e), conv' = Append(conv, c)
    PROVE  /\ Tree(lines') /\ Len(lines') = Len(lines) + 1 /\ Len(lines) \in Nat
           /\ lines'[Len(lines) + 1] = e /\ \A i \in 1 .. Len(lines) : lines'[i] = lines[i]
           /\ conv' \in Seq(Seq(Nat)) /\ Len(conv') = Len(lines')
           /\ conv'[Len(lines) + 1] = c /\ \A i \in 1 .. Len(lines) : conv'[i] = conv[i]
<1>1. lines \in Seq(AnEntry) /\ Len(lines) \in Nat
  BY LenProperties DEF TypeInv, Tree
<1>2. /\ lines' \in Seq(AnEntry) /\ Len(lines') = Len(lines) + 1
      /\ lines'[Len(lines) + 1] = e /\ \A i \in 1 .. Len(lines) : lines'[i] = lines[i]
  BY <1>1, AppendProperties
<1>3. conv \in Seq(Seq(Nat)) /\ Len(conv) = Len(lines)
  BY DEF TypeInv
<1>4. /\ conv' \in Seq(Seq(Nat)) /\ Len(conv') = Len(lines) + 1
      /\ conv'[Len(lines) + 1] = c /\ \A i \in 1 .. Len(lines) : conv'[i] = conv[i]
  BY <1>3, AppendProperties
<1>5. ASSUME NEW i \in 1 .. Len(lines') PROVE lines'[i].uuid = i /\ lines'[i].parent < i
  <2>1. CASE i = Len(lines) + 1
    BY <1>1, <1>2, <2>1
  <2>2. CASE i \in 1 .. Len(lines)
    BY <1>2, <2>2, EntriesInTree DEF TypeInv, Tree
  <2> QED
    BY <1>1, <1>2, <2>1, <2>2
<1> QED
  BY <1>1, <1>2, <1>4, <1>5 DEF Tree

\* Writing a line: a message of the main conversation is the new head, and a
\* new head is below the old one.
LEMMA WriteKeeps ==
    ASSUME TranscriptInv, NEW type \in {"message", "note"}, NEW parent \in 0 .. Len(lines),
           NEW side \in BOOLEAN, NEW isHead \in BOOLEAN, NEW isTorn \in BOOLEAN,
           isHead => parent = head, type = "message" /\ ~side => isHead,
           Write(type, parent, side, isHead, isTorn)
    PROVE  TranscriptInv'
<1> DEFINE new == Len(lines) + 1
           before == ConvAt(conv, parent)
           main == type = "message" /\ ~side
           e == Entry(type, parent, side, torn = "no" /\ ~isTorn)
           c == IF main THEN Append(before, new) ELSE before
<1>1. /\ lines \in Seq(AnEntry) /\ Len(lines) \in Nat /\ head \in 0 .. Len(lines)
      /\ torn \in {"no", "now", "died"}
      /\ \A i \in 1 .. Len(lines) : conv[i] \in Seq(Nat)
  BY LenProperties, ElementOfSeq DEF TranscriptInv, TypeInv, Tree
<1>2. \A p \in 0 .. Len(lines) : ConvAt(conv, p) \in Seq(Nat)
  BY <1>1, EmptySeq DEF ConvAt, NoEntry
<1>3. /\ new \in Nat /\ before \in Seq(Nat) /\ c \in Seq(Nat)
  BY <1>1, <1>2, AppendProperties
<1>4. /\ e \in AnEntry /\ e.uuid = new /\ e.parent = parent /\ IsVisibleMessage(e) = main
      /\ e.whole = (torn = "no" /\ ~isTorn)
  BY <1>1 DEF Entry, AnEntry, IsVisibleMessage
<1>5. /\ lines' = Append(lines, e) /\ conv' = Append(conv, c)
      /\ head' = (IF isHead THEN new ELSE head) /\ torn' = (IF isTorn THEN "now" ELSE "no")
      /\ torn # "now" /\ got' = got /\ rewound' = rewound /\ broken' = broken
  BY DEF Write, ConvAt
<1> HIDE DEF e, c
<1>6. /\ Tree(lines') /\ Len(lines') = new /\ lines'[new] = e
      /\ \A i \in 1 .. Len(lines) : lines'[i] = lines[i]
      /\ conv' \in Seq(Seq(Nat)) /\ Len(conv') = new /\ conv'[new] = c
      /\ \A i \in 1 .. Len(lines) : conv'[i] = conv[i]
  BY <1>3, <1>4, <1>5, LineAppended DEF TranscriptInv
<1>7. /\ \A i \in 1 .. new : i = new \/ i \in 1 .. Len(lines)
      /\ \A p \in 0 .. Len(lines) : ConvAt(conv', p) = ConvAt(conv, p)
      /\ ConvAt(conv', new) = c
  BY <1>1, <1>6 DEF ConvAt, NoEntry
<1>8. TypeInv'
  <2>1. head' \in 0 .. Len(lines')
    BY <1>1, <1>5, <1>6
  <2> QED
    BY <1>1, <1>5, <1>6, <2>1 DEF TranscriptInv, TypeInv
<1>9. WholeInv'
  <2>1. lines' # <<>>
    BY <1>3, <1>6, EmptySeq
  <2>2. ASSUME ~broken, NEW i \in 1 .. new, ~lines'[i].whole PROVE i = new /\ torn' = "now"
    <3>1. CASE i = new
      <4>1. torn = "no"
        BY <1>1, <1>5, <2>2 DEF TranscriptInv, WholeInv
      <4> QED
        BY <1>4, <1>5, <1>6, <2>2, <3>1, <4>1
    <3>2. CASE i \in 1 .. Len(lines)
      BY <1>5, <1>6, <2>2, <3>2 DEF TranscriptInv, WholeInv
    <3> QED
      BY <1>7, <3>1, <3>2
  <2> QED
    BY <1>5, <1>6, <2>1, <2>2 DEF WholeInv
<1>10. ConvInv'
  <2> SUFFICES ASSUME NEW i \in 1 .. new
               PROVE  conv'[i] = IF IsVisibleMessage(lines'[i])
                                 THEN Append(ConvAt(conv', lines'[i].parent), i)
                                 ELSE ConvAt(conv', lines'[i].parent)
    BY <1>6 DEF ConvInv, ConvAt, IsVisibleMessage
  <2>1. CASE i = new
    BY <1>4, <1>6, <1>7, <2>1 DEF c
  <2>2. CASE i \in 1 .. Len(lines)
    <3>1. lines[i].parent \in 0 .. Len(lines)
      BY <2>2, EntriesInTree DEF TranscriptInv, TypeInv
    <3> QED
      BY <1>6, <1>7, <2>2, <3>1 DEF TranscriptInv, ConvInv
  <2> QED
    BY <1>7, <2>1, <2>2
<1>11. PathInv'
  <2> SUFFICES ASSUME ~rewound
               PROVE  /\ \A i \in 1 .. new : IsPrefix(conv'[i], ConvAt(conv', head'))
                      /\ ~broken => got \in Seq(Nat) /\ IsPrefix(got, ConvAt(conv', head'))
    BY <1>5, <1>6 DEF PathInv, ConvAt
  <2>1. /\ \A i \in 1 .. Len(lines) : IsPrefix(conv[i], ConvAt(conv, head))
        /\ ~broken => got \in Seq(Nat) /\ IsPrefix(got, ConvAt(conv, head))
    BY DEF TranscriptInv, PathInv
  <2>2. \A p \in 0 .. Len(lines) : IsPrefix(ConvAt(conv, p), ConvAt(conv, head))
    <3>1. IsPrefix(<<>>, ConvAt(conv, head))
      BY <1>1, <1>2, PrefixAppend
    <3>2. \A p \in 0 .. Len(lines) : p = 0 \/ p \in 1 .. Len(lines)
      BY <1>1
    <3> QED
      BY <2>1, <3>1, <3>2 DEF ConvAt, NoEntry
  <2>3. /\ ConvAt(conv', head') \in Seq(Nat) /\ IsPrefix(c, ConvAt(conv', head'))
        /\ IsPrefix(ConvAt(conv, head), ConvAt(conv', head'))
    <3>1. CASE isHead
      <4>1. ConvAt(conv', head') = c /\ ConvAt(conv, head) = before
        BY <1>5, <1>7, <3>1
      <4> QED
        BY <1>3, <4>1, PrefixAppend DEF c
    <3>2. CASE ~isHead
      <4>1. ConvAt(conv', head') = ConvAt(conv, head) /\ c = before
        BY <1>1, <1>5, <1>7, <3>2 DEF c
      <4> QED
        BY <1>1, <1>2, <2>2, <4>1, PrefixAppend
    <3> QED
      BY <3>1, <3>2
  <2>4. ASSUME NEW s \in Seq(Nat), IsPrefix(s, ConvAt(conv, head))
        PROVE  IsPrefix(s, ConvAt(conv', head'))
    BY <1>1, <1>2, <2>3, <2>4, PrefixTransitive
  <2>5. ASSUME NEW i \in 1 .. new PROVE IsPrefix(conv'[i], ConvAt(conv', head'))
    <3>1. CASE i = new
      BY <1>6, <2>3, <3>1
    <3>2. CASE i \in 1 .. Len(lines)
      BY <1>1, <1>6, <2>1, <2>4, <3>2
    <3> QED
      BY <1>7, <3>1, <3>2
  <2> QED
    BY <1>1, <2>1, <2>4, <2>5
<1> QED
  BY <1>8, <1>9, <1>10, <1>11 DEF TranscriptInv

----------------------------------------------------------------------------
(* What is read of the transcript *)

\* While the CLI has not died in a line, all but perhaps the last are read.
IsFirst(es, m) ==
    /\ Tree(es) /\ Len(es) = m
    /\ \A i \in 1 .. m : es[i] = lines[i]
    /\ \A i \in 1 .. Len(lines) : lines[i].whole <=> i \in 1 .. m

\* What is read of a transcript are its lines but for one the CLI is writing.
LEMMA EntriesAreFirst ==
    ASSUME TypeInv, WholeInv, ~broken
    PROVE  \E m \in 0 .. Len(lines) : IsFirst(Entries(lines), m)
<1> DEFINE N == Len(lines)
           W == {i \in DOMAIN lines : lines[i].whole}
           m == IF W = 1 .. N THEN N ELSE N - 1
<1>1. lines \in Seq(AnEntry) /\ N \in Nat /\ DOMAIN lines = 1 .. N
  BY LenProperties DEF TypeInv, Tree
<1>2. \A i \in 1 .. N : i \notin W => i = N
  BY <1>1 DEF WholeInv
<1>3. \A i \in 1 .. N : lines[i].whole <=> i \in W
  BY <1>1
<1>4. W \subseteq 1 .. N
  BY <1>1
<1> HIDE DEF N, W
<1>5. m \in 0 .. N /\ W = 1 .. m
  <2>1. CASE W = 1 .. N
    BY <1>1, <2>1
  <2>2. CASE W # 1 .. N
    <3>1. PICK i \in 1 .. N : i \notin W
      BY <1>4, <2>2
    <3>2. i = N /\ N # 0 /\ m = N - 1
      BY <1>1, <1>2, <2>2, <3>1
    <3>3. \A j \in 1 .. N : j \in 1 .. N - 1 \/ j = N
      BY <1>1
    <3>4. \A j \in 1 .. N - 1 : j \in 1 .. N /\ j # N
      BY <1>1
    <3>5. W = 1 .. N - 1
      BY <1>2, <1>4, <3>1, <3>2, <3>3, <3>4
    <3>6. m = N - 1 /\ N - 1 \in 0 .. N
      BY <1>1, <3>2
    <3> HIDE DEF m
    <3> QED
      BY <3>5, <3>6
  <2> QED
    BY <2>1, <2>2
<1> HIDE DEF m
<1>6. Entries(lines) = SubSeq(lines, 1, m)
  <2>1. W \cap 1 .. Len(lines) = 1 .. m /\ m \in 0 .. Len(lines)
    BY <1>4, <1>5 DEF N
  <2> QED
    BY <1>1, <2>1, KeepFirst DEF Entries, W
<1>7. /\ Entries(lines) \in Seq(AnEntry) /\ Len(Entries(lines)) = m
      /\ \A i \in 1 .. m : Entries(lines)[i] = lines[i]
  BY <1>1, <1>5, <1>6, FirstOnes DEF N
<1>8. Tree(Entries(lines))
  <2> SUFFICES ASSUME NEW i \in 1 .. m PROVE lines[i].uuid = i /\ lines[i].parent < i
    BY <1>7 DEF Tree
  <2>1. i \in 1 .. Len(lines)
    BY <1>1, <1>5 DEF N
  <2> QED
    BY <2>1 DEF TypeInv, Tree
<1> QED
  BY <1>3, <1>5, <1>7, <1>8 DEF IsFirst, N

\* Leaves are messages.
LEMMA LeavesAreMessages ==
    ASSUME NEW es, Tree(es)
    PROVE  \A i \in Leaves(es) : i \in 1 .. Len(es) /\ es[i].type = "message"
<1> DEFINE near == Nearest(es)
           T == {i \in 0 .. Len(es) : near[i] # 0 => es[near[i]].type = "message"}
<1>1. Len(es) \in Nat /\ DOMAIN es = 1 .. Len(es)
  BY LenProperties DEF Tree
<1>2. NearestRun(es, near)
  BY NearestRuns
<1> HIDE DEF near
<1>3. 0 \in T
  BY <1>1, <1>2 DEF NearestRun
<1>4. ASSUME NEW i \in 1 .. Len(es), 0 .. i - 1 \subseteq T PROVE i \in T
  <2>1. es[i].parent \in T
    <3>1. es[i].parent \in 0 .. i - 1
      BY EntriesInTree
    <3> HIDE DEF T
    <3> QED
      BY <1>4, <3>1
  <2>2. near[i] = IF es[i].type = "message" THEN i ELSE near[es[i].parent]
    BY <1>2 DEF NearestRun
  <2> QED
    BY <1>1, <2>1, <2>2
<1>5. 0 .. Len(es) \subseteq T
  <2> HIDE DEF T
  <2> QED
    BY <1>1, <1>3, <1>4, Induction
<1>6. ASSUME NEW t \in Terminals(es), near[t] # 0
      PROVE  near[t] \in 1 .. Len(es) /\ es[near[t]].type = "message"
  <2>1. t \in 0 .. Len(es)
    BY <1>1 DEF Terminals
  <2>2. near[t] \in 0 .. Len(es)
    BY <1>2, <2>1 DEF NearestRun
  <2> QED
    BY <1>5, <1>6, <2>1, <2>2
<1> QED
  BY <1>6 DEF Leaves, near, NoEntry

\* One of them is chosen, of the main conversation if there is one.
LEMMA LeafIsChosen ==
    ASSUME NEW es, Tree(es), Leaves(es) # {}
    PROVE  Max(Preferred(es, Leaves(es))) \in Leaves(es)
<1> DEFINE P == Preferred(es, Leaves(es))
<1>1. P # {} /\ P \subseteq Leaves(es)
  BY DEF Preferred
<1>2. Len(es) \in Nat
  BY LenProperties DEF Tree
<1>3. P \in SUBSET (0 .. Len(es))
  BY <1>1, LeavesAreMessages
<1> HIDE DEF P
<1>4. Max(P) \in P
  BY <1>1, <1>2, <1>3, MaxIsMember
<1> QED
  BY <1>1, <1>4 DEF P

\* The visible messages of a longer way.
LEMMA VisibleAppend ==
    ASSUME NEW chain \in Seq(AnEntry), NEW e \in AnEntry
    PROVE  /\ Visible(<<>>) = <<>>
           /\ Visible(Append(chain, e)) = IF IsVisibleMessage(e)
                THEN Append(Visible(chain), e.uuid) ELSE Visible(chain)
<1> DEFINE kept(c) == Keep(c, {i \in DOMAIN c : IsVisibleMessage(c[i])})
           uuids(v) == [i \in DOMAIN v |-> v[i].uuid]
<1>1. \A c : Visible(c) = uuids(kept(c))
  BY DEF Visible
<1>2. uuids(<<>>) = <<>>
  BY EmptySeq
<1>3. kept(<<>>) = <<>>
  BY KeepEmpty
<1>4. /\ kept(chain) \in Seq(AnEntry)
      /\ kept(Append(chain, e)) = IF IsVisibleMessage(e) THEN Append(kept(chain), e) ELSE kept(chain)
  <2> DEFINE V == {i \in DOMAIN Append(chain, e) : IsVisibleMessage(Append(chain, e)[i])}
             W == {i \in DOMAIN chain : IsVisibleMessage(chain[i])}
  <2>1. /\ Len(chain) \in Nat /\ DOMAIN chain = 1 .. Len(chain)
        /\ DOMAIN Append(chain, e) = 1 .. Len(chain) + 1
        /\ Append(chain, e)[Len(chain) + 1] = e
        /\ \A i \in 1 .. Len(chain) : Append(chain, e)[i] = chain[i]
    BY AppendProperties, LenProperties
  <2>2. V \cap 1 .. Len(chain) = W \cap 1 .. Len(chain)
    <3>1. \A i \in 1 .. Len(chain) : i \in 1 .. Len(chain) + 1
      BY <2>1
    <3> QED
      BY <2>1, <3>1
  <2>3. Len(chain) + 1 \in V <=> IsVisibleMessage(e)
    <3>1. Len(chain) + 1 \in 1 .. Len(chain) + 1
      BY <2>1
    <3> QED
      BY <2>1, <3>1
  <2> HIDE DEF V, W
  <2>4. /\ Keep(chain, W) \in Seq(AnEntry)
        /\ Keep(Append(chain, e), V) =
             IF Len(chain) + 1 \in V THEN Append(Keep(chain, W), e) ELSE Keep(chain, W)
    BY <2>2, KeepAppend
  <2> QED
    BY <2>3, <2>4 DEF V, W
<1> HIDE DEF kept
<1>5. uuids(Append(kept(chain), e)) = Append(uuids(kept(chain)), e.uuid)
  <2> DEFINE k == kept(chain)
             n == Len(k)
             a == uuids(Append(k, e))
             b == Append(uuids(k), e.uuid)
  <2>1. /\ k \in Seq(AnEntry) /\ n \in Nat /\ DOMAIN k = 1 .. n
        /\ \A i \in 1 .. n : k[i].uuid \in Nat
    <3>1. k \in Seq(AnEntry)
      BY <1>4
    <3> HIDE DEF k
    <3>2. n \in Nat /\ DOMAIN k = 1 .. n /\ \A i \in 1 .. n : k[i] \in AnEntry
      BY <3>1, LenProperties, ElementOfSeq
    <3> QED
      BY <3>1, <3>2 DEF AnEntry
  <2>2. /\ DOMAIN Append(k, e) = 1 .. n + 1 /\ Append(k, e)[n + 1] = e
        /\ \A i \in 1 .. n : Append(k, e)[i] = k[i]
    BY <2>1, AppendProperties, LenProperties
  <2> HIDE DEF k, n
  <2>3. e.uuid \in Nat
    BY DEF AnEntry
  <2>4. /\ uuids(k) \in [1 .. n -> Nat]
        /\ \A i \in 1 .. n : uuids(k)[i] = k[i].uuid
    BY <2>1
  <2>5. uuids(k) \in Seq(Nat) /\ Len(uuids(k)) = n
    BY <2>1, <2>4, SeqDef, LenProperties
  <2>6. /\ b \in Seq(Nat) /\ Len(b) = n + 1 /\ b[n + 1] = e.uuid
        /\ \A i \in 1 .. n : b[i] = k[i].uuid
    BY <2>3, <2>4, <2>5, AppendProperties
  <2>7. /\ a \in [1 .. n + 1 -> Nat] /\ a[n + 1] = e.uuid
        /\ \A i \in 1 .. n : a[i] = k[i].uuid
    BY <2>1, <2>2, <2>3
  <2>8. a \in Seq(Nat) /\ Len(a) = n + 1
    BY <2>1, <2>7, SeqDef, LenProperties
  <2> HIDE DEF a, b
  <2>9. \A i \in 1 .. n + 1 : a[i] = b[i]
    <3>1. \A i \in 1 .. n + 1 : i = n + 1 \/ i \in 1 .. n
      BY <2>1
    <3> QED
      BY <2>6, <2>7, <3>1
  <2>10. a = b
    BY <2>6, <2>8, <2>9, SeqEqual
  <2> QED
    BY <2>10 DEF a, b, k
<1> HIDE DEF uuids
<1>6. Visible(<<>>) = <<>>
  BY <1>1, <1>2, <1>3
<1>7. Visible(Append(chain, e)) = IF IsVisibleMessage(e) THEN Append(Visible(chain), e.uuid)
                                  ELSE Visible(chain)
  BY <1>1, <1>4, <1>5
<1> QED
  BY <1>6, <1>7

\* What is visible on the way to an entry is the conversation up to it.
LEMMA ConvIsVisible ==
    ASSUME TypeInv, ConvInv
    PROVE  \A i \in 0 .. Len(lines) : Visible(ChainTo(lines)[i]) = ConvAt(conv, i)
<1> DEFINE chain == ChainTo(lines)
           T == {i \in 0 .. Len(lines) : Visible(chain[i]) = ConvAt(conv, i)}
<1>1. Tree(lines) /\ Len(lines) \in Nat
  BY LenProperties DEF TypeInv, Tree
<1>2. ChainRun(lines, chain)
  BY <1>1, ChainRuns
<1>3. Visible(<<>>) = <<>>
  <2>1. [uuid |-> 0, type |-> "note", parent |-> 0, side |-> FALSE, whole |-> TRUE] \in AnEntry
    BY DEF AnEntry
  <2>2. <<>> \in Seq(AnEntry)
    BY EmptySeq
  <2> QED
    BY <2>1, <2>2, VisibleAppend
<1> HIDE DEF chain
<1>4. 0 \in T
  BY <1>1, <1>2, <1>3 DEF ChainRun, ConvAt, NoEntry
<1>5. ASSUME NEW i \in 1 .. Len(lines), 0 .. i - 1 \subseteq T PROVE i \in T
  <2> DEFINE p == lines[i].parent
  <2>1. lines[i] \in AnEntry /\ lines[i].uuid = i /\ p \in 0 .. i - 1 /\ p \in 0 .. Len(lines)
    BY <1>1, EntriesInTree
  <2>2. Visible(chain[p]) = ConvAt(conv, p)
    <3>1. p \in T
      <4> HIDE DEF T, p
      <4> QED
        BY <1>5, <2>1
    <3> QED
      BY <3>1
  <2>3. chain[i] = Append(chain[p], lines[i]) /\ chain[p] \in Seq(AnEntry)
    BY <1>2, <2>1 DEF ChainRun
  <2>4. conv[i] = IF IsVisibleMessage(lines[i]) THEN Append(ConvAt(conv, p), i) ELSE ConvAt(conv, p)
    BY DEF ConvInv
  <2>5. Visible(chain[i]) =
          IF IsVisibleMessage(lines[i]) THEN Append(Visible(chain[p]), i) ELSE Visible(chain[p])
    BY <2>1, <2>3, VisibleAppend
  <2>6. ConvAt(conv, i) = conv[i] /\ i \in 0 .. Len(lines)
    BY <1>1 DEF ConvAt, NoEntry
  <2> HIDE DEF p
  <2> QED
    BY <2>2, <2>4, <2>5, <2>6
<1>6. 0 .. Len(lines) \subseteq T
  <2> HIDE DEF T
  <2> QED
    BY <1>1, <1>4, <1>5, Induction
<1> QED
  BY <1>6 DEF chain

\* The ways are those in the whole transcript.
LEMMA ChainsOfFirst ==
    ASSUME TypeInv, NEW m \in 0 .. Len(lines), NEW es, IsFirst(es, m)
    PROVE  \A i \in 0 .. m : ChainTo(es)[i] = ChainTo(lines)[i]
<1>1. Tree(lines) /\ Tree(es) /\ Len(es) = m /\ Len(lines) \in Nat
  BY LenProperties DEF TypeInv, Tree, IsFirst
<1>2. ChainRun(lines, ChainTo(lines)) /\ ChainRun(es, ChainTo(es))
  BY <1>1, ChainRuns
<1>3. ChainTo(es)[0] = ChainTo(lines)[0]
  BY <1>2 DEF ChainRun
<1>4. ASSUME NEW i \in 1 .. m, \A j \in 0 .. i - 1 : ChainTo(es)[j] = ChainTo(lines)[j]
      PROVE  ChainTo(es)[i] = ChainTo(lines)[i]
  <2>1. i \in 1 .. Len(lines) /\ i \in 1 .. Len(es) /\ es[i] = lines[i]
    BY <1>1 DEF IsFirst
  <2>2. es[i].parent \in 0 .. i - 1
    BY <1>1, <2>1, EntriesInTree
  <2> QED
    BY <1>2, <1>4, <2>1, <2>2 DEF ChainRun
<1>5. GoAlike(m, ChainTo(es), ChainTo(lines))
  BY <1>3, <1>4 DEF GoAlike
<1>6. m \in Nat
  BY <1>1
<1> QED
  BY <1>5, <1>6, Alike

\* While the CLI has not died in a line, what is shown is the conversation up to
\* the leaf that is chosen.
LEMMA MessagesAreConv ==
    ASSUME TypeInv, WholeInv, ConvInv, ~broken
    PROVE  \E m \in 0 .. Len(lines) : \E es :
             /\ IsFirst(es, m)
             /\ Leaves(es) = {} => Messages(lines) = <<>>
             /\ Leaves(es) # {} =>
                  /\ Max(Preferred(es, Leaves(es))) \in 1 .. m
                  /\ Messages(lines) = ConvAt(conv, Max(Preferred(es, Leaves(es))))
<1> DEFINE es == Entries(lines)
           leaf == Max(Preferred(es, Leaves(es)))
<1>1. PICK m \in 0 .. Len(lines) : IsFirst(es, m)
  BY EntriesAreFirst
<1>2. Messages(lines) = Visible(BuildConversationChain(es))
  BY DEF Messages
<1> HIDE DEF es
<1>3. Tree(es) /\ Len(es) = m /\ Len(lines) \in Nat
  BY <1>1, LenProperties DEF IsFirst, TypeInv, Tree
<1>4. CASE Leaves(es) = {}
  <2>1. BuildConversationChain(es) = <<>>
    BY <1>4 DEF BuildConversationChain
  <2>2. [uuid |-> 0, type |-> "note", parent |-> 0, side |-> FALSE, whole |-> TRUE] \in AnEntry
    BY DEF AnEntry
  <2>3. <<>> \in Seq(AnEntry)
    BY EmptySeq
  <2>4. Visible(<<>>) = <<>>
    BY <2>2, <2>3, VisibleAppend
  <2> QED
    BY <1>1, <1>2, <1>4, <2>1, <2>4
<1>5. CASE Leaves(es) # {}
  <2>1. leaf \in 1 .. m
    BY <1>3, <1>5, LeafIsChosen, LeavesAreMessages
  <2>2. BuildConversationChain(es) = ChainTo(es)[leaf]
    BY <1>5 DEF BuildConversationChain
  <2> HIDE DEF leaf
  <2>3. leaf \in 0 .. m /\ leaf \in 0 .. Len(lines)
    BY <1>3, <2>1
  <2>4. ChainTo(es)[leaf] = ChainTo(lines)[leaf]
    BY <1>1, <2>3, ChainsOfFirst
  <2>5. Messages(lines) = ConvAt(conv, leaf)
    BY <1>2, <2>2, <2>3, <2>4, ConvIsVisible
  <2> QED
    BY <1>1, <1>5, <2>1, <2>5 DEF leaf
<1> QED
  BY <1>4, <1>5

----------------------------------------------------------------------------
(* Pages *)

\* A page goes on where the ones before it ended.
LEMMA PageIsPrefix ==
    ASSUME NEW ms \in Seq(Nat), NEW all \in Seq(Nat), NEW before \in Seq(Nat), NEW limit \in Nat,
           IsPrefix(ms, all), IsPrefix(before, all)
    PROVE  LET after == before \o Limited(FromOffset(ms, Len(before)), limit)
           IN  after \in Seq(Nat) /\ IsPrefix(after, all)
<1> DEFINE n == Len(before)
           rest == FromOffset(ms, n)
           page == Limited(rest, limit)
           after == before \o page
<1>1. /\ n \in Nat /\ Len(ms) \in Nat /\ Len(all) \in Nat
      /\ Len(ms) <= Len(all) /\ (\A i \in 1 .. Len(ms) : ms[i] = all[i])
      /\ n <= Len(all) /\ (\A i \in 1 .. n : before[i] = all[i])
  BY LenProperties, PrefixPoints
<1>2. CASE n >= Len(ms)
  <2>1. rest = <<>>
    BY <1>2 DEF FromOffset
  <2>2. Len(<<>>) = 0 /\ ~(0 > limit)
    BY EmptySeq
  <2>3. page = <<>>
    BY <2>1, <2>2 DEF Limited
  <2>4. after = before
    BY <2>3, ConcatEmptySeq
  <2> QED
    BY <2>4
<1>3. CASE ~(n >= Len(ms))
  <2>1. rest = SubSeq(ms, n + 1, Len(ms))
    BY <1>3 DEF FromOffset
  <2>2. \A i \in n + 1 .. Len(ms) : ms[i] \in Nat
    BY <1>1, ElementOfSeq
  <2>3. /\ rest \in Seq(Nat) /\ Len(rest) = Len(ms) - n
        /\ \A i \in 1 .. Len(ms) - n : rest[i] = ms[n + i]
    <3>1. n + 1 \in Int /\ Len(ms) \in Int /\ n + 1 <= Len(ms) /\ Len(ms) - (n + 1) + 1 = Len(ms) - n
      BY <1>1, <1>3
    <3>2. /\ SubSeq(ms, n + 1, Len(ms)) \in Seq(Nat)
          /\ Len(SubSeq(ms, n + 1, Len(ms))) = IF n + 1 <= Len(ms) THEN Len(ms) - (n + 1) + 1 ELSE 0
          /\ \A i \in 1 .. Len(ms) - (n + 1) + 1 : SubSeq(ms, n + 1, Len(ms))[i] = ms[(n + 1) + i - 1]
      BY <2>2, <3>1, SubSeqProperties
    <3>3. \A i \in 1 .. Len(ms) - n : (n + 1) + i - 1 = n + i
      BY <1>1
    <3> HIDE DEF n
    <3> QED
      BY <2>1, <3>1, <3>2, <3>3
  <2> HIDE DEF rest
  <2>4. PICK k \in 0 .. Len(ms) - n : /\ page \in Seq(Nat) /\ Len(page) = k
                                      /\ \A i \in 1 .. k : page[i] = rest[i]
    <3>1. CASE limit > 0 /\ Len(rest) > limit
      <4>1. page = SubSeq(rest, 1, limit)
        BY <3>1 DEF Limited
      <4>2. limit \in 0 .. Len(rest) /\ limit \in 0 .. Len(ms) - n
        BY <1>1, <2>3, <3>1
      <4> QED
        BY <2>3, <4>1, <4>2, FirstOnes
    <3>2. CASE ~(limit > 0 /\ Len(rest) > limit)
      <4>1. page = rest
        BY <3>2 DEF Limited
      <4>2. Len(ms) - n \in 0 .. Len(ms) - n
        BY <1>1, <1>3
      <4> QED
        BY <2>3, <4>1, <4>2
    <3> QED
      BY <3>1, <3>2
  <2> HIDE DEF page, n
  <2>5. /\ after \in Seq(Nat) /\ Len(after) = n + k
        /\ \A i \in 1 .. n + k : after[i] = IF i <= n THEN before[i] ELSE page[i - n]
    BY <2>4, ConcatProperties DEF n
  <2> HIDE DEF after
  <2>6. \A i \in 1 .. n + k : after[i] = all[i]
    <3> SUFFICES ASSUME NEW i \in 1 .. n + k PROVE after[i] = all[i]
      OBVIOUS
    <3>1. CASE i <= n
      <4>1. i \in 1 .. n
        BY <1>1, <3>1
      <4> QED
        BY <1>1, <2>5, <3>1, <4>1
    <3>2. CASE ~(i <= n)
      <4>1. /\ i - n \in 1 .. k /\ i - n \in 1 .. Len(ms) - n /\ n + (i - n) = i
            /\ i \in 1 .. Len(ms)
        BY <1>1, <1>3, <3>2
      <4>2. page[i - n] = ms[i]
        BY <2>3, <2>4, <4>1
      <4> QED
        BY <1>1, <2>5, <3>2, <4>1, <4>2
    <3> QED
      BY <3>1, <3>2
  <2>7. Len(after) <= Len(all)
    BY <1>1, <1>3, <2>5
  <2>8. IsPrefix(after, all)
    BY <2>5, <2>6, <2>7, PrefixPoints
  <2> QED
    BY <2>5, <2>8 DEF after, page, rest, n
<1> QED
  BY <1>2, <1>3

----------------------------------------------------------------------------
(* The invariant *)

\* A line that is finished was the only one that was not whole.
LEMMA FinishLineKeeps == TranscriptInv /\ FinishLine => TranscriptInv'
<1> SUFFICES ASSUME TranscriptInv, FinishLine PROVE TranscriptInv'
  OBVIOUS
<1> DEFINE N == Len(lines)
           last == [lines[N] EXCEPT !.whole = TRUE]
<1>1. /\ lines \in Seq(AnEntry) /\ N \in Nat /\ N \in 1 .. N
      /\ DOMAIN lines = 1 .. N /\ \A i \in 1 .. N : lines[i] \in AnEntry
  <2>1. lines \in Seq(AnEntry) /\ lines # <<>>
    BY DEF FinishLine, TranscriptInv, TypeInv, WholeInv, Tree
  <2>2. Len(lines) \in Nat \ {0}
    BY <2>1, EmptySeq
  <2> QED
    BY <2>1, <2>2, LenProperties, ElementOfSeq
<1>2. /\ last \in AnEntry /\ last.uuid = lines[N].uuid /\ last.type = lines[N].type
      /\ last.parent = lines[N].parent /\ last.side = lines[N].side /\ last.whole = TRUE
  BY <1>1 DEF AnEntry
<1>3. lines' = [lines EXCEPT ![N] = last]
  BY DEF FinishLine
<1> HIDE DEF last
<1>4. /\ lines' \in Seq(AnEntry) /\ Len(lines') = N /\ lines'[N] = last
      /\ \A i \in 1 .. N : i # N => lines'[i] = lines[i]
  BY <1>1, <1>2, <1>3, ExceptSeq
<1>5. \A i \in 1 .. N : /\ lines'[i].uuid = lines[i].uuid /\ lines'[i].parent = lines[i].parent
                        /\ lines'[i].type = lines[i].type /\ lines'[i].side = lines[i].side
                        /\ ~lines'[i].whole => i # N /\ ~lines[i].whole
  <2> SUFFICES ASSUME NEW i \in 1 .. N
               PROVE  /\ lines'[i].uuid = lines[i].uuid /\ lines'[i].parent = lines[i].parent
                      /\ lines'[i].type = lines[i].type /\ lines'[i].side = lines[i].side
                      /\ ~lines'[i].whole => i # N /\ ~lines[i].whole
    OBVIOUS
  <2>1. CASE i = N
    BY <1>2, <1>4, <2>1
  <2>2. CASE i # N
    BY <1>4, <2>2
  <2> QED
    BY <2>1, <2>2
<1>6. /\ torn = "now" /\ torn' = "no" /\ head' = head /\ got' = got /\ conv' = conv
      /\ rewound' = rewound /\ broken' = broken
  BY DEF FinishLine
<1>7. TypeInv'
  BY <1>4, <1>5, <1>6 DEF TranscriptInv, TypeInv, Tree
<1>8. WholeInv'
  BY <1>4, <1>5, <1>6 DEF TranscriptInv, WholeInv
<1>9. ConvInv'
  BY <1>4, <1>5, <1>6 DEF TranscriptInv, ConvInv, IsVisibleMessage, ConvAt
<1>10. PathInv'
  BY <1>4, <1>6 DEF TranscriptInv, PathInv, ConvAt
<1> QED
  BY <1>7, <1>8, <1>9, <1>10 DEF TranscriptInv

\* A page goes on with the conversation where the last one ended.
LEMMA NextPageKeeps ==
    ASSUME TranscriptInv, NEW limit \in Nat, NextPage(limit)
    PROVE  TranscriptInv'
<1>1. UNCHANGED <<lines, head, torn, conv, rewound, broken>>
  BY DEF NextPage, fileVars
<1>2. TypeInv' /\ WholeInv' /\ ConvInv'
  BY <1>1 DEF TranscriptInv, TypeInv, WholeInv, ConvInv, ConvAt
<1>3. ASSUME ~rewound, ~broken PROVE got' \in Seq(Nat) /\ IsPrefix(got', ConvAt(conv, head))
  <2> DEFINE all == ConvAt(conv, head)
  <2>1. /\ Len(lines) \in Nat /\ head \in 0 .. Len(lines)
        /\ \A i \in 1 .. Len(lines) : conv[i] \in Seq(Nat)
    BY LenProperties, ElementOfSeq DEF TranscriptInv, TypeInv, Tree
  <2>2. /\ got \in Seq(Nat) /\ IsPrefix(got, all)
        /\ \A i \in 1 .. Len(lines) : IsPrefix(conv[i], all)
    BY <1>3 DEF TranscriptInv, PathInv
  <2>3. all \in Seq(Nat)
    BY <2>1, EmptySeq DEF ConvAt, NoEntry
  <2> HIDE DEF all
  <2>4. Messages(lines) \in Seq(Nat) /\ IsPrefix(Messages(lines), all)
    <3>1. PICK m \in 0 .. Len(lines) : \E es :
             /\ Leaves(es) = {} => Messages(lines) = <<>>
             /\ Leaves(es) # {} =>
                  /\ Max(Preferred(es, Leaves(es))) \in 1 .. m
                  /\ Messages(lines) = ConvAt(conv, Max(Preferred(es, Leaves(es))))
      BY <1>3, MessagesAreConv DEF TranscriptInv
    <3>2. Messages(lines) = <<>> \/ \E i \in 1 .. m : Messages(lines) = ConvAt(conv, i)
      BY <3>1
    <3>3. CASE Messages(lines) = <<>>
      BY <2>3, <3>3, EmptySeq, PrefixAppend
    <3>4. CASE \E i \in 1 .. m : Messages(lines) = ConvAt(conv, i)
      <4>1. PICK i \in 1 .. m : Messages(lines) = ConvAt(conv, i)
        BY <3>4
      <4>2. i \in 1 .. Len(lines) /\ ConvAt(conv, i) = conv[i]
        BY <2>1 DEF ConvAt, NoEntry
      <4> QED
        BY <2>1, <2>2, <4>1, <4>2
    <3> QED
      BY <3>2, <3>3, <3>4
  <2>5. got' = got \o Limited(FromOffset(Messages(lines), Len(got)), limit)
    BY DEF NextPage, GetSessionMessages
  <2>6. got' \in Seq(Nat) /\ IsPrefix(got', all)
    BY <2>2, <2>3, <2>4, <2>5, PageIsPrefix
  <2> QED
    BY <2>6 DEF all
<1>4. PathInv'
  BY <1>1, <1>3 DEF TranscriptInv, PathInv, ConvAt
<1> QED
  BY <1>2, <1>4 DEF TranscriptInv

\* In every transcript the CLI can write, each entry hangs below an older one; only
\* its last line can be unfinished, unless the CLI has died in one; each entry
\* carries on the conversation of its parent; and until the CLI rewinds, all of
\* them and all pages are of the conversation it goes on from.
THEOREM TranscriptIsInvariant == HistorySpec => []TranscriptInv
<1>1. HistoryInit => TranscriptInv
  <2> SUFFICES ASSUME HistoryInit PROVE TranscriptInv
    OBVIOUS
  <2>1. Len(lines) = 0 /\ Len(conv) = 0 /\ lines = <<>> /\ conv = <<>> /\ got = <<>>
    BY EmptySeq DEF HistoryInit
  <2>2. <<>> \in Seq(Nat) /\ <<>> \in Seq(Seq(Nat)) /\ <<>> \in Seq(AnEntry)
    BY EmptySeq
  <2>3. IsPrefix(<<>>, <<>>)
    BY <2>2, PrefixAppend
  <2>4. TypeInv
    <3>1. Tree(lines)
      BY <2>1, <2>2 DEF Tree
    <3>2. head \in 0 .. Len(lines)
      BY <2>1 DEF HistoryInit, NoEntry
    <3>3. conv \in Seq(Seq(Nat)) /\ Len(conv) = Len(lines)
      BY <2>1, <2>2
    <3>4. torn \in {"no", "now", "died"} /\ rewound \in BOOLEAN /\ broken \in BOOLEAN
      BY DEF HistoryInit
    <3> QED
      BY <3>1, <3>2, <3>3, <3>4 DEF TypeInv
  <2>5. WholeInv /\ ConvInv
    BY <2>1 DEF HistoryInit, WholeInv, ConvInv
  <2>6. PathInv
    BY <2>1, <2>2, <2>3 DEF HistoryInit, PathInv, ConvAt
  <2> QED
    BY <2>4, <2>5, <2>6 DEF TranscriptInv
<1>2. TranscriptInv /\ [HistoryNext]_historyVars => TranscriptInv'
  <2> SUFFICES ASSUME TranscriptInv, [HistoryNext]_historyVars PROVE TranscriptInv'
    OBVIOUS
  <2>1. Len(lines) \in Nat /\ head \in 0 .. Len(lines)
    BY LenProperties DEF TranscriptInv, TypeInv, Tree
  <2>2. ASSUME NEW isTorn \in BOOLEAN, WriteMessage(isTorn) PROVE TranscriptInv'
    BY <2>1, <2>2, WriteKeeps DEF WriteMessage
  <2>3. CASE WriteNote
    BY <2>1, <2>3, WriteKeeps DEF WriteNote
  <2>4. CASE WriteSide
    <3>1. CASE Write("message", head, TRUE, TRUE, FALSE)
      BY <2>1, <3>1, WriteKeeps
    <3>2. CASE \E parent \in 0 .. Len(lines) : Write("message", parent, TRUE, FALSE, FALSE)
      BY <2>1, <3>2, WriteKeeps
    <3> QED
      BY <2>4, <3>1, <3>2 DEF WriteSide
  <2>5. CASE FinishLine
    BY <2>5, FinishLineKeeps
  <2>6. CASE Die
    BY <2>6 DEF Die, TranscriptInv, TypeInv, WholeInv, ConvInv, PathInv, ConvAt
  <2>7. CASE Rewind
    BY <2>1, <2>7 DEF Rewind, TranscriptInv, TypeInv, WholeInv, ConvInv, PathInv, ConvAt
  <2>8. ASSUME NEW limit \in 0 .. 1, NextPage(limit) PROVE TranscriptInv'
    BY <2>8, NextPageKeeps
  <2>9. CASE \/ UNCHANGED historyVars
             \/ \E limit \in 0 .. 1 : ListSessions(limit)
    <3>1. UNCHANGED <<lines, head, torn, conv, rewound, broken, got>>
      BY <2>9 DEF ListSessions, historyVars, fileVars
    <3> QED
      BY <3>1 DEF TranscriptInv, TypeInv, WholeInv, ConvInv, PathInv, ConvAt
  <2> QED
    BY <2>2, <2>3, <2>4, <2>5, <2>6, <2>7, <2>8, <2>9 DEF HistoryNext
<1> QED
  BY <1>1, <1>2, PTL DEF HistorySpec

\* Pages that are asked for while the CLI goes on never repeat, skip or reorder
\* a message, unless it rewinds or dies in a line: all of them, and all that
\* will come, are of the conversation up to the head.
THEOREM PagesAreOneConversation == HistorySpec => []PagesFollowConversation
<1>1. TranscriptInv => PagesFollowConversation
  <2> SUFFICES ASSUME TranscriptInv, ~rewound, ~broken
               PROVE  got = <<>> \/ \E i \in DOMAIN conv : IsPrefix(got, conv[i])
    BY DEF PagesFollowConversation
  <2>1. got \in Seq(Nat) /\ IsPrefix(got, ConvAt(conv, head))
    BY DEF TranscriptInv, PathInv
  <2>2. Len(lines) \in Nat /\ head \in 0 .. Len(lines) /\ DOMAIN conv = 1 .. Len(lines)
    BY LenProperties DEF TranscriptInv, TypeInv, Tree
  <2>3. CASE head = 0
    <3>1. <<>> \in Seq(Nat) /\ Len(<<>>) = 0 /\ Len(got) \in Nat
      BY <2>1, EmptySeq, LenProperties
    <3>2. Len(got) = 0
      <4>1. ConvAt(conv, head) = <<>>
        BY <2>3 DEF ConvAt, NoEntry
      <4>2. IsPrefix(got, <<>>)
        BY <2>1, <4>1
      <4>3. Len(got) <= Len(<<>>)
        BY <4>2 DEF IsPrefix
      <4> QED
        BY <3>1, <4>3
    <3> QED
      BY <2>1, <3>2, EmptySeq
  <2>4. CASE head # 0
    BY <2>1, <2>2, <2>4 DEF ConvAt, NoEntry
  <2> QED
    BY <2>3, <2>4
<1> QED
  BY <1>1, TranscriptIsInvariant, PTL

----------------------------------------------------------------------------
(* The newest branch *)

\* the entries on the way to an entry, and it
Above(es, i) == {ChainTo(es)[i][k].uuid : k \in DOMAIN ChainTo(es)[i]}

\* What is on the way to an entry is what is on the way to its parent, and itself.
LEMMA AboveStep ==
    ASSUME NEW es, Tree(es)
    PROVE  /\ Above(es, 0) = {}
           /\ \A i \in 1 .. Len(es) : Above(es, i) = Above(es, es[i].parent) \cup {i}
<1> DEFINE chain == ChainTo(es)
           uuids(c) == {c[k].uuid : k \in DOMAIN c}
<1>1. ChainRun(es, chain)
  BY ChainRuns
<1>2. \A i : Above(es, i) = uuids(chain[i])
  BY DEF Above
<1> HIDE DEF chain
<1>3. uuids(<<>>) = {}
  BY EmptySeq
<1>4. ASSUME NEW i \in 1 .. Len(es) PROVE Above(es, i) = Above(es, es[i].parent) \cup {i}
  <2> DEFINE c == chain[es[i].parent]
             d == Append(c, es[i])
  <2>1. es[i] \in AnEntry /\ es[i].uuid = i /\ es[i].parent \in 0 .. Len(es)
    BY EntriesInTree
  <2>2. c \in Seq(AnEntry) /\ chain[i] = d
    BY <1>1, <2>1 DEF ChainRun
  <2> HIDE DEF c
  <2>3. /\ Len(c) \in Nat /\ DOMAIN c = 1 .. Len(c) /\ DOMAIN d = 1 .. Len(c) + 1
        /\ d[Len(c) + 1] = es[i] /\ \A k \in 1 .. Len(c) : d[k] = c[k]
    BY <2>1, <2>2, AppendProperties, LenProperties
  <2> HIDE DEF d
  <2>4. /\ \A k \in 1 .. Len(c) + 1 : k = Len(c) + 1 \/ k \in 1 .. Len(c)
        /\ Len(c) + 1 \in 1 .. Len(c) + 1 /\ \A k \in 1 .. Len(c) : k \in 1 .. Len(c) + 1
    BY <2>3
  <2>5. uuids(d) = uuids(c) \cup {i}
    BY <2>1, <2>3, <2>4
  <2>6. Above(es, i) = uuids(d) /\ Above(es, es[i].parent) = uuids(c)
    BY <1>2, <2>2 DEF c
  <2> HIDE DEF uuids
  <2> QED
    BY <2>5, <2>6
<1>5. Above(es, 0) = {}
  BY <1>1, <1>2, <1>3 DEF ChainRun
<1> QED
  BY <1>4, <1>5

\* They are older.
LEMMA AboveIsOlder ==
    ASSUME NEW es, Tree(es)
    PROVE  \A i \in 0 .. Len(es) : Above(es, i) \subseteq 1 .. i
<1> DEFINE T == {i \in 0 .. Len(es) : Above(es, i) \subseteq 1 .. i}
<1>1. Len(es) \in Nat
  BY LenProperties DEF Tree
<1>2. 0 \in T
  BY <1>1, AboveStep
<1>3. ASSUME NEW i \in 1 .. Len(es), 0 .. i - 1 \subseteq T PROVE i \in T
  <2> DEFINE p == es[i].parent
  <2>1. p \in 0 .. i - 1
    BY EntriesInTree
  <2>2. p \in T
    <3> HIDE DEF T, p
    <3> QED
      BY <1>3, <2>1
  <2>3. Above(es, i) = Above(es, p) \cup {i}
    BY AboveStep
  <2> HIDE DEF p
  <2>4. Above(es, p) \subseteq 1 .. i
    BY <1>1, <2>1, <2>2
  <2> QED
    BY <1>1, <2>3, <2>4
<1>4. 0 .. Len(es) \subseteq T
  <2> HIDE DEF T
  <2> QED
    BY <1>1, <1>2, <1>3, Induction
<1> QED
  BY <1>4

\* From an entry below a message, the nearest message is not above it.
LEMMA NearestIsBelow ==
    ASSUME NEW es, Tree(es), NEW n \in 1 .. Len(es), es[n].type = "message"
    PROVE  \A t \in 0 .. Len(es) : n \in Above(es, t) => n \in Above(es, Nearest(es)[t])
<1> DEFINE near == Nearest(es)
           T == {t \in 0 .. Len(es) : n \in Above(es, t) => n \in Above(es, near[t])}
<1>1. Len(es) \in Nat /\ NearestRun(es, near)
  BY LenProperties, NearestRuns DEF Tree
<1> HIDE DEF near
<1>2. 0 \in T
  BY <1>1, AboveStep
<1>3. ASSUME NEW t \in 1 .. Len(es), 0 .. t - 1 \subseteq T PROVE t \in T
  <2> DEFINE p == es[t].parent
  <2>1. p \in T
    <3>1. p \in 0 .. t - 1
      BY EntriesInTree
    <3> HIDE DEF T, p
    <3> QED
      BY <1>3, <3>1
  <2>2. /\ near[t] = IF es[t].type = "message" THEN t ELSE near[p]
        /\ Above(es, t) = Above(es, p) \cup {t}
    BY <1>1, AboveStep DEF NearestRun
  <2> HIDE DEF p
  <2>3. CASE es[t].type = "message"
    BY <1>1, <2>2, <2>3
  <2>4. CASE es[t].type # "message"
    BY <1>1, <2>1, <2>2, <2>4
  <2> QED
    BY <2>3, <2>4
<1>4. 0 .. Len(es) \subseteq T
  <2> HIDE DEF T
  <2> QED
    BY <1>1, <1>2, <1>3, Induction
<1> QED
  BY <1>4 DEF near

\* Below each entry, or at it, a branch ends.
LEMMA BranchEnds ==
    ASSUME NEW es, Tree(es), NEW n \in 1 .. Len(es)
    PROVE  \E t \in Terminals(es) : n \in Above(es, t)
<1> DEFINE B == {t \in 0 .. Len(es) : n \in Above(es, t)}
<1>1. Len(es) \in Nat /\ DOMAIN es = 1 .. Len(es)
  BY LenProperties DEF Tree
<1>2. n \in B
  BY <1>1, AboveStep
<1>3. PICK t \in B : \A k \in B : k <= t
  <2>1. B \in SUBSET (0 .. Len(es)) /\ B # {}
    BY <1>2
  <2> HIDE DEF B
  <2> QED
    BY <1>1, <2>1, GreatestNumber
<1>4. t \in 1 .. Len(es)
  BY <1>1, AboveStep
<1>5. ASSUME NEW j \in 1 .. Len(es), es[j].parent = t PROVE FALSE
  <2>1. t \in 0 .. j - 1
    BY <1>5, EntriesInTree
  <2>2. j \in B
    BY <1>1, <1>5, AboveStep
  <2> HIDE DEF B
  <2> QED
    BY <1>1, <1>3, <2>1, <2>2
<1>6. es[t].uuid = t
  BY <1>4, EntriesInTree
<1> QED
  BY <1>1, <1>4, <1>5, <1>6 DEF Terminals

\* However the conversation has branched, its messages are those on the way to
\* the newest one: unless the CLI died in a line, or a side entry hangs below it.
THEOREM NewestIsShown == HistorySpec => []NewestBranchIsShown
<1>1. TranscriptInv => NewestBranchIsShown
  <2> SUFFICES ASSUME TranscriptInv, ~broken, Newest # NoEntry, ~SideBelow(Newest)
               PROVE  Messages(lines) = conv[Newest]
    BY DEF NewestBranchIsShown
  <2> DEFINE main == {i \in DOMAIN lines : lines[i].whole /\ IsVisibleMessage(lines[i])}
             n == Newest
  <2>1. Len(lines) \in Nat /\ DOMAIN lines = 1 .. Len(lines)
    BY LenProperties DEF TranscriptInv, TypeInv, Tree
  <2>2. n \in main /\ \A k \in main : k <= n
    <3>1. main # {} /\ n = Max(main)
      BY DEF Newest
    <3>2. main \in SUBSET (0 .. Len(lines))
      BY <2>1
    <3> HIDE DEF main, n
    <3> QED
      BY <2>1, <3>1, <3>2, MaxIsMember
  <2> HIDE DEF n
  <2>3. PICK m \in 0 .. Len(lines) : \E es :
             /\ IsFirst(es, m)
             /\ Leaves(es) = {} => Messages(lines) = <<>>
             /\ Leaves(es) # {} =>
                  /\ Max(Preferred(es, Leaves(es))) \in 1 .. m
                  /\ Messages(lines) = ConvAt(conv, Max(Preferred(es, Leaves(es))))
    BY MessagesAreConv DEF TranscriptInv
  <2>4. PICK es : /\ IsFirst(es, m)
                  /\ Leaves(es) = {} => Messages(lines) = <<>>
                  /\ Leaves(es) # {} =>
                       /\ Max(Preferred(es, Leaves(es))) \in 1 .. m
                       /\ Messages(lines) = ConvAt(conv, Max(Preferred(es, Leaves(es))))
    BY <2>3
  <2>5. /\ Tree(es) /\ Len(es) = m
        /\ \A i \in 1 .. m : i \in 1 .. Len(lines) /\ es[i] = lines[i] /\ lines[i].whole
        /\ \A i \in main : i \in 1 .. m
    BY <2>1, <2>4 DEF IsFirst
  <2>6. ASSUME NEW i \in 1 .. m, es[i].type = "message", ~es[i].side PROVE i \in main
    BY <2>1, <2>5, <2>6 DEF IsVisibleMessage
  <2>7. n \in 1 .. m /\ es[n].type = "message" /\ ~es[n].side
    BY <2>2, <2>5 DEF IsVisibleMessage
  <2> HIDE DEF main
  <2>8. PICK t \in Terminals(es) : n \in Above(es, t)
    BY <2>5, <2>7, BranchEnds
  <2> DEFINE q == Nearest(es)[t]
  <2>9. t \in 0 .. m /\ q \in 0 .. m /\ n \in Above(es, q)
    <3>1. t \in 0 .. m
      BY <2>5, LenProperties DEF Terminals, Tree
    <3> QED
      BY <2>5, <2>7, <2>8, <3>1, NearestIsBelow, NearestRuns DEF NearestRun
  <2>10. q \in 1 .. m /\ n <= q
    <3>1. Above(es, 0) = {} /\ Above(es, q) \subseteq 1 .. q
      BY <2>5, <2>9, AboveStep, AboveIsOlder
    <3> HIDE DEF q
    <3>2. q # 0
      BY <2>9, <3>1
    <3> QED
      BY <2>1, <2>9, <3>1, <3>2
  <2>11. q \in Leaves(es)
    BY <2>8, <2>10 DEF Leaves, NoEntry
  <2>12. es[q].type = "message"
    BY <2>5, <2>11, LeavesAreMessages
  <2> HIDE DEF q
  <2>13. ~es[q].side
    <3> SUFFICES ASSUME es[q].side PROVE FALSE
      OBVIOUS
    <3>1. ChainTo(es)[q] = ChainTo(lines)[q]
      BY <2>4, <2>9, ChainsOfFirst DEF TranscriptInv
    <3>2. PICK k \in DOMAIN ChainTo(lines)[q] : ChainTo(lines)[q][k].uuid = n
      BY <2>9, <3>1 DEF Above
    <3>3. q \in DOMAIN lines /\ lines[q].side
      BY <2>1, <2>5, <2>10
    <3>4. SideBelow(n)
      BY <3>2, <3>3 DEF SideBelow
    <3> QED
      BY <3>4 DEF n
  <2>14. q = n
    <3>1. q \in main
      BY <2>6, <2>10, <2>12, <2>13
    <3>2. q <= n /\ n <= q /\ q \in 1 .. m /\ n \in 1 .. m
      BY <2>2, <2>7, <2>10, <3>1
    <3> QED
      BY <2>1, <3>2
  <2>15. Max(Preferred(es, Leaves(es))) = n
    <3> DEFINE P == Preferred(es, Leaves(es))
    <3>1. n \in {i \in Leaves(es) : ~es[i].side}
      BY <2>7, <2>11, <2>14
    <3>2. P = {i \in Leaves(es) : ~es[i].side}
      BY <3>1 DEF Preferred
    <3> HIDE DEF P
    <3>3. \A i \in P : i \in 1 .. m /\ i <= n
      BY <2>2, <2>5, <2>6, <3>2, LeavesAreMessages
    <3>4. P \in SUBSET Nat /\ n \in P
      BY <3>1, <3>2, <3>3
    <3>5. Max(P) = n
      BY <3>3, <3>4, MaxIsGreatest
    <3> QED
      BY <3>5 DEF P
  <2> QED
    BY <2>4, <2>7, <2>11, <2>15 DEF ConvAt, NoEntry, n
<1> QED
  BY <1>1, TranscriptIsInvariant, PTL

----------------------------------------------------------------------------
(* The listing *)

\* Keep keeps the values at the places, and nothing else.
LEMMA KeepMembers ==
    ASSUME NEW A, NEW s \in Seq(A), NEW W \in SUBSET (1 .. Len(s))
    PROVE  Range(Keep(s, W)) = {s[i] : i \in W}
<1> DEFINE values(c) == {c[k] : k \in DOMAIN c}
<1>1. Len(s) \in Nat
  BY LenProperties
<1>2. PICK g \in [0 .. Len(s) -> Seq(A)] : KeepRun(s, W, g)
  BY KeepRuns
<1> DEFINE T == {n \in 0 .. Len(s) : values(g[n]) = {s[i] : i \in W \cap 1 .. n}}
<1>3. 0 \in T
  <2>1. values(<<>>) = {}
    BY EmptySeq
  <2>2. W \cap 1 .. 0 = {}
    OBVIOUS
  <2> HIDE DEF values
  <2> QED
    BY <1>1, <1>2, <2>1, <2>2 DEF KeepRun
<1>4. ASSUME NEW n \in 1 .. Len(s), 0 .. n - 1 \subseteq T PROVE n \in T
  <2> SUFFICES values(g[n]) = {s[i] : i \in W \cap 1 .. n}
    <3> HIDE DEF values
    <3> QED
      BY <1>1
  <2> DEFINE c == g[n - 1]
             d == Append(c, s[n])
  <2>1. n - 1 \in 0 .. Len(s) /\ values(c) = {s[i] : i \in W \cap 1 .. n - 1}
    <3>1. n - 1 \in T
      <4>1. n - 1 \in 0 .. n - 1
        BY <1>1
      <4> HIDE DEF T
      <4> QED
        BY <1>4, <4>1
    <3> QED
      BY <3>1
  <2>2. c \in Seq(A) /\ s[n] \in A /\ g[n] = IF n \in W THEN d ELSE c
    BY <1>2, <2>1, ElementOfSeq DEF KeepRun
  <2> HIDE DEF c
  <2>3. CASE n \in W
    <3>1. W \cap 1 .. n = (W \cap 1 .. n - 1) \cup {n}
      BY <1>1, <2>3
    <3>2. values(d) = values(c) \cup {s[n]}
      <4>1. /\ Len(c) \in Nat /\ DOMAIN c = 1 .. Len(c) /\ DOMAIN d = 1 .. Len(c) + 1
            /\ d[Len(c) + 1] = s[n] /\ \A k \in 1 .. Len(c) : d[k] = c[k]
        BY <2>2, AppendProperties, LenProperties
      <4> HIDE DEF d
      <4>2. /\ \A k \in 1 .. Len(c) + 1 : k = Len(c) + 1 \/ k \in 1 .. Len(c)
            /\ Len(c) + 1 \in 1 .. Len(c) + 1 /\ \A k \in 1 .. Len(c) : k \in 1 .. Len(c) + 1
        BY <4>1
      <4> QED
        BY <4>1, <4>2
    <3> HIDE DEF values
    <3>3. values(g[n]) = {s[i] : i \in W \cap 1 .. n - 1} \cup {s[n]}
      BY <2>1, <2>2, <2>3, <3>2
    <3>4. {s[i] : i \in W \cap 1 .. n} = {s[i] : i \in W \cap 1 .. n - 1} \cup {s[n]}
      BY <3>1
    <3> QED
      BY <3>3, <3>4
  <2>4. CASE n \notin W
    <3>1. W \cap 1 .. n = W \cap 1 .. n - 1
      BY <1>1, <2>4
    <3> HIDE DEF values
    <3> QED
      BY <2>1, <2>2, <2>4, <3>1
  <2> QED
    BY <2>3, <2>4
<1>5. 0 .. Len(s) \subseteq T
  <2> HIDE DEF T
  <2> QED
    BY <1>1, <1>3, <1>4, Induction
<1>6. Len(s) \in T /\ W \cap 1 .. Len(s) = W
  <2>1. Len(s) \in 0 .. Len(s)
    BY <1>1
  <2>2. W \cap 1 .. Len(s) = W
    OBVIOUS
  <2> HIDE DEF T
  <2> QED
    BY <1>5, <2>1, <2>2
<1> HIDE DEF values
<1>7. values(Keep(s, W)) = {s[i] : i \in W}
  BY <1>2, <1>6 DEF KeepRun
<1> QED
  BY <1>7 DEF values, Range

\* The recursive definition of Kept is of a function.
KeptRun(order, g) ==
    /\ Kept(order) = g[Len(order)]
    /\ g[0] = {}
    /\ \A i \in 1 .. Len(order) : g[i] = Replaced(g[i - 1], order[i])

\* The copies that stay are the end of a run through the files.
LEMMA KeptRuns ==
    ASSUME NEW A, NEW order \in Seq(A)
    PROVE  \E g \in [0 .. Len(order) -> SUBSET A] : KeptRun(order, g)
<1> DEFINE N == Len(order)
           K == SUBSET A
           up == [i \in 1 .. N |-> i - 1]
           step == [i \in 1 .. N |-> [x \in K |-> Replaced(x, order[i])]]
           Fits(g) == g = [n \in 0 .. N |-> IF n = 0 THEN {} ELSE Replaced(g[n - 1], order[n])]
           kept == CHOOSE g : Fits(g)
<1>1. N \in Nat /\ {} \in K /\ \A i \in 1 .. N : order[i] \in A
  BY LenProperties, ElementOfSeq
<1>2. step \in Steps(N, K)
  <2>1. ASSUME NEW i \in 1 .. N, NEW x \in K PROVE Replaced(x, order[i]) \in K
    BY <1>1 DEF Replaced
  <2> HIDE DEF K, N
  <2> QED
    BY <2>1 DEF Steps
<1> HIDE DEF N
<1>3. up \in Below(N) /\ \A i \in 1 .. N : up[i] = i - 1 /\ i - 1 \in 0 .. N
  BY <1>1 DEF Below
<1> HIDE DEF K
<1>4. PICK g \in [0 .. N -> K] : IsRun(N, {}, up, step, g)
  <2> HIDE DEF step, up
  <2> QED
    BY <1>1, <1>2, <1>3, Recursion
<1>5. \A i \in 1 .. N : g[i] = Replaced(g[i - 1], order[i])
  <2> SUFFICES ASSUME NEW i \in 1 .. N PROVE g[i] = Replaced(g[i - 1], order[i])
    OBVIOUS
  <2>1. g[i] = step[i][g[i - 1]]
    <3> HIDE DEF step, up
    <3> QED
      BY <1>3, <1>4 DEF IsRun
  <2>2. g[i - 1] \in K
    BY <1>3
  <2> QED
    BY <2>1, <2>2
<1>6. g[0] = {}
  BY <1>4 DEF IsRun
<1> HIDE DEF step, up
<1>7. Fits(g)
  <2>1. \A i \in 0 .. N : i # 0 => i \in 1 .. N
    BY <1>1
  <2> QED
    BY <1>5, <1>6, <2>1
<1>8. Fits(kept)
  <2> HIDE DEF Fits
  <2> QED
    BY <1>7
<1>9. Kept(order) = kept[N]
  BY DEF Kept, N
<1> HIDE DEF kept
<1>10. kept[0] = {} /\ \A i \in 1 .. N : kept[i] = Replaced(kept[i - 1], order[i])
  <2>1. 0 \in 0 .. N /\ \A i \in 1 .. N : i \in 0 .. N /\ i # 0
    BY <1>1
  <2> QED
    BY <1>8, <2>1
<1>11. GoAlike(N, kept, g)
  <2>1. \A i \in 1 .. N : i - 1 \in 0 .. i - 1
    BY <1>1
  <2> QED
    BY <1>5, <1>6, <1>10, <2>1 DEF GoAlike
<1>12. kept[N] = g[N]
  <2>1. N \in 0 .. N
    BY <1>1
  <2> QED
    BY <1>1, <1>11, <2>1, Alike
<1> QED
  BY <1>5, <1>6, <1>9, <1>12 DEF KeptRun, K, N

\* Of the files that came, one copy of each session is kept, and it is a newest one.
OneOfEach(kept, came) ==
    /\ kept \subseteq came /\ IsFiniteSet(kept)
    /\ \A f \in came : \E k \in kept : k.id = f.id
    /\ \A k \in kept : \A f \in came : f.id = k.id => f.modified <= k.modified
    /\ \A k, l \in kept : k.id = l.id => k = l

\* One more file leaves one newest copy of each session.
LEMMA ReplacedKeeps ==
    ASSUME NEW kept, NEW came \in SUBSET Files, NEW f \in Files, OneOfEach(kept, came)
    PROVE  OneOfEach(Replaced(kept, f), came \cup {f})
<1> DEFINE same == {k \in kept : k.id = f.id}
           after == Replaced(kept, f)
<1>1. \A g \in came \cup {f} : g.modified \in Int
  BY DEF Files
<1>2. kept \subseteq came
  BY DEF OneOfEach
<1>3. CASE \A k \in same : Newer(f, k)
  <2>1. after = (kept \ same) \cup {f}
    BY <1>3 DEF Replaced
  <2> HIDE DEF after
  <2>2. IsFiniteSet(after)
    <3>1. IsFiniteSet(kept \ same)
      BY FS_Subset DEF OneOfEach
    <3> QED
      BY <2>1, <3>1, FS_AddElement
  <2>3. \A k \in after : k = f \/ (k \in kept /\ k.id # f.id)
    BY <2>1
  <2>4. ASSUME NEW g \in came \cup {f} PROVE \E k \in after : k.id = g.id
    <3>1. CASE g.id = f.id
      BY <2>1, <3>1
    <3>2. CASE g.id # f.id
      <4>1. g \in came
        BY <3>2
      <4>2. PICK k \in kept : k.id = g.id
        BY <4>1 DEF OneOfEach
      <4> QED
        BY <2>1, <3>2, <4>2
    <3> QED
      BY <3>1, <3>2
  <2>5. ASSUME NEW k \in after, NEW g \in came \cup {f}, g.id = k.id PROVE g.modified <= k.modified
    <3>1. CASE k = f
      <4>1. CASE g = f
        BY <1>1, <3>1, <4>1
      <4>2. CASE g # f
        <5>1. g \in came
          BY <4>2
        <5>2. PICK l \in kept : l.id = g.id
          BY <5>1 DEF OneOfEach
        <5>3. g.modified <= l.modified
          BY <5>1, <5>2 DEF OneOfEach
        <5>4. f.modified > l.modified
          BY <1>3, <2>5, <3>1, <5>2 DEF Newer
        <5> QED
          BY <1>1, <1>2, <3>1, <5>1, <5>3, <5>4
      <4> QED
        BY <4>1, <4>2
    <3>2. CASE k # f
      <4>1. k \in kept /\ g \in came
        BY <2>3, <2>5, <3>2
      <4> QED
        BY <2>5, <4>1 DEF OneOfEach
    <3> QED
      BY <3>1, <3>2
  <2>6. \A k, l \in after : k.id = l.id => k = l
    BY <2>3 DEF OneOfEach
  <2>7. after \subseteq came \cup {f}
    BY <1>2, <2>1
  <2> QED
    BY <2>2, <2>4, <2>5, <2>6, <2>7 DEF OneOfEach, after
<1>4. CASE ~\A k \in same : Newer(f, k)
  <2>1. after = kept
    BY <1>4 DEF Replaced
  <2>2. PICK k \in kept : k.id = f.id /\ ~(f.modified > k.modified)
    BY <1>4 DEF Newer
  <2>3. f.modified <= k.modified
    BY <1>1, <1>2, <2>2
  <2>4. \A l \in kept : l.id = f.id => f.modified <= l.modified
    BY <2>2, <2>3 DEF OneOfEach
  <2> QED
    BY <2>1, <2>2, <2>4 DEF OneOfEach
<1> QED
  BY <1>3, <1>4

\* In whatever order the files come, one newest copy of each session stays.
LEMMA KeptIsOneOfEach ==
    ASSUME NEW order \in Seq(Files)
    PROVE  OneOfEach(Kept(order), Range(order))
<1>1. /\ Len(order) \in Nat /\ DOMAIN order = 1 .. Len(order)
      /\ \A i \in 1 .. Len(order) : order[i] \in Files
  BY LenProperties, ElementOfSeq
<1>2. PICK g \in [0 .. Len(order) -> SUBSET Files] : KeptRun(order, g)
  BY KeptRuns
<1> DEFINE came(n) == {order[i] : i \in 1 .. n}
           T == {n \in 0 .. Len(order) : OneOfEach(g[n], came(n))}
<1>3. 0 \in T
  <2>1. came(0) = {}
    OBVIOUS
  <2>2. OneOfEach({}, {})
    BY FS_EmptySet DEF OneOfEach
  <2> HIDE DEF came
  <2>3. OneOfEach(g[0], came(0))
    BY <1>2, <2>1, <2>2 DEF KeptRun
  <2> QED
    BY <1>1, <2>3
<1>4. ASSUME NEW n \in 1 .. Len(order), 0 .. n - 1 \subseteq T PROVE n \in T
  <2>1. OneOfEach(g[n - 1], came(n - 1))
    <3>1. n - 1 \in 0 .. n - 1
      BY <1>1
    <3>2. n - 1 \in T
      <4> HIDE DEF T
      <4> QED
        BY <1>4, <3>1
    <3> QED
      BY <3>2
  <2>2. came(n) = came(n - 1) \cup {order[n]} /\ came(n - 1) \in SUBSET Files /\ order[n] \in Files
    <3>1. \A i \in 1 .. n : i = n \/ i \in 1 .. n - 1
      BY <1>1
    <3>2. n \in 1 .. n /\ \A i \in 1 .. n - 1 : i \in 1 .. n /\ i \in 1 .. Len(order)
      BY <1>1
    <3> QED
      BY <1>1, <3>1, <3>2
  <2> HIDE DEF came
  <2>3. g[n] = Replaced(g[n - 1], order[n])
    BY <1>2 DEF KeptRun
  <2>4. OneOfEach(g[n], came(n))
    BY <2>1, <2>2, <2>3, ReplacedKeeps
  <2> QED
    BY <1>1, <2>4
<1>5. 0 .. Len(order) \subseteq T
  <2> HIDE DEF T
  <2> QED
    BY <1>1, <1>3, <1>4, Induction
<1>6. OneOfEach(g[Len(order)], came(Len(order)))
  <2>1. Len(order) \in 0 .. Len(order)
    BY <1>1
  <2> QED
    BY <1>5, <2>1
<1>7. came(Len(order)) = Range(order)
  BY <1>1 DEF Range
<1> HIDE DEF came
<1> QED
  BY <1>2, <1>6, <1>7 DEF KeptRun

\* An order of a set has each of its elements, once.
LEMMA Orders ==
    ASSUME NEW S, IsFiniteSet(S), NEW s \in SetToSeqs(S)
    PROVE  /\ Cardinality(S) \in Nat /\ s \in [1 .. Cardinality(S) -> S]
           /\ \A i, j \in 1 .. Cardinality(S) : i # j => s[i] # s[j]
           /\ \A x \in S : \E i \in 1 .. Cardinality(S) : s[i] = x
<1> DEFINE n == Cardinality(S)
<1>1. n \in Nat
  BY FS_CardinalityType
<1>2. s \in [1 .. n -> S] /\ \A i, j \in 1 .. n : i # j => s[i] # s[j]
  BY DEF SetToSeqs
<1>3. s \in Injection(1 .. n, S)
  BY <1>2 DEF Injection, IsInjective
<1>4. Cardinality(1 .. n) = n
  <2>1. 1 \in Int /\ n \in Int /\ (IF 1 > n THEN 0 ELSE n - 1 + 1) = n
    BY <1>1
  <2> HIDE DEF n
  <2> QED
    BY <2>1, FS_Interval
<1>5. s \in Surjection(1 .. n, S)
  BY <1>3, <1>4, FS_Injection
<1> QED
  BY <1>1, <1>2, <1>5 DEF Surjection

\* A list that is cut off at a limit is the beginning of the list.
LEMMA LimitedIsFirst ==
    ASSUME NEW A, NEW s \in Seq(A), NEW limit \in Nat
    PROVE  /\ Limited(s, limit) \in Seq(A)
           /\ Len(Limited(s, limit)) \in Nat /\ Len(Limited(s, limit)) <= Len(s)
           /\ \A i \in 1 .. Len(Limited(s, limit)) : Limited(s, limit)[i] = s[i]
           /\ limit > 0 \/ Len(Limited(s, limit)) = Len(s)
<1>1. Len(s) \in Nat
  BY LenProperties
<1>2. CASE limit > 0 /\ Len(s) > limit
  <2>1. Limited(s, limit) = SubSeq(s, 1, limit)
    BY <1>2 DEF Limited
  <2>2. limit \in 0 .. Len(s)
    BY <1>1, <1>2
  <2>3. /\ SubSeq(s, 1, limit) \in Seq(A) /\ Len(SubSeq(s, 1, limit)) = limit
        /\ \A i \in 1 .. limit : SubSeq(s, 1, limit)[i] = s[i]
    BY <2>2, FirstOnes
  <2> QED
    BY <1>1, <1>2, <2>1, <2>3
<1>3. CASE ~(limit > 0 /\ Len(s) > limit)
  <2>1. Limited(s, limit) = s
    BY <1>3 DEF Limited
  <2>2. limit > 0 \/ Len(s) = Len(s)
    OBVIOUS
  <2> QED
    BY <1>1, <2>1
<1> QED
  BY <1>2, <1>3

\* A listing answers with the newest copies, sorted and cut off at the limit.
LEMMA ListedIsNewest ==
    ASSUME NEW limit \in Nat, ListSessions(limit)
    PROVE  ListingIsNewest'
<1>1. PICK n \in 1 .. MaxFiles : \E files \in [1 .. n -> Files] :
        LET order == Keep(files, {i \in 1 .. n : files[i].listed})
        IN  \E sorted \in Sorted(Kept(order)) :
              listing' = [files |-> Range(files), limit |-> limit, answer |-> Limited(sorted, limit)]
  BY DEF ListSessions
<1>2. PICK files \in [1 .. n -> Files] :
        LET order == Keep(files, {i \in 1 .. n : files[i].listed})
        IN  \E sorted \in Sorted(Kept(order)) :
              listing' = [files |-> Range(files), limit |-> limit, answer |-> Limited(sorted, limit)]
  BY <1>1
<1> DEFINE W == {i \in 1 .. n : files[i].listed}
           order == Keep(files, W)
           kept == Kept(order)
           real == {f \in listing'.files : f.listed}
<1>3. PICK sorted \in Sorted(kept) :
        listing' = [files |-> Range(files), limit |-> limit, answer |-> Limited(sorted, limit)]
  BY <1>2
<1> DEFINE answer == Limited(sorted, limit)
           size == Cardinality(kept)
<1> HIDE DEF answer
<1>4. files \in Seq(Files) /\ Len(files) = n /\ W \in SUBSET (1 .. Len(files))
  <2>1. n \in Nat
    OBVIOUS
  <2>2. files \in Seq(Files)
    BY <2>1, SeqDef
  <2> QED
    BY <2>1, <2>2, LenProperties
<1>5. order \in Seq(Files)
  <2>1. PICK g \in [0 .. Len(files) -> Seq(Files)] : KeepRun(files, W, g)
    BY <1>4, KeepRuns
  <2>2. Len(files) \in 0 .. Len(files)
    BY <1>4, LenProperties
  <2> QED
    BY <2>1, <2>2 DEF KeepRun
<1>6. Range(order) = real
  <2>1. Range(order) = {files[i] : i \in W}
    BY <1>4, KeepMembers
  <2>2. listing'.files = {files[i] : i \in 1 .. n}
    BY <1>3 DEF Range
  <2> HIDE DEF order
  <2> QED
    BY <2>1, <2>2
<1>7. OneOfEach(kept, real) /\ IsFiniteSet(kept) /\ kept \subseteq real
  <2>1. OneOfEach(kept, Range(order))
    BY <1>5, KeptIsOneOfEach
  <2> QED
    BY <1>6, <2>1 DEF OneOfEach
<1> HIDE DEF kept, real
<1>8. /\ sorted \in SetToSeqs(kept)
      /\ \A i, j \in DOMAIN sorted : i < j => sorted[i].modified >= sorted[j].modified
  BY <1>3 DEF Sorted
<1>9. /\ size \in Nat /\ sorted \in [1 .. size -> kept]
      /\ \A i, j \in 1 .. size : i # j => sorted[i] # sorted[j]
      /\ \A x \in kept : \E i \in 1 .. size : sorted[i] = x
  BY <1>7, <1>8, Orders
<1> HIDE DEF size
<1>10. sorted \in Seq(kept) /\ Len(sorted) = size
  BY <1>9, SeqDef, LenProperties
<1>11. /\ answer \in Seq(kept) /\ Len(answer) \in Nat /\ Len(answer) <= size
       /\ \A i \in 1 .. Len(answer) : answer[i] = sorted[i]
       /\ limit > 0 \/ Len(answer) = size
  BY <1>10, LimitedIsFirst DEF answer
<1>12. DOMAIN answer = 1 .. Len(answer) /\ \A i \in DOMAIN answer : i \in 1 .. size /\ answer[i] \in kept
  <2>1. DOMAIN answer = 1 .. Len(answer)
    BY <1>11, LenProperties
  <2>2. \A i \in 1 .. Len(answer) : i \in 1 .. size
    BY <1>9, <1>11
  <2> QED
    BY <1>9, <1>11, <2>1, <2>2
<1>13. \A f \in real : f \in Files /\ f.modified \in Int
  <2>1. \A f \in real : f \in Files
    BY <1>2, <1>3 DEF real, Range
  <2> QED
    BY <2>1 DEF Files
<1>14. \A f \in real : \E k \in kept : k.id = f.id
  BY <1>7 DEF OneOfEach
<1>15. \A k \in kept : \A f \in real : f.id = k.id => f.modified <= k.modified
  BY <1>7 DEF OneOfEach
<1>16. \A k, l \in kept : k.id = l.id => k = l
  BY <1>7 DEF OneOfEach
<1>17. IsInjective([i \in DOMAIN answer |-> answer[i].id])
  <2>1. ASSUME NEW i \in DOMAIN answer, NEW j \in DOMAIN answer, answer[i].id = answer[j].id PROVE i = j
    <3>1. /\ answer[i] = sorted[i] /\ answer[j] = sorted[j] /\ answer[i] = answer[j]
          /\ i \in 1 .. size /\ j \in 1 .. size
      BY <1>11, <1>12, <1>16, <2>1
    <3> QED
      BY <1>9, <3>1
  <2> QED
    BY <2>1 DEF IsInjective
<1>18. \A i \in DOMAIN answer :
         answer[i] \in real /\ \A g \in real : g.id = answer[i].id => g.modified <= answer[i].modified
  BY <1>7, <1>12, <1>15
<1>19. \A i, j \in DOMAIN answer : i < j => answer[i].modified >= answer[j].modified
  BY <1>8, <1>9, <1>11, <1>12
<1>20. ASSUME NEW f \in real, f.id \notin {answer[i].id : i \in DOMAIN answer}
       PROVE  limit > 0 /\ \A i \in DOMAIN answer : answer[i].modified >= f.modified
  <2>1. PICK k \in kept : k.id = f.id
    BY <1>14
  <2>2. PICK j \in 1 .. size : sorted[j] = k
    BY <1>9
  <2>3. j \notin DOMAIN answer
    BY <1>11, <1>12, <1>20, <2>1, <2>2
  <2>4. Len(answer) < j /\ limit > 0
    <3>1. Len(answer) \in Nat /\ size \in Nat /\ Len(answer) <= size /\ j \notin 1 .. Len(answer)
      BY <1>9, <1>11, <1>12, <2>3
    <3>2. Len(answer) < j /\ Len(answer) # size
      BY <3>1
    <3> QED
      BY <1>11, <3>2
  <2>5. f.modified <= k.modified
    BY <1>15, <2>1
  <2>6. ASSUME NEW i \in DOMAIN answer PROVE answer[i].modified >= f.modified
    <3>1. i \in 1 .. size /\ i < j /\ answer[i] = sorted[i]
      <4>1. /\ i \in 1 .. size /\ answer[i] = sorted[i] /\ i \in 1 .. Len(answer)
            /\ Len(answer) < j /\ Len(answer) \in Nat /\ size \in Nat
        BY <1>9, <1>11, <1>12, <2>4
      <4>2. i < j
        BY <4>1
      <4> QED
        BY <4>1, <4>2
    <3>2. answer[i].modified >= k.modified
      BY <1>8, <1>9, <2>2, <3>1
    <3>3. answer[i].modified \in Int /\ k.modified \in Int /\ f.modified \in Int
      BY <1>7, <1>12, <1>13
    <3> QED
      BY <2>5, <3>2, <3>3
  <2> QED
    BY <2>4, <2>6
<1>21. listing'.answer = answer /\ listing'.limit = limit
  BY <1>3 DEF answer
<1> QED
  BY <1>17, <1>18, <1>19, <1>20, <1>21 DEF ListingIsNewest, real

\* What the listing answers has each session once, as its newest copy, the
\* newest sessions first, and without a limit it has them all: whatever the
\* order in which the files came.
THEOREM NewestAreListed == HistorySpec => []ListingIsNewest
<1>1. HistoryInit => ListingIsNewest
  BY DEF HistoryInit, NoListing, ListingIsNewest, IsInjective
<1>2. ListingIsNewest /\ [HistoryNext]_historyVars => ListingIsNewest'
  <2> SUFFICES ASSUME ListingIsNewest, [HistoryNext]_historyVars PROVE ListingIsNewest'
    OBVIOUS
  <2>1. CASE UNCHANGED listing
    BY <2>1 DEF ListingIsNewest
  <2>2. CASE \E limit \in 0 .. 1 : ListSessions(limit)
    BY <2>2, ListedIsNewest
  <2> QED
    BY <2>1, <2>2 DEF HistoryNext, historyVars, WriteMessage, WriteNote, WriteSide, Write,
                      FinishLine, Die, Rewind, NextPage
<1> QED
  BY <1>1, <1>2, PTL DEF HistorySpec

----------------------------------------------------------------------------
(* The sessions of an executor *)

USE NoClientIsNone, RoomForOne

\* Where a call is once its client has been in the map.
Placed == {"done", "evicting", "failed"}
Holding == {"disconnecting", "restoring", "evicting"}

InMap(c) == \E i \in Tracked : sessions[i] = c

\* The map has a client under its own session id, and only once its call has put
\* it there.
MapInv == \A i \in Tracked : sid[sessions[i]] = i /\ at[sessions[i]] \in Placed

\* What a call holds was in the map and is no more; a client about to be put
\* back is disconnected, and was never put back before.
HeldInv ==
    \A c \in Calls :
        /\ held[c] # NoClient <=> at[c] \in Holding
        /\ at[c] \in Holding => at[held[c]] \in Placed /\ ~InMap(held[c])
        /\ at[c] \in {"disconnecting", "restoring"} => sid[held[c]] = sid[c]
        /\ at[c] = "restoring" => client[held[c]] = "down" /\ held[c] \notin restored

\* No two calls hold one client.
HeldOnce == \A c, d \in Calls : held[c] = held[d] /\ held[c] # NoClient => c = d

\* A client that was put back has no Query, nor has that of a call that has not connected.
ClientInv ==
    /\ \A c \in restored : client[c] = "down" /\ at[c] \in Placed
    /\ \A c \in Calls : at[c] \in {"idle", "connecting"} => client[c] = "none"

RegistryInv ==
    /\ TypeOK
    /\ MapInv
    /\ HeldInv
    /\ HeldOnce
    /\ ClientInv
    /\ LiveMeansOwned

\* The initial states satisfy the invariant.
LEMMA InitRegistry == Init => RegistryInv
BY DEF Init, RegistryInv, TypeOK, MapInv, HeldInv, HeldOnce, ClientInv, LiveMeansOwned,
       NoClientLost, NoClientClosedEarly, Tracked, Working, Over, Holding

\* The way up to the response touches no client but the call's own.
LEMMA AskRegistry ==
    ASSUME RegistryInv, NEW c \in Calls,
           Begin(c) \/ Connected(c) \/ Rewound(c) \/ Asked(c) \/ Answered(c)
    PROVE  RegistryInv'
<1> USE DEF RegistryInv, TypeOK, Goto, Tracked, Begin, Connected, Rewound, Asked, Answered
<1>1. TypeOK'
  BY DEF Working, Over
<1>2. MapInv'
  BY DEF MapInv, Placed
<1>3. HeldInv'
  BY DEF HeldInv, MapInv, Placed, Holding, InMap
<1>4. HeldOnce'
  BY DEF HeldOnce
<1>5. ClientInv'
  BY DEF ClientInv, Placed
<1>6. LiveMeansOwned'
  BY DEF LiveMeansOwned, NoClientLost, NoClientClosedEarly, MapInv, Working, ClientInv, Placed
<1> QED
  BY <1>1, <1>2, <1>3, <1>4, <1>5, <1>6 DEF RegistryInv

\* A client that fails goes with its call, and was nobody else's.
LEMMA FailRegistry ==
    ASSUME RegistryInv, NEW c \in Calls, ClientFails(c)
    PROVE  RegistryInv'
<1> USE DEF RegistryInv, TypeOK, Goto, Tracked, ClientFails, Fail, Dropped, AfterDrop
<1>1. TypeOK'
  BY DEF Working, Over
<1>2. MapInv'
  BY DEF MapInv, Placed
<1>3. HeldInv'
  BY DEF HeldInv, MapInv, Placed, Holding, InMap
<1>4. HeldOnce'
  BY DEF HeldOnce
<1>5. ClientInv'
  BY DEF ClientInv, Placed
<1>6. LiveMeansOwned'
  BY DEF LiveMeansOwned, NoClientLost, NoClientClosedEarly, MapInv, HeldInv, Working, Placed
<1> QED
  BY <1>1, <1>2, <1>3, <1>4, <1>5, <1>6 DEF RegistryInv

\* Taking the old client out of the map.
LEMMA RemoveRegistry ==
    ASSUME RegistryInv, NEW c \in Calls, RemoveOld(c)
    PROVE  RegistryInv'
<1> USE DEF RegistryInv, TypeOK, Goto, Tracked, RemoveOld
<1>1. CASE sid[c] \in Tracked
  <2> DEFINE old == sessions[sid[c]]
  <2>1. /\ old \in Calls /\ at[old] \in Placed /\ sid[old] = sid[c] /\ old # c
        /\ \A d \in Calls : held[d] # old
    BY <1>1 DEF MapInv, HeldInv, Holding, InMap, Placed
  <2>2. /\ held' = [held EXCEPT ![c] = old] /\ at' = [at EXCEPT ![c] = "disconnecting"]
        /\ Tracked' = Tracked \ {sid[c]}
        /\ \A i \in Tracked' : sessions'[i] = sessions[i]
        /\ sessions' \in [Tracked' -> Calls]
        /\ at[c] = "removing" /\ UNCHANGED <<sid, client, restored>>
    BY <1>1 DEF Restrict
  <2> HIDE DEF RemoveOld, old
  <2>3. TypeOK'
    BY <2>1, <2>2 DEF Working, Over
  <2>4. MapInv'
    BY <2>2 DEF MapInv, Placed
  <2>5. HeldInv'
    BY <2>1, <2>2 DEF HeldInv, MapInv, Placed, Holding, InMap
  <2>6. HeldOnce'
    BY <2>1, <2>2 DEF HeldOnce
  <2>7. ClientInv'
    BY <2>2 DEF ClientInv, Placed
  <2>8. LiveMeansOwned'
    BY <1>1, <2>1, <2>2 DEF LiveMeansOwned, NoClientLost, NoClientClosedEarly, MapInv, HeldInv,
                           Working, Placed, old
  <2> QED
    BY <2>3, <2>4, <2>5, <2>6, <2>7, <2>8
<1>2. CASE sid[c] \notin Tracked
  <2>3. TypeOK'
    BY <1>2 DEF Working, Over
  <2>4. MapInv'
    BY <1>2 DEF MapInv, Placed
  <2>5. HeldInv'
    BY <1>2 DEF HeldInv, Placed, Holding, InMap
  <2>6. HeldOnce'
    BY <1>2 DEF HeldOnce
  <2>7. ClientInv'
    BY <1>2 DEF ClientInv, Placed
  <2>8. LiveMeansOwned'
    BY <1>2 DEF LiveMeansOwned, NoClientLost, NoClientClosedEarly, Working
  <2> QED
    BY <2>3, <2>4, <2>5, <2>6, <2>7, <2>8
<1> QED
  BY <1>1, <1>2

\* A disconnect that ends: of a replaced client, well or badly, or of an evicted one.
LEMMA DisconnectRegistry ==
    ASSUME RegistryInv, NEW c \in Calls,
           DisconnectEnds(c) \/ DisconnectFails(c) \/ Evicted(c)
    PROVE  RegistryInv'
<1> USE DEF RegistryInv, TypeOK, Goto, Tracked, DisconnectEnds, DisconnectFails, Evicted, Release
<1>1. held[c] \in Calls /\ at[held[c]] \in Placed /\ ~InMap(held[c])
  BY DEF HeldInv, Holding
<1>2. TypeOK'
  BY <1>1 DEF Working, Over
<1>3. MapInv'
  BY DEF MapInv, Placed
<1>4. HeldInv'
  BY <1>1 DEF HeldInv, HeldOnce, ClientInv, Placed, Holding, InMap
<1>5. HeldOnce'
  BY DEF HeldOnce
<1>6. ClientInv'
  BY <1>1 DEF ClientInv, Placed
<1>7. LiveMeansOwned'
  <2>1. NoClientLost'
    BY <1>1 DEF LiveMeansOwned, NoClientLost, Working, HeldOnce
  <2>2. NoClientClosedEarly'
    BY <1>1 DEF LiveMeansOwned, NoClientClosedEarly, Working, Placed, InMap
  <2> QED
    BY <2>1, <2>2 DEF LiveMeansOwned
<1> QED
  BY <1>2, <1>3, <1>4, <1>5, <1>6, <1>7

\* The old client goes back, unless the map has another by now; the call fails.
LEMMA RestoreRegistry ==
    ASSUME RegistryInv, NEW c \in Calls, Restore(c)
    PROVE  RegistryInv'
<1> USE DEF RegistryInv, TypeOK, Goto, Tracked, Restore, Release, Dropped, AfterDrop
<1>1. /\ held[c] \in Calls /\ at[held[c]] \in Placed /\ ~InMap(held[c])
      /\ sid[held[c]] = sid[c] /\ client[held[c]] = "down" /\ held[c] # c
  BY DEF HeldInv, Holding, Placed
<1>2. /\ \A d \in Calls : d # c => client'[d] = client[d]
      /\ client'[c] # "up" /\ client'[c] \in {"none", "closing", "down"}
      /\ client' \in [Calls -> {"none", "up", "closing", "down"}]
  OBVIOUS
<1>3. /\ Tracked' \subseteq Tracked \cup {sid[c]} /\ Tracked \subseteq Tracked'
      /\ \A i \in Tracked : sessions'[i] = sessions[i]
      /\ \A i \in Tracked' \ Tracked : i = sid[c] /\ sessions'[i] = held[c]
      /\ sessions' \in [Tracked' -> Calls]
      /\ restored' = restored \/ restored' = restored \cup {held[c]}
      /\ \A i \in Tracked' \ Tracked : held[c] \in restored'
  BY <1>1 DEF Entered
<1>4. /\ at' = [at EXCEPT ![c] = "failed"] /\ held' = [held EXCEPT ![c] = NoClient]
      /\ sid' = sid /\ at[c] = "restoring"
  OBVIOUS
<1> HIDE DEF Restore, Dropped
<1>5. TypeOK'
  BY <1>1, <1>2, <1>3, <1>4 DEF Working, Over
<1>6. MapInv'
  BY <1>1, <1>3, <1>4 DEF MapInv, Placed
<1>7. HeldInv'
  BY <1>1, <1>2, <1>3, <1>4 DEF HeldInv, HeldOnce, Placed, Holding, InMap
<1>8. HeldOnce'
  BY <1>4 DEF HeldOnce
<1>9. ClientInv'
  BY <1>1, <1>2, <1>3, <1>4 DEF ClientInv, Placed
<1>10. LiveMeansOwned'
  <2>1. NoClientLost'
    BY <1>1, <1>2, <1>3, <1>4 DEF LiveMeansOwned, NoClientLost, Working
  <2>2. NoClientClosedEarly'
    BY <1>1, <1>2, <1>3, <1>4 DEF LiveMeansOwned, NoClientClosedEarly, MapInv, Working, Placed
  <2> QED
    BY <2>1, <2>2 DEF LiveMeansOwned
<1> QED
  BY <1>5, <1>6, <1>7, <1>8, <1>9, <1>10

\* What Insert does to the map: the client goes in under its id, and at most one
\* other client goes out.
LEMMA Inserted ==
    ASSUME TypeOK, NEW c \in Calls, Insert(c)
    PROVE  /\ sid[c] \in Tracked' /\ Tracked' \subseteq Tracked \cup {sid[c]}
           /\ sessions' \in [Tracked' -> Calls] /\ sessions'[sid[c]] = c
           /\ \A i \in Tracked' : i # sid[c] => sessions'[i] = sessions[i]
           /\ \/ /\ Tracked' = Tracked \cup {sid[c]} /\ ~(Cardinality(Tracked') > MaxTracked)
                 /\ held' = held /\ at' = [at EXCEPT ![c] = "done"]
              \/ \E i \in Tracked \ {sid[c]} :
                   /\ Tracked' = (Tracked \cup {sid[c]}) \ {i}
                   /\ held' = [held EXCEPT ![c] = sessions[i]]
                   /\ at' = [at EXCEPT ![c] = "evicting"]
<1> USE DEF TypeOK, Goto, Tracked
<1> DEFINE full == Entered(sid[c], c)
<1>1. /\ DOMAIN full = Tracked \cup {sid[c]} /\ full[sid[c]] = c
      /\ full \in [Tracked \cup {sid[c]} -> Calls]
      /\ \A i \in Tracked : i # sid[c] => full[i] = sessions[i]
  BY DEF Entered
<1>2. CASE /\ sessions' = full /\ ~(Cardinality(DOMAIN full) > MaxTracked)
           /\ at' = [at EXCEPT ![c] = "done"] /\ held' = held
  BY <1>1, <1>2
<1>3. CASE \E i \in DOMAIN full \ {sid[c]} :
              /\ held' = [held EXCEPT ![c] = full[i]]
              /\ sessions' = Restrict(full, DOMAIN full \ {i})
              /\ at' = [at EXCEPT ![c] = "evicting"]
  <2> HIDE DEF full
  <2>1. PICK i \in DOMAIN full \ {sid[c]} :
              /\ held' = [held EXCEPT ![c] = full[i]]
              /\ sessions' = Restrict(full, DOMAIN full \ {i})
              /\ at' = [at EXCEPT ![c] = "evicting"]
    BY <1>3
  <2>2. /\ DOMAIN sessions' = (Tracked \cup {sid[c]}) \ {i}
        /\ \A j \in DOMAIN sessions' : sessions'[j] = full[j]
    BY <1>1, <2>1 DEF Restrict
  <2>3. sessions' \in [(Tracked \cup {sid[c]}) \ {i} -> Calls]
    BY <1>1, <2>1 DEF Restrict
  <2>4. i \in Tracked \ {sid[c]} /\ full[i] = sessions[i]
    BY <1>1
  <2> QED
    BY <1>1, <2>1, <2>2, <2>3, <2>4
<1> QED
  BY <1>2, <1>3 DEF Insert

\* Storing a client: what it displaces is dropped, and over the limit another
\* one is taken out to be disconnected.
LEMMA InsertRegistry ==
    ASSUME RegistryInv, NEW c \in Calls, Insert(c)
    PROVE  RegistryInv'
<1> USE DEF RegistryInv, TypeOK, Goto, Tracked
<1> DEFINE gone == IF sid[c] \in Tracked THEN {sessions[sid[c]]} ELSE {}
<1>1. /\ at[c] = "inserting" /\ client[c] = "up" /\ held[c] = NoClient
      /\ \A d \in Calls : held[d] # c
      /\ c \notin gone /\ gone \subseteq Calls
      /\ \A g \in gone : at[g] \in Placed /\ \A d \in Calls : held[d] # g
      /\ \A i \in Tracked : sessions[i] \in gone <=> i = sid[c]
  BY DEF Insert, LiveMeansOwned, NoClientClosedEarly, MapInv, HeldInv, Holding, InMap, Placed,
         Working
<1>2. /\ client' \in [Calls -> {"none", "up", "closing", "down"}]
      /\ \A d \in Calls : d \notin gone => client'[d] = client[d]
      /\ \A d \in gone : client'[d] # "up" /\ (client[d] = "down" => client'[d] = "down")
      /\ UNCHANGED <<sid, restored>>
  BY DEF Insert, Dropped, AfterDrop
<1>3. /\ sid[c] \in Tracked' /\ Tracked' \subseteq Tracked \cup {sid[c]}
      /\ sessions' \in [Tracked' -> Calls] /\ sessions'[sid[c]] = c
      /\ \A i \in Tracked' : i # sid[c] => sessions'[i] = sessions[i]
      /\ \/ /\ Tracked' = Tracked \cup {sid[c]}
            /\ held' = held /\ at' = [at EXCEPT ![c] = "done"]
         \/ \E i \in Tracked \ {sid[c]} :
              /\ Tracked' = (Tracked \cup {sid[c]}) \ {i}
              /\ held' = [held EXCEPT ![c] = sessions[i]]
              /\ at' = [at EXCEPT ![c] = "evicting"]
  BY Inserted
<1>9. /\ at' \in [Calls -> Working \cup Over \cup {"idle", "connecting", "evicting"}]
      /\ \A d \in Calls : d # c => at'[d] = at[d]
      /\ at'[c] \in Placed /\ at'[c] \notin Working
      /\ held' \in [Calls -> Calls \cup {NoClient}]
  <2>1. \A i \in Tracked : sessions[i] \in Calls
    OBVIOUS
  <2>2. held' \in [Calls -> Calls \cup {NoClient}]
    BY <1>3, <2>1
  <2>3. at' = [at EXCEPT ![c] = "done"] \/ at' = [at EXCEPT ![c] = "evicting"]
    BY <1>3
  <2> QED
    BY <2>2, <2>3 DEF Working, Over, Placed
<1> HIDE DEF gone
<1>4. TypeOK'
  <2>1. Tracked' \subseteq Ids
    BY <1>3
  <2> QED
    BY <1>2, <1>3, <1>9, <2>1
<1>5. MapInv'
  BY <1>2, <1>3, <1>9 DEF MapInv
<1>6. ClientInv'
  BY <1>1, <1>2, <1>9 DEF ClientInv, Placed
<1>7. CASE held' = held /\ at' = [at EXCEPT ![c] = "done"] /\ Tracked' = Tracked \cup {sid[c]}
  <2>1. HeldInv'
    BY <1>1, <1>2, <1>3, <1>7 DEF HeldInv, Placed, Holding, InMap
  <2>2. HeldOnce'
    BY <1>7 DEF HeldOnce
  <2>3. NoClientLost'
    BY <1>1, <1>2, <1>3, <1>7 DEF LiveMeansOwned, NoClientLost, Working
  <2>4. NoClientClosedEarly'
    BY <1>1, <1>2, <1>3, <1>7 DEF LiveMeansOwned, NoClientClosedEarly, Working, Placed
  <2> QED
    BY <1>4, <1>5, <1>6, <2>1, <2>2, <2>3, <2>4 DEF LiveMeansOwned
<1>8. CASE \E i \in Tracked \ {sid[c]} :
              /\ Tracked' = (Tracked \cup {sid[c]}) \ {i}
              /\ held' = [held EXCEPT ![c] = sessions[i]]
              /\ at' = [at EXCEPT ![c] = "evicting"]
  <2>1. PICK i \in Tracked \ {sid[c]} :
              /\ Tracked' = (Tracked \cup {sid[c]}) \ {i}
              /\ held' = [held EXCEPT ![c] = sessions[i]]
              /\ at' = [at EXCEPT ![c] = "evicting"]
    BY <1>8
  <2> DEFINE old == sessions[i]
  <2>2. /\ old \in Calls /\ old # c /\ sid[old] = i /\ at[old] \in Placed
        /\ \A d \in Calls : held[d] # old
        /\ \A j \in Tracked' : sessions'[j] # old
        /\ old \notin gone
    BY <1>1, <1>3, <2>1 DEF MapInv, HeldInv, Holding, InMap, Placed
  <2>3. held' = [held EXCEPT ![c] = old]
    BY <2>1
  <2>4. \A d \in Calls : client[d] = "up" /\ sid[d] \in Tracked /\ sessions[sid[d]] = d =>
            d \in gone \/ d = old \/ (sid[d] \in Tracked' /\ sessions'[sid[d]] = d)
    <3> SUFFICES ASSUME NEW d \in Calls, client[d] = "up",
                        sid[d] \in Tracked, sessions[sid[d]] = d
                 PROVE  d \in gone \/ d = old \/ (sid[d] \in Tracked' /\ sessions'[sid[d]] = d)
      OBVIOUS
    <3>1. CASE sid[d] = sid[c]
      BY <1>1, <3>1
    <3>2. CASE sid[d] = i
      BY <3>2
    <3>3. CASE sid[d] # sid[c] /\ sid[d] # i
      BY <1>3, <2>1, <3>3
    <3> QED
      BY <3>1, <3>2, <3>3
  <2> HIDE DEF old
  <2>5. HeldInv'
    BY <1>1, <1>2, <1>3, <2>1, <2>2, <2>3 DEF HeldInv, Placed, Holding, InMap
  <2>6. HeldOnce'
    BY <2>2, <2>3 DEF HeldOnce
  <2>7. NoClientLost'
    BY <1>1, <1>2, <1>3, <2>1, <2>2, <2>3, <2>4 DEF LiveMeansOwned, NoClientLost, Working
  <2>8. NoClientClosedEarly'
    BY <1>1, <1>2, <1>3, <2>1 DEF LiveMeansOwned, NoClientClosedEarly, Working, Placed
  <2> QED
    BY <1>4, <1>5, <1>6, <2>5, <2>6, <2>7, <2>8 DEF LiveMeansOwned
<1> QED
  BY <1>3, <1>7, <1>8

\* A future that is dropped takes its own client and the one it holds with it.
LEMMA CancelRegistry ==
    ASSUME RegistryInv, NEW c \in Calls, Cancel(c)
    PROVE  RegistryInv'
<1> USE DEF RegistryInv, TypeOK, Goto, Tracked, Release
<1> DEFINE gone == (IF at[c] = "evicting" THEN {} ELSE {c}) \cup {held[c]}
<1>1. /\ at[c] \in Working \cup {"connecting", "evicting"}
      /\ \A g \in gone \cap Calls : ~InMap(g) /\ (g = c \/ at[g] \in Placed)
      /\ held[c] \in gone
      /\ \A d \in Calls : held[d] # NoClient /\ held[d] \in gone => d = c
      /\ at[c] # "evicting" => c \in gone
  <2>1. at[c] \in Working \cup {"connecting", "evicting"}
    BY DEF Cancel
  <2>2. at[c] # "evicting" => ~InMap(c) /\ \A d \in Calls : held[d] # c
    BY <2>1 DEF MapInv, HeldInv, Holding, InMap, Placed, Working
  <2>3. held[c] \in Calls =>
          ~InMap(held[c]) /\ at[held[c]] \in Placed /\ \A d \in Calls : held[d] = held[c] => d = c
    BY DEF HeldInv, HeldOnce
  <2> QED
    BY <2>1, <2>2, <2>3
<1>2. /\ client' \in [Calls -> {"none", "up", "closing", "down"}]
      /\ \A d \in Calls : d \notin gone => client'[d] = client[d]
      /\ \A d \in gone \cap Calls :
           /\ client'[d] # "up"
           /\ client[d] = "down" => client'[d] = "down"
           /\ client[d] = "none" => client'[d] = "none" \/ d = held[c]
  BY DEF Cancel, Dropped, AfterDrop
<1>3. /\ held' = [held EXCEPT ![c] = NoClient] /\ at' = [at EXCEPT ![c] = "failed"]
      /\ UNCHANGED <<sid, sessions, restored>>
  BY DEF Cancel
<1> HIDE DEF gone
<1>4. TypeOK'
  BY <1>2, <1>3 DEF Working, Over
<1>5. MapInv'
  BY <1>3 DEF MapInv, Placed
<1>6. HeldInv'
  BY <1>1, <1>2, <1>3 DEF HeldInv, Placed, Holding, InMap
<1>7. HeldOnce'
  BY <1>3 DEF HeldOnce
<1>8. ClientInv'
  BY <1>1, <1>2, <1>3 DEF ClientInv, Placed
<1>9. NoClientLost'
  BY <1>1, <1>2, <1>3 DEF LiveMeansOwned, NoClientLost, Working
<1>10. NoClientClosedEarly'
  BY <1>1, <1>2, <1>3 DEF LiveMeansOwned, NoClientClosedEarly, Working, Placed, InMap
<1> QED
  BY <1>4, <1>5, <1>6, <1>7, <1>8, <1>9, <1>10 DEF LiveMeansOwned

\* The task that closes a dropped client ends.
LEMMA ClosedRegistry ==
    ASSUME RegistryInv, NEW c \in Calls, Closed(c)
    PROVE  RegistryInv'
<1> USE DEF RegistryInv, TypeOK, Tracked, Closed
<1>1. TypeOK' /\ MapInv' /\ HeldOnce' /\ ClientInv'
  BY DEF MapInv, HeldOnce, ClientInv, Placed
<1>2. HeldInv'
  BY DEF HeldInv, InMap, Holding
<1>3. LiveMeansOwned'
  BY DEF LiveMeansOwned, NoClientLost, NoClientClosedEarly, Working
<1> QED
  BY <1>1, <1>2, <1>3

\* Every step keeps the invariant.
LEMMA NextRegistry == RegistryInv /\ [Next]_vars => RegistryInv'
<1> SUFFICES ASSUME RegistryInv, [Next]_vars PROVE RegistryInv'
  OBVIOUS
<1>1. CASE \E c \in Calls : Step(c)
  BY <1>1, AskRegistry, FailRegistry, RemoveRegistry, DisconnectRegistry, RestoreRegistry,
     InsertRegistry, CancelRegistry, ClosedRegistry DEF Step
<1>2. CASE UNCHANGED vars
  BY <1>2 DEF vars, RegistryInv, TypeOK, MapInv, HeldInv, HeldOnce, ClientInv, LiveMeansOwned,
              NoClientLost, NoClientClosedEarly, Tracked, InMap
<1> QED
  BY <1>1, <1>2 DEF Next

\* The inductive invariant of the registry: who has each client at every step of
\* store_client.
THEOREM Ownership == Spec => []RegistryInv
<1>1. Init => RegistryInv
  BY InitRegistry
<1>2. RegistryInv /\ [Next]_vars => RegistryInv'
  BY NextRegistry
<1> QED
  BY <1>1, <1>2, PTL DEF Spec

\* Each variable of the executor and of its calls keeps its type.
THEOREM TypeCorrect == Spec => []TypeOK
<1>1. RegistryInv => TypeOK
  BY DEF RegistryInv
<1> QED
  BY <1>1, Ownership, PTL

\* The clients that are up are those that the map or a call has: none is lost
\* by store_client, and none is closed under a call that counts on it.
THEOREM LiveIsOwned == Spec => []LiveMeansOwned
<1>1. RegistryInv => LiveMeansOwned
  BY DEF RegistryInv
<1> QED
  BY <1>1, Ownership, PTL

\* store_client never puts a disconnected client where a live one is.
THEOREM LiveStaysLive == Spec => LiveIsNotReplacedByDead
<1> DEFINE StaysLive ==
             \A i \in Tracked :
               /\ client[sessions[i]] = "up"
               /\ i \in DOMAIN sessions' /\ sessions'[i] # sessions[i]
               => client'[sessions'[i]] = "up"
<1>1. ASSUME RegistryInv, NEW c \in Calls, Insert(c) PROVE StaysLive
  <2>1. client[c] = "up" /\ \A i \in Tracked : sessions[i] # c
    BY <1>1 DEF RegistryInv, MapInv, LiveMeansOwned, NoClientClosedEarly, Insert, Placed, Working,
                Tracked, TypeOK
  <2>2. client'[c] = "up"
    BY <1>1, <2>1 DEF Insert, Dropped, RegistryInv, TypeOK, Tracked
  <2>3. \A i \in DOMAIN sessions' : i # sid[c] => i \in Tracked /\ sessions'[i] = sessions[i]
    BY <1>1, Inserted DEF RegistryInv, Tracked
  <2>4. sid[c] \in DOMAIN sessions' => sessions'[sid[c]] = c
    BY <1>1, Inserted DEF RegistryInv
  <2> QED
    BY <2>1, <2>2, <2>3, <2>4
<1>2. ASSUME RegistryInv, NEW c \in Calls, Step(c), ~Insert(c) PROVE StaysLive
  BY <1>2 DEF Step, Begin, Connected, Rewound, Asked, ClientFails, Fail, Answered, RemoveOld,
              DisconnectEnds, DisconnectFails, Restore, Entered, Evicted, Cancel, Closed,
              Restrict, Tracked
<1>3. RegistryInv /\ [Next]_vars => [StaysLive]_vars
  BY <1>1, <1>2 DEF Next
<1> QED
  BY <1>3, Ownership, PTL DEF Spec, LiveIsNotReplacedByDead

LimitInv == IsFiniteSet(Tracked) /\ IsFiniteSet(restored) /\ TrackedWithinLimit

\* A step that adds nothing to the map and takes nothing from the history.
LEMMA SmallerWithinLimit ==
    ASSUME LimitInv, Tracked' \subseteq Tracked, restored' = restored
    PROVE  LimitInv'
<1>1. IsFiniteSet(Tracked') /\ Cardinality(Tracked') <= Cardinality(Tracked)
  BY FS_Subset DEF LimitInv
<1>2. /\ Cardinality(Tracked) \in Nat /\ Cardinality(Tracked') \in Nat
      /\ Cardinality(restored) \in Nat
  BY <1>1, FS_CardinalityType DEF LimitInv
<1> QED
  BY <1>1, <1>2 DEF LimitInv, TrackedWithinLimit

\* Putting a client back adds one to both sides: it was never put back before.
LEMMA RestoreWithinLimit ==
    ASSUME LimitInv, RegistryInv, NEW c \in Calls, Restore(c)
    PROVE  LimitInv'
<1>1. held[c] \notin restored
  BY DEF RegistryInv, HeldInv, Restore
<1>2. CASE sid[c] \in Tracked
  BY <1>2, SmallerWithinLimit DEF Restore, Tracked
<1>3. CASE sid[c] \notin Tracked
  <2>1. Tracked' = Tracked \cup {sid[c]} /\ restored' = restored \cup {held[c]}
    BY <1>3 DEF Restore, Entered, Tracked
  <2>2. /\ IsFiniteSet(Tracked') /\ Cardinality(Tracked') = Cardinality(Tracked) + 1
        /\ IsFiniteSet(restored') /\ Cardinality(restored') = Cardinality(restored) + 1
    BY <1>1, <1>3, <2>1, FS_AddElement DEF LimitInv
  <2>3. Cardinality(Tracked) \in Nat /\ Cardinality(restored) \in Nat
    BY FS_CardinalityType DEF LimitInv
  <2> QED
    BY <2>2, <2>3 DEF LimitInv, TrackedWithinLimit
<1> QED
  BY <1>2, <1>3

\* Storing a client evicts another one when the map is full.
LEMMA InsertWithinLimit ==
    ASSUME LimitInv, RegistryInv, NEW c \in Calls, Insert(c)
    PROVE  LimitInv'
<1>1. /\ restored' = restored /\ IsFiniteSet(restored) /\ Cardinality(restored) \in Nat
      /\ IsFiniteSet(Tracked) /\ Cardinality(Tracked) \in Nat
  BY FS_CardinalityType DEF LimitInv, Insert
<1>2. CASE Tracked' = Tracked \cup {sid[c]} /\ ~(Cardinality(Tracked') > MaxTracked)
  <2>1. IsFiniteSet(Tracked') /\ Cardinality(Tracked') \in Nat
    BY <1>1, <1>2, FS_AddElement, FS_CardinalityType
  <2> QED
    BY <1>1, <1>2, <2>1 DEF LimitInv, TrackedWithinLimit
<1>3. CASE \E i \in Tracked \ {sid[c]} : Tracked' = (Tracked \cup {sid[c]}) \ {i}
  <2>1. PICK i \in Tracked \ {sid[c]} : Tracked' = (Tracked \cup {sid[c]}) \ {i}
    BY <1>3
  <2> DEFINE rest == Tracked \ {i}
  <2>2. IsFiniteSet(rest) /\ Cardinality(rest) = Cardinality(Tracked) - 1
    BY <1>1, FS_RemoveElement
  <2>3. Tracked' = rest \cup {sid[c]}
    BY <2>1
  <2> HIDE DEF rest
  <2>4. /\ IsFiniteSet(Tracked')
        /\ Cardinality(Tracked') = Cardinality(rest) \/ Cardinality(Tracked') = Cardinality(rest) + 1
    BY <2>2, <2>3, FS_AddElement
  <2> QED
    BY <1>1, <2>2, <2>4 DEF LimitInv, TrackedWithinLimit
<1> QED
  BY <1>2, <1>3, Inserted DEF RegistryInv

\* The map stays within MAX_TRACKED_SESSIONS but for clients that were put back,
\* each of which takes its place for ever.
THEOREM WithinLimit == Spec => []TrackedWithinLimit
<1>1. Init => LimitInv
  <2>1. ASSUME Init PROVE Tracked = {} /\ restored = {}
    BY <2>1 DEF Init, Tracked
  <2> QED
    BY <2>1, FS_EmptySet DEF LimitInv, TrackedWithinLimit
<1>2. ASSUME LimitInv, RegistryInv, NEW c \in Calls, Step(c) PROVE LimitInv'
  <2>1. CASE Restore(c) \/ Insert(c)
    BY <1>2, <2>1, RestoreWithinLimit, InsertWithinLimit
  <2>2. CASE ~Restore(c) /\ ~Insert(c)
    <3>1. Tracked' \subseteq Tracked /\ restored' = restored
      BY <1>2, <2>2 DEF Step, Begin, Connected, Rewound, Asked, ClientFails, Fail, Answered,
                        RemoveOld, DisconnectEnds, DisconnectFails, Evicted, Cancel, Closed,
                        Restrict, Tracked
    <3> QED
      BY <1>2, <3>1, SmallerWithinLimit
  <2> QED
    BY <2>1, <2>2
<1>3. LimitInv /\ RegistryInv /\ [Next]_vars => LimitInv'
  <2>1. ASSUME LimitInv, UNCHANGED vars PROVE LimitInv'
    BY <2>1, SmallerWithinLimit DEF vars, Tracked
  <2> QED
    BY <1>2, <2>1 DEF Next
<1>4. LimitInv => TrackedWithinLimit
  BY DEF LimitInv
<1> QED
  BY <1>1, <1>3, <1>4, Ownership, PTL DEF Spec
=============================================================================
