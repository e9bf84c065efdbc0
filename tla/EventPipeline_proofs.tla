------------------------- MODULE EventPipeline_proofs -------------------------
(***************************************************************************)
(* Theorems about EventPipeline, for any lines that the CLIs print and any *)
(* hooks: where chunks end makes no difference, the stream is framed,      *)
(* hooks have seen an event before it is handed over, the tool calls of a  *)
(* Claude session end no more often than they start, stray lines cost      *)
(* nothing but errors, and an unfinished value at most the next two.       *)
(***************************************************************************)
EXTENDS EventPipeline, FiniteSetTheorems, SequenceTheorems, TLAPS

----------------------------------------------------------------------------
(* Induction, and functions that are defined by it *)

\* A set of numbers has a least one: their initial segments, ordered by
\* inclusion, are well founded.
LEMMA LeastNumber ==
    ASSUME NEW T \in SUBSET Nat, T # {}
    PROVE  \E m \in T : \A k \in T : m <= k
<1> DEFINE F == {0 .. n : n \in T}
<1>1. F \subseteq FiniteSubsetsOf(Nat)
  <2> SUFFICES ASSUME NEW n \in T PROVE 0 .. n \in FiniteSubsetsOf(Nat)
    OBVIOUS
  <2>1. IsFiniteSet(0 .. n)
    BY FS_Interval
  <2> QED
    BY <2>1 DEF FiniteSubsetsOf
<1>2. F # {}
  OBVIOUS
<1>3. PICK x \in F : \A y \in F : <<y, x>> \notin StrictSubsetOrdering(Nat)
  <2> HIDE DEF F
  <2> QED
    BY <1>1, <1>2, FS_StrictSubsetOrderingWellFounded, WFMin
<1>4. PICK m \in T : x = 0 .. m
  OBVIOUS
<1>5. ASSUME NEW k \in T, k < m PROVE FALSE
  <2>1. 0 .. k \subseteq 0 .. m /\ 0 .. k # 0 .. m /\ 0 .. k \in SUBSET Nat /\ 0 .. m \in SUBSET Nat
    <3>1. m \in 0 .. m /\ m \notin 0 .. k
      BY <1>5
    <3> QED
      BY <1>5, <3>1
  <2>2. <<0 .. k, 0 .. m>> \in StrictSubsetOrdering(Nat)
    BY <2>1 DEF StrictSubsetOrdering
  <2> QED
    BY <1>3, <1>4, <2>2
<1> QED
  BY <1>5

LEMMA Induction ==
    ASSUME NEW S, 0 \in S, \A n \in Nat : n \in S => n + 1 \in S
    PROVE  Nat \subseteq S
<1> SUFFICES ASSUME Nat \ S # {} PROVE FALSE
  OBVIOUS
<1>1. PICK m \in Nat \ S : \A k \in Nat \ S : m <= k
  BY LeastNumber
<1>2. m # 0 /\ m - 1 \in Nat /\ ~(m <= m - 1)
  BY <1>1
<1>3. m - 1 \in S
  BY <1>1, <1>2
<1> QED
  BY <1>1, <1>2, <1>3

\* What holds of the empty sequence, and of a longer one if of the one before,
\* holds of all.
LEMMA SequenceInduction ==
    ASSUME NEW A, NEW S, <<>> \in S,
           \A s \in Seq(A) : \A e \in A : s \in S => Append(s, e) \in S
    PROVE  Seq(A) \subseteq S
<1> DEFINE T == {n \in Nat : \A s \in Seq(A) : Len(s) = n => s \in S}
<1>1. 0 \in T
  BY EmptySeq
<1>2. ASSUME NEW n \in Nat, n \in T PROVE n + 1 \in T
  <2> SUFFICES ASSUME NEW s \in Seq(A), Len(s) = n + 1 PROVE s \in S
    OBVIOUS
  <2>1. DOMAIN s = 1 .. n + 1 /\ n + 1 \in 1 .. n + 1
    BY LenProperties
  <2> DEFINE front == [i \in 1 .. n |-> s[i]]
  <2>2. s[n + 1] \in A /\ \A i \in 1 .. n : s[i] \in A
    BY <2>1, ElementOfSeq
  <2>3. front \in Seq(A) /\ Len(front) = n
    BY <2>2, SeqDef, LenProperties
  <2>4. s = Append(front, s[n + 1])
    <3>1. Append(front, s[n + 1]) \in Seq(A) /\ Len(Append(front, s[n + 1])) = n + 1
      BY <2>2, <2>3, AppendProperties
    <3>2. \A i \in 1 .. n + 1 : s[i] = Append(front, s[n + 1])[i]
      BY <2>2, <2>3, AppendProperties
    <3> QED
      BY <3>1, <3>2, SeqEqual
  <2>5. front \in S
    BY <1>2, <2>3
  <2> HIDE DEF front
  <2> QED
    BY <2>2, <2>3, <2>4, <2>5
<1>3. Nat \subseteq T
  <2> HIDE DEF T
  <2> QED
    BY <1>1, <1>2, Induction
<1> QED
  BY <1>3, LenProperties

\* Values that are each computed from the one before stay in a set.
LEMMA StaysIn ==
    ASSUME NEW N \in Nat, NEW g, NEW K, g[0] \in K,
           \A i \in 1 .. N : g[i - 1] \in K => g[i] \in K
    PROVE  \A i \in 0 .. N : g[i] \in K
<1> DEFINE T == {n \in Nat : n <= N => g[n] \in K}
<1>1. 0 \in T
  OBVIOUS
<1>2. ASSUME NEW n \in Nat, n \in T PROVE n + 1 \in T
  <2> SUFFICES ASSUME n + 1 <= N PROVE g[n + 1] \in K
    OBVIOUS
  <2>1. n + 1 \in 1 .. N /\ (n + 1) - 1 = n /\ g[n] \in K
    BY <1>2
  <2> QED
    BY <2>1
<1>3. Nat \subseteq T
  <2> HIDE DEF T
  <2> QED
    BY <1>1, <1>2, Induction
<1> QED
  BY <1>3

\* Two that begin alike and go on alike are alike.
GoAlike(N, g, h) == g[0] = h[0] /\ \A i \in 1 .. N : g[i - 1] = h[i - 1] => g[i] = h[i]

LEMMA SameSteps ==
    ASSUME NEW N \in Nat, NEW g, NEW h, GoAlike(N, g, h)
    PROVE  \A i \in 0 .. N : g[i] = h[i]
<1> USE DEF GoAlike
<1> DEFINE T == {n \in Nat : n <= N => g[n] = h[n]}
<1>1. 0 \in T
  OBVIOUS
<1>2. ASSUME NEW n \in Nat, n \in T PROVE n + 1 \in T
  <2> SUFFICES ASSUME n + 1 <= N PROVE g[n + 1] = h[n + 1]
    OBVIOUS
  <2>1. n + 1 \in 1 .. N /\ (n + 1) - 1 = n /\ g[n] = h[n]
    BY <1>2
  <2> QED
    BY <2>1
<1>3. Nat \subseteq T
  <2> HIDE DEF T
  <2> QED
    BY <1>1, <1>2, Induction
<1> QED
  BY <1>3

\* A base and steps, and the values they lead to.
Steps(N, K) == [1 .. N -> [K -> K]]
IsRun(N, base, step, g) == g[0] = base /\ \A i \in 1 .. N : g[i] = step[i][g[i - 1]]

\* Steps that stay in a set define such values.
LEMMA Recursion ==
    ASSUME NEW N \in Nat, NEW K, NEW base \in K, NEW step \in Steps(N, K)
    PROVE  \E g \in [0 .. N -> K] : IsRun(N, base, step, g)
<1> USE DEF Steps
<1> DEFINE Fits(n, g) == g[0] = base /\ \A i \in 1 .. n : g[i] = step[i][g[i - 1]]
           T == {n \in Nat : n <= N => \E g \in [0 .. n -> K] : Fits(n, g)}
<1>1. 0 \in T
  <2> DEFINE g == [i \in 0 .. 0 |-> base]
  <2>1. g \in [0 .. 0 -> K] /\ Fits(0, g)
    OBVIOUS
  <2> HIDE DEF g, Fits
  <2> QED
    BY <2>1
<1>2. ASSUME NEW n \in Nat, n \in T PROVE n + 1 \in T
  <2> SUFFICES ASSUME n + 1 <= N PROVE \E h \in [0 .. n + 1 -> K] : Fits(n + 1, h)
    <3> HIDE DEF Fits
    <3> QED
      OBVIOUS
  <2>1. PICK g \in [0 .. n -> K] : Fits(n, g)
    <3> HIDE DEF Fits
    <3> QED
      BY <1>2
  <2> DEFINE h == [i \in 0 .. n + 1 |-> IF i = n + 1 THEN step[n + 1][g[n]] ELSE g[i]]
  <2>2. step[n + 1][g[n]] \in K
    <3>1. n + 1 \in 1 .. N /\ g[n] \in K
      OBVIOUS
    <3> QED
      BY <3>1
  <2>3. h \in [0 .. n + 1 -> K]
    BY <2>2
  <2>4. Fits(n + 1, h)
    <3>1. h[0] = base
      BY <2>1
    <3>2. ASSUME NEW i \in 1 .. n + 1 PROVE h[i] = step[i][h[i - 1]]
      <4>1. CASE i = n + 1
        <5>1. i - 1 = n /\ h[i - 1] = g[n]
          BY <4>1
        <5> QED
          BY <4>1, <5>1
      <4>2. CASE i \in 1 .. n
        <5>1. h[i] = g[i] /\ h[i - 1] = g[i - 1]
          BY <4>2
        <5> QED
          BY <2>1, <4>2, <5>1
      <4> QED
        BY <4>1, <4>2
    <3> QED
      BY <3>1, <3>2
  <2> HIDE DEF h, Fits
  <2> QED
    BY <2>3, <2>4
<1>3. Nat \subseteq T
  <2> HIDE DEF T
  <2> QED
    BY <1>1, <1>2, Induction
<1> HIDE DEF Fits
<1>4. \E g \in [0 .. N -> K] : Fits(N, g)
  BY <1>3
<1> QED
  BY <1>4 DEF Fits, IsRun


----------------------------------------------------------------------------
(* Keep, FlattenSeq and FlatMap, one element at a time *)

\* The recursive definition of Keep is of a function.
KeepRun(s, W, g) ==
    /\ Keep(s, W) = g[Len(s)]
    /\ g[0] = <<>>
    /\ \A i \in 1 .. Len(s) : g[i] = IF i \in W THEN Append(g[i - 1], s[i]) ELSE g[i - 1]

LEMMA KeepRuns ==
    ASSUME NEW A, NEW s \in Seq(A), NEW W
    PROVE  \E g \in [0 .. Len(s) -> Seq(A)] : KeepRun(s, W, g)
<1> DEFINE N == Len(s)
           K == Seq(A)
           step == [i \in 1 .. N |-> [x \in K |-> IF i \in W THEN Append(x, s[i]) ELSE x]]
           Fits(g) == g = [i \in 0 .. N |-> IF i = 0 THEN <<>>
                                            ELSE IF i \in W THEN Append(g[i - 1], s[i]) ELSE g[i - 1]]
           upTo == CHOOSE g : Fits(g)
<1>1. N \in Nat /\ <<>> \in K /\ \A i \in 1 .. N : s[i] \in A
  BY EmptySeq, LenProperties, ElementOfSeq
<1>2. step \in Steps(N, K)
  <2>1. ASSUME NEW i \in 1 .. N, NEW x \in K PROVE (IF i \in W THEN Append(x, s[i]) ELSE x) \in K
    BY <1>1, AppendProperties
  <2> HIDE DEF K, N
  <2> QED
    BY <2>1 DEF Steps
<1>3. PICK g \in [0 .. N -> K] : IsRun(N, <<>>, step, g)
  <2> HIDE DEF K, N, step
  <2> QED
    BY <1>1, <1>2, Recursion
<1>4. ASSUME NEW i \in 1 .. N
      PROVE  g[i] = IF i \in W THEN Append(g[i - 1], s[i]) ELSE g[i - 1]
  <2> HIDE DEF K, N
  <2>1. i - 1 \in 0 .. N
    BY <1>1
  <2> QED
    BY <1>3, <2>1 DEF IsRun
<1>5. Fits(g)
  <2> HIDE DEF K, N
  <2>1. \A i \in 0 .. N : i # 0 => i \in 1 .. N
    BY <1>1
  <2> QED
    BY <1>3, <1>4, <2>1 DEF IsRun
<1>6. Fits(upTo)
  <2> HIDE DEF Fits
  <2> QED
    BY <1>5
<1>7. Keep(s, W) = upTo[N]
  BY DEF Keep
<1>8. upTo[0] = <<>> /\ \A i \in 1 .. N : upTo[i] = IF i \in W THEN Append(upTo[i - 1], s[i]) ELSE upTo[i - 1]
  <2> HIDE DEF upTo, N
  <2>1. 0 \in 0 .. N /\ \A i \in 1 .. N : i \in 0 .. N /\ i # 0
    BY <1>1
  <2> QED
    BY <1>6, <2>1
<1>9. \A i \in 0 .. N : upTo[i] = g[i]
  <2> HIDE DEF upTo, N
  <2>1. \A i \in 1 .. N : upTo[i - 1] = g[i - 1] => upTo[i] = g[i]
    BY <1>4, <1>8
  <2> QED
    <3>1. upTo[0] = g[0] /\ N \in Nat
      BY <1>1, <1>3, <1>8 DEF IsRun
    <3>2. GoAlike(N, upTo, g)
      BY <2>1, <3>1 DEF GoAlike
    <3> QED
      BY <3>1, <3>2, SameSteps
<1>10. Keep(s, W) = g[N]
  <2> HIDE DEF upTo, N
  <2>1. N \in 0 .. N
    BY <1>1
  <2> QED
    BY <1>7, <1>9, <2>1
<1> QED
  BY <1>3, <1>4, <1>10 DEF IsRun, KeepRun

\* Keep of a longer sequence.
LEMMA KeepAppend ==
    ASSUME NEW A
    PROVE  /\ \A W : Keep(<<>>, W) = <<>>
           /\ \A s \in Seq(A), e \in A : \A W :
                /\ Keep(s, W) \in Seq(A)
                /\ Keep(Append(s, e), W) = IF Len(s) + 1 \in W THEN Append(Keep(s, W), e) ELSE Keep(s, W)
<1>1. ASSUME NEW W PROVE Keep(<<>>, W) = <<>>
  BY EmptySeq, KeepRuns DEF KeepRun
<1>2. ASSUME NEW s \in Seq(A), NEW e \in A, NEW W
      PROVE  /\ Keep(s, W) \in Seq(A)
             /\ Keep(Append(s, e), W) = IF Len(s) + 1 \in W THEN Append(Keep(s, W), e) ELSE Keep(s, W)
  <2> DEFINE t == Append(s, e)
             N == Len(s)
  <2>1. /\ t \in Seq(A) /\ N \in Nat /\ Len(t) = N + 1 /\ t[N + 1] = e
        /\ \A i \in 1 .. N : t[i] = s[i]
    BY AppendProperties, LenProperties
  <2> HIDE DEF t
  <2>2. PICK g \in [0 .. N -> Seq(A)] : KeepRun(s, W, g)
    BY KeepRuns
  <2>3. PICK h \in [0 .. Len(t) -> Seq(A)] : KeepRun(t, W, h)
    BY <2>1, KeepRuns
  <2> HIDE DEF N
  <2>4. \A i \in 1 .. N : h[i - 1] = g[i - 1] => h[i] = g[i]
    <3> SUFFICES ASSUME NEW i \in 1 .. N, h[i - 1] = g[i - 1] PROVE h[i] = g[i]
      OBVIOUS
    <3>1. i \in 1 .. Len(t) /\ t[i] = s[i] /\ i \in 1 .. Len(s)
      BY <2>1 DEF N
    <3> QED
      BY <2>2, <2>3, <3>1 DEF KeepRun
  <2>5. \A i \in 0 .. N : h[i] = g[i]
    <3>1. h[0] = g[0] /\ N \in Nat
      BY <2>1, <2>2, <2>3 DEF KeepRun
    <3>2. GoAlike(N, h, g)
      BY <2>4, <3>1 DEF GoAlike
    <3> QED
      BY <3>1, <3>2, SameSteps
  <2>6. h[N] = g[N] /\ N + 1 \in 1 .. Len(t) /\ (N + 1) - 1 = N /\ g[N] \in Seq(A)
    BY <2>1, <2>2, <2>5
  <2> QED
    BY <2>1, <2>2, <2>3, <2>6 DEF N, t, KeepRun
<1> QED
  BY <1>1, <1>2

\* The recursive definition of FlattenSeq, too.
FlattenRun(s, g) ==
    /\ FlattenSeq(s) = g[Len(s)]
    /\ g[0] = <<>>
    /\ \A i \in 1 .. Len(s) : g[i] = g[i - 1] \o s[i]

LEMMA FlattenRuns ==
    ASSUME NEW A, NEW s \in Seq(Seq(A))
    PROVE  \E g \in [0 .. Len(s) -> Seq(A)] : FlattenRun(s, g)
<1> DEFINE N == Len(s)
           K == Seq(A)
           step == [i \in 1 .. N |-> [x \in K |-> x \o s[i]]]
           Fits(f) == f = [i \in 1 .. N |-> IF i = 1 THEN s[i] ELSE f[i - 1] \o s[i]]
           flatten == CHOOSE f : Fits(f)
<1>1. N \in Nat /\ <<>> \in K /\ \A i \in 1 .. N : s[i] \in K
  BY EmptySeq, LenProperties, ElementOfSeq
<1>2. step \in Steps(N, K)
  <2>1. ASSUME NEW i \in 1 .. N, NEW x \in K PROVE x \o s[i] \in K
    BY <1>1, ConcatProperties
  <2> HIDE DEF K, N
  <2> QED
    BY <2>1 DEF Steps
<1>3. PICK g \in [0 .. N -> K] : IsRun(N, <<>>, step, g)
  <2> HIDE DEF K, N, step
  <2> QED
    BY <1>1, <1>2, Recursion
<1>4. \A i \in 1 .. N : g[i] = g[i - 1] \o s[i]
  <2> HIDE DEF K, N
  <2>1. \A i \in 1 .. N : i - 1 \in 0 .. N
    BY <1>1
  <2> QED
    BY <1>3, <2>1 DEF IsRun
<1>5. CASE N = 0
  <2>1. s = <<>>
    BY <1>5, EmptySeq
  <2>2. FlattenSeq(s) = <<>>
    BY <1>5, <2>1 DEF FlattenSeq
  <2> QED
    BY <1>3, <1>4, <1>5, <2>2 DEF IsRun, FlattenRun
<1>6. CASE N # 0
  <2> DEFINE f == [i \in 1 .. N |-> g[i]]
  <2>1. Fits(f)
    <3>1. ASSUME NEW i \in 1 .. N PROVE g[i] = IF i = 1 THEN s[i] ELSE f[i - 1] \o s[i]
      <4>1. CASE i = 1
        <5>1. i - 1 = 0 /\ g[i] = g[i - 1] \o s[i] /\ s[i] \in K /\ g[0] = <<>>
          <6>1. g[i] = g[i - 1] \o s[i]
            BY <1>4
          <6>2. s[i] \in K
            BY <1>1
          <6>3. g[0] = <<>>
            BY <1>3 DEF IsRun
          <6> QED
            BY <4>1, <6>1, <6>2, <6>3
        <5> QED
          BY <4>1, <5>1, ConcatEmptySeq
      <4>2. CASE i # 1
        <5>1. i - 1 \in 1 .. N
          BY <1>1, <4>2
        <5> QED
          BY <1>4, <4>2, <5>1
      <4> QED
        BY <4>1, <4>2
    <3> HIDE DEF N
    <3> QED
      BY <3>1
  <2>2. Fits(flatten)
    <3> HIDE DEF Fits, f
    <3> QED
      BY <2>1
  <2> DEFINE h == [i \in 0 .. N |-> IF i = 0 THEN <<>> ELSE flatten[i]]
  <2>3. /\ h[0] = g[0] /\ flatten[1] = s[1]
        /\ \A i \in 1 .. N : h[i] = flatten[i] /\ (i # 1 => flatten[i] = flatten[i - 1] \o s[i])
    <3> HIDE DEF flatten
    <3>1. 0 \in 0 .. N /\ 1 \in 1 .. N /\ \A i \in 1 .. N : i \in 0 .. N /\ i # 0
      BY <1>1, <1>6
    <3> HIDE DEF N
    <3> QED
      BY <1>3, <2>2, <3>1 DEF IsRun
  <2>4. \A i \in 1 .. N : h[i - 1] = g[i - 1] => h[i] = g[i]
    <3> SUFFICES ASSUME NEW i \in 1 .. N, h[i - 1] = g[i - 1] PROVE h[i] = g[i]
      OBVIOUS
    <3>1. CASE i = 1
      <4>1. i - 1 = 0 /\ g[i] = g[i - 1] \o s[i] /\ s[i] \in K /\ g[0] = <<>>
        <5>1. g[i] = g[i - 1] \o s[i]
          BY <1>4
        <5>2. s[i] \in K
          BY <1>1
        <5>3. g[0] = <<>>
          BY <1>3 DEF IsRun
        <5> QED
          BY <3>1, <5>1, <5>2, <5>3
      <4>2. g[1] = s[1]
        BY <3>1, <4>1, ConcatEmptySeq
      <4> HIDE DEF h, flatten
      <4> QED
        BY <2>3, <3>1, <4>2
    <3>2. CASE i # 1
      <4>1. i - 1 \in 1 .. N
        BY <1>1, <3>2
      <4> HIDE DEF h, flatten
      <4> QED
        BY <1>4, <2>3, <3>2, <4>1
    <3> QED
      BY <3>1, <3>2
  <2>5. \A i \in 0 .. N : h[i] = g[i]
    <3> HIDE DEF h, N
    <3> QED
      <4>1. h[0] = g[0] /\ N \in Nat
        BY <1>1, <2>3
      <4>2. GoAlike(N, h, g)
        BY <2>4, <4>1 DEF GoAlike
      <4> QED
        BY <4>1, <4>2, SameSteps
  <2>6. FlattenSeq(s) = flatten[N]
    BY <1>6 DEF FlattenSeq
  <2>7. FlattenSeq(s) = g[N]
    <3>1. N \in 1 .. N /\ N \in 0 .. N
      BY <1>1, <1>6
    <3> HIDE DEF h, flatten, N
    <3> QED
      BY <2>3, <2>5, <2>6, <3>1
  <2> QED
    BY <1>3, <1>4, <2>7 DEF IsRun, FlattenRun
<1> QED
  BY <1>5, <1>6

\* FlattenSeq of a longer sequence.
LEMMA FlattenAppend ==
    ASSUME NEW A
    PROVE  /\ FlattenSeq(<<>>) = <<>>
           /\ \A s \in Seq(Seq(A)), e \in Seq(A) :
                /\ FlattenSeq(s) \in Seq(A)
                /\ FlattenSeq(Append(s, e)) = FlattenSeq(s) \o e
<1>1. FlattenSeq(<<>>) = <<>>
  BY EmptySeq, FlattenRuns DEF FlattenRun
<1>2. ASSUME NEW s \in Seq(Seq(A)), NEW e \in Seq(A)
      PROVE  FlattenSeq(s) \in Seq(A) /\ FlattenSeq(Append(s, e)) = FlattenSeq(s) \o e
  <2> DEFINE t == Append(s, e)
             N == Len(s)
             B == Seq(A)
  <2>1. /\ t \in Seq(B) /\ N \in Nat /\ Len(t) = N + 1 /\ t[N + 1] = e
        /\ \A i \in 1 .. N : t[i] = s[i]
    <3> HIDE DEF B
    <3> QED
      BY AppendProperties, LenProperties DEF B
  <2> HIDE DEF t
  <2>2. PICK g \in [0 .. N -> B] : FlattenRun(s, g)
    BY FlattenRuns
  <2>3. PICK h \in [0 .. Len(t) -> B] : FlattenRun(t, h)
    BY <2>1, FlattenRuns
  <2> HIDE DEF N, B
  <2>4. \A i \in 1 .. N : h[i - 1] = g[i - 1] => h[i] = g[i]
    <3> SUFFICES ASSUME NEW i \in 1 .. N, h[i - 1] = g[i - 1] PROVE h[i] = g[i]
      OBVIOUS
    <3>1. i \in 1 .. Len(t) /\ t[i] = s[i] /\ i \in 1 .. Len(s)
      BY <2>1 DEF N
    <3> QED
      BY <2>2, <2>3, <3>1 DEF FlattenRun
  <2>5. \A i \in 0 .. N : h[i] = g[i]
    <3>1. h[0] = g[0] /\ N \in Nat
      BY <2>1, <2>2, <2>3 DEF FlattenRun
    <3>2. GoAlike(N, h, g)
      BY <2>4, <3>1 DEF GoAlike
    <3> QED
      BY <3>1, <3>2, SameSteps
  <2>6. h[N] = g[N] /\ N + 1 \in 1 .. Len(t) /\ (N + 1) - 1 = N /\ g[N] \in B
    BY <2>1, <2>2, <2>5
  <2>7. FlattenSeq(t) = h[N] \o t[N + 1]
    BY <2>1, <2>3, <2>6 DEF FlattenRun
  <2> QED
    BY <2>1, <2>2, <2>6, <2>7 DEF t, B, N, FlattenRun
<1> QED
  BY <1>1, <1>2

\* What is kept are values at the places to keep.
LEMMA KeepValues ==
    ASSUME NEW A, NEW s \in Seq(A), NEW W
    PROVE  Keep(s, W) \in Seq({s[i] : i \in (1 .. Len(s)) \cap W})
<1> DEFINE V == {s[i] : i \in (1 .. Len(s)) \cap W}
<1>1. PICK g \in [0 .. Len(s) -> Seq(A)] : KeepRun(s, W, g)
  BY KeepRuns
<1>2. Len(s) \in Nat
  BY LenProperties
<1>3. g[0] \in Seq(V)
  BY <1>1, EmptySeq DEF KeepRun
<1>4. ASSUME NEW i \in 1 .. Len(s), g[i - 1] \in Seq(V) PROVE g[i] \in Seq(V)
  <2>1. CASE i \in W
    <3>1. s[i] \in V
      BY <2>1
    <3> HIDE DEF V
    <3>2. Append(g[i - 1], s[i]) \in Seq(V)
      BY <1>4, <3>1, AppendProperties
    <3> QED
      BY <1>1, <2>1, <3>2 DEF KeepRun
  <2>2. CASE i \notin W
    BY <1>1, <1>4, <2>2 DEF KeepRun
  <2> QED
    BY <2>1, <2>2
<1> HIDE DEF V
<1>5. \A i \in 0 .. Len(s) : g[i] \in Seq(V)
  BY <1>2, <1>3, <1>4, StaysIn
<1>6. Len(s) \in 0 .. Len(s)
  BY <1>2
<1> QED
  BY <1>1, <1>5, <1>6 DEF KeepRun, V

----------------------------------------------------------------------------
(* The conversion of logs to events *)

Statuses == {"Started", "Running", "Completed", "Failed"}
Actions ==
    {"McpTool", "AskUser", "WebSearch", "FileRead", "FileEdit", "CommandRun"}
Logs ==
    [log : {"Message", "Thinking", "Error"}]
    \cup [log : {"TokenUsage"}, total : Nat, limit : Nat]
    \cup [log : {"ToolCall"}, id : STRING, status : Statuses, action : Actions]

\* The events of logs, which neither start nor end the stream.
Middle ==
    [event : {"MessageReceived", "ThinkingStarted", "ThinkingCompleted", "ErrorOccurred"}]
    \cup [event : {"ToolCallStarted", "ToolCallCompleted", "ToolCallFailed"}, id : STRING]
    \cup [event : {"TokenUsageUpdated"}, total : Nat, limit : Nat]
    \cup [event : {"ContextUsageUpdated"}, usage : {ContextUsage(t, l) : t \in Nat, l \in Nat}]
Framing == [event : {"SessionStarted"}] \cup [event : {"SessionCompleted"}, success : BOOLEAN]

LEMMA MiddleIsNoFrame ==
    \A e \in Middle : e.event # "SessionStarted" /\ e.event # "SessionCompleted"
BY DEF Middle

LEMMA ConvertInMiddle ==
    ASSUME NEW l \in Logs
    PROVE  Convert(l) \in Seq(Middle)
<1>1. CASE l.log \in {"Message", "Thinking", "Error"}
  <2>1. /\ Event("MessageReceived") \in Middle /\ Event("ThinkingStarted") \in Middle
        /\ Event("ThinkingCompleted") \in Middle /\ Event("ErrorOccurred") \in Middle
    BY DEF Event, Middle
  <2>2. \/ Convert(l) = <<Event("MessageReceived")>>
        \/ Convert(l) = <<Event("ThinkingStarted"), Event("ThinkingCompleted")>>
        \/ Convert(l) = <<Event("ErrorOccurred")>>
    BY <1>1 DEF Convert
  <2>3. ASSUME NEW a \in Middle, NEW b \in Middle PROVE <<a>> \in Seq(Middle) /\ <<a, b>> \in Seq(Middle)
    OBVIOUS
  <2> QED
    BY <2>1, <2>2, <2>3
<1>2. CASE l \in [log : {"TokenUsage"}, total : Nat, limit : Nat]
  <2> DEFINE a == [event |-> "TokenUsageUpdated", total |-> l.total, limit |-> l.limit]
             b == [event |-> "ContextUsageUpdated", usage |-> ContextUsage(l.total, l.limit)]
  <2>1. a \in Middle /\ b \in Middle
    BY <1>2 DEF Middle
  <2>2. Convert(l) = <<a, b>>
    BY <1>2 DEF Convert
  <2> HIDE DEF a, b
  <2> QED
    BY <2>1, <2>2
<1>3. CASE l \in [log : {"ToolCall"}, id : STRING, status : Statuses, action : Actions]
  <2>1. CASE l.status = "Running"
    BY <1>3, <2>1, EmptySeq DEF Convert
  <2>2. CASE l.status # "Running"
    <3> DEFINE a == ToolEvent(EventOfStatus[l.status], l.id)
    <3>1. EventOfStatus[l.status] \in {"ToolCallStarted", "ToolCallCompleted", "ToolCallFailed"}
      BY <1>3, <2>2 DEF EventOfStatus, Statuses
    <3>2. a \in Middle
      BY <1>3, <3>1 DEF ToolEvent, Middle
    <3>3. Convert(l) = <<a>>
      BY <1>3, <2>2 DEF Convert
    <3> HIDE DEF a
    <3> QED
      BY <3>2, <3>3
  <2> QED
    BY <2>1, <2>2
<1> QED
  BY <1>1, <1>2, <1>3 DEF Logs

Converted(logs) == FlatMap(Convert, logs)

LEMMA ConvertedAppend ==
    /\ Converted(<<>>) = <<>>
    /\ \A s \in Seq(Logs), l \in Logs :
         /\ Converted(s) \in Seq(Middle)
         /\ Converted(Append(s, l)) = Converted(s) \o Convert(l)
<1> DEFINE B == Seq(Middle)
           Images(s) == [i \in DOMAIN s |-> Convert(s[i])]
<1>1. \A s : Converted(s) = FlattenSeq(Images(s))
  BY DEF Converted, FlatMap
<1>2. Converted(<<>>) = <<>>
  <2>1. Images(<<>>) = <<>>
    OBVIOUS
  <2> HIDE DEF Images
  <2> QED
    BY <1>1, <2>1, FlattenAppend
<1>3. ASSUME NEW s \in Seq(Logs) PROVE Images(s) \in Seq(B) /\ Len(Images(s)) = Len(s)
  <2>1. DOMAIN s = 1 .. Len(s) /\ Len(s) \in Nat /\ \A i \in 1 .. Len(s) : s[i] \in Logs
    BY LenProperties, ElementOfSeq
  <2>2. \A i \in 1 .. Len(s) : Convert(s[i]) \in B
    BY <2>1, ConvertInMiddle
  <2> HIDE DEF B
  <2> QED
    BY <2>1, <2>2
<1>4. ASSUME NEW s \in Seq(Logs), NEW l \in Logs
      PROVE  Images(Append(s, l)) = Append(Images(s), Convert(l))
  <2>1. Append(s, l) \in Seq(Logs) /\ Len(Append(s, l)) = Len(s) + 1
    BY AppendProperties
  <2>2. Convert(l) \in B
    BY ConvertInMiddle
  <2> HIDE DEF B
  <2>3. /\ Images(Append(s, l)) \in Seq(B) /\ Append(Images(s), Convert(l)) \in Seq(B)
        /\ Len(Images(Append(s, l))) = Len(s) + 1 /\ Len(Append(Images(s), Convert(l))) = Len(s) + 1
    <3> HIDE DEF Images
    <3>1. Images(Append(s, l)) \in Seq(B) /\ Len(Images(Append(s, l))) = Len(s) + 1
      BY <1>3, <2>1
    <3>2. Images(s) \in Seq(B) /\ Len(Images(s)) = Len(s)
      BY <1>3
    <3> QED
      BY <2>2, <3>1, <3>2, AppendProperties
  <2>4. ASSUME NEW i \in 1 .. Len(s) + 1
        PROVE  Images(Append(s, l))[i] = Append(Images(s), Convert(l))[i]
    <3>1. /\ Images(Append(s, l))[i] = Convert(Append(s, l)[i])
          /\ i \in 1 .. Len(s) => Images(s)[i] = Convert(s[i])
      <4>1. DOMAIN Append(s, l) = 1 .. Len(s) + 1 /\ DOMAIN s = 1 .. Len(s)
        BY <2>1, LenProperties
      <4> QED
        BY <4>1
    <3>2. Append(s, l)[i] = IF i <= Len(s) THEN s[i] ELSE l
      BY AppendProperties
    <3> HIDE DEF Images
    <3>3. Append(Images(s), Convert(l))[i] = IF i <= Len(s) THEN Images(s)[i] ELSE Convert(l)
      BY <1>3, <2>2, AppendProperties
    <3>4. Len(s) \in Nat
      BY LenProperties
    <3> QED
      BY <3>1, <3>2, <3>3, <3>4
  <2>5. Len(s) \in Nat
    BY LenProperties
  <2> HIDE DEF Images
  <2> QED
    BY <2>3, <2>4, <2>5, SeqEqual
<1>5. ASSUME NEW s \in Seq(Logs), NEW l \in Logs
      PROVE  /\ Converted(s) \in Seq(Middle)
             /\ Converted(Append(s, l)) = Converted(s) \o Convert(l)
  <2>1. Images(s) \in Seq(Seq(Middle)) /\ Convert(l) \in Seq(Middle)
    BY <1>3, ConvertInMiddle
  <2> HIDE DEF Images
  <2> QED
    BY <1>1, <1>4, <2>1, FlattenAppend
<1> QED
  BY <1>2, <1>5

LEMMA ConcatAppend ==
    ASSUME NEW A, NEW s \in Seq(A), NEW t \in Seq(A), NEW e \in A
    PROVE  s \o Append(t, e) = Append(s \o t, e)
<1>1. <<e>> \in Seq(A) /\ s \o t \in Seq(A)
  BY ConcatProperties
<1>2. Append(t, e) = t \o <<e>> /\ Append(s \o t, e) = (s \o t) \o <<e>>
  BY <1>1, AppendIsConcat
<1> QED
  BY <1>1, <1>2, ConcatAssociative

\* The events of two lists of logs are those of the one and then of the other.
LEMMA ConvertedConcat ==
    ASSUME NEW s \in Seq(Logs), NEW t \in Seq(Logs)
    PROVE  Converted(s \o t) = Converted(s) \o Converted(t)
<1> DEFINE S == {u \in Seq(Logs) : Converted(s \o u) = Converted(s) \o Converted(u)}
<1>1. Converted(s) \in Seq(Middle)
  <2>1. [log |-> "Message"] \in Logs
    BY DEF Logs
  <2> QED
    BY <2>1, ConvertedAppend
<1>2. <<>> \in S
  BY <1>1, EmptySeq, ConcatEmptySeq, ConvertedAppend
<1>3. ASSUME NEW u \in Seq(Logs), NEW e \in Logs, u \in S PROVE Append(u, e) \in S
  <2>1. s \o Append(u, e) = Append(s \o u, e)
    BY ConcatAppend
  <2>2. s \o u \in Seq(Logs) /\ Append(u, e) \in Seq(Logs)
    BY ConcatProperties, AppendProperties
  <2>3. Converted(Append(s \o u, e)) = (Converted(s) \o Converted(u)) \o Convert(e)
    BY <1>3, <2>2, ConvertedAppend
  <2>4. (Converted(s) \o Converted(u)) \o Convert(e) = Converted(s) \o (Converted(u) \o Convert(e))
    <3>1. Converted(u) \in Seq(Middle) /\ Convert(e) \in Seq(Middle)
      BY ConvertedAppend, ConvertInMiddle
    <3> QED
      BY <1>1, <3>1, ConcatAssociative
  <2>5. Converted(Append(u, e)) = Converted(u) \o Convert(e)
    BY ConvertedAppend
  <2> QED
    BY <2>1, <2>2, <2>3, <2>4, <2>5
<1>4. Seq(Logs) \subseteq S
  <2> HIDE DEF S
  <2> QED
    BY <1>2, <1>3, SequenceInduction
<1> QED
  BY <1>4

----------------------------------------------------------------------------
(* What the normalizers keep and produce *)

Values(p) == IF p = "claude" THEN ClaudeValues ELSE CodexValues
Calls == [id : STRING, action : Actions]
ClaudePieces == Pieces(ClaudeValues)
ClaudeStates == [line : Seq(ClaudePieces), json : Seq(ClaudePieces), pending : SUBSET Calls]
States(p) == IF p = "claude" THEN ClaudeStates ELSE Seq(Pieces(CodexValues))
Outs(p) == [st : States(p), logs : Seq(Logs)]
ClaudeOuts == [st : ClaudeStates, logs : Seq(Logs)]

LEMMA OutInOuts ==
    ASSUME NEW p, NEW st \in States(p), NEW logs \in Seq(Logs)
    PROVE  Out(st, logs) \in Outs(p)
BY DEF Out, Outs

LEMMA OutInClaudeOuts ==
    ASSUME NEW st \in ClaudeStates, NEW logs \in Seq(Logs)
    PROVE  Out(st, logs) \in ClaudeOuts
BY DEF Out, ClaudeOuts

LEMMA ClaudeOutsAreOuts == Outs("claude") = ClaudeOuts /\ States("claude") = ClaudeStates
BY DEF ClaudeOuts, Outs, States

LEMMA AfterInOuts ==
    ASSUME NEW p, NEW a \in Outs(p), NEW b \in Outs(p)
    PROVE  After(a, b) \in Outs(p)
<1>1. a.logs \o b.logs \in Seq(Logs) /\ b.st \in States(p)
  BY ConcatProperties DEF Outs
<1> QED
  BY <1>1, OutInOuts DEF After

LEMMA AfterAssociative ==
    ASSUME NEW p, NEW a \in Outs(p), NEW b \in Outs(p), NEW c \in Outs(p)
    PROVE  After(After(a, b), c) = After(a, After(b, c))
<1> DEFINE x == a.logs
           y == b.logs
           z == c.logs
<1>1. x \in Seq(Logs) /\ y \in Seq(Logs) /\ z \in Seq(Logs)
  BY DEF Outs
<1> HIDE DEF x, y, z
<1>2. (x \o y) \o z = x \o (y \o z)
  BY <1>1, ConcatAssociative
<1> QED
  BY <1>2 DEF After, Out, x, y, z

LEMMA PlainLogs ==
    /\ <<>> \in Seq(Logs) /\ <<Message>> \in Seq(Logs) /\ <<Thinking>> \in Seq(Logs)
    /\ <<Error>> \in Seq(Logs)
<1>1. Message \in Logs /\ Thinking \in Logs /\ Error \in Logs
  BY DEF Message, Thinking, Error, Logs
<1>2. \A l \in Logs : <<l>> \in Seq(Logs)
  OBVIOUS
<1> QED
  BY <1>1, <1>2, EmptySeq

LEMMA ToolCallInLogs ==
    ASSUME NEW id \in STRING, NEW status \in Statuses, NEW action \in Actions
    PROVE  ToolCall(id, status, action) \in Logs
BY DEF ToolCall, Logs

LEMMA TokenUsageInLogs ==
    ASSUME NEW total \in Nat, NEW limit \in Nat
    PROVE  TokenUsage(Saturated(total), Saturated(limit)) \in Logs /\ TokenUsage(Saturated(total), 0) \in Logs
<1>1. Saturated(total) \in Nat /\ Saturated(limit) \in Nat
  BY CountsAssumption DEF Saturated, Least
<1> QED
  BY <1>1 DEF TokenUsage, Logs

LEMMA ActionIsWord ==
    ASSUME NEW words
    PROVE  ActionOf(words) \in Actions
<1> DEFINE hits == {i \in DOMAIN ActionRows : ActionRows[i].words \cap words # {}}
<1>1. DOMAIN ActionRows = 1 .. 6
  BY DEF ActionRows
<1>2. \A i \in 1 .. 6 : ActionRows[i].action \in Actions
  <2> SUFFICES ASSUME NEW i \in 1 .. 6 PROVE ActionRows[i].action \in Actions
    OBVIOUS
  <2>1. i = 1 \/ i = 2 \/ i = 3 \/ i = 4 \/ i = 5 \/ i = 6
    OBVIOUS
  <2> QED
    BY <2>1 DEF ActionRows, Actions
<1>3. CASE hits = {}
  BY <1>3 DEF ActionOf, Actions
<1>4. CASE hits # {}
  <2>1. hits \in SUBSET Nat /\ hits \subseteq 1 .. 6
    BY <1>1
  <2> DEFINE first == CHOOSE i \in hits : \A j \in hits : i <= j
  <2>2. ActionOf(words) = ActionRows[first].action
    BY <1>4 DEF ActionOf
  <2> HIDE DEF hits
  <2>3. \E i \in hits : \A j \in hits : i <= j
    BY <1>4, <2>1, LeastNumber
  <2>4. first \in hits
    BY <2>3
  <2> HIDE DEF first
  <2> QED
    BY <1>2, <2>1, <2>2, <2>4
<1> QED
  BY <1>3, <1>4

LEMMA UsageIsLogged ==
    ASSUME NEW u \in Usages
    PROVE  UsageLogs(u) \in Seq(Logs)
<1>1. \A l \in Logs : <<l>> \in Seq(Logs)
  OBVIOUS
<1>2. CASE u.kind = "none"
  <2>1. UsageLogs(u) = <<>>
    BY <1>2 DEF UsageLogs
  <2> QED
    BY <2>1, PlainLogs
<1>3. CASE u \in [kind : {"number"}, total : Nat]
  <2>1. u.kind = "number" /\ u.total \in Nat
    BY <1>3
  <2>2. TokenUsage(Saturated(u.total), 0) \in Logs
    BY <2>1, TokenUsageInLogs
  <2>3. UsageLogs(u) = <<TokenUsage(Saturated(u.total), 0)>> \/ UsageLogs(u) = <<>>
    BY <2>1 DEF UsageLogs
  <2> QED
    BY <1>1, <2>2, <2>3, PlainLogs
<1>4. CASE u \in [kind : {"object"}, input : Counts, output : Counts, limit : Counts, max : Counts]
  <2> DEFINE total == Count(u.input) + Count(u.output)
             limit == IF u.limit >= 0 THEN u.limit ELSE Count(u.max)
  <2>1. u.kind = "object" /\ total \in Nat /\ limit \in Nat
    BY <1>4 DEF Count, Counts
  <2>2. TokenUsage(Saturated(total), Saturated(limit)) \in Logs
    <3> HIDE DEF total, limit
    <3> QED
      BY <2>1, TokenUsageInLogs
  <2>3. UsageLogs(u) = <<TokenUsage(Saturated(total), Saturated(limit))>> \/ UsageLogs(u) = <<>>
    BY <2>1 DEF UsageLogs
  <2> HIDE DEF total, limit
  <2> QED
    BY <1>1, <2>2, <2>3, PlainLogs
<1> QED
  BY <1>2, <1>3, <1>4 DEF Usages

ToolBlocks == {b \in Blocks : b.type \in {"text", "tool_use", "tool_result", "thinking"}}

LEMMA KeptBlocksInToolBlocks ==
    ASSUME NEW blocks \in Seq(Blocks), NEW withThinking
    PROVE  KeptBlocks(blocks, withThinking) \in Seq(ToolBlocks)
<1> DEFINE W == {i \in DOMAIN blocks :
        /\ blocks[i].complete
        /\ \/ blocks[i].type \in {"text", "tool_use", "tool_result"}
           \/ blocks[i].type = "thinking" /\ withThinking}
           V == {blocks[i] : i \in (1 .. Len(blocks)) \cap W}
<1>1. KeptBlocks(blocks, withThinking) = Keep(blocks, W)
  BY DEF KeptBlocks
<1>2. V \subseteq ToolBlocks
  <2> SUFFICES ASSUME NEW i \in 1 .. Len(blocks), i \in W PROVE blocks[i] \in ToolBlocks
    OBVIOUS
  <2>1. blocks[i] \in Blocks
    BY ElementOfSeq
  <2> QED
    BY <2>1 DEF ToolBlocks
<1>3. Keep(blocks, W) \in Seq(V)
  <2> HIDE DEF W
  <2> QED
    BY KeepValues
<1> HIDE DEF V, W
<1> QED
  BY <1>1, <1>2, <1>3, SeqMonotonic

LEMMA NormalizeBlockRuns ==
    ASSUME NEW st \in ClaudeStates, NEW type, NEW b \in ToolBlocks
    PROVE  NormalizeBlock(st, type, b) \in ClaudeOuts
<1>1. \A l \in Logs : <<l>> \in Seq(Logs)
  OBVIOUS
<1>2. b \in Blocks /\ b.id \in STRING /\ b.words \in SUBSET STRING
  BY DEF ToolBlocks, Blocks
<1>3. st.pending \in SUBSET Calls /\ \A c \in Calls : c.action \in Actions
  BY DEF ClaudeStates, Calls
<1>4. ASSUME NEW calls \in SUBSET Calls PROVE [st EXCEPT !.pending = calls] \in ClaudeStates
  BY DEF ClaudeStates
<1>5. CASE b.type = "tool_result"
  <2> DEFINE hit == {p \in st.pending : p.id = b.id}
  <2>1. NormalizeBlock(st, type, b) = ToolResult(st, b)
    BY <1>5 DEF NormalizeBlock
  <2>2. CASE hit = {}
    <3>1. ToolResult(st, b) = Out(st, <<>>)
      BY <2>2 DEF ToolResult
    <3> QED
      BY <2>1, <3>1, PlainLogs, OutInClaudeOuts
  <2>3. CASE hit # {}
    <3> DEFINE p == CHOOSE p \in hit : TRUE
               status == IF b.failed THEN "Failed" ELSE "Completed"
    <3>1. p \in hit
      BY <2>3
    <3>2. p.action \in Actions
      BY <1>3, <3>1
    <3>3. ToolResult(st, b) = Out(Taken(st, b.id), <<ToolCall(b.id, status, p.action)>>)
      BY <2>3 DEF ToolResult
    <3>4. Taken(st, b.id) \in ClaudeStates
      <4>1. {q \in st.pending : q.id # b.id} \in SUBSET Calls
        BY <1>3
      <4> QED
        BY <1>4, <4>1 DEF Taken
    <3>5. status \in Statuses
      BY DEF Statuses
    <3> HIDE DEF p, status
    <3> QED
      BY <1>1, <1>2, <2>1, <3>2, <3>3, <3>4, <3>5, ToolCallInLogs, OutInClaudeOuts
  <2> QED
    BY <2>2, <2>3
<1>6. CASE b.type = "tool_use"
  <2> DEFINE action == ActionOf(b.words)
             others == {p \in st.pending : p.id # b.id} \cup {[id |-> b.id, action |-> action]}
             after == [st EXCEPT !.pending = others]
  <2>1. action \in Actions
    BY ActionIsWord
  <2>2. after \in ClaudeStates
    <3> HIDE DEF action
    <3>1. [id |-> b.id, action |-> action] \in Calls
      BY <1>2, <2>1 DEF Calls
    <3>2. others \in SUBSET Calls
      BY <1>3, <3>1
    <3> HIDE DEF others
    <3> QED
      BY <1>4, <3>2
  <2>3. ToolUse(st, b) = Out(after, <<ToolCall(b.id, "Started", action)>>)
    BY DEF ToolUse
  <2>4. NormalizeBlock(st, type, b) = IF type = "assistant" THEN ToolUse(st, b) ELSE Out(st, <<>>)
    BY <1>6 DEF NormalizeBlock
  <2>5. "Started" \in Statuses
    BY DEF Statuses
  <2> HIDE DEF action, after
  <2>6. ToolUse(st, b) \in ClaudeOuts
    BY <1>1, <1>2, <2>1, <2>2, <2>3, <2>5, ToolCallInLogs, OutInClaudeOuts
  <2>7. Out(st, <<>>) \in ClaudeOuts
    BY PlainLogs, OutInClaudeOuts
  <2> QED
    BY <2>4, <2>6, <2>7
<1>7. CASE b.type = "thinking" \/ b.type = "text"
  <2>1. PICK logs \in {<<>>, <<Thinking>>, <<Message>>} : NormalizeBlock(st, type, b) = Out(st, logs)
    BY <1>7 DEF NormalizeBlock
  <2>2. logs \in Seq(Logs)
    BY PlainLogs
  <2> QED
    BY <2>1, <2>2, OutInClaudeOuts
<1> QED
  BY <1>5, <1>6, <1>7 DEF ToolBlocks

\* Blocks, one after the other.
BlocksRun(st, type, blocks, g) ==
    /\ NormalizeBlocks(st, type, blocks) = g[Len(blocks)]
    /\ g[0] = Out(st, <<>>)
    /\ \A i \in 1 .. Len(blocks) : g[i] = After(g[i - 1], NormalizeBlock(g[i - 1].st, type, blocks[i]))

LEMMA NormalizeBlocksRun ==
    ASSUME NEW st \in ClaudeStates, NEW type, NEW blocks \in Seq(ToolBlocks)
    PROVE  \E g \in [0 .. Len(blocks) -> ClaudeOuts] : BlocksRun(st, type, blocks, g)
<1> DEFINE N == Len(blocks)
           Step(o, b) == After(o, NormalizeBlock(o.st, type, b))
           step == [i \in 1 .. N |-> [o \in ClaudeOuts |-> Step(o, blocks[i])]]
           Fits(f) == f = [n \in 0 .. N |-> IF n = 0 THEN Out(st, <<>>)
                                            ELSE After(f[n - 1], NormalizeBlock(f[n - 1].st, type, blocks[n]))]
           upTo == CHOOSE f : Fits(f)
<1>1. N \in Nat /\ Out(st, <<>>) \in ClaudeOuts /\ \A i \in 1 .. N : blocks[i] \in ToolBlocks
  BY LenProperties, ElementOfSeq, PlainLogs, OutInClaudeOuts
<1>2. ASSUME NEW o \in ClaudeOuts, NEW i \in 1 .. N PROVE Step(o, blocks[i]) \in ClaudeOuts
  <2>1. NormalizeBlock(o.st, type, blocks[i]) \in ClaudeOuts
    BY <1>1, NormalizeBlockRuns DEF ClaudeOuts
  <2> QED
    BY <2>1, AfterInOuts, ClaudeOutsAreOuts
<1>3. step \in Steps(N, ClaudeOuts)
  <2> HIDE DEF Step, N
  <2> QED
    BY <1>2 DEF Steps
<1>4. PICK g \in [0 .. N -> ClaudeOuts] : IsRun(N, Out(st, <<>>), step, g)
  <2> HIDE DEF step, N
  <2> QED
    BY <1>1, <1>3, Recursion
<1>5. \A i \in 1 .. N : g[i] = Step(g[i - 1], blocks[i])
  <2>1. \A i \in 1 .. N : i - 1 \in 0 .. N
    BY <1>1
  <2> HIDE DEF Step, N
  <2> QED
    BY <1>4, <2>1 DEF IsRun
<1>6. Fits(g)
  <2>1. \A i \in 0 .. N : i # 0 => i \in 1 .. N
    BY <1>1
  <2> HIDE DEF N
  <2> QED
    BY <1>4, <1>5, <2>1 DEF IsRun
<1>7. Fits(upTo)
  <2> HIDE DEF Fits
  <2> QED
    BY <1>6
<1>8. NormalizeBlocks(st, type, blocks) = upTo[N]
  BY DEF NormalizeBlocks
<1>9. upTo[0] = Out(st, <<>>) /\ \A i \in 1 .. N : upTo[i] = Step(upTo[i - 1], blocks[i])
  <2> HIDE DEF upTo, N
  <2>1. 0 \in 0 .. N /\ \A i \in 1 .. N : i \in 0 .. N /\ i # 0
    BY <1>1
  <2> QED
    BY <1>7, <2>1
<1>10. \A i \in 0 .. N : upTo[i] = g[i]
  <2> HIDE DEF upTo, N, Step
  <2>1. GoAlike(N, upTo, g)
    BY <1>4, <1>5, <1>9 DEF GoAlike, IsRun
  <2> QED
    BY <1>1, <2>1, SameSteps
<1>11. NormalizeBlocks(st, type, blocks) = g[N]
  <2> HIDE DEF upTo, N
  <2>1. N \in 0 .. N
    BY <1>1
  <2> QED
    BY <1>8, <1>10, <2>1
<1> QED
  BY <1>4, <1>5, <1>11 DEF IsRun, BlocksRun

LEMMA ProcessValueRuns ==
    ASSUME NEW st \in ClaudeStates, NEW v \in ClaudeValues
    PROVE  ProcessValue(st, v) \in ClaudeOuts
<1> DEFINE parsed == ParseMessage(v)
           blocks == KeptBlocks(v.blocks, v.type = "assistant")
<1>1. /\ v.blocks \in Seq(Blocks) /\ v.usage \in Usages
  BY DEF ClaudeValues
<1>2. \/ parsed = [ok |-> "error"] \/ parsed = [ok |-> "skip"]
      \/ parsed = [ok |-> "message", blocks |-> blocks]
  BY DEF ParseMessage
<1>3. parsed.ok = "message" => parsed.blocks = blocks
  <2> HIDE DEF blocks, parsed
  <2> QED
    BY <1>2
<1>4. NormalizeBlocks(st, v.type, blocks) \in ClaudeOuts
  <2>1. blocks \in Seq(ToolBlocks)
    BY <1>1, KeptBlocksInToolBlocks
  <2> HIDE DEF blocks
  <2>2. PICK g \in [0 .. Len(blocks) -> ClaudeOuts] : BlocksRun(st, v.type, blocks, g)
    BY <2>1, NormalizeBlocksRun
  <2>3. Len(blocks) \in 0 .. Len(blocks)
    BY <2>1, LenProperties
  <2> QED
    BY <2>2, <2>3 DEF BlocksRun
<1>5. UsageLogs(v.usage) \o (IF v.isError THEN <<Error>> ELSE <<>>) \in Seq(Logs)
  BY <1>1, UsageIsLogged, PlainLogs, ConcatProperties
<1>6. \A logs \in Seq(Logs) : Out(st, logs) \in ClaudeOuts
  BY OutInClaudeOuts
<1> HIDE DEF blocks
<1>7. parsed.ok = "error" \/ parsed.ok = "skip" \/ parsed.ok = "message"
  <2> HIDE DEF parsed
  <2> QED
    BY <1>2
<1> DEFINE spent == Out(st, UsageLogs(v.usage) \o (IF v.isError THEN <<Error>> ELSE <<>>))
           said == NormalizeBlocks(st, v.type, parsed.blocks)
<1>8. parsed.ok = "message" => said \in ClaudeOuts
  <2> HIDE DEF parsed
  <2> QED
    BY <1>3, <1>4
<1>9. spent \in ClaudeOuts
  BY <1>5, <1>6
<1>10. ProcessValue(st, v) =
         CASE parsed.ok = "error" -> Out(st, <<Error>>)
           [] parsed.ok = "skip" \/ v.type = "stream_event" -> Out(st, <<>>)
           [] parsed.ok = "message" /\ v.type = "system" -> Out(st, <<Message>>)
           [] parsed.ok = "message" /\ v.type = "result" -> spent
           [] OTHER -> said
  BY DEF ProcessValue
<1>11. Out(st, <<Error>>) \in ClaudeOuts /\ Out(st, <<>>) \in ClaudeOuts /\ Out(st, <<Message>>) \in ClaudeOuts
  BY <1>6, PlainLogs
<1> HIDE DEF parsed, spent, said
<1> QED
  BY <1>7, <1>8, <1>9, <1>10, <1>11

LEMMA NoBlanksInPieces ==
    ASSUME NEW A, NEW s \in Seq(A)
    PROVE  NoBlanks(s) \in Seq(A)
BY KeepAppend DEF NoBlanks

\* A whole value is a value of the CLI.
LEMMA ValueOfPieces ==
    ASSUME NEW values, NEW b \in Seq(Pieces(values)), IsValue(b)
    PROVE  b[1].value \in values
<1>1. 1 \in 1 .. Len(b) /\ b[1].kind = "json"
  BY DEF IsValue
<1>2. b[1] \in Pieces(values)
  BY <1>1, ElementOfSeq
<1> QED
  BY <1>1, <1>2 DEF Pieces, NL, CR, Blank, Noise, NotUtf8, Opening

LEMMA ProcessLineRuns ==
    ASSUME NEW st \in ClaudeStates, NEW line \in Seq(ClaudePieces)
    PROVE  ProcessLine(st, line) \in ClaudeOuts
<1> DEFINE buffer == st.json \o NoBlanks(line)
           spoilt == NotUtf8 \in ToSet(line)
           empty == NoBlanks(line) = <<>>
           rest == IF IsValue(buffer) THEN ProcessValue([st EXCEPT !.json = <<>>], buffer[1].value)
                   ELSE IF IsEof(buffer) THEN Out([st EXCEPT !.json = buffer], <<>>)
                   ELSE Out([st EXCEPT !.json = JsonAfterError(buffer)], <<Error>>)
<1>1. buffer \in Seq(ClaudePieces)
  BY NoBlanksInPieces, ConcatProperties DEF ClaudeStates
<1>2. ASSUME NEW b \in Seq(ClaudePieces) PROVE [st EXCEPT !.json = b] \in ClaudeStates
  BY DEF ClaudeStates
<1> HIDE DEF buffer
<1>3. rest \in ClaudeOuts
  <2>1. CASE IsValue(buffer)
    <3>1. buffer[1].value \in ClaudeValues /\ [st EXCEPT !.json = <<>>] \in ClaudeStates
      BY <1>1, <1>2, <2>1, ValueOfPieces, EmptySeq DEF ClaudePieces
    <3> QED
      BY <2>1, <3>1, ProcessValueRuns
  <2>2. Out([st EXCEPT !.json = buffer], <<>>) \in ClaudeOuts
    BY <1>1, <1>2, PlainLogs, OutInClaudeOuts
  <2>3. Out([st EXCEPT !.json = JsonAfterError(buffer)], <<Error>>) \in ClaudeOuts
    BY <1>2, PlainLogs, OutInClaudeOuts, EmptySeq DEF JsonAfterError
  <2> QED
    BY <2>1, <2>2, <2>3
<1>4. ProcessLine(st, line) =
        CASE spoilt -> Out(st, <<Error>>)
          [] ~spoilt /\ empty -> Out(st, <<>>)
          [] ~spoilt /\ ~empty -> rest
  BY DEF ProcessLine, buffer
<1>5. Out(st, <<Error>>) \in ClaudeOuts /\ Out(st, <<>>) \in ClaudeOuts
  BY PlainLogs, OutInClaudeOuts
<1>6. spoilt \in BOOLEAN /\ empty \in BOOLEAN
  OBVIOUS
<1> HIDE DEF rest, spoilt, empty
<1> QED
  BY <1>3, <1>4, <1>5, <1>6

LEMMA ClaudeByteRuns ==
    ASSUME NEW st \in ClaudeStates, NEW p \in ClaudePieces
    PROVE  ClaudeByte(st, p) \in ClaudeOuts
<1>1. st.line \in Seq(ClaudePieces) /\ Append(st.line, p) \in Seq(ClaudePieces)
  BY AppendProperties DEF ClaudeStates
<1>2. ASSUME NEW l \in Seq(ClaudePieces) PROVE [st EXCEPT !.line = l] \in ClaudeStates
  BY DEF ClaudeStates
<1>3. CASE p = NL
  <2>1. [st EXCEPT !.line = <<>>] \in ClaudeStates
    BY <1>2, EmptySeq
  <2> QED
    BY <1>1, <1>3, <2>1, ProcessLineRuns DEF ClaudeByte
<1>4. CASE p # NL
  BY <1>1, <1>2, <1>4, PlainLogs, OutInClaudeOuts DEF ClaudeByte
<1> QED
  BY <1>3, <1>4

LEMMA ClaudeFlushRuns ==
    ASSUME NEW st \in ClaudeStates
    PROVE  ClaudeFlush(st) \in ClaudeOuts
<1> DEFINE o == IF st.line = <<>> THEN Out(st, <<>>) ELSE ProcessLine([st EXCEPT !.line = <<>>], st.line)
           rest == IF o.st.json = <<>> THEN <<>> ELSE <<Error>>
<1>1. st.line \in Seq(ClaudePieces) /\ [st EXCEPT !.line = <<>>] \in ClaudeStates
  BY EmptySeq DEF ClaudeStates
<1>2. o \in ClaudeOuts
  BY <1>1, ProcessLineRuns, PlainLogs, OutInClaudeOuts
<1>3. ClaudeStart \in ClaudeStates
  BY EmptySeq DEF ClaudeStart, ClaudeStates
<1>4. ClaudeFlush(st) = Out(ClaudeStart, o.logs \o rest)
  BY DEF ClaudeFlush
<1>5. rest \in Seq(Logs)
  BY PlainLogs
<1> HIDE DEF o, rest
<1>6. o.logs \o rest \in Seq(Logs)
  BY <1>2, <1>5, ConcatProperties DEF ClaudeOuts
<1> QED
  BY <1>3, <1>4, <1>6, OutInClaudeOuts

----------------------------------------------------------------------------
(* The same for Codex *)

CodexPieces == Pieces(CodexValues)

LEMMA ToolItemIsLogged ==
    ASSUME NEW v \in CodexValues, v.event = "item", v.item \in ToolItems
    PROVE  MapItem(v) \in Seq(Logs)
<1>1. v \in Items /\ HasStatus(v)
  BY DEF CodexValues
<1>2. v.phase \in {"started", "updated", "completed"} /\ v.id \in STRING /\ v.files \in Nat
  BY <1>1 DEF Items
<1>3. v.item # "web_search" => v.status \in {"in_progress", "completed", "failed"}
  BY <1>1 DEF Items, HasStatus
<1>4. CodexStatus(v.item, v.phase, v.status) \in Statuses
  <2>1. CASE v.phase = "started"
    BY <2>1 DEF CodexStatus, Statuses
  <2>2. CASE v.phase # "started" /\ v.item = "web_search"
    BY <2>2 DEF CodexStatus, Statuses
  <2>3. CASE v.phase # "started" /\ v.item # "web_search"
    BY <1>3, <2>3 DEF CodexStatus, Statuses
  <2> QED
    BY <2>1, <2>2, <2>3
<1>5. v.item \in DOMAIN ActionOfItem /\ ActionOfItem[v.item] \in Actions
  BY DEF ToolItems, ActionOfItem, Actions
<1> DEFINE call == ToolCall(v.id, CodexStatus(v.item, v.phase, v.status), ActionOfItem[v.item])
<1>6. call \in Logs
  BY <1>2, <1>4, <1>5, ToolCallInLogs
<1>7. MapItem(v) = [i \in 1 .. v.files |-> call]
  BY <1>5 DEF MapItem, ToolItems
<1> HIDE DEF call
<1>8. [i \in 1 .. v.files |-> call] \in [1 .. v.files -> Logs]
  BY <1>6
<1> QED
  BY <1>2, <1>7, <1>8, SeqDef

LEMMA EventIsLogged ==
    ASSUME NEW v \in CodexValues
    PROVE  MapEvent(v) \in Seq(Logs)
<1>1. CASE v.event = "item"
  <2>1. v.item \in ToolItems \cup OtherItems
    BY <1>1 DEF CodexValues, Items
  <2>2. CASE v.item \in ToolItems
    BY <1>1, <2>2, ToolItemIsLogged DEF MapEvent
  <2>3. CASE v.item \in OtherItems
    <3>1. MapItem(v) \in {<<Message>>, <<Thinking>>, <<Error>>, <<>>}
      <4>1. CASE v.item = "agent_message"
        BY <4>1 DEF MapItem, ActionOfItem
      <4>2. CASE v.item = "reasoning"
        BY <4>2 DEF MapItem, ActionOfItem
      <4>3. CASE v.item = "error"
        BY <4>3 DEF MapItem, ActionOfItem
      <4>4. CASE v.item = "todo_list"
        BY <4>4 DEF MapItem, ActionOfItem
      <4> QED
        BY <2>3, <4>1, <4>2, <4>3, <4>4 DEF OtherItems
    <3>2. MapEvent(v) = MapItem(v)
      BY <1>1 DEF MapEvent
    <3> QED
      BY <3>1, <3>2, PlainLogs
  <2> QED
    BY <2>1, <2>2, <2>3
<1>2. CASE v.event # "item"
  <2>1. v \in [event : {"thread.started", "turn.started", "turn.completed", "turn.failed", "error"},
               known : BOOLEAN, cutAtValue : BOOLEAN, total : Nat]
    BY <1>2 DEF CodexValues, Items
  <2>2. v.total \in Nat
    BY <2>1
  <2>3. MapEvent(v) \in {<<>>, <<Error>>, <<TokenUsage(Saturated(v.total), 0)>>}
    BY <2>1 DEF MapEvent
  <2>4. <<TokenUsage(Saturated(v.total), 0)>> \in Seq(Logs)
    <3>1. TokenUsage(Saturated(v.total), 0) \in Logs
      BY <2>2, TokenUsageInLogs
    <3> QED
      BY <3>1
  <2> QED
    BY <2>3, <2>4, PlainLogs
<1> QED
  BY <1>1, <1>2

LEMMA CodexLineIsLogged ==
    ASSUME NEW line \in Seq(CodexPieces)
    PROVE  CodexLine(line) \in Seq(Logs)
<1> DEFINE b == NoBlanks(line)
<1>1. b \in Seq(CodexPieces)
  BY NoBlanksInPieces
<1> HIDE DEF b
<1>2. IsValue(b) => MapEvent(b[1].value) \in Seq(Logs)
  BY <1>1, ValueOfPieces, EventIsLogged DEF CodexPieces
<1>3. CodexLine(line) = IF IsValue(b) /\ b[1].value.known THEN MapEvent(b[1].value) ELSE <<Error>>
  BY DEF CodexLine, b
<1> QED
  BY <1>2, <1>3, PlainLogs

LEMMA CodexByteRuns ==
    ASSUME NEW st \in Seq(CodexPieces), NEW p \in CodexPieces
    PROVE  CodexByte(st, p) \in Outs("codex")
<1>1. States("codex") = Seq(CodexPieces)
  BY DEF States, CodexPieces
<1>2. StripCr(st) \in Seq(CodexPieces)
  <2>1. CASE st # <<>>
    <3>1. Front(st) \in Seq(CodexPieces)
      <4>1. Len(st) \in Nat /\ \A i \in 1 .. Len(st) - 1 : st[i] \in CodexPieces
        BY LenProperties, ElementOfSeq
      <4>2. Front(st) = SubSeq(st, 1, Len(st) - 1)
        BY DEF Front
      <4>3. Len(st) - 1 \in Int
        BY <4>1
      <4> HIDE DEF CodexPieces
      <4> QED
        BY <4>1, <4>2, <4>3, SubSeqProperties
    <3> QED
      BY <3>1 DEF StripCr
  <2>2. CASE st = <<>>
    BY <2>2 DEF StripCr
  <2> QED
    BY <2>1, <2>2
<1>3. CASE p # NL
  <2>1. CodexByte(st, p) = Out(Append(st, p), <<>>)
    BY <1>3 DEF CodexByte
  <2>2. Append(st, p) \in States("codex")
    BY <1>1, AppendProperties
  <2> QED
    BY <2>1, <2>2, PlainLogs, OutInOuts
<1>4. CASE p = NL
  <2> DEFINE logs == IF StripCr(st) = <<>> THEN <<>> ELSE CodexLine(StripCr(st))
  <2>1. CodexByte(st, p) = Out(<<>>, logs)
    BY <1>4 DEF CodexByte
  <2>2. logs \in Seq(Logs)
    BY <1>2, CodexLineIsLogged, PlainLogs
  <2>3. <<>> \in States("codex")
    BY <1>1, EmptySeq
  <2> HIDE DEF logs
  <2> QED
    BY <2>1, <2>2, <2>3, OutInOuts
<1> QED
  BY <1>3, <1>4

LEMMA CodexFlushRuns ==
    ASSUME NEW st \in Seq(CodexPieces)
    PROVE  CodexFlush(st) \in Outs("codex")
<1> DEFINE logs == IF NoBlanks(st) = <<>> THEN <<>> ELSE CodexLine(st)
<1>1. CodexFlush(st) = Out(<<>>, logs)
  BY DEF CodexFlush
<1>2. logs \in Seq(Logs)
  BY CodexLineIsLogged, PlainLogs
<1>3. <<>> \in States("codex")
  BY EmptySeq DEF States
<1> HIDE DEF logs
<1> QED
  BY <1>1, <1>2, <1>3, OutInOuts

----------------------------------------------------------------------------
(* Chunks *)

PiecesOf(p) == Pieces(Values(p))

LEMMA ByteRuns ==
    ASSUME NEW p \in Providers, NEW st \in States(p), NEW e \in PiecesOf(p)
    PROVE  Byte(p, st, e) \in Outs(p)
<1>1. CASE p = "claude"
  BY <1>1, ClaudeByteRuns, ClaudeOutsAreOuts DEF Byte, PiecesOf, Values, ClaudePieces
<1>2. CASE p = "codex"
  BY <1>2, CodexByteRuns DEF Byte, PiecesOf, Values, CodexPieces, States
<1> QED
  BY <1>1, <1>2 DEF Providers

BytesRun(p, st, s, g) ==
    /\ Bytes(p, st, s) = g[Len(s)]
    /\ g[0] = Out(st, <<>>)
    /\ \A i \in 1 .. Len(s) : g[i] = After(g[i - 1], Byte(p, g[i - 1].st, s[i]))

LEMMA BytesRuns ==
    ASSUME NEW p \in Providers, NEW st \in States(p), NEW s \in Seq(PiecesOf(p))
    PROVE  \E g \in [0 .. Len(s) -> Outs(p)] : BytesRun(p, st, s, g)
<1> DEFINE N == Len(s)
           K == Outs(p)
           Step(o, e) == After(o, Byte(p, o.st, e))
           step == [i \in 1 .. N |-> [o \in K |-> Step(o, s[i])]]
           Fits(f) == f = [n \in 0 .. N |-> IF n = 0 THEN Out(st, <<>>)
                                            ELSE After(f[n - 1], Byte(p, f[n - 1].st, s[n]))]
           upTo == CHOOSE f : Fits(f)
<1>1. N \in Nat /\ Out(st, <<>>) \in K /\ \A i \in 1 .. N : s[i] \in PiecesOf(p)
  BY LenProperties, ElementOfSeq, PlainLogs, OutInOuts
<1>2. ASSUME NEW o \in K, NEW i \in 1 .. N PROVE Step(o, s[i]) \in K
  <2>1. o.st \in States(p)
    BY DEF Outs
  <2>2. Byte(p, o.st, s[i]) \in K
    BY <1>1, <2>1, ByteRuns
  <2> QED
    BY <2>2, AfterInOuts
<1>3. step \in Steps(N, K)
  <2> HIDE DEF Step, N, K
  <2> QED
    BY <1>2 DEF Steps
<1>4. PICK g \in [0 .. N -> K] : IsRun(N, Out(st, <<>>), step, g)
  <2> HIDE DEF step, N, K
  <2> QED
    BY <1>1, <1>3, Recursion
<1>5. \A i \in 1 .. N : g[i] = Step(g[i - 1], s[i])
  <2>1. \A i \in 1 .. N : i - 1 \in 0 .. N
    BY <1>1
  <2> HIDE DEF Step, N, K
  <2> QED
    BY <1>4, <2>1 DEF IsRun
<1>6. Fits(g)
  <2>1. \A i \in 0 .. N : i # 0 => i \in 1 .. N
    BY <1>1
  <2> HIDE DEF N, K
  <2> QED
    BY <1>4, <1>5, <2>1 DEF IsRun
<1>7. Fits(upTo)
  <2> HIDE DEF Fits
  <2> QED
    BY <1>6
<1>8. Bytes(p, st, s) = upTo[N]
  BY DEF Bytes
<1>9. upTo[0] = Out(st, <<>>) /\ \A i \in 1 .. N : upTo[i] = Step(upTo[i - 1], s[i])
  <2> HIDE DEF upTo, N
  <2>1. 0 \in 0 .. N /\ \A i \in 1 .. N : i \in 0 .. N /\ i # 0
    BY <1>1
  <2> QED
    BY <1>7, <2>1
<1>10. \A i \in 0 .. N : upTo[i] = g[i]
  <2> HIDE DEF upTo, N, Step
  <2>1. GoAlike(N, upTo, g)
    BY <1>4, <1>5, <1>9 DEF GoAlike, IsRun
  <2> QED
    BY <1>1, <2>1, SameSteps
<1>11. Bytes(p, st, s) = g[N]
  <2> HIDE DEF upTo, N
  <2>1. N \in 0 .. N
    BY <1>1
  <2> QED
    BY <1>8, <1>10, <2>1
<1> QED
  BY <1>4, <1>5, <1>11 DEF IsRun, BytesRun

\* One more byte.
LEMMA BytesAppend ==
    ASSUME NEW p \in Providers, NEW st \in States(p)
    PROVE  /\ Bytes(p, st, <<>>) = Out(st, <<>>)
           /\ \A s \in Seq(PiecesOf(p)), e \in PiecesOf(p) :
                /\ Bytes(p, st, s) \in Outs(p)
                /\ Bytes(p, st, Append(s, e)) = After(Bytes(p, st, s), Byte(p, Bytes(p, st, s).st, e))
<1>1. Bytes(p, st, <<>>) = Out(st, <<>>)
  <2>1. <<>> \in Seq(PiecesOf(p)) /\ Len(<<>>) = 0
    BY EmptySeq
  <2>2. PICK g \in [0 .. Len(<<>>) -> Outs(p)] : BytesRun(p, st, <<>>, g)
    BY <2>1, BytesRuns
  <2> QED
    BY <2>1, <2>2 DEF BytesRun
<1>2. ASSUME NEW s \in Seq(PiecesOf(p)), NEW e \in PiecesOf(p)
      PROVE  /\ Bytes(p, st, s) \in Outs(p)
             /\ Bytes(p, st, Append(s, e)) = After(Bytes(p, st, s), Byte(p, Bytes(p, st, s).st, e))
  <2> DEFINE t == Append(s, e)
             N == Len(s)
  <2>1. /\ t \in Seq(PiecesOf(p)) /\ N \in Nat /\ Len(t) = N + 1 /\ t[N + 1] = e
        /\ \A i \in 1 .. N : t[i] = s[i]
    BY AppendProperties, LenProperties
  <2> HIDE DEF t
  <2>2. PICK g \in [0 .. N -> Outs(p)] : BytesRun(p, st, s, g)
    BY BytesRuns
  <2>3. PICK h \in [0 .. Len(t) -> Outs(p)] : BytesRun(p, st, t, h)
    BY <2>1, BytesRuns
  <2> HIDE DEF N
  <2>4. \A i \in 1 .. N : h[i - 1] = g[i - 1] => h[i] = g[i]
    <3> SUFFICES ASSUME NEW i \in 1 .. N, h[i - 1] = g[i - 1] PROVE h[i] = g[i]
      OBVIOUS
    <3>1. i \in 1 .. Len(t) /\ t[i] = s[i] /\ i \in 1 .. Len(s)
      BY <2>1 DEF N
    <3> QED
      BY <2>2, <2>3, <3>1 DEF BytesRun
  <2>5. \A i \in 0 .. N : h[i] = g[i]
    <3>1. h[0] = g[0] /\ N \in Nat
      BY <2>1, <2>2, <2>3 DEF BytesRun
    <3>2. GoAlike(N, h, g)
      BY <2>4, <3>1 DEF GoAlike
    <3> QED
      BY <3>1, <3>2, SameSteps
  <2>6. h[N] = g[N] /\ N + 1 \in 1 .. Len(t) /\ (N + 1) - 1 = N /\ g[N] \in Outs(p)
    BY <2>1, <2>2, <2>5
  <2> QED
    BY <2>1, <2>2, <2>3, <2>6 DEF N, t, BytesRun
<1> QED
  BY <1>1, <1>2

\* The output of two chunks is that of the one, and then of the other from
\* where the first ended.
LEMMA BytesConcat ==
    ASSUME NEW p \in Providers, NEW st \in States(p),
           NEW s \in Seq(PiecesOf(p)), NEW t \in Seq(PiecesOf(p))
    PROVE  Bytes(p, st, s \o t) = After(Bytes(p, st, s), Bytes(p, Bytes(p, st, s).st, t))
<1> DEFINE P == PiecesOf(p)
           first == Bytes(p, st, s)
           S == {u \in Seq(P) : Bytes(p, st, s \o u) = After(first, Bytes(p, first.st, u))}
<1>1. ASSUME NEW e \in P PROVE first \in Outs(p) /\ first.st \in States(p) /\ first.logs \in Seq(Logs)
  BY BytesAppend DEF Outs
<1>2. NL \in P
  BY DEF PiecesOf, Pieces
<1> HIDE DEF first
<1>3. first \in Outs(p) /\ first.st \in States(p) /\ first.logs \in Seq(Logs)
  BY <1>1, <1>2
<1>4. <<>> \in S
  <2>1. s \o <<>> = s /\ <<>> \in Seq(P) /\ first.logs \o <<>> = first.logs
    BY <1>3, EmptySeq, ConcatEmptySeq
  <2>2. Bytes(p, first.st, <<>>) = Out(first.st, <<>>)
    BY <1>3, BytesAppend
  <2>3. After(first, Out(first.st, <<>>)) = first
    BY <1>3, <2>1 DEF After, Out, Outs
  <2> QED
    BY <2>1, <2>2, <2>3 DEF first
<1>5. ASSUME NEW u \in Seq(P), NEW e \in P, u \in S PROVE Append(u, e) \in S
  <2> DEFINE mid == Bytes(p, first.st, u)
             o == Byte(p, mid.st, e)
  <2>1. s \o Append(u, e) = Append(s \o u, e) /\ s \o u \in Seq(P) /\ Append(u, e) \in Seq(P)
    BY ConcatAppend, ConcatProperties, AppendProperties
  <2>2. mid \in Outs(p)
    BY <1>3, BytesAppend
  <2>3. o \in Outs(p)
    <3>1. mid.st \in States(p)
      BY <2>2 DEF Outs
    <3> HIDE DEF mid
    <3> QED
      BY <3>1, ByteRuns
  <2>4. Bytes(p, first.st, Append(u, e)) = After(mid, o)
    BY <1>3, BytesAppend
  <2>5. Bytes(p, st, s \o u) = After(first, mid)
    BY <1>5
  <2>6. After(first, mid).st = mid.st
    BY DEF After, Out
  <2>7. Bytes(p, st, Append(s \o u, e)) = After(After(first, mid), Byte(p, After(first, mid).st, e))
    <3>1. Bytes(p, st, Append(s \o u, e))
            = After(Bytes(p, st, s \o u), Byte(p, Bytes(p, st, s \o u).st, e))
      BY <2>1, BytesAppend
    <3> HIDE DEF mid
    <3> QED
      BY <2>5, <3>1
  <2>8. After(After(first, mid), o) = After(first, After(mid, o))
    <3> HIDE DEF mid, o
    <3> QED
      BY <1>3, <2>2, <2>3, AfterAssociative
  <2> HIDE DEF mid
  <2> QED
    BY <2>1, <2>4, <2>6, <2>7, <2>8
<1>6. Seq(P) \subseteq S
  <2> HIDE DEF S, P
  <2> QED
    BY <1>4, <1>5, SequenceInduction
<1> QED
  BY <1>6 DEF first

----------------------------------------------------------------------------
(* Types *)

AllEvents == Framing \cup Middle

TypeInv ==
    /\ provider \in Providers
    /\ printed \in Seq(Seq(PiecesOf(provider)))
    /\ consumed \in Seq(PiecesOf(provider))
    /\ norm \in States(provider)
    /\ pending \in Seq(AllEvents) /\ delivered \in Seq(AllEvents)
    /\ inflight \in Seq(AllEvents) /\ Len(inflight) <= 1
    /\ emittedStarted \in BOOLEAN /\ finished \in BOOLEAN /\ sawError \in BOOLEAN
    /\ registered \in [Hooks -> HookTypes \cup {"none"}] /\ since \in [Hooks -> Nat]
    /\ running \subseteq Hooks /\ (inflight = <<>> => running = {})
    /\ hookSaw \in [Hooks -> Seq(AllEvents)]

LEMMA NormalizeRuns ==
    ASSUME TypeInv, NEW st \in States(provider)
    PROVE  /\ Start \in States(provider)
           /\ \A chunk : Normalize(st, chunk) = Bytes(provider, st, chunk)
           /\ \A chunk \in Seq(PiecesOf(provider)) : Bytes(provider, st, chunk) \in Outs(provider)
           /\ Flush(st) \in Outs(provider)
<1>1. provider \in Providers
  BY DEF TypeInv
<1>2. Start \in States(provider)
  BY EmptySeq DEF Start, States, ClaudeStart, ClaudeStates, CodexStart
<1>3. \A chunk : Normalize(st, chunk) = Bytes(provider, st, chunk)
  BY <1>1 DEF Normalize, ClaudeNormalize, CodexNormalize, Providers
<1>4. \A chunk \in Seq(PiecesOf(provider)) : Bytes(provider, st, chunk) \in Outs(provider)
  <2>1. NL \in PiecesOf(provider)
    BY DEF PiecesOf, Pieces
  <2> QED
    BY <1>1, <2>1, BytesAppend
<1>5. Flush(st) \in Outs(provider)
  <2>1. CASE provider = "claude"
    BY <2>1, ClaudeFlushRuns, ClaudeOutsAreOuts DEF Flush
  <2>2. CASE provider = "codex"
    BY <2>2, CodexFlushRuns DEF Flush, States, CodexPieces
  <2> QED
    BY <1>1, <2>1, <2>2 DEF Providers
<1> QED
  BY <1>2, <1>3, <1>4, <1>5

LEMMA EventsAreEvents ==
    /\ Seq(Middle) \subseteq Seq(AllEvents)
    /\ <<Started>> \in Seq(AllEvents)
    /\ \A success \in BOOLEAN : <<Completed(success)>> \in Seq(AllEvents)
    /\ \A logs \in Seq(Logs) : Converted(logs) \in Seq(Middle)
<1>1. \A s \in Seq(Middle) : s \in Seq(AllEvents)
  BY SeqMonotonic DEF AllEvents
<1>2. Started \in AllEvents /\ \A success \in BOOLEAN : Completed(success) \in AllEvents
  BY DEF Started, Completed, Event, Framing, AllEvents
<1>3. \A e \in AllEvents : <<e>> \in Seq(AllEvents)
  OBVIOUS
<1>4. \A logs \in Seq(Logs) : Converted(logs) \in Seq(Middle)
  <2>1. Message \in Logs
    BY DEF Message, Logs
  <2> QED
    BY <2>1, ConvertedAppend
<1> QED
  BY <1>1, <1>2, <1>3, <1>4

\* A chunk is made of pieces of the output.
LEMMA ChunkInPieces ==
    ASSUME TypeInv, NEW n \in 1 .. Len(Wire)
    PROVE  SubSeq(Wire, 1, n) \in Seq(PiecesOf(provider))
<1> DEFINE P == PiecesOf(provider)
           all == FlattenSeq(printed)
<1>1. all \in Seq(P) /\ Len(all) \in Nat /\ \A i \in 1 .. Len(all) : all[i] \in P
  <2>1. <<>> \in Seq(P)
    BY EmptySeq
  <2>2. all \in Seq(P)
    BY <2>1, FlattenAppend DEF TypeInv
  <2> HIDE DEF all, P
  <2> QED
    BY <2>2, LenProperties, ElementOfSeq
<1> HIDE DEF all, P
<1>2. Len(consumed) \in Nat
  BY LenProperties DEF TypeInv
<1>3. SubSeq(all, Len(consumed) + 1, Len(all)) \in Seq(P)
  <2>1. \A i \in Len(consumed) + 1 .. Len(all) : all[i] \in P
    BY <1>1, <1>2
  <2> QED
    BY <1>1, <1>2, <2>1, SubSeqProperties
<1>4. Wire \in Seq(P)
  BY <1>3 DEF Wire, all
<1>5. n \in Int /\ \A i \in 1 .. n : Wire[i] \in P
  <2>1. \A i \in 1 .. n : i \in 1 .. Len(Wire)
    BY <1>4, LenProperties
  <2> QED
    BY <1>4, <2>1, ElementOfSeq
<1>6. SubSeq(Wire, 1, n) \in Seq(P)
  BY <1>5, SubSeqProperties
<1> QED
  BY <1>6 DEF P

LEMMA Types == Spec => []TypeInv
<1>1. Init => TypeInv
  <2> SUFFICES ASSUME Init PROVE TypeInv
    OBVIOUS
  <2>1. norm \in States(provider)
    BY EmptySeq DEF Init, Start, States, ClaudeStart, ClaudeStates, CodexStart
  <2>2. Len(<<>>) = 0 /\ \A A : <<>> \in Seq(A)
    BY EmptySeq
  <2>3. /\ registered \in [Hooks -> HookTypes \cup {"none"}] /\ since \in [Hooks -> Nat]
        /\ hookSaw \in [Hooks -> Seq(AllEvents)]
    BY <2>2 DEF Init
  <2>4. /\ printed \in Seq(Seq(PiecesOf(provider))) /\ consumed \in Seq(PiecesOf(provider))
        /\ pending \in Seq(AllEvents) /\ delivered \in Seq(AllEvents)
        /\ inflight \in Seq(AllEvents) /\ Len(inflight) <= 1
    BY <2>2 DEF Init
  <2> QED
    BY <2>1, <2>3, <2>4 DEF Init, TypeInv
<1>2. ASSUME TypeInv, [Next]_vars PROVE TypeInv'
  <2> USE <1>2
  <2>1. CASE CliPrints
    <3>1. PICK line \in Seq(PiecesOf(provider)) : Prints(line)
      <4>1. NL \in PiecesOf(provider) /\ Blank \in PiecesOf(provider)
            /\ Noise \in PiecesOf(provider) /\ NotUtf8 \in PiecesOf(provider)
        BY DEF PiecesOf, Pieces
      <4>2. \A a \in PiecesOf(provider), b \in PiecesOf(provider) : <<a, b>> \in Seq(PiecesOf(provider))
        OBVIOUS
      <4>3. Junk \subseteq Seq(PiecesOf(provider))
        BY <4>1, <4>2 DEF Junk
      <4>6. Openings \subseteq Seq(PiecesOf(provider))
        <5>1. \A takes \in BOOLEAN : Opening(takes) \in PiecesOf(provider)
          BY DEF PiecesOf, Pieces
        <5> QED
          BY <4>1, <4>2, <5>1 DEF Openings
      <4>4. provider = "claude" => ClaudeLines \subseteq Seq(PiecesOf(provider))
        BY LinesAssumption DEF PiecesOf, Values
      <4>5. provider = "codex" => CodexLines \subseteq Seq(PiecesOf(provider))
        BY LinesAssumption DEF PiecesOf, Values
      <4> QED
        BY <2>1, <4>3, <4>4, <4>5, <4>6 DEF CliPrints
    <3>2. Append(printed, line) \in Seq(Seq(PiecesOf(provider)))
      BY AppendProperties DEF TypeInv
    <3> QED
      BY <3>1, <3>2 DEF Prints, TypeInv, streamVars, hookVars
  <2>2. CASE CliEnds
    BY <2>2 DEF CliEnds, TypeInv, streamVars, hookVars
  <2>3. CASE EmitStarted
    <3>1. pending' \in Seq(AllEvents)
      BY <2>3, EventsAreEvents, ConcatProperties DEF EmitStarted, PushEvents, TypeInv
    <3>2. sawError' \in BOOLEAN
      BY <2>3 DEF EmitStarted, PushEvents, NoteError, TypeInv
    <3> QED
      BY <2>3, <3>1, <3>2 DEF EmitStarted, TypeInv, cliVars, hookVars
  <2>4. CASE PullChunk
    <3>1. PICK n \in 1 .. Len(Wire) :
            /\ consumed' = consumed \o SubSeq(Wire, 1, n)
            /\ norm' = Normalize(norm, SubSeq(Wire, 1, n)).st
            /\ PushEvents(Converted(Normalize(norm, SubSeq(Wire, 1, n)).logs))
      BY <2>4 DEF PullChunk, Converted
    <3> DEFINE chunk == SubSeq(Wire, 1, n)
               o == Normalize(norm, chunk)
    <3>2. chunk \in Seq(PiecesOf(provider))
      BY ChunkInPieces
    <3>3. o \in Outs(provider)
      <4> HIDE DEF chunk
      <4>1. norm \in States(provider)
        BY DEF TypeInv
      <4> QED
        BY <3>2, <4>1, NormalizeRuns
    <3> HIDE DEF chunk, o
    <3>4. o.st \in States(provider) /\ o.logs \in Seq(Logs)
      BY <3>3 DEF Outs
    <3>5. consumed \o chunk \in Seq(PiecesOf(provider))
      BY <3>2, ConcatProperties DEF TypeInv
    <3>6. pending \o Converted(o.logs) \in Seq(AllEvents)
      <4>1. Converted(o.logs) \in Seq(AllEvents)
        BY <3>4, EventsAreEvents
      <4> QED
        BY <4>1, ConcatProperties DEF TypeInv
    <3>7. pending' \in Seq(AllEvents) /\ sawError' \in BOOLEAN
      BY <3>1, <3>6 DEF PushEvents, NoteError, o, chunk, TypeInv
    <3>8. consumed' \in Seq(PiecesOf(provider)) /\ norm' \in States(provider)
      BY <3>1, <3>4, <3>5 DEF o, chunk
    <3> QED
      BY <2>4, <3>7, <3>8 DEF PullChunk, TypeInv, cliVars, hookVars
  <2>5. CASE PullEnd
    <3> DEFINE events == Converted(Flush(norm).logs)
    <3>1. Flush(norm) \in Outs(provider)
      BY NormalizeRuns DEF TypeInv
    <3>2. Flush(norm).st \in States(provider) /\ Flush(norm).logs \in Seq(Logs)
      BY <3>1 DEF Outs
    <3>3. events \in Seq(AllEvents)
      BY <3>2, EventsAreEvents
    <3>4. sawError' = NoteError(sawError, events) /\ pending' = events \o <<Completed(~sawError')>>
      BY <2>5 DEF PullEnd, Converted
    <3> HIDE DEF events
    <3>5. sawError' \in BOOLEAN
      BY <3>4 DEF NoteError, TypeInv
    <3>6. pending' \in Seq(AllEvents)
      <4>1. <<Completed(~sawError')>> \in Seq(AllEvents)
        BY <3>5, EventsAreEvents
      <4> QED
        BY <3>3, <3>4, <4>1, ConcatProperties
    <3> QED
      BY <2>5, <3>2, <3>5, <3>6 DEF PullEnd, TypeInv, cliVars, hookVars
  <2>6. CASE Pop
    <3>1. Head(pending) \in AllEvents /\ Tail(pending) \in Seq(AllEvents)
      BY <2>6, HeadTailProperties DEF Pop, TypeInv
    <3>2. <<Head(pending)>> \in Seq(AllEvents) /\ Len(<<Head(pending)>>) = 1
      BY <3>1
    <3> QED
      BY <2>6, <3>1, <3>2 DEF Pop, TypeInv, cliVars
  <2>7. CASE HandOver
    <3>1. delivered \o inflight \in Seq(AllEvents) /\ <<>> \in Seq(AllEvents) /\ Len(<<>>) = 0
      BY ConcatProperties, EmptySeq DEF TypeInv
    <3> QED
      BY <2>7, <3>1 DEF HandOver, TypeInv, cliVars, streamVars
  <2>8. ASSUME NEW h \in Hooks, HookReturns(h) PROVE TypeInv'
    <3>1. inflight \in Seq(AllEvents) /\ inflight # <<>>
      BY <2>8 DEF HookReturns, TypeInv
    <3>2. inflight[1] \in AllEvents
      BY <3>1, EmptySeq, ElementOfSeq
    <3>3. Append(hookSaw[h], inflight[1]) \in Seq(AllEvents)
      BY <3>2, AppendProperties DEF TypeInv
    <3> QED
      BY <2>8, <3>3 DEF HookReturns, TypeInv, cliVars, streamVars
  <2>9. ASSUME NEW h \in Hooks, NEW type \in HookTypes, Register(h, type) PROVE TypeInv'
    <3>1. Len(delivered) \in Nat /\ Len(inflight) \in Nat
      BY LenProperties DEF TypeInv
    <3>2. Len(delivered) + Len(inflight) \in Nat
      BY <3>1
    <3> QED
      BY <2>9, <3>2 DEF Register, TypeInv, cliVars, streamVars
  <2>10. CASE UNCHANGED vars
    BY <2>10 DEF vars, TypeInv, cliVars, streamVars, hookVars
  <2> QED
    BY <2>1, <2>2, <2>3, <2>4, <2>5, <2>6, <2>7, <2>8, <2>9, <2>10 DEF Next, Over
<1> QED
  BY <1>1, <1>2, PTL DEF Spec

----------------------------------------------------------------------------
(* The events of the stream *)

\* The output consumed so far, read in one piece.
Read == Bytes(provider, Start, consumed)
HasError(s) == \E i \in DOMAIN s : IsError(s[i])
SaidSoFar == <<Started>> \o Converted(Read.logs)
SaidInAll == (<<Started>> \o Converted(Read.logs \o Flush(Read.st).logs)) \o <<Completed(~sawError)>>

StreamInv ==
    /\ ~emittedStarted => Events = <<>> /\ consumed = <<>> /\ norm = Start /\ ~finished
    /\ emittedStarted /\ ~finished => norm = Read.st /\ Events = SaidSoFar
    /\ finished => Events = SaidInAll
    /\ sawError <=> HasError(Events)

LEMMA ReadRuns ==
    ASSUME TypeInv
    PROVE  /\ Read \in Outs(provider) /\ Read.st \in States(provider) /\ Read.logs \in Seq(Logs)
           /\ Flush(Read.st) \in Outs(provider) /\ Flush(Read.st).logs \in Seq(Logs)
<1>1. norm \in States(provider) /\ consumed \in Seq(PiecesOf(provider))
  BY DEF TypeInv
<1>2. Start \in States(provider)
  BY <1>1, NormalizeRuns
<1>3. Read \in Outs(provider)
  BY <1>1, <1>2, NormalizeRuns DEF Read
<1>4. Read.st \in States(provider) /\ Read.logs \in Seq(Logs)
  BY <1>3 DEF Outs
<1>5. Flush(Read.st) \in Outs(provider)
  BY <1>4, NormalizeRuns
<1> QED
  BY <1>3, <1>4, <1>5 DEF Outs

LEMMA ErrorOfConcat ==
    ASSUME NEW s \in Seq(AllEvents), NEW t \in Seq(AllEvents)
    PROVE  HasError(s \o t) <=> HasError(s) \/ HasError(t)
<1>1. /\ Len(s) \in Nat /\ Len(t) \in Nat /\ DOMAIN s = 1 .. Len(s) /\ DOMAIN t = 1 .. Len(t)
      /\ DOMAIN (s \o t) = 1 .. Len(s) + Len(t)
      /\ \A i \in 1 .. Len(s) + Len(t) : (s \o t)[i] = IF i <= Len(s) THEN s[i] ELSE t[i - Len(s)]
  BY LenProperties, ConcatProperties
<1>2. ASSUME HasError(s \o t) PROVE HasError(s) \/ HasError(t)
  <2>1. PICK i \in 1 .. Len(s) + Len(t) : IsError((s \o t)[i])
    BY <1>1, <1>2 DEF HasError
  <2>2. CASE i <= Len(s)
    BY <1>1, <2>1, <2>2 DEF HasError
  <2>3. CASE ~(i <= Len(s))
    <3>1. i - Len(s) \in 1 .. Len(t)
      BY <1>1, <2>3
    <3> QED
      BY <1>1, <2>1, <2>3, <3>1 DEF HasError
  <2> QED
    BY <2>2, <2>3
<1>3. ASSUME HasError(s) PROVE HasError(s \o t)
  <2>1. PICK i \in 1 .. Len(s) : IsError(s[i])
    BY <1>1, <1>3 DEF HasError
  <2>2. i \in 1 .. Len(s) + Len(t) /\ i <= Len(s)
    BY <1>1
  <2> QED
    BY <1>1, <2>1, <2>2 DEF HasError
<1>4. ASSUME HasError(t) PROVE HasError(s \o t)
  <2>1. PICK i \in 1 .. Len(t) : IsError(t[i])
    BY <1>1, <1>4 DEF HasError
  <2>2. i + Len(s) \in 1 .. Len(s) + Len(t) /\ ~(i + Len(s) <= Len(s)) /\ (i + Len(s)) - Len(s) = i
    BY <1>1
  <2> QED
    BY <1>1, <2>1, <2>2 DEF HasError
<1> QED
  BY <1>2, <1>3, <1>4

LEMMA HeadTailIsConcat ==
    ASSUME NEW A, NEW s \in Seq(A), s # <<>>
    PROVE  s = <<Head(s)>> \o Tail(s)
<1>1. /\ Head(s) \in A /\ Tail(s) \in Seq(A) /\ Len(Tail(s)) = Len(s) - 1
      /\ \A i \in 1 .. Len(Tail(s)) : Tail(s)[i] = s[i + 1]
  BY HeadTailProperties
<1>2. Len(s) \in Nat \ {0} /\ Head(s) = s[1]
  BY EmptySeq
<1> DEFINE h == Head(s)
           t == Tail(s)
<1> HIDE DEF h, t
<1>3. <<h>> \in Seq(A) /\ Len(<<h>>) = 1 /\ <<h>>[1] = h
  BY <1>1 DEF h
<1>4. /\ <<h>> \o t \in Seq(A) /\ Len(<<h>> \o t) = 1 + Len(t)
      /\ \A i \in 1 .. 1 + Len(t) : (<<h>> \o t)[i] = IF i <= 1 THEN <<h>>[i] ELSE t[i - 1]
  BY <1>1, <1>3, ConcatProperties DEF t
<1>5. ASSUME NEW i \in 1 .. Len(s) PROVE s[i] = (<<h>> \o t)[i]
  <2>1. i \in 1 .. 1 + Len(t)
    BY <1>1, <1>2 DEF t
  <2>2. CASE i = 1
    BY <1>2, <1>3, <1>4, <2>1, <2>2 DEF h
  <2>3. CASE i # 1
    <3>1. i - 1 \in 1 .. Len(t) /\ (i - 1) + 1 = i /\ ~(i <= 1)
      BY <1>1, <1>2, <2>3 DEF t
    <3>2. t[i - 1] = s[i]
      BY <1>1, <3>1 DEF t
    <3> QED
      BY <1>4, <2>1, <3>1, <3>2
  <2> QED
    BY <2>2, <2>3
<1>6. Len(s) = Len(<<h>> \o t)
  BY <1>1, <1>2, <1>4 DEF t
<1> QED
  BY <1>4, <1>5, <1>6, SeqEqual DEF h, t

\* An event that moves on to the consumer is still the same event at the same
\* place.
LEMMA EventsStay ==
    ASSUME TypeInv, Pop \/ HandOver
    PROVE  Events' = Events
<1>1. delivered \in Seq(AllEvents) /\ inflight \in Seq(AllEvents) /\ pending \in Seq(AllEvents)
  BY DEF TypeInv
<1>2. CASE Pop
  <2> DEFINE e == Head(pending)
             rest == Tail(pending)
  <2>1. inflight = <<>> /\ inflight' = <<e>> /\ pending' = rest /\ delivered' = delivered
    BY <1>2 DEF Pop
  <2>2. e \in AllEvents /\ rest \in Seq(AllEvents) /\ pending = <<e>> \o rest
    BY <1>1, <1>2, HeadTailProperties, HeadTailIsConcat DEF Pop
  <2> HIDE DEF e, rest
  <2>3. <<e>> \in Seq(AllEvents)
    BY <2>2
  <2>4. (delivered \o <<e>>) \o rest = delivered \o (<<e>> \o rest)
    BY <1>1, <2>2, <2>3, ConcatAssociative
  <2>5. delivered \o <<>> = delivered
    BY <1>1, ConcatEmptySeq
  <2> QED
    BY <2>1, <2>2, <2>4, <2>5 DEF Events
<1>3. CASE HandOver
  <2>1. inflight' = <<>> /\ delivered' = delivered \o inflight /\ pending' = pending
    BY <1>3 DEF HandOver, streamVars
  <2>2. (delivered \o inflight) \o <<>> = delivered \o inflight
    BY <1>1, ConcatProperties, ConcatEmptySeq
  <2> QED
    BY <2>1, <2>2 DEF Events
<1> QED
  BY <1>2, <1>3

\* Events are added at the end.
LEMMA EventsGrow ==
    ASSUME TypeInv, Idle, UNCHANGED <<inflight, delivered>>,
           NEW new \in Seq(AllEvents), pending' = new
    PROVE  Events' = Events \o new
<1>1. delivered \in Seq(AllEvents) /\ inflight = <<>> /\ pending = <<>>
  BY DEF TypeInv, Idle
<1>2. delivered \o <<>> = delivered
  BY <1>1, ConcatEmptySeq
<1> QED
  BY <1>1, <1>2 DEF Events

LEMMA SaidMore ==
    ASSUME NEW s \in Seq(Logs), NEW t \in Seq(Logs)
    PROVE  /\ (<<Started>> \o Converted(s)) \o Converted(t) = <<Started>> \o Converted(s \o t)
           /\ <<Started>> \o Converted(s) \in Seq(AllEvents)
           /\ Converted(s) \in Seq(AllEvents) /\ Converted(t) \in Seq(AllEvents)
<1> DEFINE a == Converted(s)
           b == Converted(t)
<1>1. <<Started>> \in Seq(AllEvents) /\ a \in Seq(AllEvents) /\ b \in Seq(AllEvents)
  BY EventsAreEvents
<1>2. Converted(s \o t) = a \o b
  BY ConvertedConcat
<1> HIDE DEF a, b
<1>3. (<<Started>> \o a) \o b = <<Started>> \o (a \o b) /\ <<Started>> \o a \in Seq(AllEvents)
  BY <1>1, ConcatAssociative, ConcatProperties
<1> QED
  BY <1>1, <1>2, <1>3 DEF a, b

\* What an error among new events does.
LEMMA ErrorsNoted ==
    ASSUME TypeInv, StreamInv, NEW new \in Seq(AllEvents), Events' = Events \o new,
           sawError' = (sawError \/ HasError(new))
    PROVE  sawError' <=> HasError(Events')
<1>1. Events \in Seq(AllEvents)
  BY ConcatProperties DEF Events, TypeInv
<1>2. HasError(Events \o new) <=> HasError(Events) \/ HasError(new)
  BY <1>1, ErrorOfConcat
<1> QED
  BY <1>2 DEF StreamInv

LEMMA EmitStartedKeeps ==
    ASSUME TypeInv, StreamInv, EmitStarted
    PROVE  StreamInv'
<1>1. Events = <<>> /\ consumed = <<>> /\ norm = Start /\ ~finished
  BY DEF EmitStarted, StreamInv
<1>2. <<Started>> \in Seq(AllEvents) /\ <<>> \o <<Started>> = <<Started>> /\ <<Started>> \o <<>> = <<Started>>
  BY EventsAreEvents, ConcatEmptySeq
<1>3. Events' = <<Started>> /\ sawError' = (sawError \/ HasError(<<Started>>))
  <2>1. pending' = <<Started>> /\ Idle
    BY <1>2 DEF EmitStarted, PushEvents, Idle
  <2>2. Events' = Events \o <<Started>>
    BY <1>2, <2>1, EventsGrow DEF EmitStarted, hookVars
  <2> QED
    BY <1>1, <1>2, <2>2 DEF EmitStarted, PushEvents, NoteError, HasError, IsError
<1>4. UNCHANGED <<provider, consumed, norm, finished>> /\ emittedStarted'
  BY DEF EmitStarted
<1>5. Read = Out(norm, <<>>)
  <2>1. provider \in Providers /\ norm \in States(provider)
    BY DEF TypeInv
  <2> QED
    BY <1>1, <2>1, BytesAppend DEF Read
<1>6. Read' = Read
  BY <1>4 DEF Read, Start
<1>7. norm' = Read'.st /\ Converted(Read'.logs) = <<>>
  <2>1. Read'.st = norm /\ Read'.logs = <<>>
    BY <1>5, <1>6 DEF Out
  <2> QED
    BY <1>4, <2>1, ConvertedAppend
<1>8. SaidSoFar' = <<Started>>
  BY <1>2, <1>7 DEF SaidSoFar
<1>9. sawError' <=> HasError(Events')
  <2>1. Events' = Events \o <<Started>>
    BY <1>1, <1>2, <1>3
  <2> QED
    BY <1>2, <1>3, <2>1, ErrorsNoted
<1> QED
  BY <1>1, <1>3, <1>4, <1>7, <1>8, <1>9 DEF StreamInv

LEMMA PullChunkKeeps ==
    ASSUME TypeInv, StreamInv, PullChunk
    PROVE  StreamInv'
<1>1. PICK n \in 1 .. Len(Wire) :
        /\ consumed' = consumed \o SubSeq(Wire, 1, n)
        /\ norm' = Normalize(norm, SubSeq(Wire, 1, n)).st
        /\ PushEvents(Converted(Normalize(norm, SubSeq(Wire, 1, n)).logs))
  BY DEF PullChunk, Converted
<1> DEFINE chunk == SubSeq(Wire, 1, n)
           o == Normalize(norm, chunk)
           new == Converted(o.logs)
<1>2. chunk \in Seq(PiecesOf(provider))
  BY ChunkInPieces
<1>3. /\ consumed' = consumed \o chunk /\ norm' = o.st /\ PushEvents(new)
      /\ UNCHANGED <<provider, emittedStarted, finished, inflight, delivered>>
      /\ Idle /\ emittedStarted /\ ~finished
  BY <1>1 DEF PullChunk, hookVars
<1> HIDE DEF chunk
<1>4. norm = Read.st /\ Events = SaidSoFar
  BY <1>3 DEF StreamInv
<1>5. o = Bytes(provider, Read.st, chunk) /\ o \in Outs(provider)
  BY <1>2, <1>4, ReadRuns, NormalizeRuns
<1> HIDE DEF o
<1>6. o.logs \in Seq(Logs) /\ Read.logs \in Seq(Logs)
  BY <1>5, ReadRuns DEF Outs
<1>7. Read' = After(Read, o)
  <2>1. Read' = Bytes(provider, Start, consumed \o chunk)
    BY <1>3 DEF Read, Start
  <2>2. provider \in Providers /\ consumed \in Seq(PiecesOf(provider)) /\ Start \in States(provider)
    BY NormalizeRuns DEF TypeInv
  <2> QED
    BY <1>2, <1>5, <2>1, <2>2, BytesConcat DEF Read
<1>8. Read'.logs = Read.logs \o o.logs /\ norm' = Read'.st
  BY <1>3, <1>7 DEF After, Out
<1>9. new \in Seq(AllEvents)
  BY <1>6, SaidMore
<1>10. SaidSoFar' = SaidSoFar \o new
  BY <1>6, <1>8, SaidMore DEF SaidSoFar
<1> HIDE DEF new
<1>11. Events' = Events \o new /\ sawError' = (sawError \/ HasError(new))
  <2>1. <<>> \o new = new
    BY <1>9, ConcatEmptySeq
  <2>2. pending' = new
    BY <1>3, <2>1 DEF PushEvents, Idle
  <2> QED
    BY <1>3, <1>9, <2>2, EventsGrow DEF PushEvents, NoteError, HasError, IsError
<1>12. sawError' <=> HasError(Events')
  BY <1>9, <1>11, ErrorsNoted
<1> QED
  BY <1>3, <1>4, <1>8, <1>10, <1>11, <1>12 DEF StreamInv

LEMMA PullEndKeeps ==
    ASSUME TypeInv, StreamInv, PullEnd
    PROVE  StreamInv'
<1> DEFINE F == Flush(norm).logs
           new == Converted(F)
           last == <<Completed(~sawError')>>
<1>1. /\ sawError' = NoteError(sawError, new) /\ pending' = new \o last
      /\ UNCHANGED <<provider, consumed, emittedStarted, inflight, delivered>>
      /\ Idle /\ emittedStarted /\ ~finished /\ finished'
  BY DEF PullEnd, hookVars, Converted
<1>2. norm = Read.st /\ Events = SaidSoFar
  BY <1>1 DEF StreamInv
<1>3. F = Flush(Read.st).logs /\ F \in Seq(Logs) /\ Read.logs \in Seq(Logs)
  BY <1>2, ReadRuns
<1>4. sawError' = (sawError \/ HasError(new))
  BY <1>1 DEF NoteError, HasError, IsError
<1>5. sawError' \in BOOLEAN
  BY <1>4 DEF HasError, TypeInv
<1> HIDE DEF F
<1>6. /\ new \in Seq(AllEvents) /\ SaidSoFar \in Seq(AllEvents)
      /\ SaidSoFar \o new = <<Started>> \o Converted(Read.logs \o F)
  BY <1>3, SaidMore DEF SaidSoFar
<1>7. last \in Seq(AllEvents) /\ ~HasError(last)
  <2>1. last \in Seq(AllEvents)
    BY <1>5, EventsAreEvents
  <2>2. DOMAIN last = 1 .. 1 /\ last[1].event = "SessionCompleted"
    BY DEF Completed
  <2> HIDE DEF last
  <2> QED
    BY <2>1, <2>2 DEF HasError, IsError
<1> HIDE DEF new, last
<1>8. new \o last \in Seq(AllEvents) /\ (SaidSoFar \o new) \o last = SaidSoFar \o (new \o last)
  <2>1. new \in Seq(AllEvents) /\ last \in Seq(AllEvents) /\ SaidSoFar \in Seq(AllEvents)
    BY <1>6, <1>7
  <2>2. new \o last \in Seq(AllEvents)
    BY <2>1, ConcatProperties
  <2> QED
    BY <2>1, <2>2, ConcatAssociative
<1>9. Events' = Events \o (new \o last)
  BY <1>1, <1>8, EventsGrow
<1>10. Read' = Read
  BY <1>1 DEF Read, Start
<1>11. Flush(Read.st)' = Flush(Read.st)
  BY <1>1, <1>10 DEF Flush
<1>12. SaidInAll' = (<<Started>> \o Converted(Read.logs \o F)) \o last
  <2>1. Read'.logs = Read.logs /\ Flush(Read.st)'.logs = F
    BY <1>3, <1>10, <1>11
  <2> QED
    BY <2>1 DEF SaidInAll, last
<1>13. Events' = SaidInAll'
  BY <1>2, <1>6, <1>8, <1>9, <1>12
<1>14. HasError(new \o last) <=> HasError(new)
  BY <1>6, <1>7, ErrorOfConcat
<1>15. sawError' <=> HasError(Events')
  <2>1. sawError' = (sawError \/ HasError(new \o last))
    BY <1>4, <1>14
  <2> QED
    BY <1>8, <1>9, <2>1, ErrorsNoted
<1> QED
  BY <1>1, <1>13, <1>15 DEF StreamInv

LEMMA StreamIsInvariant == Spec => [](TypeInv /\ StreamInv)
<1>1. Init => StreamInv
  <2> SUFFICES ASSUME Init PROVE StreamInv
    OBVIOUS
  <2>1. Events = <<>>
    BY DEF Init, Events
  <2>2. ~HasError(<<>>)
    BY DEF HasError
  <2> QED
    BY <2>1, <2>2 DEF Init, StreamInv, Start
<1>2. ASSUME TypeInv, StreamInv, [Next]_vars PROVE StreamInv'
  <2>1. CASE EmitStarted
    BY <1>2, <2>1, EmitStartedKeeps
  <2>2. CASE PullChunk
    BY <1>2, <2>2, PullChunkKeeps
  <2>3. CASE PullEnd
    BY <1>2, <2>3, PullEndKeeps
  <2>4. ASSUME Events' = Events,
               UNCHANGED <<provider, consumed, norm, emittedStarted, finished, sawError>>
        PROVE  StreamInv'
    <3>1. Start' = Start
      BY <2>4 DEF Start
    <3>2. Read' = Read
      BY <2>4, <3>1 DEF Read
    <3>3. Flush(Read.st)' = Flush(Read.st)
      BY <2>4, <3>2 DEF Flush
    <3>4. SaidSoFar' = SaidSoFar
      BY <3>2 DEF SaidSoFar
    <3>5. SaidInAll' = SaidInAll
      BY <2>4, <3>2, <3>3 DEF SaidInAll
    <3>6. HasError(Events)' = HasError(Events)
      BY <2>4 DEF HasError, IsError
    <3> QED
      BY <1>2, <2>4, <3>1, <3>2, <3>4, <3>5, <3>6 DEF StreamInv
  <2>5. CASE Pop \/ HandOver
    <3>1. Events' = Events
      BY <1>2, <2>5, EventsStay
    <3>2. UNCHANGED <<provider, consumed, norm, emittedStarted, finished, sawError>>
      BY <2>5 DEF Pop, HandOver, streamVars
    <3> QED
      BY <2>4, <3>1, <3>2
  <2>6. CASE UNCHANGED <<provider, streamVars, delivered, inflight>>
    <3>1. Events' = Events
      BY <2>6 DEF Events, streamVars
    <3> QED
      BY <2>4, <2>6, <3>1 DEF streamVars
  <2>7. CASE CliPrints
    <3>1. UNCHANGED <<provider, streamVars, hookVars>>
      BY <2>7 DEF CliPrints, Prints
    <3> QED
      BY <2>6, <3>1 DEF hookVars
  <2>8. CASE CliEnds
    BY <2>6, <2>8 DEF CliEnds, hookVars
  <2>9. ASSUME NEW h \in Hooks, HookReturns(h) PROVE StreamInv'
    BY <2>6, <2>9 DEF HookReturns
  <2>10. ASSUME NEW h \in Hooks, NEW type \in HookTypes, Register(h, type) PROVE StreamInv'
    BY <2>6, <2>10 DEF Register
  <2>11. CASE UNCHANGED vars
    BY <2>6, <2>11 DEF vars, hookVars
  <2> QED
    BY <1>2, <2>1, <2>2, <2>3, <2>5, <2>7, <2>8, <2>9, <2>10, <2>11 DEF Next, Over
<1> QED
  BY <1>1, <1>2, Types, PTL DEF Spec

\* Every variable stays in its type, whatever the CLI prints: in particular
\* what the normalizers keep and produce is of the types that the next step
\* takes (normalizer.rs, converter.rs).
THEOREM TypeCorrect == Spec => []TypeInv
BY Types

\* However the output is cut into chunks, the events so far are those of the
\* output read in one piece, and the normalizer is in the same state.
THEOREM ChunksDoNotMatter == Spec => []ChunkingIsInvisible
<1>1. ASSUME TypeInv, StreamInv PROVE ChunkingIsInvisible
  <2> SUFFICES ASSUME emittedStarted, ~finished
               PROVE  /\ Events = <<Started>> \o FlatMap(Convert, Normalize(Start, consumed).logs)
                      /\ norm = Normalize(Start, consumed).st
    BY DEF ChunkingIsInvisible, Start
  <2>1. Start \in States(provider)
    BY <1>1, NormalizeRuns DEF TypeInv
  <2>2. Normalize(Start, consumed) = Read
    BY <1>1, <2>1, NormalizeRuns DEF Read
  <2> QED
    BY <1>1, <2>2 DEF StreamInv, SaidSoFar, Converted
<1> QED
  BY <1>1, StreamIsInvariant, PTL

\* What was pulled so far is how the output begins, and at the end all of it.
Output == FlattenSeq(printed)
OutputInv ==
    /\ Len(consumed) <= Len(Output)
    /\ \A i \in 1 .. Len(consumed) : consumed[i] = Output[i]
    /\ finished => consumed = Output /\ ended

LEMMA OutputInPieces ==
    ASSUME TypeInv
    PROVE  /\ Output \in Seq(PiecesOf(provider)) /\ Len(Output) \in Nat
           /\ consumed \in Seq(PiecesOf(provider)) /\ Len(consumed) \in Nat
           /\ Wire = SubSeq(Output, Len(consumed) + 1, Len(Output))
<1> DEFINE P == PiecesOf(provider)
<1>1. Output \in Seq(P) /\ consumed \in Seq(P)
  BY FlattenAppend DEF TypeInv, Output
<1> HIDE DEF P
<1>2. Len(Output) \in Nat /\ Len(consumed) \in Nat
  BY <1>1, LenProperties
<1> QED
  BY <1>1, <1>2 DEF P, Wire, Output

\* What a chunk is of, and what it leaves.
LEMMA WireProperties ==
    ASSUME TypeInv, OutputInv
    PROVE  /\ Len(Wire) = Len(Output) - Len(consumed)
           /\ \A i \in 1 .. Len(Wire) : Wire[i] = Output[Len(consumed) + i]
           /\ Wire \in Seq(PiecesOf(provider))
<1> DEFINE P == PiecesOf(provider)
           m == Len(consumed)
           n == Len(Output)
<1>1. /\ Output \in Seq(P) /\ m \in Nat /\ n \in Nat /\ m <= n
      /\ Wire = SubSeq(Output, m + 1, n)
  BY OutputInPieces DEF OutputInv
<1> HIDE DEF P, m, n
<1>2. \A i \in m + 1 .. n : Output[i] \in P
  <2>1. \A i \in m + 1 .. n : i \in 1 .. Len(Output)
    BY <1>1 DEF n
  <2> QED
    BY <1>1, <2>1, ElementOfSeq
<1>3. /\ Wire \in Seq(P)
      /\ Len(Wire) = IF m + 1 <= n THEN n - (m + 1) + 1 ELSE 0
      /\ \A i \in 1 .. n - (m + 1) + 1 : Wire[i] = Output[m + 1 + i - 1]
  BY <1>1, <1>2, SubSeqProperties
<1>4. Len(Wire) = n - m
  BY <1>1, <1>3
<1>5. ASSUME NEW i \in 1 .. n - m PROVE Wire[i] = Output[m + i]
  <2>1. i \in 1 .. n - (m + 1) + 1 /\ m + 1 + i - 1 = m + i
    BY <1>1
  <2> QED
    BY <1>3, <2>1
<1> QED
  BY <1>3, <1>4, <1>5 DEF P, m, n

LEMMA ChunkIsNext ==
    ASSUME TypeInv, OutputInv, NEW n \in 1 .. Len(Wire)
    PROVE  LET all == consumed \o SubSeq(Wire, 1, n)
           IN  Len(all) <= Len(Output) /\ \A i \in 1 .. Len(all) : all[i] = Output[i]
<1> DEFINE P == PiecesOf(provider)
           m == Len(consumed)
           chunk == SubSeq(Wire, 1, n)
           all == consumed \o chunk
<1>1. /\ consumed \in Seq(P) /\ m \in Nat /\ Len(Output) \in Nat
      /\ Wire \in Seq(P) /\ Len(Wire) = Len(Output) - m
      /\ \A i \in 1 .. Len(Wire) : Wire[i] = Output[m + i]
      /\ \A i \in 1 .. m : consumed[i] = Output[i]
  BY OutputInPieces, WireProperties DEF OutputInv
<1>2. Len(Wire) \in Nat /\ n \in 1 .. Len(Wire)
  BY <1>1
<1> HIDE DEF P, m
<1>3. \A i \in 1 .. n : Wire[i] \in P
  <2>1. \A i \in 1 .. n : i \in 1 .. Len(Wire)
    BY <1>2
  <2> QED
    BY <1>1, <2>1, ElementOfSeq
<1>4. /\ chunk \in Seq(P) /\ Len(chunk) = n
      /\ \A i \in 1 .. n : chunk[i] = Wire[i]
  <2>1. /\ chunk \in Seq(P) /\ Len(chunk) = IF 1 <= n THEN n - 1 + 1 ELSE 0
        /\ \A i \in 1 .. n - 1 + 1 : chunk[i] = Wire[1 + i - 1]
    BY <1>2, <1>3, SubSeqProperties
  <2> HIDE DEF chunk
  <2> QED
    BY <1>2, <2>1
<1> HIDE DEF chunk
<1>5. /\ Len(all) = m + n
      /\ \A i \in 1 .. m + n : all[i] = IF i <= m THEN consumed[i] ELSE chunk[i - m]
  BY <1>1, <1>4, ConcatProperties DEF m
<1> HIDE DEF all
<1>6. Len(all) <= Len(Output)
  BY <1>1, <1>2, <1>5
<1>7. ASSUME NEW i \in 1 .. m + n PROVE all[i] = Output[i]
  <2>1. CASE i <= m
    <3>1. i \in 1 .. m
      BY <1>1, <2>1
    <3> QED
      BY <1>1, <1>5, <2>1, <3>1
  <2>2. CASE i > m
    <3>1. i - m \in 1 .. n /\ i - m \in 1 .. Len(Wire) /\ m + (i - m) = i /\ ~(i <= m)
      BY <1>1, <1>2, <2>2
    <3>2. all[i] = chunk[i - m]
      BY <1>5, <3>1
    <3>3. chunk[i - m] = Wire[i - m] /\ Wire[i - m] = Output[m + (i - m)]
      BY <1>1, <1>4, <3>1
    <3> QED
      BY <3>1, <3>2, <3>3
  <2> QED
    BY <1>1, <1>2, <2>1, <2>2
<1> QED
  BY <1>5, <1>6, <1>7 DEF all, chunk

LEMMA OutputIsInvariant == Spec => []OutputInv
<1>1. Init => OutputInv
  <2> SUFFICES ASSUME Init PROVE OutputInv
    OBVIOUS
  <2>1. consumed = <<>> /\ printed = <<>> /\ ~finished /\ Len(consumed) = 0
    BY EmptySeq DEF Init
  <2>2. Output = <<>>
    BY <2>1, FlattenAppend DEF Output
  <2> QED
    BY <2>1, <2>2 DEF OutputInv
<1>2. ASSUME TypeInv, TypeInv', StreamInv, OutputInv, [Next]_vars PROVE OutputInv'
  <2>1. CASE CliPrints
    <3>1. ~emittedStarted /\ UNCHANGED <<consumed, finished>>
      BY <2>1 DEF CliPrints, Prints, streamVars
    <3>2. consumed' = <<>> /\ ~finished' /\ Len(<<>>) = 0
      BY <1>2, <3>1, EmptySeq DEF StreamInv
    <3>3. Len(Output') \in Nat
      <4>1. printed' \in Seq(Seq(PiecesOf(provider')))
        BY <1>2 DEF TypeInv
      <4>2. Output' \in Seq(PiecesOf(provider'))
        BY <4>1, FlattenAppend DEF Output
      <4> QED
        BY <4>2, LenProperties
    <3> QED
      BY <3>2, <3>3 DEF OutputInv
  <2>2. CASE PullChunk
    <3>1. PICK n \in 1 .. Len(Wire) : consumed' = consumed \o SubSeq(Wire, 1, n)
      BY <2>2 DEF PullChunk
    <3>2. Output' = Output /\ ~finished'
      BY <2>2 DEF PullChunk, Output, cliVars
    <3> QED
      BY <1>2, <3>1, <3>2, ChunkIsNext DEF OutputInv
  <2>3. CASE PullEnd
    <3>1. Wire = <<>> /\ ended' /\ Output' = Output /\ consumed' = consumed
      BY <2>3 DEF PullEnd, Output, cliVars
    <3>2. Len(Wire) = 0
      BY <3>1, EmptySeq
    <3>3. /\ Len(consumed) = Len(Output)
          /\ \A i \in 1 .. Len(consumed) : consumed[i] = Output[i]
          /\ Output \in Seq(PiecesOf(provider)) /\ consumed \in Seq(PiecesOf(provider))
      BY <1>2, <3>2, OutputInPieces, WireProperties DEF OutputInv
    <3>4. consumed = Output
      BY <3>3, SeqEqual
    <3> QED
      BY <1>2, <3>1, <3>4 DEF OutputInv
  <2>4. CASE CliEnds
    BY <1>2, <2>4 DEF CliEnds, OutputInv, Output, streamVars
  <2>5. CASE UNCHANGED <<consumed, printed, finished, ended>>
    BY <1>2, <2>5 DEF OutputInv, Output
  <2>6. CASE EmitStarted \/ Pop \/ HandOver \/ UNCHANGED vars
    BY <2>5, <2>6 DEF EmitStarted, Pop, HandOver, vars, cliVars, streamVars
  <2>7. ASSUME NEW h \in Hooks, HookReturns(h) \/ \E type \in HookTypes : Register(h, type)
        PROVE  OutputInv'
    BY <2>5, <2>7 DEF HookReturns, Register, cliVars, streamVars
  <2> QED
    BY <1>2, <2>1, <2>2, <2>3, <2>4, <2>6, <2>7 DEF Next, Over
<1> QED
  BY <1>1, <1>2, Types, StreamIsInvariant, PTL DEF Spec

\* Once it is over, the stream has carried all the events of what the CLI
\* printed, in its order, and what the flush of the normalizer brought up, and
\* no more.
WholeOutputIsTold ==
    finished =>
        LET whole == Normalize(Start, FlattenSeq(printed))
            logs == whole.logs \o Flush(whole.st).logs
        IN  /\ ended
            /\ Events = (<<Started>> \o FlatMap(Convert, logs)) \o <<Completed(~sawError)>>

THEOREM WholeOutput == Spec => []WholeOutputIsTold
<1>1. ASSUME TypeInv, StreamInv, OutputInv PROVE WholeOutputIsTold
  <2> SUFFICES ASSUME finished
               PROVE  LET whole == Normalize(Start, FlattenSeq(printed))
                          logs == whole.logs \o Flush(whole.st).logs
                      IN  /\ ended
                          /\ Events = (<<Started>> \o FlatMap(Convert, logs)) \o <<Completed(~sawError)>>
    BY DEF WholeOutputIsTold
  <2>1. Start \in States(provider)
    BY <1>1, NormalizeRuns DEF TypeInv
  <2>2. consumed = FlattenSeq(printed) /\ ended
    BY <1>1 DEF OutputInv, Output
  <2>3. Normalize(Start, FlattenSeq(printed)) = Read
    BY <1>1, <2>1, <2>2, NormalizeRuns DEF Read
  <2> QED
    BY <1>1, <2>2, <2>3 DEF StreamInv, SaidInAll, Converted
<1> QED
  BY <1>1, StreamIsInvariant, OutputIsInvariant, PTL

\* A first event, others, and perhaps a last one.
LEMMA FramedSequence ==
    ASSUME NEW m \in Seq(Middle), NEW s, s = <<Started>> \o m
    PROVE  /\ s \in Seq(AllEvents)
           /\ \A i \in 1 .. Len(s) : s[i] = Started <=> i = 1
           /\ \A i \in 1 .. Len(s) : s[i].event # "SessionCompleted"
           /\ Len(s) \in Nat \ {0}
<1>1. <<Started>> \in Seq(AllEvents) /\ Len(<<Started>>) = 1 /\ <<Started>>[1] = Started
  BY EventsAreEvents
<1>2. m \in Seq(AllEvents) /\ Len(m) \in Nat /\ \A i \in 1 .. Len(m) : m[i] \in Middle
  BY EventsAreEvents, LenProperties, ElementOfSeq
<1>3. /\ s \in Seq(AllEvents) /\ Len(s) = 1 + Len(m)
      /\ \A i \in 1 .. 1 + Len(m) : s[i] = IF i <= 1 THEN <<Started>>[i] ELSE m[i - 1]
  BY <1>1, <1>2, ConcatProperties
<1>4. ASSUME NEW i \in 1 .. Len(s), i # 1 PROVE s[i] \in Middle
  <2>1. i - 1 \in 1 .. Len(m) /\ ~(i <= 1)
    BY <1>2, <1>3, <1>4
  <2> QED
    BY <1>2, <1>3, <2>1
<1>5. s[1] = Started
  BY <1>1, <1>2, <1>3
<1>6. Started.event = "SessionStarted"
  BY DEF Started, Event
<1> QED
  BY <1>2, <1>3, <1>4, <1>5, <1>6, MiddleIsNoFrame

\* The stream begins with SessionStarted and ends with SessionCompleted, which
\* reports success only if no event was an error.
THEOREM WellFramed == Spec => []Framed
<1>1. ASSUME TypeInv, StreamInv PROVE Framed
  <2> DEFINE m == IF finished THEN Converted(Read.logs \o Flush(Read.st).logs) ELSE Converted(Read.logs)
             s == <<Started>> \o m
             last == Completed(~sawError)
  <2>1. m \in Seq(Middle)
    <3>1. Read.logs \in Seq(Logs) /\ Flush(Read.st).logs \in Seq(Logs)
      BY <1>1, ReadRuns
    <3>2. Read.logs \o Flush(Read.st).logs \in Seq(Logs)
      BY <3>1, ConcatProperties
    <3> QED
      BY <3>1, <3>2, EventsAreEvents
  <2>2. /\ s \in Seq(AllEvents)
        /\ \A i \in 1 .. Len(s) : s[i] = Started <=> i = 1
        /\ \A i \in 1 .. Len(s) : s[i].event # "SessionCompleted"
        /\ Len(s) \in Nat \ {0}
    <3> HIDE DEF m
    <3> QED
      BY <2>1, FramedSequence
  <2>3. CASE ~emittedStarted
    <3>1. DOMAIN Events = {}
      BY <1>1, <2>3 DEF StreamInv
    <3> QED
      BY <3>1 DEF Framed
  <2>4. CASE emittedStarted /\ ~finished
    <3>1. Events = s
      BY <1>1, <2>4 DEF StreamInv, SaidSoFar
    <3> HIDE DEF s
    <3>2. DOMAIN Events = 1 .. Len(s)
      BY <2>2, <3>1, LenProperties
    <3> QED
      BY <2>2, <3>1, <3>2 DEF Framed
  <2>5. CASE finished
    <3>1. Events = s \o <<last>>
      BY <1>1, <2>5 DEF StreamInv, SaidInAll
    <3>2. last.event = "SessionCompleted" /\ last.success = ~sawError /\ last # Started
      BY DEF Completed, Started, Event
    <3>3. last \in AllEvents
      <4>1. sawError \in BOOLEAN
        BY <1>1 DEF TypeInv
      <4>2. (~sawError) \in BOOLEAN
        BY <4>1
      <4> QED
        BY <4>2 DEF AllEvents, Framing, Completed
    <3> HIDE DEF s, last
    <3>4. Events = Append(s, last)
      BY <2>2, <3>1, <3>3, AppendIsConcat
    <3>5. /\ Events \in Seq(AllEvents) /\ Len(Events) = Len(s) + 1 /\ DOMAIN Events = 1 .. Len(s) + 1
          /\ Events[Len(s) + 1] = last /\ \A i \in 1 .. Len(s) : Events[i] = s[i]
      BY <2>2, <3>3, <3>4, AppendProperties, LenProperties
    <3>6. sawError <=> \E j \in DOMAIN Events : IsError(Events[j])
      BY <1>1 DEF StreamInv, HasError
    <3> SUFFICES ASSUME NEW i \in 1 .. Len(s) + 1
                 PROVE  /\ (Events[i] = Started) <=> (i = 1)
                        /\ Events[i].event = "SessionCompleted" =>
                             /\ i = Len(Events) /\ finished
                             /\ Events[i].success <=> ~\E j \in DOMAIN Events : IsError(Events[j])
      BY <3>5 DEF Framed
    <3>7. CASE i = Len(s) + 1
      <4>1. Events[i] = last /\ i # 1 /\ i = Len(Events)
        BY <2>2, <3>5, <3>7
      <4>2. Events[i].success <=> ~\E j \in DOMAIN Events : IsError(Events[j])
        BY <3>2, <3>6, <4>1
      <4> QED
        BY <2>5, <3>2, <4>1, <4>2
    <3>8. CASE i \in 1 .. Len(s)
      BY <2>2, <3>5, <3>8
    <3> QED
      BY <2>2, <3>7, <3>8
  <2> QED
    BY <2>3, <2>4, <2>5
<1> QED
  BY <1>1, StreamIsInvariant, PTL

----------------------------------------------------------------------------
(* Hooks *)

\* The events before the consumer that a hook is to have seen.
Wanted(h) == {i \in DOMAIN delivered : since[h] < i /\ delivered[i].event = registered[h]}
Mine(h) == Keep(delivered, Wanted(h))
Now(h) ==
    IF inflight # <<>> /\ inflight[1].event = registered[h] /\ h \notin running
       /\ since[h] <= Len(delivered)
    THEN inflight ELSE <<>>

HookInv ==
    \A h \in Hooks :
        /\ h \in running =>
               /\ inflight # <<>> /\ inflight[1].event = registered[h]
               /\ since[h] <= Len(delivered)
        /\ registered[h] = "none" => hookSaw[h] = <<>>
        /\ registered[h] # "none" =>
               /\ since[h] <= Len(delivered) + Len(inflight)
               /\ hookSaw[h] = Mine(h) \o Now(h)

LEMMA EventHasName == \A e \in AllEvents : e.event # "none"
BY DEF AllEvents, Framing, Middle

\* Keep looks only at the places there are.
LEMMA KeepAgrees ==
    ASSUME NEW A, NEW s \in Seq(A), NEW V, NEW W,
           \A i \in 1 .. Len(s) : i \in V <=> i \in W
    PROVE  Keep(s, V) = Keep(s, W)
<1>1. PICK g \in [0 .. Len(s) -> Seq(A)] : KeepRun(s, V, g)
  BY KeepRuns
<1>2. PICK h \in [0 .. Len(s) -> Seq(A)] : KeepRun(s, W, h)
  BY KeepRuns
<1>3. Len(s) \in Nat
  BY LenProperties
<1>4. GoAlike(Len(s), g, h)
  BY <1>1, <1>2 DEF KeepRun, GoAlike
<1>5. \A i \in 0 .. Len(s) : g[i] = h[i]
  BY <1>3, <1>4, SameSteps
<1>6. Len(s) \in 0 .. Len(s)
  BY <1>3
<1> QED
  BY <1>1, <1>2, <1>5, <1>6 DEF KeepRun

LEMMA KeepNothing ==
    ASSUME NEW A, NEW s \in Seq(A), NEW W, \A i \in 1 .. Len(s) : i \notin W
    PROVE  Keep(s, W) = <<>>
<1>1. PICK g \in [0 .. Len(s) -> Seq(A)] : KeepRun(s, W, g)
  BY KeepRuns
<1>2. Len(s) \in Nat /\ Len(s) \in 0 .. Len(s)
  BY LenProperties
<1>3. g[0] \in {<<>>} /\ \A i \in 1 .. Len(s) : g[i - 1] \in {<<>>} => g[i] \in {<<>>}
  BY <1>1 DEF KeepRun
<1>4. \A i \in 0 .. Len(s) : g[i] \in {<<>>}
  BY <1>2, <1>3, StaysIn
<1> QED
  BY <1>1, <1>2, <1>4 DEF KeepRun

\* At most one event is on its way.
LEMMA OneInFlight ==
    ASSUME TypeInv, inflight # <<>>
    PROVE  Len(inflight) = 1 /\ inflight[1] \in AllEvents /\ inflight = <<inflight[1]>>
<1>1. inflight \in Seq(AllEvents) /\ Len(inflight) <= 1
  BY DEF TypeInv
<1>2. Len(inflight) \in Nat \ {0}
  BY <1>1, EmptySeq
<1>3. Len(inflight) = 1
  <2> DEFINE n == Len(inflight)
  <2>1. n \in Nat /\ n # 0 /\ n <= 1
    BY <1>1, <1>2
  <2> HIDE DEF n
  <2>2. n = 1
    BY <2>1
  <2> QED
    BY <2>2 DEF n
<1> DEFINE e == inflight[1]
<1>4. e \in AllEvents
  <2>1. 1 \in 1 .. Len(inflight)
    BY <1>3
  <2> QED
    BY <1>1, <2>1, ElementOfSeq
<1>5. inflight[1] = e
  OBVIOUS
<1> HIDE DEF e
<1>6. <<e>> \in Seq(AllEvents) /\ Len(<<e>>) = 1 /\ <<e>>[1] = e
  BY <1>4
<1>7. \A i \in 1 .. Len(inflight) : inflight[i] = <<e>>[i]
  BY <1>3, <1>5, <1>6
<1>8. inflight = <<e>>
  BY <1>1, <1>3, <1>6, <1>7, SeqEqual
<1> QED
  BY <1>3, <1>4, <1>8 DEF e

LEMMA RegisterKeeps ==
    ASSUME TypeInv, HookInv, NEW h \in Hooks, NEW type \in HookTypes, Register(h, type)
    PROVE  HookInv'
<1> SUFFICES ASSUME NEW k \in Hooks
             PROVE  (/\ k \in running =>
                         /\ inflight # <<>> /\ inflight[1].event = registered[k]
                         /\ since[k] <= Len(delivered)
                     /\ registered[k] = "none" => hookSaw[k] = <<>>
                     /\ registered[k] # "none" =>
                         /\ since[k] <= Len(delivered) + Len(inflight)
                         /\ hookSaw[k] = Mine(k) \o Now(k))'
  BY DEF HookInv
<1>1. /\ UNCHANGED <<inflight, running, hookSaw, delivered>> /\ registered[h] = "none"
      /\ registered' = [registered EXCEPT ![h] = type]
      /\ since' = [since EXCEPT ![h] = Len(delivered) + Len(inflight)]
  BY DEF Register
<1>2. registered \in [Hooks -> HookTypes \cup {"none"}] /\ since \in [Hooks -> Nat]
  BY DEF TypeInv
<1>3. CASE k # h
  <2>1. registered'[k] = registered[k] /\ since'[k] = since[k]
    BY <1>1, <1>2, <1>3
  <2>2. Wanted(k)' = Wanted(k)
    BY <1>1, <2>1 DEF Wanted
  <2>3. Mine(k)' = Mine(k)
    BY <1>1, <2>2 DEF Mine
  <2>4. Now(k)' = Now(k)
    BY <1>1, <2>1 DEF Now
  <2> QED
    BY <1>1, <2>1, <2>3, <2>4 DEF HookInv
<1>4. CASE k = h
  <2>1. Len(delivered) \in Nat /\ Len(inflight) \in Nat /\ since'[k] = Len(delivered) + Len(inflight)
    BY <1>1, <1>2, <1>4, LenProperties DEF TypeInv
  <2>2. h \notin running
    <3>1. h \in running => inflight # <<>> /\ inflight[1].event = "none"
      BY <1>1 DEF HookInv
    <3>2. inflight # <<>> => inflight[1] \in AllEvents
      BY EmptySeq, ElementOfSeq DEF TypeInv
    <3> QED
      BY <3>1, <3>2, EventHasName
  <2>3. hookSaw[k] = <<>>
    BY <1>1, <1>4 DEF HookInv
  <2>4. Mine(k)' = <<>>
    <3>1. \A i \in 1 .. Len(delivered) : i \notin Wanted(k)'
      BY <1>1, <2>1 DEF Wanted
    <3>2. delivered \in Seq(AllEvents)
      BY DEF TypeInv
    <3>3. Keep(delivered, Wanted(k)') = <<>>
      BY <3>1, <3>2, KeepNothing
    <3> QED
      BY <1>1, <3>3 DEF Mine
  <2>5. Now(k)' = <<>>
    <3>1. inflight # <<>> => Len(inflight) # 0
      BY EmptySeq DEF TypeInv
    <3>2. inflight # <<>> => ~(since'[k] <= Len(delivered))
      BY <2>1, <3>1
    <3> QED
      BY <1>1, <3>2 DEF Now
  <2>6. <<>> \o <<>> = <<>>
    BY EmptySeq, ConcatEmptySeq
  <2> QED
    BY <1>1, <1>4, <2>1, <2>2, <2>3, <2>4, <2>5, <2>6
<1> QED
  BY <1>3, <1>4

LEMMA PopKeeps ==
    ASSUME TypeInv, HookInv, Pop
    PROVE  HookInv'
<1> DEFINE e == Head(pending)
<1>1. /\ UNCHANGED <<registered, since, hookSaw, delivered>>
      /\ inflight = <<>> /\ inflight' = <<e>>
      /\ running' = {h \in Hooks : registered[h] = e.event}
  BY DEF Pop
<1>2. e \in AllEvents /\ e.event # "none"
  BY HeadTailProperties, EventHasName DEF TypeInv, Pop
<1> HIDE DEF e
<1>3. Len(inflight) = 0 /\ Len(inflight') = 1 /\ inflight'[1] = e /\ inflight' # <<>>
  BY <1>1
<1>4. Len(delivered) \in Nat /\ \A h \in Hooks : since[h] \in Nat
  BY LenProperties DEF TypeInv
<1> SUFFICES ASSUME NEW k \in Hooks
             PROVE  (/\ k \in running =>
                         /\ inflight # <<>> /\ inflight[1].event = registered[k]
                         /\ since[k] <= Len(delivered)
                     /\ registered[k] = "none" => hookSaw[k] = <<>>
                     /\ registered[k] # "none" =>
                         /\ since[k] <= Len(delivered) + Len(inflight)
                         /\ hookSaw[k] = Mine(k) \o Now(k))'
  BY DEF HookInv
<1>5. Mine(k)' = Mine(k)
  BY <1>1 DEF Mine, Wanted
<1>6. Now(k) = <<>> /\ Now(k)' = <<>>
  <2>1. Now(k) = <<>>
    BY <1>1 DEF Now
  <2>2. inflight'[1].event = registered'[k] => k \in running'
    BY <1>1, <1>3
  <2> QED
    BY <2>1, <2>2 DEF Now
<1>7. registered[k] # "none" => since[k] <= Len(delivered) /\ hookSaw[k] = Mine(k) \o Now(k)
  BY <1>3, <1>4 DEF HookInv
<1>8. since[k] <= Len(delivered) => since[k] <= Len(delivered) + 1
  BY <1>4
<1>9. registered[k] = "none" => hookSaw[k] = <<>>
  BY DEF HookInv
<1>10. k \in running' => registered[k] = e.event /\ registered[k] # "none"
  BY <1>1, <1>2
<1> QED
  BY <1>1, <1>3, <1>5, <1>6, <1>7, <1>8, <1>9, <1>10

LEMMA HookReturnsKeeps ==
    ASSUME TypeInv, HookInv, NEW h \in Hooks, HookReturns(h)
    PROVE  HookInv'
<1>1. /\ UNCHANGED <<registered, since, inflight, delivered>> /\ h \in running
      /\ running' = running \ {h}
      /\ hookSaw' = [hookSaw EXCEPT ![h] = Append(hookSaw[h], inflight[1])]
  BY DEF HookReturns
<1>2. hookSaw \in [Hooks -> Seq(AllEvents)] /\ inflight \in Seq(AllEvents) /\ Len(inflight) <= 1
  BY DEF TypeInv
<1> SUFFICES ASSUME NEW k \in Hooks
             PROVE  (/\ k \in running =>
                         /\ inflight # <<>> /\ inflight[1].event = registered[k]
                         /\ since[k] <= Len(delivered)
                     /\ registered[k] = "none" => hookSaw[k] = <<>>
                     /\ registered[k] # "none" =>
                         /\ since[k] <= Len(delivered) + Len(inflight)
                         /\ hookSaw[k] = Mine(k) \o Now(k))'
  BY DEF HookInv
<1>3. Mine(k)' = Mine(k)
  BY <1>1 DEF Mine, Wanted
<1>4. CASE k # h
  <2>1. hookSaw'[k] = hookSaw[k] /\ (k \in running' <=> k \in running)
    BY <1>1, <1>2, <1>4
  <2>2. Now(k)' = Now(k)
    BY <1>1, <2>1 DEF Now
  <2> QED
    BY <1>1, <1>3, <2>1, <2>2 DEF HookInv
<1>5. CASE k = h
  <2>1. /\ inflight # <<>> /\ inflight[1].event = registered[h] /\ since[h] <= Len(delivered)
    BY <1>1 DEF HookInv
  <2>2. inflight[1] \in AllEvents /\ Len(inflight) = 1
    BY <2>1, OneInFlight
  <2>3. registered[h] # "none"
    BY <2>1, <2>2, EventHasName
  <2>4. Now(h) = <<>> /\ Now(h)' = inflight
    BY <1>1, <2>1 DEF Now
  <2>5. Mine(h) \in Seq(AllEvents)
    <3>1. delivered \in Seq(AllEvents)
      BY DEF TypeInv
    <3> QED
      BY <2>2, <3>1, KeepAppend DEF Mine
  <2>6. hookSaw[h] = Mine(h)
    <3>1. hookSaw[h] = Mine(h) \o Now(h)
      BY <2>3 DEF HookInv
    <3> QED
      BY <2>4, <2>5, <3>1, ConcatEmptySeq
  <2>7. inflight = <<inflight[1]>>
    BY <2>1, OneInFlight
  <2>8. Append(Mine(h), inflight[1]) = Mine(h) \o inflight
    <3>1. Append(Mine(h), inflight[1]) = Mine(h) \o <<inflight[1]>>
      BY <2>2, <2>5, AppendIsConcat
    <3> QED
      BY <2>7, <3>1
  <2>9. hookSaw'[h] = Append(hookSaw[h], inflight[1])
    BY <1>1, <1>2
  <2>10. hookSaw'[h] = Mine(h)' \o Now(h)'
    BY <1>3, <1>5, <2>4, <2>6, <2>8, <2>9
  <2>11. since[h] <= Len(delivered) + Len(inflight)
    BY <2>3 DEF HookInv
  <2> QED
    BY <1>1, <1>5, <2>3, <2>10, <2>11
<1> QED
  BY <1>4, <1>5

LEMMA HandOverKeeps ==
    ASSUME TypeInv, HookInv, HandOver
    PROVE  HookInv'
<1> DEFINE e == inflight[1]
           n == Len(delivered)
<1>1. /\ UNCHANGED <<registered, since, hookSaw>> /\ running = {} /\ running' = {}
      /\ inflight # <<>> /\ inflight' = <<>> /\ delivered' = delivered \o inflight
  BY DEF HandOver, HooksAreDone
<1>2. inflight \in Seq(AllEvents) /\ Len(inflight) <= 1 /\ delivered \in Seq(AllEvents)
  BY DEF TypeInv
<1>3. Len(inflight) = 1 /\ e \in AllEvents /\ inflight = <<e>>
  BY <1>1, OneInFlight
<1>4. n \in Nat /\ \A h \in Hooks : since[h] \in Nat
  BY <1>2, LenProperties DEF TypeInv
<1>5. /\ delivered' \in Seq(AllEvents) /\ Len(delivered') = n + 1 /\ delivered'[n + 1] = e
      /\ DOMAIN delivered' = 1 .. n + 1 /\ DOMAIN delivered = 1 .. n
      /\ \A i \in 1 .. n : delivered'[i] = delivered[i]
  <2>1. /\ delivered' \in Seq(AllEvents) /\ Len(delivered') = n + 1
        /\ \A i \in 1 .. n + 1 : delivered'[i] = IF i <= n THEN delivered[i] ELSE inflight[i - n]
    <3>1. /\ delivered \o inflight \in Seq(AllEvents)
          /\ Len(delivered \o inflight) = Len(delivered) + Len(inflight)
          /\ \A i \in 1 .. Len(delivered) + Len(inflight) :
               (delivered \o inflight)[i] = IF i <= Len(delivered) THEN delivered[i]
                                            ELSE inflight[i - Len(delivered)]
      BY <1>2, ConcatProperties
    <3> QED
      BY <1>1, <1>3, <3>1
  <2>2. DOMAIN delivered' = 1 .. n + 1 /\ DOMAIN delivered = 1 .. n
    BY <1>2, <2>1, LenProperties
  <2>3. n + 1 \in 1 .. n + 1 /\ ~(n + 1 <= n) /\ (n + 1) - n = 1
        /\ \A i \in 1 .. n : i \in 1 .. n + 1 /\ i <= n
    BY <1>4
  <2> HIDE DEF n
  <2>4. delivered'[n + 1] = e
    BY <2>1, <2>3
  <2> QED
    BY <2>1, <2>2, <2>3, <2>4
<1>6. delivered' = Append(delivered, e)
  <2>1. /\ Append(delivered, e) \in Seq(AllEvents) /\ Len(Append(delivered, e)) = n + 1
        /\ Append(delivered, e)[n + 1] = e
        /\ \A i \in 1 .. n : Append(delivered, e)[i] = delivered[i]
    BY <1>2, <1>3, AppendProperties
  <2>2. \A i \in 1 .. n + 1 : i \in 1 .. n \/ i = n + 1
    BY <1>4
  <2> HIDE DEF n, e
  <2>3. \A i \in 1 .. n + 1 : delivered'[i] = Append(delivered, e)[i]
    BY <1>5, <2>1, <2>2
  <2> QED
    BY <1>5, <2>1, <2>3, SeqEqual
<1> HIDE DEF e
<1> SUFFICES ASSUME NEW k \in Hooks
             PROVE  (/\ k \in running =>
                         /\ inflight # <<>> /\ inflight[1].event = registered[k]
                         /\ since[k] <= Len(delivered)
                     /\ registered[k] = "none" => hookSaw[k] = <<>>
                     /\ registered[k] # "none" =>
                         /\ since[k] <= Len(delivered) + Len(inflight)
                         /\ hookSaw[k] = Mine(k) \o Now(k))'
  BY DEF HookInv
<1>7. CASE registered[k] = "none"
  BY <1>1, <1>7 DEF HookInv
<1>8. CASE registered[k] # "none"
  <2> DEFINE W == Wanted(k)'
             mine == Keep(delivered, Wanted(k))
  <2>1. \A i \in 1 .. n + 1 : i \in W <=> since[k] < i /\ delivered'[i].event = registered[k]
    BY <1>1, <1>5 DEF Wanted
  <2>2. \A i \in 1 .. n : i \in W <=> i \in Wanted(k)
    <3>1. \A i \in 1 .. n : i \in 1 .. n + 1
      BY <1>4
    <3> HIDE DEF W, n
    <3> QED
      BY <1>5, <2>1, <3>1 DEF Wanted
  <2> HIDE DEF W
  <2>3. Keep(delivered, W) = mine
    BY <1>2, <2>2, KeepAgrees
  <2>4. Mine(k)' = IF n + 1 \in W THEN Append(mine, e) ELSE mine
    <3>1. Mine(k)' = Keep(Append(delivered, e), W)
      BY <1>6 DEF Mine, W
    <3>2. Keep(Append(delivered, e), W)
            = IF n + 1 \in W THEN Append(Keep(delivered, W), e) ELSE Keep(delivered, W)
      BY <1>2, <1>3, KeepAppend DEF e
    <3> HIDE DEF mine
    <3> QED
      BY <2>3, <3>1, <3>2
  <2>5. n + 1 \in W <=> since[k] <= n /\ e.event = registered[k]
    <3>1. n + 1 \in 1 .. n + 1 /\ (since[k] < n + 1 <=> since[k] <= n)
      BY <1>4
    <3> QED
      BY <1>5, <2>1, <3>1
  <2>6. Now(k) = IF n + 1 \in W THEN inflight ELSE <<>>
    BY <1>1, <2>5 DEF Now, e
  <2>7. mine \in Seq(AllEvents)
    BY <1>2, <1>3, KeepAppend DEF e
  <2>8. hookSaw[k] = mine \o Now(k)
    BY <1>8 DEF HookInv, Mine
  <2> HIDE DEF mine
  <2>9. mine \o inflight = Append(mine, e) /\ mine \o <<>> = mine
    <3>1. inflight = <<e>>
      BY <1>3
    <3>2. mine \o <<e>> = Append(mine, e)
      BY <1>3, <2>7, AppendIsConcat
    <3> QED
      BY <2>7, <3>1, <3>2, ConcatEmptySeq
  <2>10. hookSaw[k] = Mine(k)'
    BY <2>4, <2>6, <2>8, <2>9
  <2>11. Now(k)' = <<>> /\ Mine(k)' \o <<>> = Mine(k)'
    <3>1. Now(k)' = <<>>
      BY <1>1 DEF Now
    <3>2. Mine(k)' \in Seq(AllEvents)
      BY <1>3, <2>4, <2>7, AppendProperties
    <3> QED
      BY <3>1, <3>2, ConcatEmptySeq
  <2>12. since[k] <= Len(delivered') + Len(inflight')
    <3>1. since[k] <= n + 1
      BY <1>3, <1>8 DEF HookInv
    <3>2. Len(inflight') = 0
      BY <1>1
    <3> QED
      BY <1>4, <1>5, <3>1, <3>2
  <2> QED
    BY <1>1, <1>8, <2>10, <2>11, <2>12
<1> QED
  BY <1>7, <1>8

\* A hook has run for every event of its type since it was registered, once
\* each and in order, before the consumer is given the event.
THEOREM HooksFirst == Spec => []HooksAreAhead
<1>1. Init => HookInv
  BY DEF Init, HookInv
<1>2. ASSUME TypeInv, HookInv, [Next]_vars PROVE HookInv'
  <2>1. ASSUME UNCHANGED hookVars PROVE HookInv'
    BY <1>2, <2>1 DEF HookInv, Mine, Wanted, Now, hookVars
  <2>2. CASE CliPrints \/ CliEnds \/ EmitStarted \/ PullChunk \/ PullEnd \/ UNCHANGED vars
    BY <2>1, <2>2 DEF CliPrints, Prints, CliEnds, EmitStarted, PullChunk, PullEnd, vars
  <2>3. CASE Pop
    BY <1>2, <2>3, PopKeeps
  <2>4. CASE HandOver
    BY <1>2, <2>4, HandOverKeeps
  <2>5. ASSUME NEW h \in Hooks, HookReturns(h) PROVE HookInv'
    BY <1>2, <2>5, HookReturnsKeeps
  <2>6. ASSUME NEW h \in Hooks, NEW type \in HookTypes, Register(h, type) PROVE HookInv'
    BY <1>2, <2>6, RegisterKeeps
  <2> QED
    BY <1>2, <2>2, <2>3, <2>4, <2>5, <2>6 DEF Next, Over
<1>3. HookInv => HooksAreAhead
  BY DEF HookInv, HooksAreAhead, Mine, Wanted, Now
<1> QED
  BY <1>1, <1>2, <1>3, Types, PTL DEF Spec

----------------------------------------------------------------------------
(* Tool calls *)

\* The events that start a call, and those that end it.
Starting(id) == {e \in AllEvents : IsStart(id, e)}
Ending(id) == {e \in AllEvents : IsOutcome(id, e)}
OtherEvents ==
    {e \in AllEvents : e.event \notin {"ToolCallStarted", "ToolCallCompleted", "ToolCallFailed"}}

Within(s, n, W) == Cardinality({i \in 1 .. n : s[i] \in W})
Number(s, W) == Within(s, Len(s), W)
Balance(id, s) == Number(s, Starting(id)) - Number(s, Ending(id))

\* In every beginning of s, no call has more ends than starts.
Paired(s) ==
    \A n \in 0 .. Len(s) : \A id \in STRING : Within(s, n, Ending(id)) <= Within(s, n, Starting(id))

\* Numbers of places.
LEMMA WithinProperties ==
    ASSUME NEW s, NEW n \in Nat, NEW W
    PROVE  /\ Within(s, n, W) \in Nat
           /\ Within(s, 0, W) = 0
           /\ Within(s, n + 1, W) = Within(s, n, W) + IF s[n + 1] \in W THEN 1 ELSE 0
<1> DEFINE P(k) == {i \in 1 .. k : s[i] \in W}
<1>1. \A k \in Nat : IsFiniteSet(P(k)) /\ Cardinality(P(k)) \in Nat
  <2> SUFFICES ASSUME NEW k \in Nat PROVE IsFiniteSet(P(k))
    BY FS_CardinalityType
  <2>1. IsFiniteSet(1 .. k) /\ P(k) \subseteq 1 .. k
    BY FS_Interval
  <2> QED
    BY <2>1, FS_Subset
<1>a. \A k : Within(s, k, W) = Cardinality(P(k))
  BY DEF Within
<1>2. Within(s, 0, W) = 0
  <2>1. P(0) = {}
    OBVIOUS
  <2> QED
    BY <2>1, FS_EmptySet DEF Within
<1>3. CASE s[n + 1] \in W
  <2>1. P(n + 1) = P(n) \cup {n + 1} /\ n + 1 \notin P(n)
    BY <1>3
  <2>2. Cardinality(P(n + 1)) = Cardinality(P(n)) + 1
    <3> HIDE DEF P
    <3> QED
      BY <1>1, <2>1, FS_AddElement
  <2> QED
    BY <1>1, <1>2, <1>3, <1>a, <2>2
<1>4. CASE s[n + 1] \notin W
  <2>1. P(n + 1) = P(n)
    BY <1>4
  <2>2. Cardinality(P(n)) \in Nat
    BY <1>1
  <2> HIDE DEF P
  <2> QED
    BY <1>2, <1>4, <1>a, <2>1, <2>2
<1> QED
  BY <1>3, <1>4

\* Only the first n places count.
LEMMA WithinAgrees ==
    ASSUME NEW s, NEW t, NEW n \in Nat, NEW W, \A i \in 1 .. n : s[i] = t[i]
    PROVE  Within(s, n, W) = Within(t, n, W)
<1>1. {i \in 1 .. n : s[i] \in W} = {i \in 1 .. n : t[i] \in W}
  OBVIOUS
<1> QED
  BY <1>1 DEF Within

\* One more event is one more of a set, or not.
LEMMA NumberAppend ==
    ASSUME NEW s \in Seq(AllEvents), NEW e \in AllEvents, NEW W
    PROVE  /\ Number(s, W) \in Nat
           /\ Number(Append(s, e), W) = Number(s, W) + IF e \in W THEN 1 ELSE 0
           /\ \A n \in 0 .. Len(s) : Within(Append(s, e), n, W) = Within(s, n, W)
<1> DEFINE t == Append(s, e)
           N == Len(s)
<1>1. N \in Nat /\ Len(t) = N + 1 /\ t[N + 1] = e /\ \A i \in 1 .. N : t[i] = s[i]
  BY AppendProperties, LenProperties
<1> HIDE DEF t, N
<1>2. ASSUME NEW n \in 0 .. N PROVE Within(t, n, W) = Within(s, n, W)
  <2>1. n \in Nat /\ \A i \in 1 .. n : t[i] = s[i]
    BY <1>1
  <2> QED
    BY <2>1, WithinAgrees
<1>3. Within(t, N + 1, W) = Within(t, N, W) + IF e \in W THEN 1 ELSE 0
  BY <1>1, WithinProperties
<1>4. N \in 0 .. N
  BY <1>1
<1>5. Within(s, N, W) \in Nat
  BY <1>1, WithinProperties
<1> QED
  BY <1>1, <1>2, <1>3, <1>4, <1>5 DEF Number, t, N

\* A start adds one to the calls under way, an end takes one away.
LEMMA BalanceAppend ==
    ASSUME NEW s \in Seq(AllEvents), NEW e \in AllEvents, NEW id
    PROVE  /\ Balance(id, s) \in Int
           /\ e \in Starting(id) => Balance(id, Append(s, e)) = Balance(id, s) + 1
           /\ e \in Ending(id) => Balance(id, Append(s, e)) = Balance(id, s) - 1
           /\ e \notin Starting(id) \cup Ending(id) => Balance(id, Append(s, e)) = Balance(id, s)
<1>1. Starting(id) \cap Ending(id) = {}
  BY DEF Starting, Ending, IsStart, IsOutcome
<1>2. /\ Number(s, Starting(id)) \in Nat /\ Number(s, Ending(id)) \in Nat
      /\ Number(Append(s, e), Starting(id)) = Number(s, Starting(id)) + IF e \in Starting(id) THEN 1 ELSE 0
      /\ Number(Append(s, e), Ending(id)) = Number(s, Ending(id)) + IF e \in Ending(id) THEN 1 ELSE 0
  BY NumberAppend
<1> QED
  BY <1>1, <1>2 DEF Balance

\* An event may follow unless it ends a call that is not under way.
LEMMA PairedAppend ==
    ASSUME NEW s \in Seq(AllEvents), Paired(s), NEW e \in AllEvents,
           \A id \in STRING : e \in Ending(id) => Balance(id, s) > 0
    PROVE  Paired(Append(s, e))
<1> DEFINE t == Append(s, e)
           N == Len(s)
<1>1. N \in Nat /\ Len(t) = N + 1 /\ N \in 0 .. N
  BY AppendProperties, LenProperties
<1> SUFFICES ASSUME NEW n \in 0 .. N + 1, NEW id \in STRING
             PROVE  Within(t, n, Ending(id)) <= Within(t, n, Starting(id))
  BY <1>1 DEF Paired
<1>2. /\ Number(s, Starting(id)) \in Nat /\ Number(s, Ending(id)) \in Nat
      /\ Number(t, Starting(id)) = Number(s, Starting(id)) + IF e \in Starting(id) THEN 1 ELSE 0
      /\ Number(t, Ending(id)) = Number(s, Ending(id)) + IF e \in Ending(id) THEN 1 ELSE 0
      /\ \A m \in 0 .. N : Within(t, m, Starting(id)) = Within(s, m, Starting(id))
      /\ \A m \in 0 .. N : Within(t, m, Ending(id)) = Within(s, m, Ending(id))
  BY NumberAppend
<1>5. Len(t) = N + 1
  BY <1>1
<1> HIDE DEF t, N
<1>3. CASE n \in 0 .. N
  BY <1>2, <1>3 DEF Paired, N
<1>4. CASE n = N + 1
  <2>1. PICK a \in Nat : a = Number(s, Starting(id))
    BY <1>2
  <2>2. PICK b \in Nat : b = Number(s, Ending(id))
    BY <1>2
  <2>3. b <= a
    <3>1. Number(s, Ending(id)) <= Number(s, Starting(id))
      BY <1>1 DEF Paired, Number, N
    <3> QED
      BY <2>1, <2>2, <3>1
  <2>4. Balance(id, s) = a - b
    BY <2>1, <2>2 DEF Balance
  <2>5. ASSUME e \in Ending(id) PROVE b < a
    <3>1. Balance(id, s) > 0
      BY <2>5
    <3>2. a - b > 0
      BY <2>4, <3>1
    <3> QED
      BY <3>2
  <2>6. /\ Number(t, Starting(id)) = a + IF e \in Starting(id) THEN 1 ELSE 0
        /\ Number(t, Ending(id)) = b + IF e \in Ending(id) THEN 1 ELSE 0
    BY <1>2, <2>1, <2>2
  <2>7. PICK c \in Nat : c = Number(t, Starting(id)) /\ a <= c
    <3>1. Number(t, Starting(id)) = a \/ Number(t, Starting(id)) = a + 1
      <4>1. CASE e \in Starting(id)
        <5>1. Number(t, Starting(id)) = a + 1
          BY <2>6, <4>1
        <5> QED
          BY <5>1
      <4>2. CASE e \notin Starting(id)
        <5>1. Number(t, Starting(id)) = a
          BY <2>6, <4>2
        <5> QED
          BY <5>1
      <4> QED
        BY <4>1, <4>2
    <3>2. a \in Nat /\ a + 1 \in Nat /\ a <= a /\ a <= a + 1
      OBVIOUS
    <3> QED
      BY <3>1, <3>2
  <2>8. PICK d \in Nat : d = Number(t, Ending(id)) /\ d <= a
    <3>1. CASE e \in Ending(id)
      <4>1. Number(t, Ending(id)) = b + 1
        BY <2>6, <3>1
      <4>2. b + 1 \in Nat /\ b + 1 <= a
        BY <2>5, <3>1
      <4> QED
        BY <4>1, <4>2
    <3>2. CASE e \notin Ending(id)
      <4>1. Number(t, Ending(id)) = b
        BY <2>6, <3>2
      <4> QED
        BY <2>3, <4>1
    <3> QED
      BY <3>1, <3>2
  <2>9. d <= c
    <3>1. d <= a /\ a <= c
      BY <2>7, <2>8
    <3> QED
      BY <3>1
  <2>10. Number(t, Ending(id)) <= Number(t, Starting(id))
    <3>1. d = Number(t, Ending(id)) /\ c = Number(t, Starting(id))
      BY <2>7, <2>8
    <3> QED
      BY <2>9, <3>1
  <2> QED
    BY <1>4, <1>5, <2>10 DEF Number
<1>6. n \in 0 .. N \/ n = N + 1
  BY <1>1
<1> QED
  BY <1>3, <1>4, <1>6

\* A beginning of paired events is paired.
LEMMA PairedBeginning ==
    ASSUME NEW s \in Seq(AllEvents), NEW t \in Seq(AllEvents), Paired(s \o t)
    PROVE  Paired(s)
<1> DEFINE u == s \o t
<1>1. Len(s) \in Nat /\ Len(t) \in Nat /\ Len(u) = Len(s) + Len(t) /\ \A i \in 1 .. Len(s) : u[i] = s[i]
  BY ConcatProperties, LenProperties
<1> HIDE DEF u
<1> SUFFICES ASSUME NEW n \in 0 .. Len(s), NEW id \in STRING
             PROVE  Within(s, n, Ending(id)) <= Within(s, n, Starting(id))
  BY DEF Paired
<1>2. n \in 0 .. Len(u) /\ n \in Nat /\ \A i \in 1 .. n : u[i] = s[i]
  BY <1>1
<1>3. \A W : Within(u, n, W) = Within(s, n, W)
  BY <1>2, WithinAgrees
<1> QED
  BY <1>2, <1>3 DEF Paired, u

\* No call has more ends than starts, in all.
LEMMA BalanceIsNatural ==
    ASSUME NEW s \in Seq(AllEvents), Paired(s), NEW id \in STRING
    PROVE  Balance(id, s) \in Nat
<1>1. Len(s) \in 0 .. Len(s) /\ Len(s) \in Nat
  BY LenProperties
<1>2. Number(s, Starting(id)) \in Nat /\ Number(s, Ending(id)) \in Nat
  BY <1>1, WithinProperties DEF Number
<1>3. Number(s, Ending(id)) <= Number(s, Starting(id))
  BY <1>1 DEF Paired, Number
<1>4. PICK a \in Nat : a = Number(s, Starting(id))
  BY <1>2
<1>5. PICK b \in Nat : b = Number(s, Ending(id))
  BY <1>2
<1>6. b <= a
  BY <1>3, <1>4, <1>5
<1>7. Balance(id, s) = a - b
  BY <1>4, <1>5 DEF Balance
<1> QED
  BY <1>6, <1>7

\* Events that are not of tools change nothing.
LEMMA OthersDoNoHarm ==
    ASSUME NEW s \in Seq(AllEvents), Paired(s), NEW t \in Seq(OtherEvents)
    PROVE  /\ s \o t \in Seq(AllEvents) /\ Paired(s \o t)
           /\ \A id \in STRING : Balance(id, s \o t) = Balance(id, s)
<1> DEFINE S == {u \in Seq(OtherEvents) :
                   /\ s \o u \in Seq(AllEvents) /\ Paired(s \o u)
                   /\ \A id \in STRING : Balance(id, s \o u) = Balance(id, s)}
<1>1. <<>> \in S
  BY EmptySeq, ConcatEmptySeq
<1>2. ASSUME NEW u \in Seq(OtherEvents), NEW e \in OtherEvents, u \in S
      PROVE  Append(u, e) \in S
  <2>1. u \in Seq(AllEvents) /\ e \in AllEvents
    <3>1. OtherEvents \subseteq AllEvents
      BY DEF OtherEvents
    <3> QED
      BY <3>1, SeqMonotonic
  <2> DEFINE w == s \o u
  <2>2. s \o Append(u, e) = Append(w, e) /\ w \in Seq(AllEvents) /\ Append(u, e) \in Seq(OtherEvents)
    BY <2>1, ConcatAppend, ConcatProperties, AppendProperties
  <2>3. Paired(w) /\ \A id \in STRING : Balance(id, w) = Balance(id, s)
    BY <1>2
  <2>4. \A id : e \notin Starting(id) \cup Ending(id)
    BY DEF OtherEvents, Starting, Ending, IsStart, IsOutcome
  <2> HIDE DEF w
  <2>5. Append(w, e) \in Seq(AllEvents)
    BY <2>1, <2>2, AppendProperties
  <2>6. Paired(Append(w, e))
    BY <2>1, <2>2, <2>3, <2>4, PairedAppend
  <2>7. \A id \in STRING : Balance(id, Append(w, e)) = Balance(id, s)
    BY <2>1, <2>2, <2>3, <2>4, BalanceAppend
  <2> QED
    BY <2>2, <2>5, <2>6, <2>7
<1>3. Seq(OtherEvents) \subseteq S
  <2> HIDE DEF S
  <2> QED
    BY <1>1, <1>2, SequenceInduction
<1> QED
  BY <1>3

\* Logs that are not of tools say events that are not, and a call that goes on
\* says nothing.
PlainLog == {l \in Logs : l.log # "ToolCall" \/ l.status = "Running"}

\* What such logs say.
LEMMA PlainIsOther ==
    ASSUME NEW logs \in Seq(PlainLog)
    PROVE  Converted(logs) \in Seq(OtherEvents)
<1> DEFINE S == {u \in Seq(PlainLog) : Converted(u) \in Seq(OtherEvents)}
<1>1. <<>> \in S
  BY EmptySeq, ConvertedAppend
<1>2. ASSUME NEW u \in Seq(PlainLog), NEW l \in PlainLog, u \in S PROVE Append(u, l) \in S
  <2>1. u \in Seq(Logs) /\ l \in Logs
    <3>1. PlainLog \subseteq Logs
      BY DEF PlainLog
    <3> QED
      BY <3>1, SeqMonotonic
  <2>2. Convert(l) \in Seq(OtherEvents)
    <3>1. Convert(l) \in Seq(Middle)
      BY <2>1, ConvertInMiddle
    <3>2. \A i \in 1 .. Len(Convert(l)) :
            Convert(l)[i].event \notin {"ToolCallStarted", "ToolCallCompleted", "ToolCallFailed"}
      <4>1. l.log \in {"Message", "Thinking", "Error", "TokenUsage"} \/ (l.log = "ToolCall" /\ l.status = "Running")
        <5>1. l.log \in {"Message", "Thinking", "Error"} \/ l.log = "TokenUsage" \/ l.log = "ToolCall"
          BY <2>1 DEF Logs
        <5>2. l.log = "ToolCall" => l.status = "Running"
          BY DEF PlainLog
        <5> QED
          BY <5>1, <5>2
      <4>2. CASE l.log = "Message"
        BY <4>2 DEF Convert, Event
      <4>3. CASE l.log = "Thinking"
        BY <4>3 DEF Convert, Event
      <4>4. CASE l.log = "Error"
        BY <4>4 DEF Convert, Event
      <4>5. CASE l.log = "TokenUsage"
        BY <4>5 DEF Convert
      <4>6. CASE l.log = "ToolCall" /\ l.status = "Running"
        <5>1. Convert(l) = <<>>
          BY <4>6 DEF Convert
        <5> QED
          BY <5>1
      <4> QED
        BY <4>1, <4>2, <4>3, <4>4, <4>5, <4>6
    <3>3. \A i \in 1 .. Len(Convert(l)) : Convert(l)[i] \in OtherEvents
      <4>1. \A i \in 1 .. Len(Convert(l)) : Convert(l)[i] \in AllEvents
        BY <3>1, ElementOfSeq DEF AllEvents
      <4> QED
        BY <3>2, <4>1 DEF OtherEvents
    <3>4. Len(Convert(l)) \in Nat /\ DOMAIN Convert(l) = 1 .. Len(Convert(l)) /\ Convert(l) = [i \in 1 .. Len(Convert(l)) |-> Convert(l)[i]]
      BY <3>1, LenProperties
    <3> QED
      BY <3>3, <3>4, SeqDef
  <2>3. Converted(Append(u, l)) = Converted(u) \o Convert(l)
    BY <2>1, ConvertedAppend
  <2> QED
    BY <1>2, <2>2, <2>3, ConcatProperties, AppendProperties
<1>3. Seq(PlainLog) \subseteq S
  <2> HIDE DEF S
  <2> QED
    BY <1>1, <1>2, SequenceInduction
<1> QED
  BY <1>3

\* What was said so far leaves the calls without their result.
Fits(calls, s) == s \in Seq(AllEvents) /\ Paired(s) /\ \A p \in calls : Balance(p.id, s) > 0

\* What a step of the Claude normalizer adds keeps it so.
Good(calls, o) == \A s : Fits(calls, s) => Fits(o.st.pending, s \o Converted(o.logs))

\* Good steps, one after the other.
LEMMA GoodAfter ==
    ASSUME NEW calls, NEW a \in ClaudeOuts, NEW b \in ClaudeOuts, Good(calls, a), Good(a.st.pending, b)
    PROVE  Good(calls, After(a, b))
<1>1. a.logs \in Seq(Logs) /\ b.logs \in Seq(Logs)
  BY DEF ClaudeOuts
<1>2. After(a, b).st = b.st /\ After(a, b).logs = a.logs \o b.logs
  BY DEF After, Out
<1> SUFFICES ASSUME NEW s, Fits(calls, s) PROVE Fits(b.st.pending, s \o Converted(a.logs \o b.logs))
  BY <1>2 DEF Good
<1> DEFINE x == Converted(a.logs)
           y == Converted(b.logs)
<1>3. Converted(a.logs \o b.logs) = x \o y /\ x \in Seq(AllEvents) /\ y \in Seq(AllEvents)
  BY <1>1, ConvertedConcat, SaidMore
<1>4. Fits(a.st.pending, s \o x)
  BY DEF Good
<1>5. Fits(b.st.pending, (s \o x) \o y)
  BY <1>4 DEF Good
<1>6. s \in Seq(AllEvents)
  BY DEF Fits
<1> HIDE DEF x, y
<1>7. (s \o x) \o y = s \o (x \o y)
  BY <1>3, <1>6, ConcatAssociative
<1> QED
  BY <1>3, <1>5, <1>7

\* The logs that are no calls.
LEMMA PlainLogsArePlain ==
    /\ <<>> \in Seq(PlainLog) /\ <<Message>> \in Seq(PlainLog) /\ <<Thinking>> \in Seq(PlainLog)
    /\ <<Error>> \in Seq(PlainLog)
<1>1. Message \in PlainLog /\ Thinking \in PlainLog /\ Error \in PlainLog
  BY DEF Message, Thinking, Error, Logs, PlainLog
<1>2. \A l \in PlainLog : <<l>> \in Seq(PlainLog)
  OBVIOUS
<1> QED
  BY <1>1, <1>2, EmptySeq

\* A step that adds no calls and leaves those pending is good.
LEMMA GoodPlain ==
    ASSUME NEW calls \in SUBSET Calls, NEW st, st.pending = calls, NEW logs \in Seq(PlainLog)
    PROVE  Good(calls, Out(st, logs))
<1> SUFFICES ASSUME NEW s, Fits(calls, s) PROVE Fits(calls, s \o Converted(logs))
  BY DEF Good, Out
<1>1. s \in Seq(AllEvents) /\ Paired(s) /\ \A p \in calls : Balance(p.id, s) > 0
  BY DEF Fits
<1> DEFINE t == Converted(logs)
<1>2. t \in Seq(OtherEvents)
  BY PlainIsOther
<1> HIDE DEF t
<1>3. /\ s \o t \in Seq(AllEvents) /\ Paired(s \o t)
      /\ \A id \in STRING : Balance(id, s \o t) = Balance(id, s)
  BY <1>1, <1>2, OthersDoNoHarm
<1>4. \A p \in calls : p.id \in STRING
  BY DEF Calls
<1> QED
  BY <1>1, <1>3, <1>4 DEF Fits, t

\* So is one that adds nothing.
LEMMA GoodOut ==
    ASSUME NEW calls, NEW st, NEW logs,
           \A s : Fits(calls, s) => Fits(st.pending, s \o Converted(logs))
    PROVE  Good(calls, Out(st, logs))
<1>1. Out(st, logs).st = st /\ Out(st, logs).logs = logs
  BY DEF Out
<1> QED
  BY <1>1 DEF Good

\* A log of a call is one event, or none.
CallEvent(id, status) == ToolEvent(EventOfStatus[status], id)

\* Such an event belongs to its call alone.
LEMMA CallSays ==
    ASSUME NEW id \in STRING, NEW action \in Actions, NEW status \in {"Started", "Completed", "Failed"}
    PROVE  /\ Converted(<<ToolCall(id, status, action)>>) = <<CallEvent(id, status)>>
           /\ CallEvent(id, status) \in AllEvents
           /\ \A other \in STRING :
                /\ CallEvent(id, status) \in Starting(other) <=> status = "Started" /\ other = id
                /\ CallEvent(id, status) \in Ending(other) <=> status # "Started" /\ other = id
<1> DEFINE l == ToolCall(id, status, action)
           e == CallEvent(id, status)
<1>1. l \in Logs
  BY ToolCallInLogs DEF Statuses
<1>2. Convert(l) = <<e>>
  BY DEF Convert, ToolCall, CallEvent
<1>3. /\ e.id = id
      /\ e.event = IF status = "Started" THEN "ToolCallStarted"
                   ELSE IF status = "Completed" THEN "ToolCallCompleted" ELSE "ToolCallFailed"
  BY DEF EventOfStatus, ToolEvent, CallEvent
<1>4. e \in AllEvents
  <2>1. EventOfStatus[status] \in {"ToolCallStarted", "ToolCallCompleted", "ToolCallFailed"}
    BY DEF EventOfStatus
  <2>2. e \in Middle
    BY <2>1 DEF ToolEvent, Middle, CallEvent
  <2> QED
    BY <2>2 DEF AllEvents
<1> HIDE DEF l, e
<1>5. Converted(<<l>>) = <<e>>
  <2>1. <<>> \in Seq(Logs) /\ <<l>> = Append(<<>>, l)
    BY EmptySeq
  <2>2. Converted(<<l>>) = <<>> \o Convert(l)
    BY <1>1, <2>1, ConvertedAppend
  <2>3. <<e>> \in Seq(AllEvents)
    BY <1>4
  <2> QED
    BY <1>2, <2>2, <2>3, ConcatEmptySeq
<1>6. ASSUME NEW other \in STRING
      PROVE  /\ e \in Starting(other) <=> status = "Started" /\ other = id
             /\ e \in Ending(other) <=> status # "Started" /\ other = id
  <2>1. /\ e \in Starting(other) <=> e.event = "ToolCallStarted" /\ e.id = other
        /\ e \in Ending(other) <=> e.event \in {"ToolCallCompleted", "ToolCallFailed"} /\ e.id = other
    BY <1>4 DEF Starting, Ending, IsStart, IsOutcome
  <2>2. CASE status = "Started"
    BY <1>3, <2>1, <2>2
  <2>3. CASE status = "Completed"
    BY <1>3, <2>1, <2>3
  <2>4. CASE status = "Failed"
    BY <1>3, <2>1, <2>4
  <2> QED
    BY <2>2, <2>3, <2>4
<1> QED
  BY <1>4, <1>5, <1>6 DEF l, e

\* Append, as a concatenation.
LEMMA ConcatOne ==
    ASSUME NEW A, NEW s \in Seq(A), NEW e \in A
    PROVE  s \o <<e>> = Append(s, e)
BY AppendIsConcat

\* A call that is made has started and is pending; a result is told of a
\* pending call only, which is pending no more.
LEMMA GoodBlock ==
    ASSUME NEW st \in ClaudeStates, NEW type, NEW b \in ToolBlocks
    PROVE  Good(st.pending, NormalizeBlock(st, type, b))
<1> DEFINE calls == st.pending
<1>1. b \in Blocks /\ b.id \in STRING /\ b.words \in SUBSET STRING
  BY DEF ToolBlocks, Blocks
<1>2. calls \in SUBSET Calls /\ \A c \in Calls : c.action \in Actions /\ c.id \in STRING
  BY DEF ClaudeStates, Calls
<1>3. \A logs \in Seq(PlainLog) : Good(calls, Out(st, logs))
  BY <1>2, GoodPlain
<1>4. CASE b.type = "tool_result"
  <2> DEFINE hit == {p \in calls : p.id = b.id}
  <2>1. NormalizeBlock(st, type, b) = ToolResult(st, b)
    BY <1>4 DEF NormalizeBlock
  <2>2. CASE hit = {}
    <3>1. ToolResult(st, b) = Out(st, <<>>)
      BY <2>2 DEF ToolResult
    <3> QED
      BY <1>3, <2>1, <3>1, PlainLogsArePlain
  <2>3. CASE hit # {}
    <3> DEFINE status == IF b.failed THEN "Failed" ELSE "Completed"
               rest == {q \in calls : q.id # b.id}
    <3>1. PICK p \in hit : ToolResult(st, b) = Out(Taken(st, b.id), <<ToolCall(b.id, status, p.action)>>)
      BY <2>3 DEF ToolResult
    <3> DEFINE action == p.action
               e == CallEvent(b.id, status)
               log == ToolCall(b.id, status, action)
    <3>2. p \in calls /\ p.id = b.id /\ action \in Actions
      BY <1>2, <3>1
    <3>3. Taken(st, b.id).pending = rest
      BY DEF Taken, ClaudeStates
    <3>4. status \in {"Started", "Completed", "Failed"} /\ status # "Started"
      OBVIOUS
    <3> HIDE DEF status
    <3>5. /\ Converted(<<log>>) = <<e>> /\ e \in AllEvents
          /\ \A other \in STRING : e \notin Starting(other) /\ (e \in Ending(other) <=> other = b.id)
      <4> HIDE DEF action
      <4> QED
        BY <1>1, <3>2, <3>4, CallSays
    <3> HIDE DEF e, log, hit
    <3> SUFFICES ASSUME NEW s, Fits(calls, s) PROVE Fits(rest, s \o <<e>>)
      BY <2>1, <3>1, <3>3, <3>5, GoodOut DEF log
    <3>6. s \in Seq(AllEvents) /\ Paired(s) /\ \A c \in calls : Balance(c.id, s) > 0
      BY DEF Fits
    <3>7. Balance(b.id, s) > 0
      BY <3>2, <3>6
    <3>8. Paired(Append(s, e))
      BY <3>5, <3>6, <3>7, PairedAppend
    <3>9. s \o <<e>> = Append(s, e) /\ Append(s, e) \in Seq(AllEvents)
      BY <3>5, <3>6, ConcatOne, AppendProperties
    <3>10. ASSUME NEW c \in rest PROVE Balance(c.id, Append(s, e)) > 0
      <4>1. c \in calls /\ c.id \in STRING /\ c.id # b.id
        BY <1>2
      <4>2. e \notin Starting(c.id) \cup Ending(c.id)
        BY <3>5, <4>1
      <4>3. Balance(c.id, Append(s, e)) = Balance(c.id, s)
        BY <3>5, <3>6, <4>2, BalanceAppend
      <4> QED
        BY <3>6, <4>1, <4>3
    <3> QED
      BY <3>8, <3>9, <3>10 DEF Fits
  <2> QED
    BY <2>2, <2>3
<1>5. CASE b.type = "tool_use"
  <2>1. CASE type # "assistant"
    <3>1. NormalizeBlock(st, type, b) = Out(st, <<>>)
      BY <1>5, <2>1 DEF NormalizeBlock
    <3> QED
      BY <1>3, <3>1, PlainLogsArePlain
  <2>2. CASE type = "assistant"
    <3> DEFINE action == ActionOf(b.words)
               e == CallEvent(b.id, "Started")
               log == ToolCall(b.id, "Started", action)
               more == {p \in calls : p.id # b.id} \cup {[id |-> b.id, action |-> action]}
    <3>1. action \in Actions
      BY ActionIsWord
    <3>2. NormalizeBlock(st, type, b) = Out([st EXCEPT !.pending = more], <<log>>)
      BY <1>5, <2>2 DEF NormalizeBlock, ToolUse
    <3>3. [st EXCEPT !.pending = more].pending = more
      BY DEF ClaudeStates
    <3> HIDE DEF action
    <3>4. /\ Converted(<<log>>) = <<e>> /\ e \in AllEvents
          /\ \A other \in STRING : e \notin Ending(other) /\ (e \in Starting(other) <=> other = b.id)
      BY <1>1, <3>1, CallSays
    <3> HIDE DEF e, log
    <3> SUFFICES ASSUME NEW s, Fits(calls, s) PROVE Fits(more, s \o <<e>>)
      <4> HIDE DEF more
      <4> QED
        BY <3>2, <3>3, <3>4, GoodOut
    <3>5. s \in Seq(AllEvents) /\ Paired(s) /\ \A c \in calls : Balance(c.id, s) > 0
      BY DEF Fits
    <3>6. Paired(Append(s, e))
      BY <3>4, <3>5, PairedAppend
    <3>7. s \o <<e>> = Append(s, e) /\ Append(s, e) \in Seq(AllEvents)
      BY <3>4, <3>5, ConcatOne, AppendProperties
    <3>8. ASSUME NEW c \in more PROVE Balance(c.id, Append(s, e)) > 0
      <4>1. CASE c.id = b.id
        <5>1. Balance(b.id, Append(s, e)) = Balance(b.id, s) + 1
          BY <1>1, <3>4, <3>5, BalanceAppend
        <5>2. Balance(b.id, s) \in Nat
          BY <1>1, <3>5, BalanceIsNatural
        <5>3. \A n \in Nat : n + 1 > 0
          OBVIOUS
        <5>4. Balance(b.id, s) + 1 > 0
          BY <5>2, <5>3
        <5> QED
          BY <4>1, <5>1, <5>4
      <4>2. CASE c.id # b.id
        <5>1. c \in calls /\ c.id \in STRING
          BY <1>2, <4>2
        <5>2. e \notin Starting(c.id) \cup Ending(c.id)
          BY <3>4, <4>2, <5>1
        <5>3. Balance(c.id, Append(s, e)) = Balance(c.id, s)
          BY <3>4, <3>5, <5>2, BalanceAppend
        <5> QED
          BY <3>5, <5>1, <5>3
      <4> QED
        BY <4>1, <4>2
    <3> QED
      BY <3>6, <3>7, <3>8 DEF Fits
  <2> QED
    BY <2>1, <2>2
<1>6. CASE b.type = "thinking" \/ b.type = "text"
  <2>1. PICK logs \in {<<>>, <<Thinking>>, <<Message>>} : NormalizeBlock(st, type, b) = Out(st, logs)
    BY <1>6 DEF NormalizeBlock
  <2>2. logs \in Seq(PlainLog)
    BY PlainLogsArePlain
  <2> QED
    BY <1>3, <2>1, <2>2
<1> QED
  BY <1>4, <1>5, <1>6 DEF ToolBlocks

\* By induction over the blocks.
LEMMA GoodBlocks ==
    ASSUME NEW st \in ClaudeStates, NEW type, NEW blocks \in Seq(ToolBlocks)
    PROVE  Good(st.pending, NormalizeBlocks(st, type, blocks))
<1> DEFINE N == Len(blocks)
           K == {o \in ClaudeOuts : Good(st.pending, o)}
<1>1. PICK g \in [0 .. N -> ClaudeOuts] : BlocksRun(st, type, blocks, g)
  BY NormalizeBlocksRun
<1>2. N \in Nat /\ N \in 0 .. N /\ \A i \in 1 .. N : blocks[i] \in ToolBlocks /\ i - 1 \in 0 .. N
  BY LenProperties, ElementOfSeq
<1>3. g[0] \in K
  <2>1. g[0] = Out(st, <<>>) /\ st.pending \in SUBSET Calls
    BY <1>1 DEF BlocksRun, ClaudeStates
  <2> QED
    BY <2>1, GoodPlain, PlainLogsArePlain, PlainLogs, OutInClaudeOuts
<1>4. ASSUME NEW i \in 1 .. N, g[i - 1] \in K PROVE g[i] \in K
  <2> DEFINE o == g[i - 1]
             n == NormalizeBlock(o.st, type, blocks[i])
  <2>1. o \in ClaudeOuts /\ Good(st.pending, o) /\ o.st \in ClaudeStates
    BY <1>4 DEF ClaudeOuts
  <2>2. g[i] = After(o, n)
    BY <1>1 DEF BlocksRun
  <2> HIDE DEF o
  <2>3. n \in ClaudeOuts /\ Good(o.st.pending, n)
    BY <1>2, <2>1, GoodBlock, NormalizeBlockRuns
  <2> HIDE DEF n
  <2>4. Good(st.pending, After(o, n)) /\ After(o, n) \in ClaudeOuts
    BY <2>1, <2>3, GoodAfter, AfterInOuts, ClaudeOutsAreOuts
  <2> QED
    BY <2>2, <2>4
<1>5. \A i \in 0 .. N : g[i] \in K
  <2> HIDE DEF K, N
  <2> QED
    BY <1>2, <1>3, <1>4, StaysIn
<1> QED
  BY <1>1, <1>2, <1>5 DEF BlocksRun

\* A sequence over a smaller set.
LEMMA ElementsInSeq ==
    ASSUME NEW A, NEW B, NEW s \in Seq(A), \A i \in 1 .. Len(s) : s[i] \in B
    PROVE  s \in Seq(B)
<1>1. Len(s) \in Nat /\ DOMAIN s = 1 .. Len(s) /\ s = [i \in 1 .. Len(s) |-> s[i]]
  BY LenProperties
<1> QED
  BY <1>1, SeqDef

\* A report of usage is no call.
LEMMA UsageIsPlain ==
    ASSUME NEW u \in Usages
    PROVE  UsageLogs(u) \in Seq(PlainLog)
<1> DEFINE logs == UsageLogs(u)
<1>1. logs \in Seq(Logs)
  BY UsageIsLogged
<1>2. logs = <<>> \/ \E a, b : logs = <<TokenUsage(a, b)>>
  <2>1. CASE u.kind = "none"
    BY <2>1 DEF UsageLogs
  <2>2. CASE u.kind = "number"
    BY <2>2 DEF UsageLogs
  <2>3. CASE u.kind \notin {"none", "number"}
    <3>1. \A total, limit :
            (IF total = 0 /\ limit = 0 THEN <<>> ELSE <<TokenUsage(Saturated(total), Saturated(limit))>>)
              \in {<<>>} \cup {<<TokenUsage(a, b)>> : a \in {Saturated(total)}, b \in {Saturated(limit)}}
      OBVIOUS
    <3> QED
      BY <2>3, <3>1 DEF UsageLogs
  <2> QED
    BY <2>1, <2>2, <2>3
<1> HIDE DEF logs
<1>3. ASSUME NEW i \in 1 .. Len(logs) PROVE logs[i] \in PlainLog
  <2>1. logs[i] \in Logs
    BY <1>1, ElementOfSeq
  <2>2. logs[i].log = "TokenUsage"
    <3>1. Len(<<>>) = 0 /\ Len(logs) \in Nat
      BY <1>1, EmptySeq, LenProperties
    <3>2. logs # <<>>
      BY <3>1
    <3>3. PICK a, b : logs = <<TokenUsage(a, b)>>
      BY <1>2, <3>2
    <3>4. Len(logs) = 1 /\ i = 1 /\ logs[1] = TokenUsage(a, b)
      BY <3>3
    <3> QED
      BY <3>4 DEF TokenUsage
  <2> QED
    BY <2>1, <2>2 DEF PlainLog
<1> QED
  BY <1>1, <1>3, ElementsInSeq DEF logs

\* The functions of the Claude normalizer, from the inside out.
LEMMA GoodValue ==
    ASSUME NEW st \in ClaudeStates, NEW v \in ClaudeValues
    PROVE  Good(st.pending, ProcessValue(st, v))
<1> DEFINE parsed == ParseMessage(v)
           blocks == KeptBlocks(v.blocks, v.type = "assistant")
           spentLogs == UsageLogs(v.usage) \o (IF v.isError THEN <<Error>> ELSE <<>>)
           spent == Out(st, spentLogs)
           said == NormalizeBlocks(st, v.type, parsed.blocks)
<1>1. v.blocks \in Seq(Blocks) /\ v.usage \in Usages
  BY DEF ClaudeValues
<1>2. \/ parsed = [ok |-> "error"] \/ parsed = [ok |-> "skip"]
      \/ parsed = [ok |-> "message", blocks |-> blocks]
  BY DEF ParseMessage
<1>3. blocks \in Seq(ToolBlocks)
  BY <1>1, KeptBlocksInToolBlocks
<1>4. spentLogs \in Seq(PlainLog)
  BY <1>1, UsageIsPlain, PlainLogsArePlain, ConcatProperties
<1>5. \A logs \in Seq(PlainLog) : Good(st.pending, Out(st, logs))
  <2>1. st.pending \in SUBSET Calls
    BY DEF ClaudeStates
  <2> QED
    BY <2>1, GoodPlain
<1>6. ProcessValue(st, v) =
         CASE parsed.ok = "error" -> Out(st, <<Error>>)
           [] parsed.ok = "skip" \/ v.type = "stream_event" -> Out(st, <<>>)
           [] parsed.ok = "message" /\ v.type = "system" -> Out(st, <<Message>>)
           [] parsed.ok = "message" /\ v.type = "result" -> spent
           [] OTHER -> said
  BY DEF ProcessValue
<1> HIDE DEF blocks, parsed, spentLogs
<1>7. /\ parsed.ok = "error" \/ parsed.ok = "skip" \/ parsed.ok = "message"
      /\ parsed.ok = "message" => parsed.blocks = blocks
  BY <1>2
<1>8. parsed.ok = "message" => Good(st.pending, said)
  BY <1>3, <1>7, GoodBlocks
<1>9. Good(st.pending, spent)
  BY <1>4, <1>5
<1>10. /\ Good(st.pending, Out(st, <<Error>>)) /\ Good(st.pending, Out(st, <<>>))
       /\ Good(st.pending, Out(st, <<Message>>))
  BY <1>5, PlainLogsArePlain
<1> HIDE DEF spent, said
<1> QED
  BY <1>6, <1>7, <1>8, <1>9, <1>10

\* process_line
LEMMA GoodLine ==
    ASSUME NEW st \in ClaudeStates, NEW line \in Seq(ClaudePieces)
    PROVE  Good(st.pending, ProcessLine(st, line))
<1> DEFINE calls == st.pending
           buffer == st.json \o NoBlanks(line)
           spoilt == NotUtf8 \in ToSet(line)
           empty == NoBlanks(line) = <<>>
           rest == IF IsValue(buffer) THEN ProcessValue([st EXCEPT !.json = <<>>], buffer[1].value)
                   ELSE IF IsEof(buffer) THEN Out([st EXCEPT !.json = buffer], <<>>)
                   ELSE Out([st EXCEPT !.json = JsonAfterError(buffer)], <<Error>>)
<1>1. buffer \in Seq(ClaudePieces) /\ calls \in SUBSET Calls
  BY NoBlanksInPieces, ConcatProperties DEF ClaudeStates
<1>2. ASSUME NEW b \in Seq(ClaudePieces)
      PROVE  [st EXCEPT !.json = b] \in ClaudeStates /\ [st EXCEPT !.json = b].pending = calls
  BY DEF ClaudeStates
<1>3. ProcessLine(st, line) =
        CASE spoilt -> Out(st, <<Error>>)
          [] ~spoilt /\ empty -> Out(st, <<>>)
          [] ~spoilt /\ ~empty -> rest
  BY DEF ProcessLine
<1>4. \A s, logs : s.pending = calls /\ logs \in Seq(PlainLog) => Good(calls, Out(s, logs))
  BY <1>1, GoodPlain
<1> HIDE DEF buffer
<1>5. Good(calls, rest)
  <2>1. CASE IsValue(buffer)
    <3>1. buffer[1].value \in ClaudeValues
      BY <1>1, <2>1, ValueOfPieces DEF ClaudePieces
    <3>2. [st EXCEPT !.json = <<>>] \in ClaudeStates /\ [st EXCEPT !.json = <<>>].pending = calls
      BY <1>2, EmptySeq
    <3>3. Good(calls, ProcessValue([st EXCEPT !.json = <<>>], buffer[1].value))
      BY <3>1, <3>2, GoodValue
    <3> QED
      BY <2>1, <3>3
  <2>2. Good(calls, Out([st EXCEPT !.json = buffer], <<>>))
    BY <1>1, <1>2, <1>4, PlainLogsArePlain
  <2>3. Good(calls, Out([st EXCEPT !.json = JsonAfterError(buffer)], <<Error>>))
    BY <1>2, <1>4, PlainLogsArePlain, EmptySeq DEF JsonAfterError
  <2> QED
    BY <2>1, <2>2, <2>3
<1>6. Good(calls, Out(st, <<Error>>)) /\ Good(calls, Out(st, <<>>))
  BY <1>4, PlainLogsArePlain
<1>7. spoilt \in BOOLEAN /\ empty \in BOOLEAN
  OBVIOUS
<1> HIDE DEF rest, spoilt, empty
<1> QED
  BY <1>3, <1>5, <1>6, <1>7

\* normalize, for one byte
LEMMA GoodByte ==
    ASSUME NEW st \in ClaudeStates, NEW p \in ClaudePieces
    PROVE  Good(st.pending, ClaudeByte(st, p))
<1>1. st.line \in Seq(ClaudePieces) /\ st.pending \in SUBSET Calls
  BY DEF ClaudeStates
<1>2. ASSUME NEW l \in Seq(ClaudePieces)
      PROVE  [st EXCEPT !.line = l] \in ClaudeStates /\ [st EXCEPT !.line = l].pending = st.pending
  BY DEF ClaudeStates
<1>3. CASE p = NL
  <2>1. [st EXCEPT !.line = <<>>] \in ClaudeStates /\ [st EXCEPT !.line = <<>>].pending = st.pending
    BY <1>2, EmptySeq
  <2>2. Good(st.pending, ProcessLine([st EXCEPT !.line = <<>>], st.line))
    BY <1>1, <2>1, GoodLine
  <2> QED
    BY <1>3, <2>2 DEF ClaudeByte
<1>4. CASE p # NL
  <2>1. [st EXCEPT !.line = Append(st.line, p)].pending = st.pending
    BY <1>1, <1>2, AppendProperties
  <2>2. Good(st.pending, Out([st EXCEPT !.line = Append(st.line, p)], <<>>))
    BY <1>1, <2>1, GoodPlain, PlainLogsArePlain
  <2> QED
    BY <1>4, <2>2 DEF ClaudeByte
<1> QED
  BY <1>3, <1>4

\* flush
LEMMA GoodFlush ==
    ASSUME NEW st \in ClaudeStates
    PROVE  Good(st.pending, ClaudeFlush(st))
<1> DEFINE calls == st.pending
           o == IF st.line = <<>> THEN Out(st, <<>>) ELSE ProcessLine([st EXCEPT !.line = <<>>], st.line)
           rest == IF o.st.json = <<>> THEN <<>> ELSE <<Error>>
           last == Out(o.st, rest)
<1>1. /\ st.line \in Seq(ClaudePieces) /\ [st EXCEPT !.line = <<>>] \in ClaudeStates
      /\ [st EXCEPT !.line = <<>>].pending = calls /\ calls \in SUBSET Calls
  BY EmptySeq DEF ClaudeStates
<1>2. o \in ClaudeOuts
  BY <1>1, ProcessLineRuns, PlainLogs, OutInClaudeOuts
<1>3. Good(calls, o)
  BY <1>1, GoodLine, GoodPlain, PlainLogsArePlain
<1>4. ClaudeFlush(st) = Out(ClaudeStart, o.logs \o rest)
  BY DEF ClaudeFlush
<1>5. rest \in Seq(PlainLog) /\ rest \in Seq(Logs)
  BY PlainLogs, PlainLogsArePlain
<1> HIDE DEF o, rest
<1>6. o.st \in ClaudeStates /\ o.st.pending \in SUBSET Calls
  BY <1>2 DEF ClaudeOuts, ClaudeStates
<1>7. last \in ClaudeOuts /\ Good(o.st.pending, last)
  BY <1>5, <1>6, GoodPlain, OutInClaudeOuts
<1>8. Good(calls, After(o, last))
  BY <1>2, <1>3, <1>7, GoodAfter
<1>9. After(o, last).logs = o.logs \o rest
  BY DEF After, Out
<1>10. ClaudeStart.pending = {}
  BY DEF ClaudeStart
<1> SUFFICES ASSUME NEW s, Fits(calls, s) PROVE Fits({}, s \o Converted(o.logs \o rest))
  BY <1>4, <1>10, GoodOut
<1>11. Fits(After(o, last).st.pending, s \o Converted(o.logs \o rest))
  BY <1>8, <1>9 DEF Good
<1> QED
  BY <1>11 DEF Fits

\* normalize, by induction over the bytes.
LEMMA GoodBytes ==
    ASSUME NEW s \in Seq(ClaudePieces)
    PROVE  LET o == Bytes("claude", ClaudeStart, s)
           IN  o \in ClaudeOuts /\ Good({}, o)
<1> DEFINE Result(t) == Bytes("claude", ClaudeStart, t)
           S == {t \in Seq(ClaudePieces) : Result(t) \in ClaudeOuts /\ Good({}, Result(t))}
<1>1. "claude" \in Providers /\ ClaudeStart \in States("claude") /\ ClaudeStart \in ClaudeStates
  BY EmptySeq DEF Providers, States, ClaudeStart, ClaudeStates
<1>2. PiecesOf("claude") = ClaudePieces
  BY DEF PiecesOf, Values, ClaudePieces
<1>3. <<>> \in S
  <2>1. Result(<<>>) = Out(ClaudeStart, <<>>)
    BY <1>1, BytesAppend
  <2>2. ClaudeStart.pending = {}
    BY DEF ClaudeStart
  <2> HIDE DEF Result
  <2> QED
    BY <1>1, <2>1, <2>2, GoodPlain, PlainLogsArePlain, PlainLogs, OutInClaudeOuts, EmptySeq
<1>4. ASSUME NEW t \in Seq(ClaudePieces), NEW e \in ClaudePieces, t \in S PROVE Append(t, e) \in S
  <2> DEFINE a == Result(t)
             b == ClaudeByte(a.st, e)
  <2>1. Result(Append(t, e)) = After(a, b)
    BY <1>1, <1>2, BytesAppend DEF Byte
  <2>2. a \in ClaudeOuts /\ Good({}, a)
    BY <1>4
  <2> HIDE DEF a, Result
  <2>3. a.st \in ClaudeStates
    BY <2>2 DEF ClaudeOuts
  <2>4. b \in ClaudeOuts /\ Good(a.st.pending, b)
    BY <2>3, GoodByte, ClaudeByteRuns
  <2> HIDE DEF b
  <2>5. After(a, b) \in ClaudeOuts /\ Good({}, After(a, b))
    BY <2>2, <2>4, GoodAfter, AfterInOuts, ClaudeOutsAreOuts
  <2> QED
    BY <2>1, <2>5, AppendProperties
<1>5. Seq(ClaudePieces) \subseteq S
  <2> HIDE DEF S
  <2> QED
    BY <1>3, <1>4, SequenceInduction
<1> QED
  BY <1>5

\* A sequence is its front and its last element.
LEMMA FrontLast ==
    ASSUME NEW A, NEW s \in Seq(A), s # <<>>
    PROVE  /\ Front(s) \in Seq(A) /\ Last(s) \in A /\ Len(Front(s)) = Len(s) - 1
           /\ s = Append(Front(s), Last(s)) /\ Last(s) = s[Len(s)] /\ Len(s) \in Nat \ {0}
           /\ \A i \in 1 .. Len(s) - 1 : Front(s)[i] = s[i]
<1> DEFINE n == Len(s)
           f == Front(s)
<1>1. n \in Nat \ {0} /\ \A i \in 1 .. n : s[i] \in A
  BY EmptySeq, LenProperties, ElementOfSeq
<1>2. f = SubSeq(s, 1, n - 1) /\ Last(s) = s[n]
  BY DEF Front, Last
<1> HIDE DEF n, f
<1>3. n \in 1 .. n /\ n - 1 \in Int /\ \A i \in 1 .. n - 1 : s[i] \in A
  BY <1>1
<1>4. /\ SubSeq(s, 1, n - 1) \in Seq(A)
      /\ Len(SubSeq(s, 1, n - 1)) = IF 1 <= n - 1 THEN (n - 1) - 1 + 1 ELSE 0
      /\ \A i \in 1 .. (n - 1) - 1 + 1 : SubSeq(s, 1, n - 1)[i] = s[1 + i - 1]
  BY <1>3, SubSeqProperties
<1>5. f \in Seq(A) /\ Len(f) = n - 1 /\ \A i \in 1 .. n - 1 : f[i] = s[i]
  BY <1>1, <1>2, <1>4
<1>6. Last(s) \in A
  BY <1>1, <1>2, <1>3
<1> DEFINE l == Last(s)
<1>7. l \in A /\ l = s[n]
  BY <1>2, <1>6
<1> HIDE DEF l
<1>8. /\ Append(f, l) \in Seq(A) /\ Len(Append(f, l)) = n
      /\ \A i \in 1 .. n : Append(f, l)[i] = IF i <= n - 1 THEN f[i] ELSE l
  <2>1. /\ Append(f, l) \in Seq(A) /\ Len(Append(f, l)) = Len(f) + 1
        /\ \A i \in 1 .. Len(f) + 1 : Append(f, l)[i] = IF i <= Len(f) THEN f[i] ELSE l
    BY <1>5, <1>7, AppendProperties
  <2>2. Len(f) + 1 = n
    BY <1>1, <1>5
  <2> QED
    BY <1>5, <2>1, <2>2
<1>9. ASSUME NEW i \in 1 .. n PROVE s[i] = Append(f, l)[i]
  <2>1. CASE i = n
    <3>1. ~(i <= n - 1)
      BY <1>1, <2>1
    <3> QED
      BY <1>7, <1>8, <2>1, <3>1
  <2>2. CASE i # n
    <3>1. i \in 1 .. n - 1 /\ i <= n - 1
      BY <1>1, <2>2
    <3> QED
      BY <1>5, <1>8, <3>1
  <2> QED
    BY <2>1, <2>2
<1>10. s = Append(f, l)
  BY <1>8, <1>9, SeqEqual DEF n
<1> QED
  BY <1>1, <1>2, <1>5, <1>6, <1>10 DEF n, f, l

\* What of a sequence is in a set.
OnlyIn(s, V) == Keep(s, {i \in DOMAIN s : s[i] \in V})

\* One element more.
LEMMA OnlyInAppend ==
    ASSUME NEW A, NEW V
    PROVE  /\ OnlyIn(<<>>, V) = <<>>
           /\ \A s \in Seq(A), e \in A :
                /\ OnlyIn(s, V) \in Seq(A)
                /\ OnlyIn(Append(s, e), V) = IF e \in V THEN Append(OnlyIn(s, V), e) ELSE OnlyIn(s, V)
<1>1. OnlyIn(<<>>, V) = <<>>
  BY KeepAppend DEF OnlyIn
<1>2. ASSUME NEW s \in Seq(A), NEW e \in A
      PROVE  /\ OnlyIn(s, V) \in Seq(A)
             /\ OnlyIn(Append(s, e), V) = IF e \in V THEN Append(OnlyIn(s, V), e) ELSE OnlyIn(s, V)
  <2> DEFINE t == Append(s, e)
             n == Len(s)
             W == {i \in DOMAIN t : t[i] \in V}
             U == {i \in DOMAIN s : s[i] \in V}
  <2>1. /\ n \in Nat /\ DOMAIN s = 1 .. n /\ DOMAIN t = 1 .. n + 1 /\ t[n + 1] = e
        /\ \A i \in 1 .. n : t[i] = s[i]
    BY AppendProperties, LenProperties
  <2>2. n + 1 \in W <=> e \in V
    <3> HIDE DEF t, n
    <3>1. n + 1 \in 1 .. n + 1
      BY <2>1
    <3> QED
      BY <2>1, <3>1
  <2>3. \A i \in 1 .. n : i \in W <=> i \in U
    <3> HIDE DEF t, n
    <3>1. \A i \in 1 .. n : i \in 1 .. n + 1
      BY <2>1
    <3> QED
      BY <2>1, <3>1
  <2>4. OnlyIn(t, V) = Keep(t, W) /\ OnlyIn(s, V) = Keep(s, U)
    BY DEF OnlyIn
  <2> HIDE DEF W, U
  <2>5. Keep(s, W) = Keep(s, U)
    BY <2>3, KeepAgrees
  <2>6. Keep(s, W) \in Seq(A) /\ Keep(t, W) = IF n + 1 \in W THEN Append(Keep(s, W), e) ELSE Keep(s, W)
    BY KeepAppend
  <2> HIDE DEF t, n
  <2>7. OnlyIn(t, V) = IF e \in V THEN Append(OnlyIn(s, V), e) ELSE OnlyIn(s, V)
    BY <2>2, <2>4, <2>5, <2>6
  <2> QED
    BY <2>4, <2>5, <2>6, <2>7 DEF t
<1> QED
  BY <1>1, <1>2

\* An element outside the set makes no difference.
LEMMA OnlyInOther ==
    ASSUME NEW A, NEW V, NEW s \in Seq(A), NEW e \in A, e \notin V
    PROVE  OnlyIn(Append(s, e), V) = OnlyIn(s, V)
<1>1. OnlyIn(Append(s, e), V) = IF e \in V THEN Append(OnlyIn(s, V), e) ELSE OnlyIn(s, V)
  BY OnlyInAppend
<1> QED
  BY <1>1

\* The pieces that are no blanks.
NotBlank(A) == {p \in A : p.kind \notin {"blank", "cr"}}

\* The filter of the model, in these terms.
LEMMA NoBlanksIsOnly ==
    ASSUME NEW A, NEW s \in Seq(A)
    PROVE  NoBlanks(s) = OnlyIn(s, NotBlank(A))
<1>1. DOMAIN s = 1 .. Len(s) /\ \A i \in 1 .. Len(s) : s[i] \in A
  BY LenProperties, ElementOfSeq
<1>2. \A i \in 1 .. Len(s) :
        i \in {j \in DOMAIN s : s[j].kind \notin {"blank", "cr"}} <=> i \in {j \in DOMAIN s : s[j] \in NotBlank(A)}
  BY <1>1 DEF NotBlank
<1> QED
  BY <1>2, KeepAgrees DEF NoBlanks, OnlyIn

NoEnd(s) == \A i \in DOMAIN s : s[i] # NL

\* What comes before the end of a line waits for it.
LEMMA BytesWait ==
    ASSUME NEW s \in Seq(CodexPieces), NoEnd(s)
    PROVE  Bytes("codex", <<>>, s) = Out(s, <<>>)
<1> DEFINE P == CodexPieces
           S == {t \in Seq(P) : NoEnd(t) => Bytes("codex", <<>>, t) = Out(t, <<>>)}
<1>1. "codex" \in Providers /\ <<>> \in States("codex") /\ PiecesOf("codex") = P
  BY EmptySeq DEF Providers, States, PiecesOf, Values, CodexPieces
<1>2. <<>> \in S
  BY <1>1, BytesAppend, EmptySeq
<1>3. ASSUME NEW t \in Seq(P), NEW e \in P, t \in S PROVE Append(t, e) \in S
  <2>1. Append(t, e) \in Seq(P)
    BY AppendProperties
  <2> SUFFICES ASSUME NoEnd(Append(t, e)) PROVE Bytes("codex", <<>>, Append(t, e)) = Out(Append(t, e), <<>>)
    BY <2>1
  <2>2. /\ Len(t) \in Nat /\ DOMAIN t = 1 .. Len(t) /\ DOMAIN Append(t, e) = 1 .. Len(t) + 1
        /\ Append(t, e)[Len(t) + 1] = e /\ \A i \in 1 .. Len(t) : Append(t, e)[i] = t[i]
    BY <2>1, AppendProperties, LenProperties
  <2>3. NoEnd(t) /\ e # NL
    <3>1. Len(t) + 1 \in 1 .. Len(t) + 1 /\ \A i \in 1 .. Len(t) : i \in 1 .. Len(t) + 1
      BY <2>2
    <3> QED
      BY <2>2, <3>1 DEF NoEnd
  <2>4. Bytes("codex", <<>>, t) = Out(t, <<>>)
    BY <1>3, <2>3
  <2>5. Bytes("codex", <<>>, Append(t, e)) = After(Out(t, <<>>), CodexByte(t, e))
    <3>1. Bytes("codex", <<>>, Append(t, e))
            = After(Bytes("codex", <<>>, t), Byte("codex", Bytes("codex", <<>>, t).st, e))
      BY <1>1, BytesAppend
    <3> QED
      BY <2>4, <3>1 DEF Byte, Out
  <2>6. CodexByte(t, e) = Out(Append(t, e), <<>>)
    BY <2>3 DEF CodexByte
  <2>7. <<>> \o <<>> = <<>>
    BY EmptySeq, ConcatEmptySeq
  <2> QED
    BY <2>5, <2>6, <2>7 DEF After, Out
<1>4. Seq(P) \subseteq S
  <2> HIDE DEF S, P
  <2> QED
    BY <1>2, <1>3, SequenceInduction
<1> QED
  BY <1>4

\* The first event is of no call.
LEMMA StartedIsPaired == <<Started>> \in Seq(AllEvents) /\ Paired(<<Started>>)
<1>1. Started \in AllEvents /\ Started \in OtherEvents
  <2>1. Started.event = "SessionStarted" /\ Started \in Framing
    BY DEF Started, Event, Framing
  <2> QED
    BY <2>1 DEF OtherEvents, AllEvents
<1> DEFINE e == Started
<1> HIDE DEF e
<1>2. <<e>> \in Seq(OtherEvents) /\ <<e>> \in Seq(AllEvents) /\ <<>> \in Seq(AllEvents)
  BY <1>1, EmptySeq DEF e
<1>3. Paired(<<>>)
  <2>1. Len(<<>>) = 0 /\ \A n \in 0 .. 0 : n = 0
    OBVIOUS
  <2>2. \A W : Within(<<>>, 0, W) = 0
    BY WithinProperties
  <2>3. ASSUME NEW n \in 0 .. 0, NEW id \in STRING PROVE Within(<<>>, n, Ending(id)) <= Within(<<>>, n, Starting(id))
    <3>1. n = 0
      BY <2>1
    <3>2. Within(<<>>, n, Ending(id)) = 0 /\ Within(<<>>, n, Starting(id)) = 0
      BY <2>2, <3>1
    <3> DEFINE a == Within(<<>>, n, Ending(id))
               b == Within(<<>>, n, Starting(id))
    <3>3. a = 0 /\ b = 0
      BY <3>2
    <3> HIDE DEF a, b
    <3>4. a <= b
      BY <3>3
    <3> QED
      BY <3>4 DEF a, b
  <2> QED
    BY <2>1, <2>3 DEF Paired
<1>4. Paired(<<>> \o <<e>>) /\ <<>> \o <<e>> = <<e>>
  BY <1>2, <1>3, OthersDoNoHarm, ConcatEmptySeq
<1> QED
  BY <1>2, <1>4 DEF e

\* The whole output, read in one piece and flushed, whether or not the stream
\* has come so far.
ReadOut == Bytes(provider, Start, Output)
SaidOut == <<Started>> \o Converted(ReadOut.logs \o Flush(ReadOut.st).logs)

\* A line more is read from where the others leave the normalizer.
LEMMA ReadOutRuns ==
    ASSUME TypeInv
    PROVE  /\ Start \in States(provider) /\ Output \in Seq(PiecesOf(provider))
           /\ ReadOut \in Outs(provider) /\ ReadOut.st \in States(provider) /\ ReadOut.logs \in Seq(Logs)
           /\ Flush(ReadOut.st) \in Outs(provider) /\ Flush(ReadOut.st).logs \in Seq(Logs)
           /\ SaidOut \in Seq(AllEvents)
<1>1. Output \in Seq(PiecesOf(provider)) /\ norm \in States(provider)
  BY OutputInPieces DEF TypeInv
<1>2. Start \in States(provider)
  BY <1>1, NormalizeRuns
<1>3. ReadOut \in Outs(provider)
  BY <1>1, <1>2, NormalizeRuns DEF ReadOut
<1>4. ReadOut.st \in States(provider) /\ ReadOut.logs \in Seq(Logs)
  BY <1>3 DEF Outs
<1>5. Flush(ReadOut.st) \in Outs(provider)
  BY <1>4, NormalizeRuns
<1>6. Flush(ReadOut.st).logs \in Seq(Logs)
  BY <1>5 DEF Outs
<1>7. ReadOut.logs \o Flush(ReadOut.st).logs \in Seq(Logs)
  BY <1>4, <1>6, ConcatProperties
<1>8. SaidOut \in Seq(AllEvents)
  BY <1>7, SaidMore DEF SaidOut
<1> QED
  BY <1>1, <1>2, <1>3, <1>4, <1>5, <1>6, <1>8

\* The Codex normalizer that holds nothing has nothing to flush.
LEMMA NothingToFlush == CodexFlush(<<>>).logs = <<>>
<1>1. NoBlanks(<<>>) = <<>>
  BY KeepAppend DEF NoBlanks
<1> QED
  BY <1>1 DEF CodexFlush, Out

\* Whatever the Claude CLI prints, a result is told of a call only while the
\* call waits for it.
LEMMA ClaudeIsPaired ==
    ASSUME NEW s \in Seq(ClaudePieces)
    PROVE  LET o == Bytes("claude", ClaudeStart, s)
           IN  Paired(<<Started>> \o Converted(o.logs \o ClaudeFlush(o.st).logs))
<1> DEFINE o == Bytes("claude", ClaudeStart, s)
           f == ClaudeFlush(o.st)
<1>1. o \in ClaudeOuts /\ Good({}, o)
  BY GoodBytes
<1> HIDE DEF o
<1>2. o.st \in ClaudeStates
  BY <1>1 DEF ClaudeOuts
<1>3. f \in ClaudeOuts /\ Good(o.st.pending, f)
  BY <1>2, GoodFlush, ClaudeFlushRuns
<1> HIDE DEF f
<1>4. Good({}, After(o, f))
  BY <1>1, <1>3, GoodAfter
<1>5. After(o, f).logs = o.logs \o f.logs
  BY DEF After, Out
<1>6. Fits({}, <<Started>>)
  BY StartedIsPaired DEF Fits
<1>7. Fits(After(o, f).st.pending, <<Started>> \o Converted(o.logs \o f.logs))
  BY <1>4, <1>5, <1>6 DEF Good
<1> QED
  BY <1>7 DEF Fits, o, f

\* So with the whole output.
LEMMA SaidOutIsPaired ==
    ASSUME TypeInv, provider = "claude"
    PROVE  Paired(SaidOut)
<1>1. Output \in Seq(ClaudePieces)
  BY ReadOutRuns DEF PiecesOf, Values, ClaudePieces
<1> QED
  BY <1>1, ClaudeIsPaired DEF SaidOut, ReadOut, Start, Flush

\* What is consumed, and the rest.
LEMMA OutputIsConcat ==
    ASSUME TypeInv, OutputInv
    PROVE  Output = consumed \o Wire
<1> DEFINE P == PiecesOf(provider)
           m == Len(consumed)
           k == Len(Wire)
           n == Len(Output)
           c == consumed \o Wire
<1>1. /\ Output \in Seq(P) /\ consumed \in Seq(P) /\ Wire \in Seq(P) /\ n \in Nat /\ m \in Nat
      /\ k = n - m /\ m <= n
      /\ \A i \in 1 .. k : Wire[i] = Output[m + i]
      /\ \A i \in 1 .. m : consumed[i] = Output[i]
  BY OutputInPieces, WireProperties DEF OutputInv
<1> HIDE DEF P
<1>2. /\ c \in Seq(P) /\ Len(c) = m + k
      /\ \A i \in 1 .. m + k : c[i] = IF i <= m THEN consumed[i] ELSE Wire[i - m]
  BY <1>1, ConcatProperties
<1> HIDE DEF m, n, k, c
<1>3. m + k = n
  BY <1>1
<1>4. ASSUME NEW i \in 1 .. n PROVE Output[i] = c[i]
  <2>1. CASE i <= m
    <3>1. i \in 1 .. m
      BY <1>1, <2>1
    <3> QED
      BY <1>1, <1>2, <1>3, <2>1, <3>1
  <2>2. CASE ~(i <= m)
    <3>1. i - m \in 1 .. k /\ m + (i - m) = i
      BY <1>1, <2>2
    <3> QED
      BY <1>1, <1>2, <1>3, <2>2, <3>1
  <2> QED
    BY <2>1, <2>2
<1> QED
  BY <1>1, <1>2, <1>3, <1>4, SeqEqual DEF n, c

\* The events so far are a beginning of those, and are paired if those are.
LEMMA EventsArePaired ==
    ASSUME TypeInv, StreamInv, OutputInv, Paired(SaidOut)
    PROVE  Events \in Seq(AllEvents) /\ (Events = <<>> \/ Paired(Events))
<1> DEFINE a == Read.logs
<1>0. Paired(SaidOut) /\ SaidOut \in Seq(AllEvents) /\ Events \in Seq(AllEvents)
  <2>1. Paired(SaidOut) /\ SaidOut \in Seq(AllEvents)
    BY ReadOutRuns
  <2>2. Events \in Seq(AllEvents)
    BY ConcatProperties DEF Events, TypeInv
  <2> QED
    BY <2>1, <2>2
<1>1. CASE ~emittedStarted
  BY <1>0, <1>1 DEF StreamInv
<1>2. CASE emittedStarted /\ ~finished
  <2> DEFINE more == Bytes(provider, Read.st, Wire)
             rest == more.logs \o Flush(ReadOut.st).logs
  <2>1. /\ Start \in States(provider) /\ consumed \in Seq(PiecesOf(provider))
        /\ Wire \in Seq(PiecesOf(provider)) /\ provider \in Providers
    BY ReadOutRuns, WireProperties DEF TypeInv
  <2>2. ReadOut = After(Read, more)
    BY <2>1, OutputIsConcat, BytesConcat DEF ReadOut, Read
  <2>3. ReadOut.logs = a \o more.logs
    <3> HIDE DEF more
    <3> QED
      BY <2>2 DEF After, Out
  <2>4. a \in Seq(Logs) /\ more.logs \in Seq(Logs) /\ Flush(ReadOut.st).logs \in Seq(Logs)
    <3>1. more \in Outs(provider)
      BY <2>1, ReadRuns, NormalizeRuns
    <3> HIDE DEF more
    <3> QED
      BY <3>1, ReadRuns, ReadOutRuns DEF Outs
  <2> DEFINE f == Flush(ReadOut.st).logs
             m == more.logs
  <2>5. SaidOut = <<Started>> \o Converted((a \o m) \o f)
    <3> HIDE DEF m, f
    <3> QED
      BY <2>3 DEF SaidOut, m, f
  <2>6. Events = <<Started>> \o Converted(a)
    BY <1>2 DEF StreamInv, SaidSoFar
  <2>7. a \in Seq(Logs) /\ m \in Seq(Logs) /\ f \in Seq(Logs)
    BY <2>4
  <2> HIDE DEF a, m, f
  <2>8. (a \o m) \o f = a \o (m \o f) /\ m \o f \in Seq(Logs)
    BY <2>7, ConcatAssociative, ConcatProperties
  <2>9. (<<Started>> \o Converted(a)) \o Converted(m \o f) = <<Started>> \o Converted(a \o (m \o f))
        /\ Converted(m \o f) \in Seq(AllEvents)
    BY <2>7, <2>8, SaidMore
  <2>10. Paired(Events \o Converted(m \o f))
    BY <1>0, <2>5, <2>6, <2>8, <2>9
  <2> QED
    BY <1>0, <2>9, <2>10, PairedBeginning
<1>3. CASE finished
  <2>1. consumed = Output
    BY <1>3 DEF OutputInv
  <2>2. Read = ReadOut
    BY <2>1 DEF Read, ReadOut
  <2> DEFINE e == Completed(~sawError)
  <2>3. Events = SaidOut \o <<e>>
    BY <1>3, <2>2 DEF StreamInv, SaidInAll, SaidOut
  <2>4. <<e>> \in Seq(OtherEvents)
    <3>1. e.event = "SessionCompleted" /\ e \in Framing
      BY DEF Completed, Framing
    <3>2. e \in OtherEvents
      BY <3>1 DEF OtherEvents, AllEvents
    <3> HIDE DEF e
    <3> QED
      BY <3>2
  <2> HIDE DEF e
  <2> QED
    BY <1>0, <2>3, <2>4, OthersDoNoHarm
<1> QED
  BY <1>1, <1>2, <1>3

\* Whatever the Claude CLI prints, however its output is cut into lines and
\* chunks, and whatever the hooks and the consumer do, a tool call is told to
\* be over at most as often as it was told to start, at every point of the
\* stream (pending_tools and push_tool_result_log of the Claude normalizer,
\* and the conversion to events).
THEOREM CallsArePaired == Spec => []ToolsPaired
<1>1. ASSUME TypeInv, StreamInv, OutputInv PROVE ToolsPaired
  <2> DEFINE E == Events
  <2> SUFFICES ASSUME provider = "claude",
                      NEW n \in DOMAIN E, E[n].event \in {"ToolCallCompleted", "ToolCallFailed"}
               PROVE  Cardinality({i \in 1 .. n : IsOutcome(E[n].id, E[i])})
                        <= Cardinality({i \in 1 .. n : IsStart(E[n].id, E[i])})
    BY DEF ToolsPaired
  <2>1. E \in Seq(AllEvents) /\ (E = <<>> \/ Paired(E))
    BY <1>1, SaidOutIsPaired, EventsArePaired
  <2> HIDE DEF E
  <2>2. n \in 1 .. Len(E) /\ Len(E) \in Nat
    BY <2>1, LenProperties
  <2>3. Paired(E)
    BY <2>1, <2>2, EmptySeq
  <2>4. \A i \in 1 .. Len(E) : E[i] \in AllEvents
    BY <2>1, ElementOfSeq
  <2> DEFINE id == E[n].id
  <2>5. id \in STRING
    <3>1. E[n] \in AllEvents
      BY <2>2, <2>4
    <3>2. E[n] \in [event : {"ToolCallStarted", "ToolCallCompleted", "ToolCallFailed"}, id : STRING]
      BY <3>1 DEF AllEvents, Middle, Framing
    <3> QED
      BY <3>2
  <2> HIDE DEF id
  <2>6. \A i \in 1 .. n : E[i] \in AllEvents
    <3>1. \A i \in 1 .. n : i \in 1 .. Len(E)
      BY <2>2
    <3> QED
      BY <2>4, <3>1
  <2>7. /\ {i \in 1 .. n : IsOutcome(id, E[i])} = {i \in 1 .. n : E[i] \in Ending(id)}
        /\ {i \in 1 .. n : IsStart(id, E[i])} = {i \in 1 .. n : E[i] \in Starting(id)}
    BY <2>6 DEF Ending, Starting
  <2>8. n \in 0 .. Len(E)
    BY <2>2
  <2>9. Within(E, n, Ending(id)) <= Within(E, n, Starting(id))
    BY <2>3, <2>5, <2>8 DEF Paired
  <2> QED
    BY <2>7, <2>9 DEF Within, id
<1> QED
  BY <1>1, Types, StreamIsInvariant, OutputIsInvariant, PTL

----------------------------------------------------------------------------
(* Stray lines *)

\* What is said of a value leaves the buffered bytes alone.
KeepsText(st, o) == o.st.line = st.line /\ o.st.json = st.json

\* normalize_user_content and normalize_assistant_content, for one block.
LEMMA BlockKeepsText ==
    ASSUME NEW st \in ClaudeStates, NEW type, NEW b \in ToolBlocks
    PROVE  KeepsText(st, NormalizeBlock(st, type, b))
<1> DEFINE o == NormalizeBlock(st, type, b)
<1>1. \A calls : /\ [st EXCEPT !.pending = calls].line = st.line
                   /\ [st EXCEPT !.pending = calls].json = st.json
  BY DEF ClaudeStates
<1>2. CASE b.type = "tool_result"
  <2>1. o = ToolResult(st, b)
    BY <1>2 DEF NormalizeBlock
  <2>2. o.st = st \/ o.st = Taken(st, b.id)
    BY <2>1 DEF ToolResult, Out
  <2> QED
    BY <1>1, <2>2 DEF Taken, KeepsText
<1>3. CASE b.type = "tool_use"
  <2>1. o.st = st \/ \E calls : o.st = [st EXCEPT !.pending = calls]
    BY <1>3 DEF NormalizeBlock, ToolUse, Out
  <2> QED
    BY <1>1, <2>1 DEF KeepsText
<1>4. CASE b.type = "thinking" \/ b.type = "text"
  <2>1. o.st = st
    BY <1>4 DEF NormalizeBlock, Out
  <2> QED
    BY <2>1 DEF KeepsText
<1> QED
  BY <1>2, <1>3, <1>4 DEF ToolBlocks

\* By induction over the blocks.
LEMMA BlocksKeepText ==
    ASSUME NEW st \in ClaudeStates, NEW type, NEW blocks \in Seq(ToolBlocks)
    PROVE  KeepsText(st, NormalizeBlocks(st, type, blocks))
<1> DEFINE N == Len(blocks)
           K == {o \in ClaudeOuts : KeepsText(st, o)}
<1>1. PICK g \in [0 .. N -> ClaudeOuts] : BlocksRun(st, type, blocks, g)
  BY NormalizeBlocksRun
<1>2. N \in Nat /\ N \in 0 .. N /\ \A i \in 1 .. N : blocks[i] \in ToolBlocks /\ i - 1 \in 0 .. N
  BY LenProperties, ElementOfSeq
<1>3. g[0] \in K
  <2>1. g[0] = Out(st, <<>>) /\ Out(st, <<>>) \in ClaudeOuts
    BY <1>1, PlainLogs, OutInClaudeOuts DEF BlocksRun
  <2> QED
    BY <2>1 DEF KeepsText, Out
<1>4. ASSUME NEW i \in 1 .. N, g[i - 1] \in K PROVE g[i] \in K
  <2> DEFINE o == g[i - 1]
             n == NormalizeBlock(o.st, type, blocks[i])
  <2>1. o \in ClaudeOuts /\ KeepsText(st, o) /\ o.st \in ClaudeStates
    BY <1>4 DEF ClaudeOuts
  <2>2. g[i] = After(o, n)
    BY <1>1 DEF BlocksRun
  <2> HIDE DEF o
  <2>3. n \in ClaudeOuts /\ KeepsText(o.st, n)
    BY <1>2, <2>1, BlockKeepsText, NormalizeBlockRuns
  <2> HIDE DEF n
  <2>4. After(o, n) \in ClaudeOuts /\ After(o, n).st = n.st
    BY <2>1, <2>3, AfterInOuts, ClaudeOutsAreOuts DEF After, Out
  <2>5. KeepsText(st, After(o, n))
    BY <2>1, <2>3, <2>4 DEF KeepsText
  <2> QED
    BY <2>2, <2>4, <2>5
<1>5. \A i \in 0 .. N : g[i] \in K
  <2> HIDE DEF K, N
  <2> QED
    BY <1>2, <1>3, <1>4, StaysIn
<1> QED
  BY <1>1, <1>2, <1>5 DEF BlocksRun

\* process_value
LEMMA ValueKeepsText ==
    ASSUME NEW st \in ClaudeStates, NEW v \in ClaudeValues
    PROVE  KeepsText(st, ProcessValue(st, v))
<1> DEFINE parsed == ParseMessage(v)
           blocks == KeptBlocks(v.blocks, v.type = "assistant")
           spentLogs == UsageLogs(v.usage) \o (IF v.isError THEN <<Error>> ELSE <<>>)
           spent == Out(st, spentLogs)
           said == NormalizeBlocks(st, v.type, parsed.blocks)
<1>1. v.blocks \in Seq(Blocks)
  BY DEF ClaudeValues
<1>2. \/ parsed = [ok |-> "error"] \/ parsed = [ok |-> "skip"]
      \/ parsed = [ok |-> "message", blocks |-> blocks]
  BY DEF ParseMessage
<1>3. blocks \in Seq(ToolBlocks)
  BY <1>1, KeptBlocksInToolBlocks
<1>4. \A logs : KeepsText(st, Out(st, logs))
  BY DEF KeepsText, Out
<1>5. ProcessValue(st, v) =
         CASE parsed.ok = "error" -> Out(st, <<Error>>)
           [] parsed.ok = "skip" \/ v.type = "stream_event" -> Out(st, <<>>)
           [] parsed.ok = "message" /\ v.type = "system" -> Out(st, <<Message>>)
           [] parsed.ok = "message" /\ v.type = "result" -> spent
           [] OTHER -> said
  BY DEF ProcessValue
<1> HIDE DEF blocks, parsed, spentLogs
<1>6. /\ parsed.ok = "error" \/ parsed.ok = "skip" \/ parsed.ok = "message"
      /\ parsed.ok = "message" => parsed.blocks = blocks
  BY <1>2
<1>7. parsed.ok = "message" => KeepsText(st, said)
  BY <1>3, <1>6, BlocksKeepText
<1>8. KeepsText(st, spent)
  BY <1>4
<1> HIDE DEF spent, said
<1> QED
  BY <1>4, <1>5, <1>6, <1>7, <1>8

\* A line without its end waits in the buffer of bytes, and goes to
\* process_line with it.
LEMMA ClaudeLineRead ==
    ASSUME NEW st \in ClaudeStates, st.line = <<>>, NEW s \in Seq(ClaudePieces), NoEnd(s)
    PROVE  Bytes("claude", st, Append(s, NL)) = ProcessLine(st, s)
<1> DEFINE P == ClaudePieces
           S == {t \in Seq(P) : NoEnd(t) => Bytes("claude", st, t) = Out([st EXCEPT !.line = t], <<>>)}
<1>1. "claude" \in Providers /\ st \in States("claude") /\ PiecesOf("claude") = P /\ NL \in P
  BY DEF Providers, States, PiecesOf, Values, ClaudePieces, Pieces
<1>2. \A l, k : [[st EXCEPT !.line = l] EXCEPT !.line = k] = [st EXCEPT !.line = k]
  BY DEF ClaudeStates
<1>3. \A l : [st EXCEPT !.line = l].line = l /\ [st EXCEPT !.line = <<>>] = st
  BY DEF ClaudeStates
<1>4. <<>> \o <<>> = <<>>
  BY EmptySeq, ConcatEmptySeq
<1>5. <<>> \in S
  BY <1>1, <1>3, BytesAppend, EmptySeq
<1>6. ASSUME NEW t \in Seq(P), NEW e \in P, t \in S PROVE Append(t, e) \in S
  <2>1. Append(t, e) \in Seq(P)
    BY AppendProperties
  <2> SUFFICES ASSUME NoEnd(Append(t, e))
               PROVE  Bytes("claude", st, Append(t, e)) = Out([st EXCEPT !.line = Append(t, e)], <<>>)
    BY <2>1
  <2>2. /\ Len(t) \in Nat /\ DOMAIN t = 1 .. Len(t) /\ DOMAIN Append(t, e) = 1 .. Len(t) + 1
        /\ Append(t, e)[Len(t) + 1] = e /\ \A i \in 1 .. Len(t) : Append(t, e)[i] = t[i]
    BY <2>1, AppendProperties, LenProperties
  <2>3. NoEnd(t) /\ e # NL
    <3>1. Len(t) + 1 \in 1 .. Len(t) + 1 /\ \A i \in 1 .. Len(t) : i \in 1 .. Len(t) + 1
      BY <2>2
    <3> QED
      BY <2>2, <3>1 DEF NoEnd
  <2> DEFINE w == [st EXCEPT !.line = t]
  <2>4. Bytes("claude", st, t) = Out(w, <<>>)
    BY <1>6, <2>3
  <2>5. Bytes("claude", st, Append(t, e)) = After(Out(w, <<>>), ClaudeByte(w, e))
    <3>1. Bytes("claude", st, Append(t, e))
            = After(Bytes("claude", st, t), Byte("claude", Bytes("claude", st, t).st, e))
      BY <1>1, BytesAppend
    <3>2. Byte("claude", w, e) = ClaudeByte(w, e)
      BY DEF Byte
    <3>3. Out(w, <<>>).st = w
      BY DEF Out
    <3> QED
      BY <2>4, <3>1, <3>2, <3>3
  <2>6. ClaudeByte(w, e) = Out([st EXCEPT !.line = Append(t, e)], <<>>)
    <3>1. ClaudeByte(w, e) = Out([w EXCEPT !.line = Append(w.line, e)], <<>>)
      BY <2>3 DEF ClaudeByte
    <3>2. w.line = t /\ [w EXCEPT !.line = Append(t, e)] = [st EXCEPT !.line = Append(t, e)]
      BY <1>2, <1>3
    <3> QED
      BY <3>1, <3>2
  <2> HIDE DEF w
  <2> QED
    BY <1>4, <2>5, <2>6 DEF After, Out
<1>7. Seq(P) \subseteq S
  <2> HIDE DEF S, P
  <2> QED
    BY <1>5, <1>6, SequenceInduction
<1> DEFINE w == [st EXCEPT !.line = s]
           o == ProcessLine(st, s)
<1>8. Bytes("claude", st, s) = Out(w, <<>>)
  BY <1>7
<1>9. Bytes("claude", st, Append(s, NL)) = After(Out(w, <<>>), ClaudeByte(w, NL))
  <2>1. Bytes("claude", st, Append(s, NL))
          = After(Bytes("claude", st, s), Byte("claude", Bytes("claude", st, s).st, NL))
    BY <1>1, BytesAppend
  <2>2. Byte("claude", w, NL) = ClaudeByte(w, NL)
    BY DEF Byte
  <2>3. Out(w, <<>>).st = w
    BY DEF Out
  <2> QED
    BY <1>8, <2>1, <2>2, <2>3
<1>10. ClaudeByte(w, NL) = o
  <2>1. ClaudeByte(w, NL) = ProcessLine([w EXCEPT !.line = <<>>], w.line)
    BY DEF ClaudeByte
  <2>2. w.line = s /\ [w EXCEPT !.line = <<>>] = st
    BY <1>2, <1>3
  <2> QED
    BY <2>1, <2>2
<1>11. o \in ClaudeOuts
  BY ProcessLineRuns
<1> HIDE DEF w, o
<1>12. After(Out(w, <<>>), o) = o
  <2>1. o = Out(o.st, o.logs) /\ o.logs \in Seq(Logs)
    BY <1>11 DEF ClaudeOuts, Out
  <2>2. <<>> \o o.logs = o.logs
    BY <2>1, ConcatEmptySeq
  <2> QED
    BY <2>1, <2>2 DEF After, Out
<1> QED
  BY <1>9, <1>10, <1>12 DEF o

\* Between two lines, and not within a value.
AtRest(p, st) == IF p = "claude" THEN st.line = <<>> /\ st.json = <<>> ELSE st = <<>>

\* The same, as one equation.
LEMMA OnlyInMore ==
    ASSUME NEW A, NEW V, NEW s \in Seq(A), NEW e \in A
    PROVE  OnlyIn(Append(s, e), V) = IF e \in V THEN Append(OnlyIn(s, V), e) ELSE OnlyIn(s, V)
<1>1. CASE e \in V
  BY <1>1, OnlyInAppend
<1>2. CASE e \notin V
  BY <1>2, OnlyInOther
<1> QED
  BY <1>1, <1>2

\* An element alone.
LEMMA OnlyInOne ==
    ASSUME NEW A, NEW V, NEW e \in A
    PROVE  OnlyIn(<<e>>, V) = IF e \in V THEN <<e>> ELSE <<>>
<1> DEFINE s == <<>>
<1>1. s \in Seq(A) /\ OnlyIn(s, V) = s
  BY EmptySeq, OnlyInAppend
<1>2. <<e>> = Append(s, e)
  OBVIOUS
<1> HIDE DEF s
<1>3. OnlyIn(Append(s, e), V) = IF e \in V THEN Append(OnlyIn(s, V), e) ELSE OnlyIn(s, V)
  BY <1>1, OnlyInMore
<1> QED
  BY <1>1, <1>2, <1>3 DEF s

\* Stray text of a line is no value, and no beginning of one.
LEMMA JunkIsNoBeginning ==
    ASSUME NEW x \in {Blank, Noise, NotUtf8}
    PROVE  ~IsValue(NoBlanks(<<x>>)) /\ (NoBlanks(<<x>>) # <<>> => ~IsEof(NoBlanks(<<x>>)))
<1> DEFINE n == NoBlanks(<<x>>)
           A == {x}
<1>1. n = <<>> \/ n = <<x>>
  <2>1. <<x>> \in Seq(A) /\ x \in A
    OBVIOUS
  <2>2. n = OnlyIn(<<x>>, NotBlank(A))
    BY <2>1, NoBlanksIsOnly
  <2> DEFINE V == NotBlank(A)
  <2> HIDE DEF A, V
  <2> QED
    BY <2>1, <2>2, OnlyInOne DEF V
<1>2. x.kind # "json" /\ x.kind # "opening"
  BY DEF Blank, Noise, NotUtf8
<1>3. Len(<<>>) = 0 /\ Len(<<x>>) = 1 /\ <<x>>[1] = x /\ DOMAIN <<x>> = 1 .. 1
  BY EmptySeq
<1> HIDE DEF n
<1>4. ~IsValue(n)
  BY <1>1, <1>3 DEF IsValue
<1>5. ASSUME n = <<x>>, IsEof(n) PROVE FALSE
  <2>1. Begins(n[1])
    BY <1>3, <1>5 DEF IsEof
  <2> QED
    BY <1>2, <1>3, <1>5, <2>1 DEF Begins
<1> QED
  BY <1>1, <1>4, <1>5 DEF n

\* A stray line, processed.
LEMMA JunkProcessed ==
    ASSUME NEW st \in ClaudeStates, AtRest("claude", st), NEW x \in {Blank, Noise, NotUtf8}
    PROVE  ProcessLine(st, <<x>>) \in {Out(st, <<>>), Out(st, <<Error>>)}
<1> DEFINE line == <<x>>
           n == NoBlanks(line)
<1>1. x \in ClaudePieces /\ line \in Seq(ClaudePieces) /\ line = Append(<<>>, x)
  BY DEF ClaudePieces, Pieces
<1>2. n = (IF x \in NotBlank(ClaudePieces) THEN <<x>> ELSE <<>>)
  <2> DEFINE V == NotBlank(ClaudePieces)
  <2>1. n = OnlyIn(line, V)
    BY <1>1, NoBlanksIsOnly
  <2> HIDE DEF V
  <2> QED
    BY <1>1, <2>1, OnlyInOne DEF V
<1>3. st.json = <<>> /\ [st EXCEPT !.json = <<>>] = st
  BY DEF AtRest, ClaudeStates
<1>4. n \in Seq(ClaudePieces) /\ st.json \o n = n
  BY <1>1, <1>3, NoBlanksInPieces, ConcatEmptySeq
<1>5. n # <<>> => ~IsValue(n) /\ ~IsEof(n)
  BY JunkIsNoBeginning
<1> HIDE DEF n
<1>6. ProcessLine(st, line) =
        CASE NotUtf8 \in ToSet(line) -> Out(st, <<Error>>)
          [] NotUtf8 \notin ToSet(line) /\ n = <<>> -> Out(st, <<>>)
          [] NotUtf8 \notin ToSet(line) /\ n # <<>> ->
               IF IsValue(n) THEN ProcessValue([st EXCEPT !.json = <<>>], n[1].value)
               ELSE IF IsEof(n) THEN Out([st EXCEPT !.json = n], <<>>)
               ELSE Out([st EXCEPT !.json = <<>>], <<Error>>)
  BY <1>4 DEF ProcessLine, n, JsonAfterError
<1> DEFINE spoilt == NotUtf8 \in ToSet(line)
<1>7. spoilt \in BOOLEAN
  OBVIOUS
<1> HIDE DEF spoilt, line
<1>8. CASE spoilt
  BY <1>6, <1>8 DEF spoilt, line
<1>9. CASE ~spoilt /\ n = <<>>
  BY <1>6, <1>9 DEF spoilt, line
<1>10. CASE ~spoilt /\ n # <<>>
  BY <1>3, <1>5, <1>6, <1>10 DEF spoilt, line
<1> QED
  BY <1>7, <1>8, <1>9, <1>10

\* Pieces of values are no blanks.
LEMMA TextHasNoBlanks ==
    ASSUME NEW a \in ClaudePieces, NEW b \in ClaudePieces, a.kind = "json", b.kind = "json"
    PROVE  NoBlanks(<<a, b>>) = <<a, b>>
<1> DEFINE V == NotBlank(ClaudePieces)
           t == <<a, b>>
<1>1. a \in V /\ b \in V /\ t \in Seq(ClaudePieces)
  BY DEF NotBlank
<1>2. NoBlanks(t) = OnlyIn(t, V)
  BY <1>1, NoBlanksIsOnly
<1> HIDE DEF V
<1>3. OnlyIn(<<a>>, V) = <<a>>
  BY <1>1, OnlyInOne
<1>4. <<a>> \in Seq(ClaudePieces) /\ t = Append(<<a>>, b)
  OBVIOUS
<1>5. OnlyIn(Append(<<a>>, b), V) = Append(OnlyIn(<<a>>, V), b)
  BY <1>1, <1>4, OnlyInMore
<1> QED
  BY <1>2, <1>3, <1>4, <1>5

\* A whole value on a line of its own, processed.
LEMMA WholeProcessed ==
    ASSUME NEW st \in ClaudeStates, AtRest("claude", st), NEW v \in ClaudeValues
    PROVE  ProcessLine(st, Text(v)) = ProcessValue(st, v)
<1> DEFINE a == Piece(v, 1)
           b == Piece(v, 2)
           t == <<a, b>>
<1>1. /\ a \in ClaudePieces /\ b \in ClaudePieces
      /\ a.kind = "json" /\ b.kind = "json" /\ a.value = v
  BY DEF ClaudePieces, Pieces, Piece
<1>2. Text(v) = t /\ t = Append(Append(<<>>, a), b) /\ t \in Seq(ClaudePieces)
  BY <1>1 DEF Text
<1>3. NoBlanks(t) = t
  <2> HIDE DEF a, b
  <2> QED
    BY <1>1, TextHasNoBlanks
<1>4. st.json = <<>> /\ [st EXCEPT !.json = <<>>] = st
  BY DEF AtRest, ClaudeStates
<1>5. st.json \o t = t
  BY <1>2, <1>4, ConcatEmptySeq
<1>6. IsValue(t) /\ t[1].value = v /\ t # <<>>
  BY <1>1, <1>2 DEF IsValue
<1>7. NotUtf8 \notin ToSet(t)
  <2>1. NotUtf8.kind # "json"
    BY DEF NotUtf8
  <2>2. ToSet(t) = {a, b}
    BY DEF ToSet
  <2> QED
    BY <1>1, <2>1, <2>2
<1> HIDE DEF t
<1> QED
  BY <1>2, <1>3, <1>4, <1>5, <1>6, <1>7 DEF ProcessLine

\* The value of a line that has a whole one.
LEMMA WholeHasValue ==
    ASSUME NEW line \in Seq(ClaudePieces), line = Whole(line[1].value)
    PROVE  line[1].value \in ClaudeValues
<1> DEFINE x == line[1].value
           a == Piece(x, 1)
<1>1. Len(line) = 3 /\ line[1] = a
  <2> HIDE DEF x
  <2> QED
    BY DEF Whole, Text, x
<1>2. a \in ClaudePieces
  <2>1. 1 \in 1 .. Len(line)
    BY <1>1
  <2> QED
    BY <1>1, <2>1, ElementOfSeq
<1>3. a = [kind |-> "json", value |-> x, part |-> 1]
  BY DEF Piece
<1> HIDE DEF x, a
<1>4. x \in ClaudeValues
  BY <1>2, <1>3 DEF ClaudePieces, Pieces, NL, CR, Blank, Noise, NotUtf8, Opening
<1> QED
  BY <1>4 DEF x

\* The lines that the property is about.
Neat(line) == Stray(line) \/ line = Whole(line[1].value)

\* Either leaves a Claude normalizer at rest, and a stray line where it was.
LEMMA ClaudeAtRest ==
    ASSUME NEW st \in ClaudeStates, AtRest("claude", st),
           NEW line \in Seq(ClaudePieces), line # <<>>, Neat(line)
    PROVE  LET o == Bytes("claude", st, line)
           IN  /\ AtRest("claude", o.st)
               /\ Stray(line) => o.st = st /\ o.logs \in {<<>>, <<Error>>}
<1>1. CASE Stray(line)
  <2>1. PICK x \in {Blank, Noise, NotUtf8} : line = <<x, NL>>
    BY <1>1 DEF Stray, Junk
  <2>2. x # NL /\ line = Append(<<x>>, NL) /\ <<x>> \in Seq(ClaudePieces)
    BY <2>1 DEF Blank, Noise, NotUtf8, NL, ClaudePieces, Pieces
  <2>3. NoEnd(<<x>>)
    BY <2>2 DEF NoEnd
  <2>4. Bytes("claude", st, line) = ProcessLine(st, <<x>>)
    BY <2>2, <2>3, ClaudeLineRead DEF AtRest
  <2>5. ProcessLine(st, <<x>>) \in {Out(st, <<>>), Out(st, <<Error>>)}
    BY JunkProcessed
  <2> QED
    BY <2>4, <2>5 DEF Out
<1>2. CASE ~Stray(line)
  <2> DEFINE v == line[1].value
             a == Piece(v, 1)
             b == Piece(v, 2)
             t == <<a, b>>
  <2>1. line = Whole(v) /\ Text(v) = t
    BY <1>2 DEF Neat, Text
  <2>2. line = Append(t, NL) /\ Len(line) = 3 /\ line[1] = a
    <3> HIDE DEF v
    <3> QED
      BY <2>1 DEF Whole
  <2>4. v \in ClaudeValues
    BY <2>1, WholeHasValue
  <2> HIDE DEF v
  <2>5. t \in Seq(ClaudePieces) /\ a # NL /\ b # NL
    BY <2>4 DEF Piece, ClaudePieces, Pieces, NL
  <2>6. NoEnd(t)
    BY <2>5 DEF NoEnd
  <2>7. Bytes("claude", st, line) = ProcessLine(st, t)
    BY <2>2, <2>5, <2>6, ClaudeLineRead DEF AtRest
  <2>8. Bytes("claude", st, line) = ProcessValue(st, v)
    BY <2>1, <2>4, <2>7, WholeProcessed
  <2>9. KeepsText(st, ProcessValue(st, v))
    BY <2>4, ValueKeepsText
  <2> QED
    BY <1>2, <2>8, <2>9 DEF AtRest, KeepsText
<1> QED
  BY <1>1, <1>2

\* So with the Codex normalizer.
LEMMA CodexAtRest ==
    ASSUME NEW line \in Seq(CodexPieces), line # <<>>, Neat(line)
    PROVE  LET o == Bytes("codex", <<>>, line)
           IN  /\ AtRest("codex", o.st)
               /\ Stray(line) => o.logs \in {<<>>, <<Error>>}
<1>1. \E s \in Seq(CodexPieces) : NoEnd(s) /\ line = Append(s, NL)
  <2>1. CASE Stray(line)
    <3>1. PICK x \in {Blank, Noise, NotUtf8} : line = <<x, NL>>
      BY <2>1 DEF Stray, Junk
    <3>2. x # NL /\ line = Append(<<x>>, NL) /\ <<x>> \in Seq(CodexPieces)
      BY <3>1 DEF Blank, Noise, NotUtf8, NL, CodexPieces, Pieces
    <3>3. NoEnd(<<x>>)
      BY <3>2 DEF NoEnd
    <3> QED
      BY <3>2, <3>3
  <2>2. CASE ~Stray(line)
    <3> DEFINE a == line[1]
               b == line[2]
               v == a.value
    <3>1. line = <<Piece(v, 1), Piece(v, 2), NL>>
      BY <2>2 DEF Neat, Whole, Text
    <3>2. line = <<a, b, NL>> /\ a = Piece(v, 1) /\ b = Piece(v, 2) /\ Len(line) = 3
      <4> HIDE DEF v
      <4> QED
        BY <3>1
    <3>3. a \in CodexPieces /\ b \in CodexPieces
      <4>1. 1 \in 1 .. Len(line) /\ 2 \in 1 .. Len(line)
        BY <3>2
      <4> QED
        BY <4>1, ElementOfSeq
    <3>4. a # NL /\ b # NL
      BY <3>2 DEF Piece, NL
    <3> HIDE DEF a, b
    <3>5. line = Append(<<a, b>>, NL) /\ <<a, b>> \in Seq(CodexPieces)
      BY <3>2, <3>3
    <3>6. NoEnd(<<a, b>>)
      BY <3>4 DEF NoEnd
    <3> QED
      BY <3>5, <3>6
  <2> QED
    BY <2>1, <2>2
<1>2. PICK s \in Seq(CodexPieces) : NoEnd(s) /\ line = Append(s, NL)
  BY <1>1
<1>3. Bytes("codex", <<>>, line) = After(Out(s, <<>>), CodexByte(s, NL))
  <2>1. "codex" \in Providers /\ <<>> \in States("codex") /\ PiecesOf("codex") = CodexPieces /\ NL \in CodexPieces
    BY EmptySeq DEF Providers, States, PiecesOf, Values, CodexPieces, Pieces
  <2>2. Bytes("codex", <<>>, s) = Out(s, <<>>)
    BY <1>2, BytesWait
  <2>3. Bytes("codex", <<>>, line)
          = After(Bytes("codex", <<>>, s), Byte("codex", Bytes("codex", <<>>, s).st, NL))
    BY <1>2, <2>1, BytesAppend
  <2> QED
    BY <2>2, <2>3 DEF Byte, Out
<1> DEFINE logs == IF StripCr(s) = <<>> THEN <<>> ELSE CodexLine(StripCr(s))
<1>4. CodexByte(s, NL) = Out(<<>>, logs)
  BY DEF CodexByte
<1>5. Bytes("codex", <<>>, line).st = <<>> /\ Bytes("codex", <<>>, line).logs = <<>> \o logs
  BY <1>3, <1>4 DEF After, Out
<1>6. ASSUME Stray(line) PROVE logs = <<Error>>
  <2>1. PICK x \in {Blank, Noise, NotUtf8} : line = <<x, NL>>
    BY <1>6 DEF Stray, Junk
  <2>2. s = <<x>>
    <3>1. x \in CodexPieces /\ NL \in CodexPieces
      BY DEF Blank, Noise, NotUtf8, NL, CodexPieces, Pieces
    <3>2. Len(line) = 2 /\ line[1] = x
      BY <2>1
    <3>3. /\ Len(line) = Len(s) + 1 /\ Len(s) \in Nat
          /\ \A i \in 1 .. Len(s) : line[i] = s[i]
      BY <1>2, <3>1, AppendProperties, LenProperties
    <3>4. Len(s) = 1 /\ 1 \in 1 .. Len(s)
      <4> DEFINE m == Len(s)
                 k == Len(line)
      <4>1. k = 2 /\ k = m + 1 /\ m \in Nat
        BY <3>2, <3>3
      <4> HIDE DEF m, k
      <4>2. m = 1 /\ 1 \in 1 .. m
        BY <4>1
      <4> QED
        BY <4>2 DEF m
    <3>5. s[1] = x
      BY <3>2, <3>3, <3>4
    <3> QED
      BY <1>2, <3>1, <3>4, <3>5, SeqEqual
  <2>3. StripCr(s) = s /\ s # <<>>
    <3>1. x # CR /\ Last(<<x>>) = x /\ <<x>> # <<>>
      BY DEF Last, Blank, Noise, NotUtf8, CR
    <3> QED
      BY <2>2, <3>1 DEF StripCr
  <2>4. ~IsValue(NoBlanks(s))
    BY <2>2, JunkIsNoBeginning
  <2> QED
    BY <2>3, <2>4 DEF CodexLine
<1>7. <<>> \o <<Error>> = <<Error>>
  BY EmptySeq, ConcatEmptySeq
<1> QED
  BY <1>5, <1>6, <1>7 DEF AtRest

\* The events that are no errors.
Harmless == {e \in AllEvents : ~IsError(e)}
Calm(s) == OnlyIn(s, Harmless)

\* The filter of the property, in these terms.
LEMMA NoErrorsIsCalm ==
    ASSUME NEW s \in Seq(AllEvents)
    PROVE  NoErrors(s) = Calm(s)
<1>1. DOMAIN s = 1 .. Len(s) /\ \A i \in 1 .. Len(s) : s[i] \in AllEvents
  BY LenProperties, ElementOfSeq
<1>2. \A i \in 1 .. Len(s) :
        i \in {j \in DOMAIN s : ~IsError(s[j])} <=> i \in {j \in DOMAIN s : s[j] \in Harmless}
  BY <1>1 DEF Harmless
<1> QED
  BY <1>2, KeepAgrees DEF NoErrors, Calm, OnlyIn

\* What is kept of two sequences, one after the other.
LEMMA OnlyInConcat ==
    ASSUME NEW A, NEW V, NEW s \in Seq(A), NEW t \in Seq(A)
    PROVE  OnlyIn(s \o t, V) = OnlyIn(s, V) \o OnlyIn(t, V)
<1> DEFINE S == {u \in Seq(A) : OnlyIn(s \o u, V) = OnlyIn(s, V) \o OnlyIn(u, V)}
<1>1. \A u \in Seq(A) : OnlyIn(u, V) \in Seq(A)
  <2> SUFFICES ASSUME NEW u \in Seq(A) PROVE OnlyIn(u, V) \in Seq(A)
    OBVIOUS
  <2>1. CASE u = <<>>
    BY <2>1, OnlyInAppend, EmptySeq
  <2>2. CASE u # <<>>
    <3>1. Last(u) \in A
      BY <2>2, FrontLast
    <3> QED
      BY <3>1, OnlyInAppend
  <2> QED
    BY <2>1, <2>2
<1>2. <<>> \in S
  <2>1. OnlyIn(<<>>, V) = <<>> /\ <<>> \in Seq(A)
    BY OnlyInAppend, EmptySeq
  <2>2. s \o <<>> = s /\ OnlyIn(s, V) \o <<>> = OnlyIn(s, V)
    BY <1>1, ConcatEmptySeq
  <2> QED
    BY <2>1, <2>2
<1>3. ASSUME NEW u \in Seq(A), NEW e \in A, u \in S PROVE Append(u, e) \in S
  <2> DEFINE a == OnlyIn(s, V)
             b == OnlyIn(u, V)
  <2>1. s \o Append(u, e) = Append(s \o u, e) /\ s \o u \in Seq(A) /\ Append(u, e) \in Seq(A)
    BY ConcatAppend, ConcatProperties, AppendProperties
  <2>2. a \in Seq(A) /\ b \in Seq(A) /\ OnlyIn(s \o u, V) = a \o b
    BY <1>1, <1>3
  <2>3. a \o Append(b, e) = Append(a \o b, e)
    BY <2>2, ConcatAppend
  <2>4. CASE e \in V
    <3>1. OnlyIn(Append(s \o u, e), V) = Append(OnlyIn(s \o u, V), e)
      BY <2>1, <2>4, OnlyInMore
    <3>2. OnlyIn(Append(u, e), V) = Append(b, e)
      BY <2>4, OnlyInMore
    <3> QED
      BY <2>1, <2>2, <2>3, <3>1, <3>2
  <2>5. CASE e \notin V
    <3>1. OnlyIn(Append(s \o u, e), V) = OnlyIn(s \o u, V)
      BY <2>1, <2>5, OnlyInOther
    <3>2. OnlyIn(Append(u, e), V) = b
      BY <2>5, OnlyInOther
    <3> QED
      BY <2>1, <2>2, <3>1, <3>2
  <2> QED
    BY <2>4, <2>5
<1>4. Seq(A) \subseteq S
  <2> HIDE DEF S
  <2> QED
    BY <1>2, <1>3, SequenceInduction
<1> QED
  BY <1>4

\* What logs say, calmly.
CalmLogs(logs) == Calm(Converted(logs))

\* Logs, one after the other.
LEMMA CalmLogsConcat ==
    ASSUME NEW s \in Seq(Logs), NEW t \in Seq(Logs)
    PROVE  CalmLogs(s \o t) = CalmLogs(s) \o CalmLogs(t)
<1>1. Converted(s \o t) = Converted(s) \o Converted(t)
  BY ConvertedConcat
<1>2. Converted(s) \in Seq(AllEvents) /\ Converted(t) \in Seq(AllEvents)
  BY EventsAreEvents
<1> QED
  BY <1>1, <1>2, OnlyInConcat DEF CalmLogs, Calm

\* What they say are events.
LEMMA CalmLogsAreEvents ==
    ASSUME NEW s \in Seq(Logs)
    PROVE  CalmLogs(s) \in Seq(AllEvents)
<1> DEFINE u == Converted(s)
<1>1. u \in Seq(AllEvents) /\ Started \in AllEvents
  BY EventsAreEvents DEF AllEvents, Framing, Started, Event
<1> HIDE DEF u
<1> QED
  BY <1>1, OnlyInAppend DEF CalmLogs, Calm, u

\* An error says nothing calm.
LEMMA ErrorIsNotCalm == CalmLogs(<<>>) = <<>> /\ CalmLogs(<<Error>>) = <<>>
<1> DEFINE e == Event("ErrorOccurred")
<1>1. Converted(<<>>) = <<>>
  BY ConvertedAppend
<1>2. Converted(<<Error>>) = <<e>>
  <2>1. <<>> \in Seq(Logs) /\ Error \in Logs /\ <<Error>> = Append(<<>>, Error)
    BY EmptySeq DEF Logs, Error
  <2>2. Convert(Error) = <<e>>
    BY DEF Convert, Error
  <2>3. Converted(Append(<<>>, Error)) = Converted(<<>>) \o Convert(Error)
    BY <2>1, ConvertedAppend
  <2> QED
    BY <1>1, <2>1, <2>2, <2>3
<1>3. e \in AllEvents /\ e \notin Harmless
  BY DEF AllEvents, Middle, Event, Harmless, IsError
<1>4. OnlyIn(<<e>>, Harmless) = <<>>
  <2> HIDE DEF e
  <2> QED
    BY <1>3, OnlyInOne
<1>5. OnlyIn(<<>>, Harmless) = <<>>
  BY OnlyInAppend
<1> QED
  BY <1>1, <1>2, <1>4, <1>5 DEF CalmLogs, Calm

\* For both CLIs.
LEMMA LineAtRest ==
    ASSUME NEW p \in Providers, NEW st \in States(p), AtRest(p, st),
           NEW line \in Seq(PiecesOf(p)), line # <<>>, Neat(line)
    PROVE  LET o == Bytes(p, st, line)
           IN  /\ o \in Outs(p) /\ AtRest(p, o.st)
               /\ Stray(line) => o.st = st /\ CalmLogs(o.logs) = <<>>
<1> DEFINE o == Bytes(p, st, line)
<1>1. o \in Outs(p)
  <2>1. NL \in PiecesOf(p)
    BY DEF PiecesOf, Pieces
  <2> QED
    BY <2>1, BytesAppend
<1>2. AtRest(p, o.st) /\ (Stray(line) => o.st = st /\ o.logs \in {<<>>, <<Error>>})
  <2>1. CASE p = "claude"
    <3>1. PiecesOf("claude") = ClaudePieces /\ States("claude") = ClaudeStates
      BY DEF PiecesOf, Values, ClaudePieces, States
    <3>2. st \in ClaudeStates /\ line \in Seq(ClaudePieces) /\ AtRest("claude", st)
      BY <2>1, <3>1
    <3> QED
      BY <2>1, <3>2, ClaudeAtRest
  <2>2. CASE p = "codex"
    <3>1. PiecesOf("codex") = CodexPieces /\ st = <<>>
      BY <2>2 DEF PiecesOf, Values, CodexPieces, AtRest
    <3>2. line \in Seq(CodexPieces)
      BY <2>2, <3>1
    <3>3. LET q == Bytes("codex", <<>>, line)
          IN  AtRest("codex", q.st) /\ (Stray(line) => q.logs \in {<<>>, <<Error>>})
      BY <3>2, CodexAtRest
    <3>4. AtRest("codex", o.st) /\ (Stray(line) => o.logs \in {<<>>, <<Error>>})
      BY <2>2, <3>1, <3>3
    <3> HIDE DEF o
    <3> QED
      BY <2>2, <3>1, <3>4 DEF AtRest
  <2> QED
    BY <2>1, <2>2 DEF Providers
<1> HIDE DEF o
<1>3. Stray(line) => CalmLogs(o.logs) = <<>>
  BY <1>2, ErrorIsNotCalm
<1> QED
  BY <1>1, <1>2, <1>3 DEF o

\* An output read with its stray lines, and read without them.
AllNeat(lines) == \A i \in DOMAIN lines : Neat(lines[i])
WithoutStray(lines) == Keep(lines, {i \in DOMAIN lines : ~Stray(lines[i])})
ReadClean == Bytes(provider, Start, FlattenSeq(WithoutStray(printed)))
JunkInv ==
    AllNeat(printed) =>
        /\ ReadOut.st = ReadClean.st /\ AtRest(provider, ReadOut.st)
        /\ CalmLogs(ReadOut.logs) = CalmLogs(ReadClean.logs)

\* A line more is left out, or is not.
LEMMA WithoutStrayAppend ==
    ASSUME NEW A
    PROVE  /\ WithoutStray(<<>>) = <<>>
           /\ \A s \in Seq(A) : WithoutStray(s) \in Seq(A)
           /\ \A s \in Seq(A), line \in A :
                /\ Stray(line) => WithoutStray(Append(s, line)) = WithoutStray(s)
                /\ ~Stray(line) => WithoutStray(Append(s, line)) = Append(WithoutStray(s), line)
<1> DEFINE V == {line \in A : ~Stray(line)}
<1>1. ASSUME NEW s \in Seq(A) PROVE WithoutStray(s) = OnlyIn(s, V)
  <2>1. DOMAIN s = 1 .. Len(s) /\ \A i \in 1 .. Len(s) : s[i] \in A
    BY LenProperties, ElementOfSeq
  <2>2. \A i \in 1 .. Len(s) :
          i \in {j \in DOMAIN s : ~Stray(s[j])} <=> i \in {j \in DOMAIN s : s[j] \in V}
    BY <2>1
  <2> QED
    BY <2>2, KeepAgrees DEF WithoutStray, OnlyIn
<1>2. <<>> \in Seq(A)
  BY EmptySeq
<1>3. \A line \in A : line \in V <=> ~Stray(line)
  OBVIOUS
<1> HIDE DEF V
<1>4. WithoutStray(<<>>) = <<>>
  BY <1>1, <1>2, OnlyInAppend
<1>5. ASSUME NEW s \in Seq(A) PROVE WithoutStray(s) \in Seq(A)
  <2>1. CASE s = <<>>
    BY <1>2, <1>4, <2>1
  <2>2. CASE s # <<>>
    <3>1. Last(s) \in A
      BY <2>2, FrontLast
    <3>2. OnlyIn(s, V) \in Seq(A)
      BY <3>1, OnlyInAppend
    <3> QED
      BY <1>1, <3>2
  <2> QED
    BY <2>1, <2>2
<1>6. ASSUME NEW s \in Seq(A), NEW line \in A
      PROVE  /\ Stray(line) => WithoutStray(Append(s, line)) = WithoutStray(s)
             /\ ~Stray(line) => WithoutStray(Append(s, line)) = Append(WithoutStray(s), line)
  <2>1. Append(s, line) \in Seq(A)
    BY AppendProperties
  <2>2. WithoutStray(Append(s, line)) = OnlyIn(Append(s, line), V) /\ WithoutStray(s) = OnlyIn(s, V)
    BY <1>1, <2>1
  <2>3. CASE Stray(line)
    BY <1>3, <2>2, <2>3, OnlyInOther
  <2>4. CASE ~Stray(line)
    <3>1. line \in V
      BY <1>3, <2>4
    <3>2. OnlyIn(Append(s, line), V) = Append(OnlyIn(s, V), line)
      BY <3>1, OnlyInMore
    <3> QED
      BY <2>2, <2>4, <3>2
  <2> QED
    BY <2>3, <2>4
<1> QED
  BY <1>4, <1>5, <1>6

\* Nothing printed, nothing between the two.
LEMMA JunkInvInit == Init => JunkInv
<1> SUFFICES ASSUME Init PROVE JunkInv
  OBVIOUS
<1>1. printed = <<>> /\ provider \in Providers
  BY DEF Init
<1>2. Output = <<>>
  BY <1>1, FlattenAppend DEF Output
<1>3. FlattenSeq(WithoutStray(printed)) = <<>>
  BY <1>1, WithoutStrayAppend, FlattenAppend
<1>4. ReadOut = ReadClean
  BY <1>2, <1>3 DEF ReadOut, ReadClean
<1>5. Start \in States(provider) /\ AtRest(provider, Start)
  BY <1>1, EmptySeq DEF Start, States, ClaudeStart, ClaudeStates, CodexStart, AtRest, Providers
<1>6. ReadOut = Out(Start, <<>>)
  BY <1>1, <1>2, <1>5, BytesAppend DEF ReadOut
<1> QED
  BY <1>4, <1>5, <1>6 DEF JunkInv, Out

\* A line that the CLI prints.
LEMMA LineOfPieces ==
    ASSUME TypeInv, CliPrints
    PROVE  \E line \in Seq(PiecesOf(provider)) : line # <<>> /\ Prints(line)
<1>1. CASE \E line \in Junk \cup Openings : Prints(line)
  <2>1. PICK x \in {Blank, Noise, NotUtf8} \cup {Opening(takes) : takes \in BOOLEAN} : Prints(<<x, NL>>)
    BY <1>1 DEF Junk, Openings
  <2>2. x \in PiecesOf(provider) /\ NL \in PiecesOf(provider)
    BY DEF PiecesOf, Pieces
  <2>3. <<x, NL>> \in Seq(PiecesOf(provider)) /\ <<x, NL>> # <<>>
    <3> DEFINE P == PiecesOf(provider)
    <3> HIDE DEF P
    <3> QED
      BY <2>2 DEF P
  <2> QED
    BY <2>1, <2>3
<1>2. CASE provider = "claude" /\ \E line \in ClaudeLines : Prints(line)
  <2>1. PiecesOf(provider) = Pieces(ClaudeValues)
    BY <1>2 DEF PiecesOf, Values
  <2> QED
    BY <1>2, <2>1, LinesAssumption
<1>3. CASE provider = "codex" /\ \E line \in CodexLines : Prints(line)
  <2>1. PiecesOf(provider) = Pieces(CodexValues)
    BY <1>3 DEF PiecesOf, Values
  <2> QED
    BY <1>3, <2>1, LinesAssumption
<1> QED
  BY <1>1, <1>2, <1>3 DEF CliPrints

\* A line more.
LEMMA PrintsStaysCalm ==
    ASSUME TypeInv, TypeInv', JunkInv, CliPrints
    PROVE  JunkInv'
<1> DEFINE p == provider
           P == PiecesOf(p)
           a == ReadOut
           c == ReadClean
           clean == FlattenSeq(WithoutStray(printed))
<1>1. PICK line \in Seq(P) : line # <<>> /\ Prints(line)
  BY LineOfPieces
<1>2. provider' = p /\ printed' = Append(printed, line) /\ Start' = Start
  BY <1>1 DEF Prints, Start
<1>3. p \in Providers /\ Start \in States(p) /\ Output \in Seq(P) /\ printed \in Seq(Seq(P))
  BY ReadOutRuns DEF TypeInv
<1>4. /\ Len(printed) \in Nat /\ DOMAIN printed = 1 .. Len(printed)
      /\ DOMAIN printed' = 1 .. Len(printed) + 1 /\ printed'[Len(printed) + 1] = line
      /\ \A i \in 1 .. Len(printed) : printed'[i] = printed[i]
  <2> DEFINE A == Seq(P)
  <2>1. printed \in Seq(A) /\ line \in A
    BY <1>3
  <2> HIDE DEF A
  <2> QED
    BY <1>2, <2>1, AppendProperties, LenProperties
<1> SUFFICES ASSUME AllNeat(printed') PROVE /\ ReadOut'.st = ReadClean'.st /\ AtRest(p, ReadOut'.st)
                                            /\ CalmLogs(ReadOut'.logs) = CalmLogs(ReadClean'.logs)
  BY <1>2 DEF JunkInv, AllNeat
<1>5. AllNeat(printed) /\ Neat(line)
  <2>1. Len(printed) + 1 \in 1 .. Len(printed) + 1 /\ \A i \in 1 .. Len(printed) : i \in 1 .. Len(printed) + 1
    BY <1>4
  <2> QED
    BY <1>4, <2>1 DEF AllNeat
<1>6. a.st = c.st /\ AtRest(p, a.st) /\ CalmLogs(a.logs) = CalmLogs(c.logs)
  BY <1>5 DEF JunkInv
<1>7. WithoutStray(printed) \in Seq(Seq(P)) /\ clean \in Seq(P)
  <2>1. WithoutStray(printed) \in Seq(Seq(P))
    BY <1>3, WithoutStrayAppend
  <2>2. <<>> \in Seq(P)
    BY EmptySeq
  <2> QED
    BY <2>1, <2>2, FlattenAppend
<1>8. a \in Outs(p) /\ c \in Outs(p)
  <2>1. c = Bytes(p, Start, clean)
    BY DEF ReadClean
  <2>2. c \in Outs(p)
    BY <1>3, <1>7, <2>1, NormalizeRuns
  <2> QED
    BY <2>2, ReadOutRuns
<1>9. a.st \in States(p) /\ a.logs \in Seq(Logs) /\ c.logs \in Seq(Logs)
  <2> HIDE DEF a, c
  <2> QED
    BY <1>8 DEF Outs
<1> DEFINE o == Bytes(p, a.st, line)
<1>10. /\ o \in Outs(p) /\ AtRest(p, o.st)
       /\ Stray(line) => o.st = a.st /\ CalmLogs(o.logs) = <<>>
  BY <1>1, <1>3, <1>5, <1>6, <1>9, LineAtRest
<1>11. ReadOut' = After(a, o)
  <2>1. Output' = Output \o line
    BY <1>2, <1>3, FlattenAppend DEF Output
  <2>2. Bytes(p, Start, Output \o line) = After(Bytes(p, Start, Output), Bytes(p, Bytes(p, Start, Output).st, line))
    BY <1>3, BytesConcat
  <2>3. ReadOut' = Bytes(p, Start, Output \o line)
    BY <1>2, <2>1 DEF ReadOut
  <2> QED
    BY <2>2, <2>3 DEF ReadOut
<1>12. Stray(line) => ReadClean' = c
  <2> SUFFICES ASSUME Stray(line) PROVE ReadClean' = c
    OBVIOUS
  <2>1. WithoutStray(Append(printed, line)) = WithoutStray(printed)
    BY <1>3, WithoutStrayAppend
  <2>2. ReadClean' = Bytes(p, Start, FlattenSeq(WithoutStray(Append(printed, line))))
    BY <1>2 DEF ReadClean, WithoutStray
  <2> QED
    BY <2>1, <2>2 DEF ReadClean
<1>13. ~Stray(line) => ReadClean' = After(c, o)
  <2> SUFFICES ASSUME ~Stray(line) PROVE ReadClean' = After(c, o)
    OBVIOUS
  <2>1. WithoutStray(Append(printed, line)) = Append(WithoutStray(printed), line)
    BY <1>3, WithoutStrayAppend
  <2>2. ReadClean' = Bytes(p, Start, FlattenSeq(WithoutStray(Append(printed, line))))
    BY <1>2 DEF ReadClean, WithoutStray
  <2>3. FlattenSeq(Append(WithoutStray(printed), line)) = clean \o line
    BY <1>7, FlattenAppend
  <2>4. Bytes(p, Start, clean \o line) = After(Bytes(p, Start, clean), Bytes(p, Bytes(p, Start, clean).st, line))
    BY <1>3, <1>7, BytesConcat
  <2> QED
    BY <1>6, <2>1, <2>2, <2>3, <2>4 DEF ReadClean
<1>14. o.logs \in Seq(Logs)
  <2> HIDE DEF o
  <2> QED
    BY <1>10 DEF Outs
<1> HIDE DEF a, c, o
<1>15. ReadOut'.st = o.st /\ ReadOut'.logs = a.logs \o o.logs
  BY <1>11 DEF After, Out
<1>16. CalmLogs(a.logs \o o.logs) = CalmLogs(a.logs) \o CalmLogs(o.logs)
  BY <1>9, <1>14, CalmLogsConcat
<1>17. CASE Stray(line)
  <2>1. CalmLogs(a.logs) \o <<>> = CalmLogs(a.logs)
    BY <1>9, CalmLogsAreEvents, ConcatEmptySeq
  <2> QED
    BY <1>6, <1>10, <1>12, <1>15, <1>16, <1>17, <2>1
<1>18. CASE ~Stray(line)
  <2>1. ReadClean'.st = o.st /\ ReadClean'.logs = c.logs \o o.logs
    <3>1. ReadClean' = After(c, o)
      BY <1>13, <1>18
    <3> QED
      BY <3>1 DEF After, Out
  <2>2. CalmLogs(c.logs \o o.logs) = CalmLogs(c.logs) \o CalmLogs(o.logs)
    BY <1>9, <1>14, CalmLogsConcat
  <2> QED
    BY <1>6, <1>10, <1>15, <1>16, <2>1, <2>2
<1> QED
  BY <1>17, <1>18

\* Only printing changes what is printed.
LEMMA StaysCalm == Spec => []JunkInv
<1>1. ASSUME TypeInv, TypeInv', JunkInv, [Next]_vars PROVE JunkInv'
  <2>1. CASE CliPrints
    BY <1>1, <2>1, PrintsStaysCalm
  <2>2. ASSUME UNCHANGED <<provider, printed>> PROVE JunkInv'
    <3>1. Start' = Start /\ Output' = Output /\ WithoutStray(printed)' = WithoutStray(printed)
      BY <2>2 DEF Start, Output, WithoutStray
    <3>2. ReadOut' = ReadOut /\ ReadClean' = ReadClean
      BY <2>2, <3>1 DEF ReadOut, ReadClean
    <3>3. AllNeat(printed)' = AllNeat(printed)
      BY <2>2 DEF AllNeat
    <3> QED
      BY <1>1, <2>2, <3>2, <3>3 DEF JunkInv
  <2>3. CASE CliEnds \/ EmitStarted \/ PullChunk \/ PullEnd \/ Pop \/ HandOver \/ UNCHANGED vars
    BY <2>2, <2>3 DEF CliEnds, EmitStarted, PullChunk, PullEnd, Pop, HandOver, vars, cliVars, streamVars
  <2>4. ASSUME NEW h \in Hooks, HookReturns(h) \/ \E type \in HookTypes : Register(h, type)
        PROVE  JunkInv'
    BY <2>2, <2>4 DEF HookReturns, Register, cliVars, streamVars
  <2> QED
    BY <1>1, <2>1, <2>3, <2>4 DEF Next, Over
<1> QED
  BY <1>1, JunkInvInit, Types, PTL DEF Spec

\* What is between the first and the last.
LEMMA Between ==
    ASSUME NEW A, NEW s \in Seq(A), NEW a \in A, NEW z \in A
    PROVE  LET t == (<<a>> \o s) \o <<z>> IN SubSeq(t, 2, Len(t) - 1) = s
<1> DEFINE n == Len(s)
           u == <<a>> \o s
           t == u \o <<z>>
           m == SubSeq(t, 2, Len(t) - 1)
<1>1. n \in Nat /\ <<a>> \in Seq(A) /\ Len(<<a>>) = 1 /\ <<z>> \in Seq(A) /\ Len(<<z>>) = 1
  BY LenProperties
<1> HIDE DEF n
<1>2. u \in Seq(A) /\ Len(u) = n + 1 /\ \A i \in 1 .. n : u[i + 1] = s[i]
  <2>1. u \in Seq(A) /\ Len(u) = 1 + n /\ \A i \in 1 .. 1 + n : u[i] = IF i <= 1 THEN <<a>>[i] ELSE s[i - 1]
    BY <1>1, ConcatProperties DEF n
  <2> HIDE DEF u
  <2>2. \A i \in 1 .. n : i + 1 \in 1 .. 1 + n /\ ~(i + 1 <= 1) /\ (i + 1) - 1 = i
    BY <1>1
  <2> QED
    BY <1>1, <2>1, <2>2
<1> HIDE DEF u
<1>3. t \in Seq(A) /\ Len(t) = n + 2 /\ \A i \in 1 .. n + 1 : t[i] = u[i]
  <2>1. t \in Seq(A) /\ Len(t) = (n + 1) + 1 /\ \A i \in 1 .. (n + 1) + 1 : t[i] = IF i <= n + 1 THEN u[i] ELSE <<z>>[i - (n + 1)]
    BY <1>1, <1>2, ConcatProperties
  <2> HIDE DEF t
  <2>2. \A i \in 1 .. n + 1 : i \in 1 .. (n + 1) + 1 /\ i <= n + 1
    BY <1>1
  <2> QED
    BY <1>1, <2>1, <2>2
<1> HIDE DEF t
<1>4. Len(t) - 1 = n + 1 /\ n + 1 \in Int /\ 2 \in Int
  BY <1>1, <1>3
<1>5. m \in Seq(A) /\ Len(m) = n /\ \A i \in 1 .. n : m[i] = t[i + 1]
  <2> DEFINE r == SubSeq(t, 2, n + 1)
  <2>1. \A i \in 2 .. n + 1 : t[i] \in A
    <3>1. \A i \in 2 .. n + 1 : i \in 1 .. Len(t)
      BY <1>1, <1>3
    <3> QED
      BY <1>3, <3>1, ElementOfSeq
  <2>2. r \in Seq(A)
    BY <1>1, <1>3, <2>1, SubSeqProperties
  <2>3. Len(r) = IF 2 <= n + 1 THEN (n + 1) - 2 + 1 ELSE 0
    BY <1>1, <1>3, SubSeqProperties
  <2>4. \A i \in 1 .. (n + 1) - 2 + 1 : r[i] = t[2 + i - 1]
    BY <1>1, <1>3, SubSeqProperties
  <2> HIDE DEF r
  <2>5. Len(r) = n /\ (n + 1) - 2 + 1 = n /\ \A i \in 1 .. n : 2 + i - 1 = i + 1
    BY <1>1, <2>3
  <2> QED
    BY <1>4, <2>2, <2>4, <2>5 DEF r
<1> HIDE DEF m
<1>6. \A i \in 1 .. n : m[i] = s[i]
  <2>1. \A i \in 1 .. n : i + 1 \in 1 .. n + 1
    BY <1>1
  <2> QED
    BY <1>2, <1>3, <1>5, <2>1
<1>7. m = s
  BY <1>5, <1>6, SeqEqual DEF n
<1> QED
  BY <1>7 DEF m, t, u

\* Nothing is held between two lines.
LEMMA NothingHeld ==
    ASSUME TypeInv, NEW st \in States(provider), AtRest(provider, st)
    PROVE  Flush(st).logs = <<>>
<1>1. CASE provider = "claude"
  <2>1. st.line = <<>> /\ st.json = <<>>
    BY <1>1 DEF AtRest
  <2>2. Out(st, <<>>).logs = <<>> /\ Out(st, <<>>).st = st /\ <<>> \o <<>> = <<>>
    BY EmptySeq, ConcatEmptySeq DEF Out
  <2>3. ClaudeFlush(st) = Out(ClaudeStart, <<>>)
    BY <2>1, <2>2 DEF ClaudeFlush
  <2> QED
    BY <1>1, <2>3 DEF Flush, Out
<1>2. CASE provider = "codex"
  BY <1>2, NothingToFlush DEF Flush, AtRest
<1> QED
  BY <1>1, <1>2 DEF TypeInv, Providers

\* A stray line (of blanks, of text that is not JSON, or of bytes that are not
\* UTF-8) between lines with whole values costs nothing but an error: the other
\* events of a stream that is over are those of the same output without it
\* (process_line and normalize_line of the normalizers, json_buffer.clear()).
THEOREM StrayLinesDoNoHarm == Spec => []JunkDoesNoHarm
<1>1. ASSUME TypeInv, StreamInv, OutputInv, JunkInv PROVE JunkDoesNoHarm
  <2> DEFINE m == Converted(ReadOut.logs)
             clean == FlattenSeq(WithoutStray(printed))
  <2> SUFFICES ASSUME finished, AllNeat(printed)
               PROVE  NoErrors(SubSeq(Events, 2, Len(Events) - 1))
                        = NoErrors(Converted(Normalize(Start, clean).logs))
    BY DEF JunkDoesNoHarm, AllNeat, Neat, WithoutStray, Converted
  <2>1. ReadOut \in Outs(provider) /\ ReadOut.st \in States(provider) /\ ReadOut.logs \in Seq(Logs)
    BY <1>1, ReadOutRuns
  <2>2. /\ ReadOut.st = ReadClean.st /\ AtRest(provider, ReadOut.st)
        /\ CalmLogs(ReadOut.logs) = CalmLogs(ReadClean.logs)
    BY <1>1 DEF JunkInv
  <2>3. Flush(ReadOut.st).logs = <<>> /\ ReadOut.logs \o <<>> = ReadOut.logs
    BY <1>1, <2>1, <2>2, NothingHeld, ConcatEmptySeq
  <2>4. Read = ReadOut
    BY <1>1 DEF OutputInv, Read, ReadOut
  <2>5. Events = (<<Started>> \o m) \o <<Completed(~sawError)>>
    BY <1>1, <2>3, <2>4 DEF StreamInv, SaidInAll
  <2>6. m \in Seq(AllEvents) /\ Started \in AllEvents /\ Completed(~sawError) \in AllEvents
    <3>1. Started \in AllEvents
      BY DEF AllEvents, Framing, Started, Event
    <3>2. Completed(~sawError) \in AllEvents
      BY DEF AllEvents, Framing, Completed
    <3> QED
      BY <2>1, <3>1, <3>2, EventsAreEvents
  <2> HIDE DEF m
  <2>7. SubSeq(Events, 2, Len(Events) - 1) = m
    BY <2>5, <2>6, Between
  <2>8. Normalize(Start, clean) = ReadClean /\ ReadClean.logs \in Seq(Logs)
    <3>1. WithoutStray(printed) \in Seq(Seq(PiecesOf(provider)))
      BY <1>1, WithoutStrayAppend DEF TypeInv
    <3>2. <<>> \in Seq(PiecesOf(provider))
      BY EmptySeq
    <3>3. clean \in Seq(PiecesOf(provider))
      BY <3>1, <3>2, FlattenAppend
    <3>4. Start \in States(provider)
      BY <1>1, ReadOutRuns
    <3>5. Normalize(Start, clean) = ReadClean
      BY <1>1, <3>4, NormalizeRuns DEF ReadClean
    <3>6. ReadClean \in Outs(provider)
      BY <1>1, <3>3, <3>4, NormalizeRuns DEF ReadClean
    <3> QED
      BY <3>5, <3>6 DEF Outs
  <2>9. Converted(ReadClean.logs) \in Seq(AllEvents)
    BY <2>8, EventsAreEvents
  <2>10. NoErrors(m) = Calm(m) /\ NoErrors(Converted(ReadClean.logs)) = Calm(Converted(ReadClean.logs))
    BY <2>6, <2>9, NoErrorsIsCalm
  <2> QED
    BY <2>2, <2>7, <2>8, <2>10 DEF CalmLogs, m
<1> QED
  BY <1>1, Types, StreamIsInvariant, OutputIsInvariant, StaysCalm, PTL

----------------------------------------------------------------------------
(* After an unfinished value *)

\* Every line has something in it, and each but the last one has an end.
LinesEnd ==
    \A i \in 1 .. Len(printed) :
        printed[i] # <<>> /\ (i < Len(printed) => Last(printed[i]) = NL)

LEMMA LinesHaveEnds == Spec => []LinesEnd
<1>1. Init => LinesEnd
  <2> SUFFICES ASSUME Init PROVE LinesEnd
    OBVIOUS
  <2>1. Len(printed) = 0
    BY EmptySeq DEF Init
  <2> QED
    BY <2>1 DEF LinesEnd
<1>2. ASSUME TypeInv, LinesEnd, [Next]_vars PROVE LinesEnd'
  <2>1. CASE CliPrints
    <3>1. PICK line \in Seq(PiecesOf(provider)) : line # <<>> /\ Prints(line)
      BY <1>2, <2>1, LineOfPieces
    <3> DEFINE A == Seq(PiecesOf(provider))
               n == Len(printed)
               t == Append(printed, line)
    <3>2. printed' = t /\ (printed # <<>> => Last(Last(printed)) = NL) /\ printed \in Seq(A) /\ line \in A
      BY <1>2, <3>1 DEF Prints, TypeInv
    <3>3. printed # <<>> => Last(printed) = printed[n]
      BY DEF Last
    <3>4. n > 0 => printed # <<>>
      BY EmptySeq
    <3>5. \A i \in 1 .. n : printed[i] # <<>> /\ (i < n => Last(printed[i]) = NL)
      BY <1>2 DEF LinesEnd
    <3> HIDE DEF A
    <3>6. /\ n \in Nat /\ Len(t) = n + 1 /\ t[n + 1] = line
          /\ \A i \in 1 .. n : t[i] = printed[i]
      BY <3>2, AppendProperties, LenProperties
    <3> HIDE DEF t, n
    <3>7. ASSUME NEW i \in 1 .. n + 1
          PROVE  t[i] # <<>> /\ (i < n + 1 => Last(t[i]) = NL)
      <4>1. CASE i = n + 1
        BY <3>1, <3>6, <4>1
      <4>2. CASE i # n + 1
        <5>1. i \in 1 .. n /\ n > 0 /\ (i < n \/ i = n)
          BY <3>6, <4>2
        <5> QED
          BY <3>2, <3>3, <3>4, <3>5, <3>6, <5>1
      <4> QED
        BY <4>1, <4>2
    <3> QED
      BY <3>2, <3>6, <3>7 DEF LinesEnd
  <2>2. CASE UNCHANGED printed
    BY <1>2, <2>2 DEF LinesEnd
  <2>3. CASE CliEnds \/ EmitStarted \/ PullChunk \/ PullEnd \/ Pop \/ HandOver \/ UNCHANGED vars
    BY <2>2, <2>3 DEF CliEnds, EmitStarted, PullChunk, PullEnd, Pop, HandOver, vars, cliVars, streamVars
  <2>4. ASSUME NEW h \in Hooks, HookReturns(h) \/ \E type \in HookTypes : Register(h, type)
        PROVE  LinesEnd'
    BY <2>2, <2>4 DEF HookReturns, Register, cliVars, streamVars
  <2> QED
    BY <1>2, <2>1, <2>3, <2>4 DEF Next, Over
<1> QED
  BY <1>1, <1>2, Types, PTL DEF Spec

\* What process_line leaves: no bytes, and what it takes a value for leaves no
\* JSON.
LEMMA LineTaken ==
    ASSUME NEW st \in ClaudeStates, st.line = <<>>, NEW line \in Seq(ClaudePieces)
    PROVE  /\ ProcessLine(st, line).st.line = <<>>
           /\ LET buffer == st.json \o NoBlanks(line)
              IN  NotUtf8 \notin ToSet(line) /\ NoBlanks(line) # <<>> =>
                      ProcessLine(st, line).st.json = IF ~IsValue(buffer) /\ IsEof(buffer) THEN buffer ELSE <<>>
<1> DEFINE buffer == st.json \o NoBlanks(line)
           spoilt == NotUtf8 \in ToSet(line)
           empty == NoBlanks(line) = <<>>
           clear == [st EXCEPT !.json = <<>>]
           kept == [st EXCEPT !.json = buffer]
           value == ProcessValue(clear, buffer[1].value)
           o == ProcessLine(st, line)
<1>1. buffer \in Seq(ClaudePieces)
  <2>1. st.json \in Seq(ClaudePieces)
    BY DEF ClaudeStates
  <2> QED
    BY <2>1, NoBlanksInPieces, ConcatProperties
<1>2. o = CASE spoilt -> Out(st, <<Error>>)
            [] ~spoilt /\ empty -> Out(st, <<>>)
            [] ~spoilt /\ ~empty -> IF IsValue(buffer) THEN value
                                    ELSE IF IsEof(buffer) THEN Out(kept, <<>>)
                                    ELSE Out(clear, <<Error>>)
  BY DEF ProcessLine, JsonAfterError
<1>3. /\ clear \in ClaudeStates /\ clear.line = <<>> /\ clear.json = <<>>
      /\ kept.line = <<>> /\ kept.json = buffer
  BY EmptySeq DEF ClaudeStates
<1>4. IsValue(buffer) => value.st.line = <<>> /\ value.st.json = <<>>
  <2> SUFFICES ASSUME IsValue(buffer) PROVE value.st.line = <<>> /\ value.st.json = <<>>
    OBVIOUS
  <2>1. buffer[1].value \in ClaudeValues
    BY <1>1, ValueOfPieces DEF ClaudePieces
  <2> HIDE DEF clear
  <2>2. KeepsText(clear, value)
    BY <1>3, <2>1, ValueKeepsText
  <2> QED
    BY <1>3, <2>2 DEF KeepsText
<1>5. \A w, logs : Out(w, logs).st = w
  BY DEF Out
<1>6. spoilt \in BOOLEAN /\ empty \in BOOLEAN
  OBVIOUS
<1> HIDE DEF buffer, clear, kept, value, spoilt, empty, o
<1>7. CASE spoilt
  <2>1. o = Out(st, <<Error>>)
    BY <1>2, <1>7
  <2> QED
    BY <1>5, <1>7, <2>1 DEF o, spoilt
<1>8. CASE ~spoilt /\ empty
  <2>1. o = Out(st, <<>>)
    BY <1>2, <1>8
  <2> QED
    BY <1>5, <1>8, <2>1 DEF o, empty
<1>9. CASE ~spoilt /\ ~empty
  <2>1. o = IF IsValue(buffer) THEN value
            ELSE IF IsEof(buffer) THEN Out(kept, <<>>)
            ELSE Out(clear, <<Error>>)
    BY <1>2, <1>9
  <2>2. o.st.line = <<>> /\ o.st.json = IF ~IsValue(buffer) /\ IsEof(buffer) THEN buffer ELSE <<>>
    BY <1>3, <1>4, <1>5, <2>1
  <2> QED
    BY <1>9, <2>2 DEF o, buffer
<1> QED
  BY <1>6, <1>7, <1>8, <1>9

\* The bytes of a line with an end leave none behind.
LEMMA EndTaken ==
    ASSUME NEW st \in ClaudeStates, NEW line \in Seq(ClaudePieces), line # <<>>, Last(line) = NL
    PROVE  Bytes("claude", st, line).st.line = <<>>
<1> DEFINE P == ClaudePieces
           f == Front(line)
           o == Bytes("claude", st, f)
           w == [o.st EXCEPT !.line = <<>>]
<1>1. "claude" \in Providers /\ st \in States("claude") /\ PiecesOf("claude") = P /\ NL \in P
  BY DEF Providers, States, PiecesOf, Values, ClaudePieces, Pieces
<1>2. f \in Seq(P) /\ line = Append(f, NL)
  <2>1. line \in Seq(P)
    OBVIOUS
  <2> HIDE DEF P
  <2> QED
    BY <2>1, FrontLast
<1> HIDE DEF f
<1>3. o \in Outs("claude") /\ Bytes("claude", st, line) = After(o, Byte("claude", o.st, NL))
  BY <1>1, <1>2, BytesAppend
<1> HIDE DEF o
<1>4. o.st \in ClaudeStates
  <2>1. o \in ClaudeOuts
    BY <1>3, ClaudeOutsAreOuts
  <2> QED
    BY <2>1 DEF ClaudeOuts
<1>5. w \in ClaudeStates /\ w.line = <<>> /\ o.st.line \in Seq(ClaudePieces)
  BY <1>4, EmptySeq DEF ClaudeStates
<1>6. Byte("claude", o.st, NL) = ProcessLine(w, o.st.line)
  BY DEF Byte, ClaudeByte
<1> HIDE DEF w
<1>7. ProcessLine(w, o.st.line).st.line = <<>>
  BY <1>5, LineTaken
<1> QED
  BY <1>3, <1>6, <1>7 DEF After, Out

\* The text of a value, as process_line sees it.
LEMMA TextTaken ==
    ASSUME NEW st \in ClaudeStates, st.line = <<>>, NEW v \in ClaudeValues
    PROVE  LET buffer == st.json \o Text(v)
               o == ProcessLine(st, Text(v))
           IN  /\ o \in ClaudeOuts /\ o.st.line = <<>>
               /\ o.st.json = IF ~IsValue(buffer) /\ IsEof(buffer) THEN buffer ELSE <<>>
<1> DEFINE a == Piece(v, 1)
           b == Piece(v, 2)
<1>1. Text(v) = <<a, b>> /\ a \in ClaudePieces /\ b \in ClaudePieces /\ a.kind = "json" /\ b.kind = "json"
  BY DEF Text, Piece, ClaudePieces, Pieces
<1> HIDE DEF a, b
<1>2. Text(v) \in Seq(ClaudePieces) /\ Text(v) # <<>>
  BY <1>1, EmptySeq
<1>3. NoBlanks(Text(v)) = Text(v)
  BY <1>1, TextHasNoBlanks
<1>4. NotUtf8 \notin ToSet(Text(v))
  <2>1. NotUtf8.kind # "json" /\ ToSet(<<a, b>>) = {a, b}
    BY DEF NotUtf8, ToSet
  <2> QED
    BY <1>1, <2>1
<1> DEFINE t == Text(v)
<1>5. t \in Seq(ClaudePieces) /\ NoBlanks(t) = t /\ t # <<>> /\ NotUtf8 \notin ToSet(t)
  BY <1>2, <1>3, <1>4
<1> HIDE DEF t
<1>6. /\ ProcessLine(st, t).st.line = <<>>
      /\ ProcessLine(st, t).st.json
           = IF ~IsValue(st.json \o t) /\ IsEof(st.json \o t) THEN st.json \o t ELSE <<>>
      /\ ProcessLine(st, t) \in ClaudeOuts
  BY <1>5, LineTaken, ProcessLineRuns
<1> QED
  BY <1>6 DEF t

\* The texts of two values after something else are neither a value nor the
\* beginning of one.
LEMMA TwoTexts ==
    ASSUME NEW b \in Seq(ClaudePieces), b # <<>>, NEW v \in ClaudeValues, NEW w \in ClaudeValues
    PROVE  LET t == (b \o Text(v)) \o Text(w)
           IN  ~IsValue(t) /\ ~IsEof(t)
<1> DEFINE P == ClaudePieces
           m == Len(b)
           x == Text(v)
           y == Text(w)
           t == (b \o x) \o y
           second == Piece(v, 2)
<1>1. /\ x \in Seq(P) /\ y \in Seq(P) /\ Len(x) = 2 /\ Len(y) = 2 /\ x[2] = second
      /\ ~Begins(second)
  BY DEF Text, Piece, ClaudePieces, Pieces, Begins
<1>2. m \in Nat \ {0}
  BY EmptySeq
<1> HIDE DEF P, x, y, second
<1>3. /\ b \o x \in Seq(P) /\ Len(b \o x) = m + 2
      /\ \A i \in 1 .. m + 2 : (b \o x)[i] = IF i <= m THEN b[i] ELSE x[i - m]
  <2> DEFINE l == Len(x)
  <2>1. b \in Seq(P)
    BY DEF P
  <2>2. /\ b \o x \in Seq(P) /\ Len(b \o x) = m + l
        /\ \A i \in 1 .. m + l : (b \o x)[i] = IF i <= m THEN b[i] ELSE x[i - m]
    BY <1>1, <2>1, ConcatProperties
  <2>3. l = 2
    BY <1>1
  <2> HIDE DEF l, m
  <2> QED
    BY <2>2, <2>3
<1> HIDE DEF m
<1>4. (b \o x)[m + 2] = second
  <2>1. m + 2 \in 1 .. m + 2 /\ ~(m + 2 <= m) /\ (m + 2) - m = 2
    BY <1>2
  <2> QED
    BY <1>1, <1>3, <2>1
<1> DEFINE bx == b \o x
<1>5. bx \in Seq(P) /\ Len(bx) = m + 2 /\ bx[m + 2] = second
  BY <1>3, <1>4
<1> HIDE DEF bx
<1>6. /\ bx \o y \in Seq(P) /\ Len(bx \o y) = (m + 2) + 2
      /\ \A i \in 1 .. (m + 2) + 2 : (bx \o y)[i] = IF i <= m + 2 THEN bx[i] ELSE y[i - (m + 2)]
  <2> DEFINE l == Len(y)
             k == Len(bx)
  <2>1. /\ bx \o y \in Seq(P) /\ Len(bx \o y) = k + l
        /\ \A i \in 1 .. k + l : (bx \o y)[i] = IF i <= k THEN bx[i] ELSE y[i - k]
    BY <1>1, <1>5, ConcatProperties
  <2>2. l = 2 /\ k = m + 2
    BY <1>1, <1>5
  <2> HIDE DEF l, k
  <2> QED
    BY <2>1, <2>2
<1>7. /\ t \in Seq(P) /\ Len(t) = m + 4 /\ DOMAIN t = 1 .. m + 4 /\ t[m + 2] = second
      /\ \A i \in 1 .. m + 4 : t[i] \in P
  <2>1. t = bx \o y
    BY DEF bx
  <2>2. (m + 2) + 2 = m + 4 /\ m + 2 \in 1 .. (m + 2) + 2 /\ m + 2 <= m + 2
    BY <1>2
  <2> HIDE DEF t
  <2>3. t \in Seq(P) /\ Len(t) = m + 4 /\ t[m + 2] = second
    BY <1>5, <1>6, <2>1, <2>2
  <2> QED
    BY <2>3, LenProperties, ElementOfSeq
<1> HIDE DEF t
<1>8. ~IsValue(t)
  BY <1>2, <1>7 DEF IsValue
<1>9. ASSUME IsEof(t) PROVE FALSE
  <2>1. PICK n \in 1 .. m + 4 :
          /\ \A i \in 1 .. n : Begins(t[i])
          /\ n = m + 4 \/ IsValue(SubSeq(t, n + 1, m + 4))
    BY <1>7, <1>9 DEF IsEof
  <2>2. ~(m + 2 \in 1 .. n)
    BY <1>1, <1>7, <2>1
  <2>3. n < m + 2
    BY <1>2, <2>2
  <2>4. Len(SubSeq(t, n + 1, m + 4)) = 2
    BY <1>2, <2>1, <2>3 DEF IsValue
  <2>5. \A i \in n + 1 .. m + 4 : t[i] \in P
    <3>1. \A i \in n + 1 .. m + 4 : i \in 1 .. m + 4
      BY <1>2
    <3> QED
      BY <1>7, <3>1
  <2>6. n + 1 \in Int /\ m + 4 \in Int
    BY <1>2
  <2>7. Len(SubSeq(t, n + 1, m + 4)) = IF n + 1 <= m + 4 THEN (m + 4) - (n + 1) + 1 ELSE 0
    BY <2>5, <2>6, SubSeqProperties
  <2> QED
    BY <1>2, <2>3, <2>4, <2>7
<1> QED
  BY <1>8, <1>9 DEF t, x, y

\* Two values, whatever waited before them.
LEMMA TwoValuesClear ==
    ASSUME NEW st \in ClaudeStates, st.line = <<>>, NEW v \in ClaudeValues, NEW w \in ClaudeValues
    PROVE  ProcessLine(ProcessLine(st, Text(v)).st, Text(w)).st.json = <<>>
<1> DEFINE b == st.json
           s1 == ProcessLine(st, Text(v)).st
           s2 == ProcessLine(s1, Text(w)).st
<1>1. /\ s1 \in ClaudeStates /\ s1.line = <<>>
      /\ s1.json \in {<<>>, b \o Text(v)}
      /\ b = <<>> => s1.json = <<>>
  <2>1. b = <<>> => s1.json = <<>>
    <3> SUFFICES ASSUME b = <<>> PROVE s1.json = <<>>
      OBVIOUS
    <3>1. ProcessLine(st, Text(v)) = ProcessValue(st, v)
      BY WholeProcessed DEF AtRest
    <3>2. KeepsText(st, ProcessValue(st, v))
      BY ValueKeepsText
    <3> QED
      BY <3>1, <3>2 DEF KeepsText
  <2>2. ProcessLine(st, Text(v)) \in ClaudeOuts /\ s1.line = <<>> /\ s1.json \in {<<>>, b \o Text(v)}
    BY TextTaken
  <2> QED
    BY <2>1, <2>2 DEF ClaudeOuts
<1> HIDE DEF s1
<1>2. CASE s1.json = <<>>
  <2>1. ProcessLine(s1, Text(w)) = ProcessValue(s1, w)
    BY <1>1, <1>2, WholeProcessed DEF AtRest
  <2>2. KeepsText(s1, ProcessValue(s1, w))
    BY <1>1, ValueKeepsText
  <2> QED
    BY <1>2, <2>1, <2>2 DEF KeepsText, s1
<1>3. CASE s1.json # <<>>
  <2>1. s1.json = b \o Text(v) /\ b # <<>> /\ b \in Seq(ClaudePieces)
    BY <1>1, <1>3 DEF ClaudeStates
  <2> DEFINE t == s1.json \o Text(w)
  <2>2. ~IsValue(t) /\ ~IsEof(t)
    <3> HIDE DEF b
    <3> QED
      BY <2>1, TwoTexts
  <2>3. s2.json = IF ~IsValue(t) /\ IsEof(t) THEN t ELSE <<>>
    BY <1>1, TextTaken
  <2> HIDE DEF t
  <2> QED
    BY <2>2, <2>3 DEF s1
<1> QED
  BY <1>2, <1>3

\* The first lines of the output.
FirstLines(j) == FlattenSeq(SubSeq(printed, 1, j))
ReadLines(j) == Bytes("claude", ClaudeStart, FirstLines(j))

LEMMA FirstLinesGrow ==
    ASSUME TypeInv, provider = "claude"
    PROVE  /\ FirstLines(0) = <<>>
           /\ \A j \in 0 .. Len(printed) - 1 :
                /\ FirstLines(j) \in Seq(ClaudePieces) /\ printed[j + 1] \in Seq(ClaudePieces)
                /\ FirstLines(j + 1) = FirstLines(j) \o printed[j + 1]
<1> DEFINE P == ClaudePieces
           A == Seq(P)
<1>1. printed \in Seq(A)
  BY DEF TypeInv, PiecesOf, Values, ClaudePieces
<1>2. FirstLines(0) = <<>>
  <2>1. SubSeq(printed, 1, 0) = <<>>
    BY SubSeqEmpty
  <2> QED
    BY <2>1, FlattenAppend DEF FirstLines
<1>3. ASSUME NEW j \in 0 .. Len(printed) - 1
      PROVE  /\ FirstLines(j) \in A /\ printed[j + 1] \in A
             /\ FirstLines(j + 1) = FirstLines(j) \o printed[j + 1]
  <2> DEFINE n == Len(printed)
             s == SubSeq(printed, 1, j)
             e == printed[j + 1]
  <2> HIDE DEF A
  <2>1. n \in Nat
    BY <1>1, LenProperties
  <2>2. 1 \in 1 .. n /\ j + 1 \in 1 .. n /\ (j + 1) - 1 = j /\ 1 \in Int /\ j \in Int
    BY <2>1
  <2>3. e \in A /\ \A i \in 1 .. j : printed[i] \in A
    <3>1. \A i \in 1 .. j : i \in 1 .. n
      BY <2>2
    <3> QED
      BY <1>1, <2>2, <3>1, ElementOfSeq
  <2>4. s \in Seq(A)
    BY <2>2, <2>3, SubSeqProperties
  <2>5. SubSeq(printed, 1, j + 1) = SubSeq(printed, 1, (j + 1) - 1) \o <<e>>
    <3>1. j + 1 \in 1 .. Len(printed) /\ 1 \in 1 .. Len(printed)
      BY <2>2
    <3> QED
      BY <1>1, <3>1, SubSeqRecursiveSecond
  <2>6. SubSeq(printed, 1, j + 1) = s \o <<e>>
    BY <2>2, <2>5
  <2> HIDE DEF s, e
  <2>7. s \o <<e>> = Append(s, e)
    BY <2>3, <2>4, AppendIsConcat
  <2>8. FlattenSeq(s) \in A /\ FlattenSeq(Append(s, e)) = FlattenSeq(s) \o e
    BY <2>3, <2>4, FlattenAppend DEF A
  <2> QED
    BY <2>3, <2>6, <2>7, <2>8 DEF FirstLines, s, e
<1> QED
  BY <1>2, <1>3

\* Between two lines no bytes wait.
LEMMA BetweenLines ==
    ASSUME TypeInv, provider = "claude", LinesEnd, NEW j \in 0 .. Len(printed) - 1
    PROVE  /\ ReadLines(j).st \in ClaudeStates /\ ReadLines(j).st.line = <<>>
           /\ ReadLines(j + 1).st = Bytes("claude", ReadLines(j).st, printed[j + 1]).st
<1> DEFINE n == Len(printed)
<1>1. /\ "claude" \in Providers /\ ClaudeStart \in States("claude")
      /\ PiecesOf("claude") = ClaudePieces /\ States("claude") = ClaudeStates /\ n \in Nat
  <2>1. n \in Nat
    BY LenProperties DEF TypeInv
  <2>2. ClaudeStart \in ClaudeStates
    BY EmptySeq DEF ClaudeStart, ClaudeStates
  <2> QED
    BY <2>1, <2>2 DEF Providers, States, PiecesOf, Values, ClaudePieces
<1> HIDE DEF n
<1>2. ASSUME NEW i \in 0 .. n - 1
      PROVE  /\ ReadLines(i).st \in ClaudeStates
             /\ ReadLines(i + 1).st = Bytes("claude", ReadLines(i).st, printed[i + 1]).st
  <2> DEFINE a == ReadLines(i)
             b == Bytes("claude", a.st, printed[i + 1])
  <2>1. /\ FirstLines(i) \in Seq(ClaudePieces) /\ printed[i + 1] \in Seq(ClaudePieces)
        /\ FirstLines(i + 1) = FirstLines(i) \o printed[i + 1]
    BY FirstLinesGrow DEF n
  <2>2. a \in Outs("claude")
    <3>1. NL \in ClaudePieces
      BY DEF ClaudePieces, Pieces
    <3> QED
      BY <1>1, <2>1, <3>1, BytesAppend DEF ReadLines
  <2>3. ReadLines(i + 1) = After(a, b)
    BY <1>1, <2>1, BytesConcat DEF ReadLines
  <2> HIDE DEF a, b
  <2>4. a.st \in ClaudeStates /\ ReadLines(i + 1).st = b.st
    BY <1>1, <2>2, <2>3 DEF Outs, After, Out
  <2> QED
    BY <2>4 DEF a, b
<1>3. ReadLines(j).st.line = <<>>
  <2>1. CASE j = 0
    <3>1. ReadLines(0) = Out(ClaudeStart, <<>>)
      BY <1>1, FirstLinesGrow, BytesAppend DEF ReadLines
    <3> QED
      BY <2>1, <3>1 DEF Out, ClaudeStart
  <2>2. CASE j # 0
    <3> DEFINE i == j - 1
    <3>1. i \in 0 .. n - 1 /\ i + 1 = j /\ j \in 1 .. n /\ j < n
      BY <1>1, <2>2 DEF n
    <3> HIDE DEF i
    <3>2. printed[j] # <<>> /\ Last(printed[j]) = NL
      BY <3>1 DEF LinesEnd, n
    <3>3. printed[j] \in Seq(ClaudePieces)
      BY <3>1, FirstLinesGrow DEF n
    <3>4. ReadLines(i).st \in ClaudeStates /\ ReadLines(j).st = Bytes("claude", ReadLines(i).st, printed[j]).st
      BY <1>2, <3>1
    <3> QED
      BY <3>2, <3>3, <3>4, EndTaken
  <2> QED
    BY <2>1, <2>2
<1> QED
  BY <1>2, <1>3 DEF n

\* A line with a whole value.
LEMMA WholeLine ==
    ASSUME NEW st \in ClaudeStates, st.line = <<>>, NEW line \in Seq(ClaudePieces), IsWhole(line)
    PROVE  \E v \in ClaudeValues : Bytes("claude", st, line) = ProcessLine(st, Text(v))
<1> DEFINE v == line[1].value
           a == Piece(v, 1)
           b == Piece(v, 2)
           t == <<a, b>>
<1>1. line = Whole(v) /\ Text(v) = t
  BY DEF IsWhole, Text
<1>2. v \in ClaudeValues
  BY <1>1, WholeHasValue
<1> HIDE DEF v
<1>3. line = Append(t, NL)
  BY <1>1 DEF Whole
<1>4. t \in Seq(ClaudePieces) /\ a # NL /\ b # NL
  BY <1>2 DEF Piece, ClaudePieces, Pieces, NL
<1>5. NoEnd(t)
  BY <1>4 DEF NoEnd
<1>6. Bytes("claude", st, line) = ProcessLine(st, t)
  BY <1>3, <1>4, <1>5, ClaudeLineRead
<1> QED
  BY <1>1, <1>2, <1>6

\* The flush leaves nothing.
EndInv == finished /\ provider = "claude" => norm = ClaudeStart

LEMMA NothingAfterTheEnd == Spec => []EndInv
<1>1. Init => EndInv
  BY DEF Init, EndInv
<1>2. ASSUME EndInv, [Next]_vars PROVE EndInv'
  <2>1. CASE PullEnd
    BY <2>1 DEF PullEnd, EndInv, Flush, ClaudeFlush, Out
  <2>2. CASE PullChunk
    BY <2>2 DEF PullChunk, EndInv
  <2>3. CASE UNCHANGED <<provider, norm, finished>>
    BY <1>2, <2>3 DEF EndInv
  <2>4. CASE CliPrints \/ CliEnds \/ EmitStarted \/ Pop \/ HandOver \/ UNCHANGED vars
    BY <2>3, <2>4 DEF CliPrints, Prints, CliEnds, EmitStarted, Pop, HandOver, vars, streamVars
  <2>5. ASSUME NEW h \in Hooks, HookReturns(h) \/ \E type \in HookTypes : Register(h, type)
        PROVE  EndInv'
    BY <2>3, <2>5 DEF HookReturns, Register, streamVars
  <2> QED
    BY <1>2, <2>1, <2>2, <2>4, <2>5 DEF Next, Over
<1> QED
  BY <1>1, <1>2, PTL DEF Spec

\* An unfinished value, or stray text taken for the beginning of one, costs the
\* Claude normalizer at most the next two values: json_buffer is empty after
\* any two values on lines of their own (process_line).
THEOREM Recovering == Spec => []Recovers
<1>1. ASSUME TypeInv, StreamInv, EndInv, LinesEnd PROVE Recovers
  <2> SUFFICES ASSUME provider = "claude", NEW k \in 2 .. Len(printed), consumed = FirstLines(k),
                      IsWhole(printed[k - 1]), IsWhole(printed[k])
               PROVE  norm.json = <<>>
    BY DEF Recovers, FirstLines
  <2> DEFINE n == Len(printed)
             j == k - 2
             st == ReadLines(j).st
  <2>1. n \in Nat
    BY <1>1, LenProperties DEF TypeInv
  <2>2. /\ j \in 0 .. n - 1 /\ k - 1 \in 0 .. n - 1
        /\ j + 1 = k - 1 /\ (k - 1) + 1 = k
    BY <2>1
  <2> HIDE DEF j
  <2>3. /\ st \in ClaudeStates /\ st.line = <<>>
        /\ ReadLines(k - 1).st = Bytes("claude", st, printed[k - 1]).st
        /\ ReadLines(k - 1).st \in ClaudeStates /\ ReadLines(k - 1).st.line = <<>>
        /\ ReadLines(k).st = Bytes("claude", ReadLines(k - 1).st, printed[k]).st
    BY <1>1, <2>2, BetweenLines
  <2>4. printed[k - 1] \in Seq(ClaudePieces) /\ printed[k] \in Seq(ClaudePieces)
    BY <1>1, <2>2, FirstLinesGrow
  <2> HIDE DEF st
  <2>5. PICK v \in ClaudeValues : Bytes("claude", st, printed[k - 1]) = ProcessLine(st, Text(v))
    BY <2>3, <2>4, WholeLine
  <2>6. PICK w \in ClaudeValues :
          Bytes("claude", ReadLines(k - 1).st, printed[k]) = ProcessLine(ReadLines(k - 1).st, Text(w))
    BY <2>3, <2>4, WholeLine
  <2>7. ReadLines(k).st.json = <<>>
    BY <2>3, <2>5, <2>6, TwoValuesClear
  <2>8. Read = ReadLines(k) /\ Start = ClaudeStart
    BY DEF Read, ReadLines, Start
  <2>9. CASE ~emittedStarted
    BY <1>1, <2>8, <2>9 DEF StreamInv, ClaudeStart
  <2>10. CASE emittedStarted /\ ~finished
    BY <1>1, <2>7, <2>8, <2>10 DEF StreamInv
  <2>11. CASE finished
    BY <1>1, <2>11 DEF EndInv, ClaudeStart
  <2> QED
    BY <2>9, <2>10, <2>11
<1> QED
  BY <1>1, Types, StreamIsInvariant, NothingAfterTheEnd, LinesHaveEnds, PTL

============================================================================
