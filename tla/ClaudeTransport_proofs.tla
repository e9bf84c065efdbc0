---------------------- MODULE ClaudeTransport_proofs ----------------------
(***************************************************************************)
(* Theorems about ClaudeTransport, for any number of messages, of pieces   *)
(* in a message, and for any buffer that holds a message.                  *)
(***************************************************************************)
EXTENDS ClaudeTransport, SequenceTheorems, TLAPS

USE TransportBounds DEF TransportBounds

----------------------------------------------------------------------------
(* The invariant *)

IsPart(p) == p # Stray

\* The place of a piece in the CLI's output, strays not counted.
Num(p) == (p.msg - 1) * Parts + p.part

\* A line ends where a message does, so the line being read has no last piece.
LinesEnd ==
    /\ \A k \in DOMAIN pipe : pipe[k].part = Parts => pipe[k].nl
    /\ \A k \in DOMAIN line : line[k].part # Parts

\* The n messages delivered and the pieces in s are the output so far.
Whole(n, s) ==
    /\ n * Parts + Len(s) = printed
    /\ \A k \in DOMAIN s : Num(s[k]) = n * Parts + k

\* As long as nothing was dropped and nothing strayed, nothing is missing, and
\* the buffer has not all of a message.
NothingMissing ==
    Live /\ ~cut /\ ~strayed =>
        /\ \A k \in DOMAIN delivered : delivered[k] = k
        /\ Whole(Len(delivered), Held)
        /\ Len(buffer) < Parts

\* A child is only forgotten at the end of a close, and a stream that ended
\* cleanly had one that exited with success, or is being closed.
EndInv ==
    /\ ~child => closer = "done"
    /\ CleanEndMeansSuccess

\* The lock is held exactly while the reader waits for the child, and a close
\* that is past the kill has a dead CLI.
CloseInv ==
    /\ lock = "reader" <=> reader = "waiting"
    /\ closer \in {"killed", "done"} => cli # "running"

TransportInv == LinesEnd /\ NothingMissing /\ EndInv /\ CloseInv

----------------------------------------------------------------------------
(* Arithmetic: the place of a piece determines its message and its part *)

\* Division with remainder, by a divisor that is not a numeral.
LEMMA DivMod ==
    ASSUME NEW n \in Nat, NEW d \in Nat \ {0}
    PROVE  \E q, r \in Nat : r < d /\ n = d * q + r /\ n \div d = q /\ n % d = r
<1>1. n \div d \in Nat
  OBVIOUS
<1>2. PICK q \in Nat : q = n \div d
  BY <1>1
<1>3. d * q <= n
  BY <1>2
<1>4. n < d * q + d
  BY <1>2
<1>5. PICK r \in Nat : r = n - d * q
  BY <1>2, <1>3
<1>6. r < d /\ n = d * q + r
  BY <1>2, <1>4, <1>5
<1>7. ASSUME NEW a \in Nat, NEW b \in Nat, n = d * a + b, b < d
      PROVE  n % d = b
  BY <1>7
<1> QED
  BY <1>2, <1>6, <1>7

\* A product with Parts keeps the order, and a step of it is Parts.
LEMMA Spread ==
    ASSUME NEW a \in Nat, NEW b \in Nat
    PROVE  /\ a * Parts \in Nat
           /\ (a + 1) * Parts = a * Parts + Parts
           /\ a < b <=> a * Parts < b * Parts
           /\ a < b => a * Parts + Parts <= b * Parts
<1>1. a * Parts \in Nat /\ b * Parts \in Nat /\ (a + 1) * Parts = a * Parts + Parts
  OBVIOUS
<1>2. ASSUME NEW x \in Nat, NEW y \in Nat, x < y PROVE x * Parts + Parts <= y * Parts
  <2>1. PICK z \in Nat : z = y - x - 1
    BY <1>2
  <2>2. y * Parts = x * Parts + Parts + z * Parts /\ z * Parts \in Nat
    BY <2>1
  <2> QED
    BY <2>2
<1> QED
  BY <1>1, <1>2

\* The number of a piece is a natural, at most where its message ends.
LEMMA NumType ==
    ASSUME NEW p \in Piece, IsPart(p)
    PROVE  /\ p.msg \in 1 .. MaxMessages /\ p.part \in 1 .. Parts
           /\ (p.msg - 1) * Parts \in Nat /\ Num(p) \in Nat \ {0}
           /\ (p.msg - 1) * Parts + Parts = p.msg * Parts
<1>1. p.msg \in 1 .. MaxMessages /\ p.part \in 1 .. Parts
  BY DEF Piece, IsPart
<1>2. PICK a \in Nat : a = p.msg - 1
  BY <1>1
<1> QED
  BY <1>1, <1>2, Spread DEF Num

\* Two pieces of the same number are the same part of the same message.
LEMMA NumUnique ==
    ASSUME NEW p \in Piece, NEW n \in Nat, NEW k \in 1 .. Parts, Num(p) = n * Parts + k
    PROVE  IsPart(p) /\ p.msg = n + 1 /\ p.part = k
<1>1. CASE p = Stray
  <2>1. Num(p) = (0 - 1) * Parts + 0
    BY <1>1 DEF Stray, Num
  <2>2. (0 - 1) * Parts + 0 < 0
    OBVIOUS
  <2> QED
    BY <2>1, <2>2, Spread
<1>2. CASE IsPart(p)
  <2>1. p.msg \in 1 .. MaxMessages /\ p.part \in 1 .. Parts
    BY <1>2, NumType
  <2>2. PICK m \in Nat : m = p.msg - 1
    BY <2>1
  <2>3. m * Parts + p.part = n * Parts + k /\ m * Parts \in Nat /\ n * Parts \in Nat
    BY <2>1, <2>2, Spread DEF Num
  <2>4. ~(m < n) /\ ~(n < m)
    BY <2>1, <2>3, Spread
  <2> QED
    BY <1>2, <2>1, <2>2, <2>3, <2>4
<1> QED
  BY <1>1, <1>2 DEF IsPart

----------------------------------------------------------------------------
(* Types *)

LEMMA InitType == Init => TypeOK
<1> SUFFICES ASSUME Init PROVE TypeOK
  OBVIOUS
<1> USE DEF Init
<1>1. /\ <<>> \in Seq(Piece) /\ <<>> \in Seq(0 .. MaxMessages)
      /\ Len(<<>>) = 0 /\ 0 <= MaxBuffer /\ 0 <= PipeCap
  OBVIOUS
<1>2. 0 \in 0 .. MaxMessages * Parts
  BY Spread
<1> QED
  BY <1>1, <1>2 DEF TypeOK

LEMMA PieceMsg == \A p \in Piece : p.msg \in 0 .. MaxMessages
<1>1. Stray.msg = 0
  BY DEF Stray
<1>2. \A p \in [msg : 1 .. MaxMessages, part : 1 .. Parts, nl : BOOLEAN] : p.msg \in 1 .. MaxMessages
  OBVIOUS
<1> QED
  BY <1>1, <1>2 DEF Piece

\* Pushing a chunk keeps the buffer within its limit.
LEMMA PushType ==
    ASSUME TypeOK, NEW chunk \in Seq(Piece), PushChunk(chunk)
    PROVE  /\ buffer' \in Seq(Piece) /\ Len(buffer') <= MaxBuffer
           /\ delivered' \in Seq(0 .. MaxMessages)
           /\ reader' \in {"idle", "error", reader}
<1> DEFINE b == buffer \o chunk
<1>1. b \in Seq(Piece) /\ Len(b) \in Nat /\ <<>> \in Seq(Piece) /\ Len(<<>>) = 0
  BY DEF TypeOK
<1>2. CASE Overflows(b) /\ buffer' = <<>> /\ reader' = "error" /\ UNCHANGED delivered
  BY <1>1, <1>2 DEF TypeOK
<1>3. CASE /\ ~Overflows(b)
           /\ IsWhole(b) \/ Glued(b)
           /\ buffer' = Emptied(b)
           /\ delivered' = Append(delivered, IF IsWhole(b) THEN b[1].msg ELSE 0)
           /\ reader' = "idle"
  <2> DEFINE m == IF IsWhole(b) THEN b[1].msg ELSE 0
  <2>1. ASSUME IsWhole(b) PROVE b[1].msg \in 0 .. MaxMessages
    <3>1. b[1] \in Piece
      BY <1>1, <2>1 DEF IsWhole
    <3> QED
      BY <3>1, PieceMsg
  <2>2. m \in 0 .. MaxMessages
    <3>1. CASE IsWhole(b)
      BY <2>1, <3>1
    <3>2. CASE ~IsWhole(b)
      BY <3>2
    <3> QED
      BY <3>1, <3>2
  <2> HIDE DEF m
  <2>3. Append(delivered, m) \in Seq(0 .. MaxMessages)
    BY <2>2, AppendProperties DEF TypeOK
  <2>4. buffer' = <<>> /\ reader' = "idle"
    BY <1>3 DEF Emptied
  <2>5. delivered' \in Seq(0 .. MaxMessages)
    BY <1>3, <2>3 DEF m
  <2> QED
    BY <1>1, <2>4, <2>5
<1>4. CASE /\ ~Overflows(b) /\ ~IsWhole(b) /\ buffer' = b
           /\ UNCHANGED <<reader, delivered>>
  BY <1>1, <1>4 DEF TypeOK, Overflows
<1> QED
  BY <1>2, <1>3, <1>4 DEF PushChunk

\* The piece at the head of the pipe.
LEMMA HeadPiece ==
    ASSUME TypeOK, pipe # <<>>
    PROVE  /\ Head(pipe) \in Piece /\ Tail(pipe) \in Seq(Piece)
           /\ Len(Tail(pipe)) = Len(pipe) - 1 /\ Len(pipe) \in Nat
           /\ Append(line, Head(pipe)) \in Seq(Piece)
           /\ Len(Append(line, Head(pipe))) = Len(line) + 1
<1>1. pipe \in Seq(Piece) /\ line \in Seq(Piece)
  BY DEF TypeOK
<1>2. Head(pipe) \in Piece /\ Tail(pipe) \in Seq(Piece) /\ Len(Tail(pipe)) = Len(pipe) - 1
  BY <1>1, HeadTailProperties
<1> QED
  BY <1>1, <1>2, AppendProperties

\* The next piece the CLI prints, by its number.
LEMMA NextPieceIs ==
    ASSUME TypeOK, NEW nl \in BOOLEAN, PrintPiece(nl)
    PROVE  /\ NextPiece(nl) \in Piece /\ IsPart(NextPiece(nl))
           /\ Num(NextPiece(nl)) = printed + 1
           /\ NextPiece(nl).part = Parts => NextPiece(nl).nl
           /\ printed + 1 \in 0 .. MaxMessages * Parts
<1> DEFINE p == NextPiece(nl)
<1>1. printed \in Nat /\ printed < MaxMessages * Parts /\ MaxMessages * Parts \in Nat
      /\ ((printed + 1) % Parts = 0 => nl)
  BY Spread DEF PrintPiece, TypeOK
<1>2. PICK q, r \in Nat : /\ r < Parts /\ printed = Parts * q + r
                          /\ printed \div Parts = q /\ printed % Parts = r
  BY <1>1, DivMod
<1>3. p.msg = q + 1 /\ p.part = r + 1 /\ p.nl = nl /\ p = [msg |-> q + 1, part |-> r + 1, nl |-> nl]
  BY <1>2 DEF NextPiece
<1>4. q + 1 <= MaxMessages
  <2>1. q * Parts < MaxMessages * Parts
    BY <1>1, <1>2
  <2> QED
    BY <2>1, Spread
<1>5. p \in Piece
  BY <1>2, <1>3, <1>4 DEF Piece
<1>6. IsPart(p)
  BY <1>2, <1>3 DEF IsPart, Stray
<1>7. Num(p) = printed + 1
  BY <1>2, <1>3 DEF Num
<1>8. ASSUME r + 1 = Parts PROVE nl
  <2>1. printed + 1 = Parts * (q + 1) + 0
    BY <1>2, <1>8
  <2>2. PICK k, j \in Nat : /\ j < Parts /\ printed + 1 = Parts * k + j
                            /\ (printed + 1) % Parts = j
    <3>1. printed + 1 \in Nat /\ Parts \in Nat \ {0}
      BY <1>1
    <3>2. \E k, j \in Nat : /\ j < Parts /\ printed + 1 = Parts * k + j
                            /\ (printed + 1) \div Parts = k /\ (printed + 1) % Parts = j
      BY <3>1, DivMod
    <3> QED
      BY <3>2
  <2>3. k * Parts + j = (q + 1) * Parts
    BY <2>1, <2>2
  <2>4. ~(k < q + 1) /\ ~(q + 1 < k)
    BY <2>2, <2>3, Spread
  <2>5. j = 0
    BY <2>2, <2>3, <2>4
  <2> QED
    BY <1>1, <2>2, <2>5
<1> QED
  BY <1>1, <1>3, <1>5, <1>6, <1>7, <1>8

LEMMA ReleasedType == TypeOK => Released \in {"free", "reader"}
  BY DEF TypeOK, Released

LEMMA ReaderType ==
    ASSUME TypeOK, ReaderStep \/ ReadTimesOut \/ ReadFails \/ ReaderAborted
    PROVE  TypeOK'
<1> USE DEF TypeOK, cliVars, readVars
<1>1. CASE BeginRead
  BY <1>1 DEF BeginRead
<1>2. CASE ReadPiece
  <2>1. CASE ~Head(pipe).nl /\ line' = Append(line, Head(pipe)) /\ UNCHANGED <<reader, buffer, delivered>>
    BY <1>2, <2>1, HeadPiece DEF ReadPiece
  <2>2. CASE PushChunk(Append(line, Head(pipe))) /\ line' = <<>>
    <3>1. <<>> \in Seq(Piece)
      OBVIOUS
    <3>2. pipe # <<>> /\ pipe' = Tail(pipe) /\ reader = "reading"
          /\ UNCHANGED <<cliVars, cut, child, lock, writer, closer>>
      BY <1>2 DEF ReadPiece
    <3>3. /\ buffer' \in Seq(Piece) /\ Len(buffer') <= MaxBuffer
          /\ delivered' \in Seq(0 .. MaxMessages)
          /\ reader' \in {"idle", "error", "reading"}
      BY <2>2, <3>2, HeadPiece, PushType
    <3>4. pipe' \in Seq(Piece) /\ Len(pipe') <= PipeCap
      BY <3>2, HeadPiece
    <3> QED
      BY <2>2, <3>1, <3>2, <3>3, <3>4
  <2> QED
    BY <1>2, <2>1, <2>2 DEF ReadPiece
<1>3. CASE ReadLastLine
  <2>1. <<>> \in Seq(Piece)
    OBVIOUS
  <2> QED
    BY <1>3, <2>1, PushType DEF ReadLastLine
<1>4. CASE LockChild
  BY <1>4 DEF LockChild
<1>5. CASE ChildExited
  BY <1>5 DEF ChildExited, ExitResult
<1>6. CASE ReadTimesOut \/ ReadFails \/ ReaderAborted
  <2>1. <<>> \in Seq(Piece)
    OBVIOUS
  <2>2. Released \in {"free", "reader"}
    BY ReleasedType
  <2>3. CASE ReadTimesOut
    BY <2>1, <2>2, <2>3 DEF ReadTimesOut
  <2>4. CASE ReadFails
    BY <2>1, <2>2, <2>4 DEF ReadFails
  <2>5. CASE ReaderAborted
    BY <2>1, <2>2, <2>5 DEF ReaderAborted
  <2> QED
    BY <1>6, <2>3, <2>4, <2>5
<1> QED
  BY <1>1, <1>2, <1>3, <1>4, <1>5, <1>6 DEF ReaderStep

LEMMA CliType ==
    ASSUME TypeOK, Cli
    PROVE  TypeOK'
<1> USE DEF TypeOK, cliVars, readVars
<1>1. CASE \E nl \in BOOLEAN : PrintPiece(nl)
  <2> PICK nl \in BOOLEAN : PrintPiece(nl)
    BY <1>1
  <2>1. NextPiece(nl) \in Piece /\ printed + 1 \in 0 .. MaxMessages * Parts
    BY NextPieceIs
  <2>2. pipe' \in Seq(Piece) /\ Len(pipe') <= PipeCap
    BY <2>1, AppendProperties DEF PrintPiece
  <2> QED
    BY <2>1, <2>2 DEF PrintPiece
<1>2. CASE PrintStray
  <2>1. Stray \in Piece
    BY DEF Piece
  <2>2. pipe' \in Seq(Piece) /\ Len(pipe') <= PipeCap
    BY <1>2, <2>1, AppendProperties DEF PrintStray
  <2> QED
    BY <1>2, <2>2 DEF PrintStray
<1>3. CASE CloseStdout
  BY <1>3 DEF CloseStdout
<1>4. CASE \E status \in {"ok", "failed"} : Exit(status)
  BY <1>4 DEF Exit
<1> QED
  BY <1>1, <1>2, <1>3, <1>4 DEF Cli

LEMMA StepType == TypeOK /\ [Next]_vars => TypeOK'
<1> SUFFICES ASSUME TypeOK, [Next]_vars PROVE TypeOK'
  OBVIOUS
<1> USE DEF cliVars, readVars
<1>1. CASE BeginWrite \/ FinishWrite \/ AbortReader \/ BeginClose \/ ForgetChild
  <2>1. UNCHANGED <<pipe, cliVars, reader, readVars, lock>>
    BY <1>1 DEF BeginWrite, FinishWrite, AbortReader, BeginClose, ForgetChild
  <2>2. /\ child' \in BOOLEAN /\ writer' \in {"idle", "waiting"}
        /\ closer' \in {"no", "aborting", "closing", "killed", "done"}
    BY <1>1 DEF TypeOK, BeginWrite, FinishWrite, AbortReader, BeginClose, ForgetChild
  <2> QED
    BY <2>1, <2>2 DEF TypeOK
<1>2. CASE KillChild
  BY <1>2 DEF TypeOK, KillChild, KillFirst
<1>3. CASE UNCHANGED vars
  BY <1>3 DEF TypeOK, vars
<1> QED
  BY <1>1, <1>2, <1>3, ReaderType, CliType DEF Next, Close

----------------------------------------------------------------------------
(* What is held, as a sequence *)

LEMMA HeldType ==
    ASSUME TypeOK
    PROVE  /\ Held \in Seq(Piece) /\ DOMAIN Held = 1 .. Len(Held)
           /\ Len(Held) = Len(buffer) + Len(line) + Len(pipe)
           /\ Held = (buffer \o line) \o pipe /\ Held = buffer \o (line \o pipe)
<1>1. buffer \in Seq(Piece) /\ line \in Seq(Piece) /\ pipe \in Seq(Piece)
  BY DEF TypeOK
<1>2. buffer \o line \in Seq(Piece) /\ Len(buffer \o line) = Len(buffer) + Len(line)
  BY <1>1, ConcatProperties
<1>3. Held = (buffer \o line) \o pipe /\ Held = buffer \o (line \o pipe)
  BY <1>1, ConcatAssociative DEF Held
<1> QED
  BY <1>1, <1>2, <1>3, ConcatProperties, LenProperties

\* Reading on moves a piece from the pipe to the line.
LEMMA ReadOn ==
    ASSUME TypeOK, pipe # <<>>
    PROVE  Held = (buffer \o Append(line, Head(pipe))) \o Tail(pipe)
<1>1. buffer \in Seq(Piece) /\ line \in Seq(Piece) /\ pipe \in Seq(Piece)
      /\ Head(pipe) \in Piece /\ Tail(pipe) \in Seq(Piece) /\ <<Head(pipe)>> \in Seq(Piece)
  BY HeadPiece DEF TypeOK
<1>2. Append(line, Head(pipe)) = line \o <<Head(pipe)>>
  BY <1>1, AppendIsConcat
<1>3. pipe = <<Head(pipe)>> \o Tail(pipe)
  BY <1>1
<1>4. line \o pipe = (line \o <<Head(pipe)>>) \o Tail(pipe)
  BY <1>1, <1>3, ConcatAssociative
<1>5. line \o <<Head(pipe)>> \in Seq(Piece)
  BY <1>1, ConcatProperties
<1>6. buffer \o ((line \o <<Head(pipe)>>) \o Tail(pipe)) = (buffer \o (line \o <<Head(pipe)>>)) \o Tail(pipe)
  BY <1>1, <1>5, ConcatAssociative
<1> QED
  BY <1>2, <1>4, <1>6, HeldType

\* Pushing a chunk drops the buffer, delivers it or leaves all as it was.
LEMMA PushOutcome ==
    ASSUME TypeOK, NEW chunk \in Seq(Piece), NEW rest \in Seq(Piece),
           Held = (buffer \o chunk) \o rest, PushChunk(chunk), line' = <<>>, pipe' = rest
    PROVE  /\ buffer \o chunk \in Seq(Piece)
           /\ \/ /\ Overflows(buffer \o chunk) /\ reader' = "error"
                 /\ Held' = rest /\ buffer' = <<>> /\ delivered' = delivered
              \/ /\ IsWhole(buffer \o chunk) /\ reader' = "idle"
                 /\ Held' = rest /\ buffer' = <<>>
                 /\ delivered' = Append(delivered, (buffer \o chunk)[1].msg)
              \/ Glued(buffer \o chunk)
              \/ /\ ~Overflows(buffer \o chunk) /\ ~IsWhole(buffer \o chunk) /\ reader' = reader
                 /\ Held' = Held /\ buffer' = buffer \o chunk /\ delivered' = delivered
<1> DEFINE b == buffer \o chunk
<1>1. b \in Seq(Piece) /\ <<>> \in Seq(Piece)
  BY ConcatProperties DEF TypeOK
<1> HIDE DEF b
<1>2. ASSUME buffer' = <<>> PROVE Held' = rest
  <2>1. Held' = (<<>> \o <<>>) \o rest /\ <<>> \o <<>> = <<>>
    BY <1>1, <1>2, ConcatEmptySeq DEF Held
  <2> QED
    BY <2>1, ConcatEmptySeq
<1>3. ASSUME buffer' = b PROVE Held' = Held
  <2>1. Held' = (b \o <<>>) \o rest /\ b \o <<>> = b
    BY <1>1, <1>3, ConcatEmptySeq DEF Held
  <2> QED
    BY <2>1 DEF b
<1> QED
  BY <1>1, <1>2, <1>3 DEF PushChunk, Emptied, b

\* What is printed comes last.
LEMMA HeldGrows ==
    ASSUME TypeOK, NEW p \in Piece, pipe' = Append(pipe, p), UNCHANGED <<buffer, line>>
    PROVE  Held' = Append(Held, p)
<1>1. buffer \in Seq(Piece) /\ line \in Seq(Piece) /\ pipe \in Seq(Piece) /\ <<p>> \in Seq(Piece)
      /\ Held \in Seq(Piece)
  BY HeldType DEF TypeOK
<1>2. buffer \o line \in Seq(Piece)
  BY <1>1, ConcatProperties
<1>3. Held' = (buffer \o line) \o (pipe \o <<p>>)
  BY <1>1, AppendIsConcat DEF Held
<1>4. (buffer \o line) \o (pipe \o <<p>>) = ((buffer \o line) \o pipe) \o <<p>>
  BY <1>1, <1>2, ConcatAssociative
<1> QED
  BY <1>1, <1>3, <1>4, HeldType, AppendIsConcat

\* Every other step leaves what is held and delivered alone, but for the line
\* of a read that is dropped.
Rest ==
    \/ BeginRead \/ LockChild \/ ChildExited \/ ReadTimesOut \/ ReadFails \/ ReaderAborted
    \/ BeginWrite \/ FinishWrite \/ AbortReader \/ BeginClose \/ KillChild \/ ForgetChild
    \/ CloseStdout \/ \E status \in {"ok", "failed"} : Exit(status)

LEMMA RestLeaves ==
    ASSUME TypeOK, Rest \/ UNCHANGED vars
    PROVE  /\ UNCHANGED <<pipe, printed, strayed, buffer, delivered>>
           /\ line' \in {line, <<>>} /\ (cut => cut')
           /\ line' # line => cut' \/ ~Live'
           /\ Live' => Live
<1>1. CASE ReadTimesOut
  BY <1>1 DEF ReadTimesOut, cliVars, TypeOK, Live
<1>2. CASE ReadFails \/ ReaderAborted
  BY <1>2 DEF ReadFails, ReaderAborted, cliVars, TypeOK, Live
<1>3. CASE BeginRead \/ LockChild \/ ChildExited
  BY <1>3 DEF BeginRead, LockChild, ChildExited, AtEof, cliVars, readVars, TypeOK, Live
<1>4. CASE BeginWrite \/ FinishWrite \/ AbortReader \/ BeginClose \/ KillChild \/ ForgetChild
  BY <1>4 DEF BeginWrite, FinishWrite, AbortReader, BeginClose, KillChild, ForgetChild,
              cliVars, readVars, TypeOK, Live
<1>5. CASE CloseStdout \/ \E status \in {"ok", "failed"} : Exit(status)
  BY <1>5 DEF CloseStdout, Exit, readVars, TypeOK, Live
<1>6. CASE UNCHANGED vars
  BY <1>6 DEF vars, cliVars, readVars, TypeOK, Live
<1> QED
  BY <1>1, <1>2, <1>3, <1>4, <1>5, <1>6 DEF Rest

LEMMA StepIs ==
    [Next]_vars <=> \/ ReadPiece \/ ReadLastLine \/ Rest \/ UNCHANGED vars
                    \/ PrintStray \/ \E nl \in BOOLEAN : PrintPiece(nl)
  BY DEF Next, ReaderStep, Close, Cli, Rest

----------------------------------------------------------------------------
(* LinesEnd and NothingMissing are inductive *)

LEMMA StepLinesEnd == TypeOK /\ LinesEnd /\ [Next]_vars => LinesEnd'
<1> SUFFICES ASSUME TypeOK, LinesEnd, [Next]_vars PROVE LinesEnd'
  OBVIOUS
<1>1. pipe \in Seq(Piece) /\ line \in Seq(Piece) /\ DOMAIN <<>> = {}
  BY DEF TypeOK
<1>2. CASE ReadPiece
  <2>1. /\ pipe # <<>> /\ pipe' = Tail(pipe)
        /\ Len(pipe) \in Nat /\ DOMAIN pipe = 1 .. Len(pipe) /\ DOMAIN Tail(pipe) = 1 .. Len(pipe) - 1
        /\ \A k \in 1 .. Len(pipe) - 1 : Tail(pipe)[k] = pipe[k + 1]
        /\ 1 \in DOMAIN pipe /\ Head(pipe) = pipe[1] /\ Head(pipe) \in Piece
    BY <1>1, <1>2, HeadTailProperties, LenProperties, HeadPiece DEF ReadPiece
  <2>2. \A k \in DOMAIN pipe' : pipe'[k].part = Parts => pipe'[k].nl
    BY <2>1 DEF LinesEnd
  <2>3. CASE ~Head(pipe).nl /\ line' = Append(line, Head(pipe))
    <3>1. Head(pipe).part # Parts
      BY <2>1, <2>3 DEF LinesEnd
    <3>2. /\ Len(line) \in Nat /\ DOMAIN line = 1 .. Len(line) /\ DOMAIN line' = 1 .. Len(line) + 1
          /\ \A k \in 1 .. Len(line) : line'[k] = line[k]
          /\ line'[Len(line) + 1] = Head(pipe)
      BY <1>1, <2>1, <2>3, AppendProperties, LenProperties
    <3>3. ASSUME NEW k \in DOMAIN line' PROVE line'[k].part # Parts
      <4>1. CASE k \in DOMAIN line
        BY <3>2, <4>1 DEF LinesEnd
      <4>2. CASE k = Len(line) + 1
        BY <3>1, <3>2, <4>2
      <4> QED
        BY <3>2, <4>1, <4>2
    <3> QED
      BY <2>2, <3>3 DEF LinesEnd
  <2>4. CASE line' = <<>>
    BY <1>1, <2>2, <2>4 DEF LinesEnd
  <2> QED
    BY <1>2, <2>3, <2>4 DEF ReadPiece
<1>3. CASE ReadLastLine
  BY <1>1, <1>3 DEF ReadLastLine, LinesEnd
<1>4. CASE Rest \/ UNCHANGED vars
  BY <1>1, <1>4, RestLeaves DEF LinesEnd
<1>5. ASSUME NEW p \in Piece, p.part = Parts => p.nl, pipe' = Append(pipe, p), line' = line
      PROVE  LinesEnd'
  <2>1. /\ Len(pipe) \in Nat /\ DOMAIN pipe = 1 .. Len(pipe) /\ DOMAIN pipe' = 1 .. Len(pipe) + 1
        /\ \A k \in 1 .. Len(pipe) : pipe'[k] = pipe[k]
        /\ pipe'[Len(pipe) + 1] = p
    BY <1>1, <1>5, AppendProperties, LenProperties
  <2>2. ASSUME NEW k \in DOMAIN pipe', pipe'[k].part = Parts PROVE pipe'[k].nl
    <3>1. CASE k \in DOMAIN pipe
      BY <2>1, <2>2, <3>1 DEF LinesEnd
    <3>2. CASE k = Len(pipe) + 1
      BY <1>5, <2>1, <2>2, <3>2
    <3> QED
      BY <2>1, <3>1, <3>2
  <2> QED
    BY <1>5, <2>2 DEF LinesEnd
<1>6. CASE PrintStray
  <2>1. Stray \in Piece /\ (Stray.part = Parts => Stray.nl)
    BY DEF Piece, Stray
  <2> QED
    BY <1>5, <1>6, <2>1 DEF PrintStray, readVars
<1>7. CASE \E nl \in BOOLEAN : PrintPiece(nl)
  BY <1>5, <1>7, NextPieceIs DEF PrintPiece, readVars
<1> QED
  BY <1>2, <1>3, <1>4, <1>6, <1>7, StepIs

\* A line that completes a message completes it exactly.
LEMMA PushNothingMissing ==
    ASSUME TypeOK, NothingMissing, Live,
           NEW chunk \in Seq(Piece), NEW rest \in Seq(Piece),
           Held = (buffer \o chunk) \o rest, PushChunk(chunk), line' = <<>>, pipe' = rest,
           \A k \in 1 .. Len(chunk) - 1 : chunk[k].part # Parts,
           UNCHANGED <<printed, cut, strayed>>
    PROVE  NothingMissing'
<1> SUFFICES ASSUME Live', ~cut, ~strayed
             PROVE  /\ \A k \in DOMAIN delivered' : delivered'[k] = k
                    /\ Whole(Len(delivered'), Held')
                    /\ Len(buffer') < Parts
  BY DEF NothingMissing, Whole
<1> DEFINE b == buffer \o chunk
           n == Len(delivered)
<1>1. /\ \A k \in DOMAIN delivered : delivered[k] = k
      /\ Whole(n, Held) /\ Len(buffer) < Parts
  BY DEF NothingMissing
<1>2. /\ b \in Seq(Piece) /\ Len(b) \in Nat /\ Len(b) = Len(buffer) + Len(chunk)
      /\ Len(buffer) \in Nat /\ Len(chunk) \in Nat
      /\ \A k \in 1 .. Len(b) : b[k] = IF k <= Len(buffer) THEN buffer[k] ELSE chunk[k - Len(buffer)]
  <2>1. buffer \in Seq(Piece)
    BY DEF TypeOK
  <2> QED
    BY <2>1, ConcatProperties, LenProperties
<1>3. /\ DOMAIN Held = 1 .. Len(b) + Len(rest) /\ Len(rest) \in Nat /\ DOMAIN rest = 1 .. Len(rest)
      /\ Len(Held) = Len(b) + Len(rest)
      /\ \A k \in 1 .. Len(Held) : Held[k] = IF k <= Len(b) THEN b[k] ELSE rest[k - Len(b)]
  BY <1>2, ConcatProperties, LenProperties, HeldType
<1>4. n \in Nat /\ DOMAIN delivered = 1 .. n /\ printed \in Nat
  BY LenProperties DEF TypeOK
<1> HIDE DEF n, b
<1>5. ASSUME NEW k \in 1 .. Parts, k <= Len(b)
      PROVE  b[k].msg = n + 1 /\ b[k].part = k
  <2>1. b[k] \in Piece
    BY <1>2, <1>5, ElementOfSeq
  <2>2. Held[k] = b[k] /\ k \in DOMAIN Held
    BY <1>2, <1>3, <1>5
  <2>3. Num(b[k]) = n * Parts + k
    BY <1>1, <2>2 DEF Whole
  <2> QED
    BY <1>4, <2>1, <2>3, NumUnique
<1>6. Len(b) <= Parts
  <2> SUFFICES ASSUME Parts < Len(b) PROVE FALSE
    BY <1>2
  <2>1. b[Parts].part = Parts
    BY <1>5
  <2>2. b[Parts] = chunk[Parts - Len(buffer)] /\ Parts - Len(buffer) \in 1 .. Len(chunk) - 1
    BY <1>1, <1>2
  <2> QED
    BY <2>1, <2>2
<1>7. (IsWhole(b) <=> Len(b) = Parts) /\ ~Glued(b)
  <2>1. Len(b) = Parts => IsWhole(b)
    BY <1>5 DEF IsWhole
  <2>2. DOMAIN b = 1 .. Len(b) /\ Parts \in Nat
    BY <1>2, LenProperties
  <2>3. Len(b) < Parts => IsBeginning(b)
    BY <1>2, <1>5, <2>2 DEF IsBeginning
  <2> QED
    BY <1>2, <1>6, <2>1, <2>2, <2>3 DEF IsWhole, Glued
<1>8. CASE Overflows(b)
  BY <1>2, <1>6, <1>8 DEF Overflows
<1>9. CASE IsWhole(b) /\ Held' = rest /\ buffer' = <<>> /\ delivered' = Append(delivered, b[1].msg)
  <2>1. Len(b) = Parts /\ b[1].msg = n + 1
    BY <1>2, <1>5, <1>7, <1>9
  <2>2. b[1].msg \in 0 .. MaxMessages
    BY <1>2, <2>1, ElementOfSeq, PieceMsg
  <2>3. /\ Len(delivered') = n + 1 /\ DOMAIN delivered' = 1 .. n + 1
        /\ \A k \in 1 .. n : delivered'[k] = delivered[k]
        /\ delivered'[n + 1] = n + 1
    <3>1. delivered \in Seq(0 .. MaxMessages)
      BY DEF TypeOK
    <3> QED
      BY <1>4, <1>9, <2>1, <2>2, <3>1, AppendProperties, LenProperties DEF n
  <2>4. \A k \in DOMAIN delivered' : delivered'[k] = k
    BY <1>1, <1>4, <2>3
  <2>5. (n + 1) * Parts = n * Parts + Parts /\ n * Parts \in Nat
    BY <1>4, Spread
  <2>6. (n + 1) * Parts + Len(rest) = printed
    BY <1>1, <1>3, <1>4, <2>1, <2>5 DEF Whole
  <2>7. ASSUME NEW k \in DOMAIN rest PROVE Num(rest[k]) = (n + 1) * Parts + k
    <3>1. Parts + k \in DOMAIN Held /\ Held[Parts + k] = rest[k]
      BY <1>3, <2>1
    <3>2. Num(rest[k]) = n * Parts + (Parts + k)
      BY <1>1, <3>1 DEF Whole
    <3> QED
      BY <1>3, <2>5, <3>2
  <2>8. Len(buffer') < Parts
    BY <1>9
  <2> QED
    BY <1>9, <2>3, <2>4, <2>6, <2>7, <2>8 DEF Whole
<1>10. CASE ~IsWhole(b) /\ Held' = Held /\ buffer' = b /\ delivered' = delivered
  <2>1. Len(b) # Parts
    BY <1>7, <1>10
  <2>2. Len(b) \in Nat /\ Parts \in Nat
    BY <1>2 DEF TransportBounds
  <2>3. Len(b) < Parts
    BY <1>6, <2>1, <2>2
  <2> QED
    BY <1>1, <1>10, <2>3 DEF Whole, n
<1>11. reader' # "error"
  BY DEF Live
<1> QED
  BY <1>7, <1>8, <1>9, <1>10, <1>11, PushOutcome DEF b

LEMMA StepNothingMissing ==
    TypeOK /\ LinesEnd /\ NothingMissing /\ [Next]_vars => NothingMissing'
<1> SUFFICES ASSUME TypeOK, LinesEnd, NothingMissing, [Next]_vars PROVE NothingMissing'
  OBVIOUS
<1>0. buffer \in Seq(Piece) /\ line \in Seq(Piece) /\ pipe \in Seq(Piece)
      /\ Len(line) \in Nat /\ DOMAIN line = 1 .. Len(line)
  BY LenProperties DEF TypeOK
<1>1. CASE ReadPiece
  <2>1. pipe # <<>> /\ pipe' = Tail(pipe) /\ Live /\ UNCHANGED <<printed, strayed, cut>>
    BY <1>1 DEF ReadPiece, cliVars, Live
  <2>2. CASE line' = Append(line, Head(pipe)) /\ UNCHANGED <<reader, buffer, delivered>>
    <3>1. Held' = Held
      BY <2>1, <2>2, ReadOn DEF Held
    <3> QED
      BY <2>1, <2>2, <3>1 DEF NothingMissing, Whole
  <2>3. CASE PushChunk(Append(line, Head(pipe))) /\ line' = <<>>
    <3> DEFINE chunk == Append(line, Head(pipe))
    <3>1. /\ Len(chunk) = Len(line) + 1 /\ chunk \in Seq(Piece)
          /\ \A k \in 1 .. Len(line) : chunk[k] = line[k]
      BY <1>0, <2>1, HeadPiece, AppendProperties
    <3>2. \A k \in 1 .. Len(chunk) - 1 : chunk[k].part # Parts
      BY <1>0, <3>1 DEF LinesEnd
    <3> QED
      BY <2>1, <2>3, <3>1, <3>2, ReadOn, HeadPiece, PushNothingMissing
  <2> QED
    BY <1>1, <2>2, <2>3 DEF ReadPiece
<1>2. CASE ReadLastLine
  <2>1. PushChunk(line) /\ line' = <<>> /\ pipe' = pipe /\ Live /\ UNCHANGED <<printed, strayed, cut>>
    BY <1>2 DEF ReadLastLine, AtEof, cliVars, Live
  <2>2. \A k \in 1 .. Len(line) - 1 : line[k].part # Parts
    BY <1>0 DEF LinesEnd
  <2> QED
    BY <1>0, <2>1, <2>2, HeldType, PushNothingMissing
<1>3. CASE Rest \/ UNCHANGED vars
  <2> SUFFICES ASSUME Live', ~cut', ~strayed' PROVE NothingMissing'
    BY DEF NothingMissing
  <2>1. UNCHANGED <<pipe, printed, strayed, buffer, delivered, line>> /\ Live /\ ~cut
    BY <1>3, RestLeaves DEF Live
  <2>2. Held' = Held
    BY <2>1 DEF Held
  <2> QED
    BY <2>1, <2>2 DEF NothingMissing, Whole
<1>4. CASE PrintStray
  BY <1>4 DEF PrintStray, NothingMissing
<1>5. CASE \E nl \in BOOLEAN : PrintPiece(nl)
  <2> PICK nl \in BOOLEAN : PrintPiece(nl)
    BY <1>5
  <2> SUFFICES ASSUME Live', ~cut', ~strayed' PROVE NothingMissing'
    BY DEF NothingMissing
  <2>1. UNCHANGED <<delivered, buffer>> /\ Live /\ ~cut /\ ~strayed /\ printed' = printed + 1
    BY DEF PrintPiece, readVars, Live
  <2>2. \A k \in DOMAIN delivered : delivered[k] = k
    BY <2>1 DEF NothingMissing
  <2>3. Whole(Len(delivered), Held) /\ Len(buffer) < Parts
    BY <2>1 DEF NothingMissing
  <2>4. IsPart(NextPiece(nl)) /\ NextPiece(nl) \in Piece /\ Num(NextPiece(nl)) = printed + 1
        /\ Held \in Seq(Piece) /\ printed \in Nat
    BY NextPieceIs, HeldType DEF TypeOK
  <2>5. Held' = Append(Held, NextPiece(nl))
    BY <2>4, HeldGrows DEF PrintPiece, readVars
  <2>6. /\ Len(Held) \in Nat /\ DOMAIN Held = 1 .. Len(Held) /\ DOMAIN Held' = 1 .. Len(Held) + 1
        /\ Len(Held') = Len(Held) + 1
        /\ \A k \in 1 .. Len(Held) : Held'[k] = Held[k]
        /\ Held'[Len(Held) + 1] = NextPiece(nl)
    BY <2>4, <2>5, AppendProperties, LenProperties
  <2>7. Len(delivered) \in Nat /\ Len(delivered) * Parts \in Nat
    <3>1. Len(delivered) \in Nat
      BY LenProperties DEF TypeOK
    <3> QED
      BY <3>1, Spread
  <2>8. Len(delivered) * Parts + Len(Held') = printed + 1
    BY <2>3, <2>6, <2>7 DEF Whole
  <2>9. ASSUME NEW k \in DOMAIN Held' PROVE Num(Held'[k]) = Len(delivered) * Parts + k
    <3>1. CASE k \in DOMAIN Held
      BY <2>3, <2>6, <3>1 DEF Whole
    <3>2. CASE k = Len(Held) + 1
      <4> DEFINE before == Len(delivered) * Parts
      <4>1. Num(Held'[k]) = printed + 1
        BY <2>4, <2>6, <3>2
      <4>2. before + Len(Held) = printed /\ before \in Nat /\ Len(Held) \in Nat
        BY <2>3, <2>6, <2>7 DEF Whole
      <4> HIDE DEF before
      <4>3. Num(Held'[k]) = before + k
        BY <3>2, <4>1, <4>2
      <4> QED
        BY <4>3 DEF before
    <3> QED
      BY <2>6, <3>1, <3>2
  <2> QED
    BY <2>1, <2>2, <2>3, <2>8, <2>9 DEF NothingMissing, Whole
<1> QED
  BY <1>1, <1>2, <1>3, <1>4, <1>5, StepIs

----------------------------------------------------------------------------
(* EndInv and CloseInv are inductive *)

LEMMA StepEnd == TypeOK /\ EndInv /\ CloseInv /\ [Next]_vars => EndInv' /\ CloseInv'
<1> SUFFICES ASSUME TypeOK, EndInv, CloseInv, [Next]_vars PROVE EndInv' /\ CloseInv'
  OBVIOUS
<1> USE DEF EndInv, CloseInv, CleanEndMeansSuccess, cliVars, readVars
<1>1. CASE ReadPiece \/ ReadLastLine
  <2>1. reader = "reading" /\ UNCHANGED <<cli, child, lock, closer>>
    BY <1>1 DEF ReadPiece, ReadLastLine, AtEof
  <2>2. reader' \in {"idle", "error", "reading"}
    BY <1>1, <2>1 DEF ReadPiece, ReadLastLine, PushChunk
  <2> QED
    BY <2>1, <2>2
<1>2. CASE BeginRead \/ LockChild
  BY <1>2 DEF BeginRead, LockChild, AtEof
<1>3. CASE ChildExited
  BY <1>3 DEF ChildExited, ExitResult
<1>4. CASE ReadTimesOut \/ ReadFails \/ ReaderAborted
  BY <1>4 DEF ReadTimesOut, ReadFails, ReaderAborted, Released, Live, TypeOK
<1>5. CASE BeginWrite \/ FinishWrite \/ AbortReader \/ BeginClose \/ ForgetChild
  BY <1>5 DEF BeginWrite, FinishWrite, AbortReader, BeginClose, ForgetChild
<1>6. CASE KillChild
  BY <1>6 DEF KillChild, KillFirst
<1>7. CASE CloseStdout \/ \E status \in {"ok", "failed"} : Exit(status)
  BY <1>7 DEF CloseStdout, Exit
<1>8. CASE PrintStray \/ \E nl \in BOOLEAN : PrintPiece(nl)
  BY <1>8 DEF PrintStray, PrintPiece
<1>9. CASE UNCHANGED vars
  BY <1>9 DEF vars
<1> QED
  BY <1>1, <1>2, <1>3, <1>4, <1>5, <1>6, <1>7, <1>8, <1>9, StepIs DEF Rest

----------------------------------------------------------------------------
(* Theorems *)

\* Every variable keeps its type; the buffer and the pipe keep to their limits.
THEOREM TypeCorrect == Spec => []TypeOK
<1> QED
  BY InitType, StepType, PTL DEF Spec

LEMMA InitInv == Init => TransportInv
<1> SUFFICES ASSUME Init PROVE TransportInv
  OBVIOUS
<1> USE DEF Init
<1>1. Held = <<>> /\ Len(<<>>) = 0 /\ DOMAIN <<>> = {}
  BY DEF Held
<1>2. 0 * Parts + 0 = 0
  OBVIOUS
<1> QED
  BY <1>1, <1>2 DEF TransportInv, LinesEnd, NothingMissing, Whole, EndInv,
                    CleanEndMeansSuccess, CloseInv

\* The inductive invariant.
THEOREM Assembling == Spec => [](TypeOK /\ TransportInv)
<1>1. TypeOK /\ TransportInv /\ [Next]_vars => (TypeOK /\ TransportInv)'
  BY StepType, StepLinesEnd, StepNothingMissing, StepEnd DEF TransportInv
<1> QED
  BY <1>1, InitType, InitInv, PTL DEF Spec

\* However the CLI cuts its messages into lines and the pipe into reads, the
\* messages delivered, the pieces in the buffer and the line and those in the
\* pipe are its output, piece by piece: read_next_message loses, repeats and
\* reorders nothing, as long as no timeout cut a line and no stray line came.
THEOREM LosesNothing == Spec => []NothingLost
<1>1. TypeOK /\ TransportInv => NothingLost
  BY DEF TransportInv, NothingMissing, Whole, NothingLost, Num
<1> QED
  BY <1>1, Assembling, PTL

\* The reader reports a clean end only for a CLI that exited with success, or
\* when a close is on its way.
THEOREM CleanEnd == Spec => []CleanEndMeansSuccess
<1>1. TypeOK /\ TransportInv => CleanEndMeansSuccess
  BY DEF TransportInv, EndInv
<1> QED
  BY <1>1, Assembling, PTL

\* The safety part of closing: when close is done the CLI is dead, and a child
\* that is forgotten was killed or had exited.
ClosedIsDead == (closer = "done" \/ ~child) => cli # "running"

THEOREM ClosingKills == Spec => []ClosedIsDead
<1>1. TypeOK /\ TransportInv => ClosedIsDead
  BY DEF TransportInv, EndInv, CloseInv, ClosedIsDead
<1> QED
  BY <1>1, Assembling, PTL

============================================================================
