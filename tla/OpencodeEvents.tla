--------------------------- MODULE OpencodeEvents ---------------------------
(***************************************************************************)
(* The parser of server-sent events of the Opencode client                 *)
(* (crates/opencode/src/client.rs, request_sse).  The body of the answer   *)
(* is a sequence of bytes that comes in chunks, cut anywhere.  Only the    *)
(* bytes the parser tells apart are told apart: the ends of a line, the    *)
(* colon, the space, the names of fields, a digit, a letter, and the two   *)
(* bytes of a character that takes two.                                    *)
(***************************************************************************)
EXTENDS Naturals, FiniteSetsExt, SequencesExt, Selection

LF == "LF"
CR == "CR"

None == <<>>
Some(v) == <<v>>

\* The data of an event is its lines; the code keeps them joined by LF.
EmptyEvent == [event |-> None, id |-> None, retry |-> None, data |-> <<>>]

IsEmpty(e) == e = EmptyEvent

TrimStart(v) ==
    LET text == {i \in DOMAIN v : v[i] # " "}
    IN  IF text = {} THEN <<>> ELSE SubSeq(v, Min(text), Len(v))

StripCr(line) == IF line # <<>> /\ Last(line) = CR THEN Front(line) ELSE line

\* String::from_utf8_lossy: half a character becomes the mark of an error
FromUtf8Lossy(bytes) ==
    LET whole(i) == bytes[i] = "c1" /\ i < Len(bytes) /\ bytes[i + 1] = "c2"
        char(i) == CASE whole(i) -> <<"char">>
                     [] bytes[i] = "c2" /\ i > 1 /\ whole(i - 1) -> <<>>
                     [] bytes[i] \in {"c1", "c2"} /\ ~whole(i) -> <<"?">>
                     [] OTHER -> <<bytes[i]>>
    IN  FlattenSeq([i \in DOMAIN bytes |-> char(i)])

IsNumber(v) == v # <<>> /\ \A i \in DOMAIN v : v[i] = "7"

\* a line without a colon is all name; a comment is of no field
Colon(line) ==
    LET colons == {i \in DOMAIN line : line[i] = ":"}
    IN  IF colons = {} THEN Len(line) + 1 ELSE Min(colons)

Field(line) == IF Colon(line) = 2 \/ Len(line) = 1 THEN line[1] ELSE "none"

Value(line) == TrimStart(SubSeq(line, Colon(line) + 1, Len(line)))

\* Empty lines that come first leave nothing that an LF would be put behind.
PushData(data, v) == IF data = <<>> /\ v = <<>> THEN <<>> ELSE Append(data, v)

ApplySseLine(line, e) ==
    CASE Field(line) = "event" -> [e EXCEPT !.event = Some(Value(line))]
      [] Field(line) = "id"    -> [e EXCEPT !.id = Some(Value(line))]
      [] Field(line) = "retry" /\ IsNumber(Value(line)) -> [e EXCEPT !.retry = Some(Value(line))]
      [] Field(line) = "data"  -> [e EXCEPT !.data = PushData(@, Value(line))]
      [] OTHER -> e    \* a comment, an unknown field, a retry that is no number

----------------------------------------------------------------------------
(* The stream: the bytes of the line that has not ended, the event that    *)
(* has not ended, and the events yielded.                                  *)

StreamStart == [buffer |-> <<>>, current |-> EmptyEvent, events |-> <<>>]

Yield(s) == IF IsEmpty(s.current) THEN s
            ELSE [s EXCEPT !.events = Append(@, s.current), !.current = EmptyEvent]

Decoded(line) == FromUtf8Lossy(StripCr(line))

TakeLine(s) ==
    LET line == Decoded(s.buffer)
        t == [s EXCEPT !.buffer = <<>>]
    IN  IF line = <<>> THEN Yield(t) ELSE [t EXCEPT !.current = ApplySseLine(line, @)]

TakeByte(s, byte) == IF byte = LF THEN TakeLine(s) ELSE [s EXCEPT !.buffer = Append(@, byte)]

TakeBytes(s, bytes) ==
    LET upTo[n \in 0 .. Len(bytes)] == IF n = 0 THEN s ELSE TakeByte(upTo[n - 1], bytes[n])
    IN  upTo[Len(bytes)]

\* A plausible bug: each chunk is decoded on its own.
TakeChunk_Decodes(s, chunk) == TakeBytes(s, FromUtf8Lossy(chunk))

\* A chunk is appended to the buffer, and the lines that are whole are taken.
TakeChunk(s, chunk) == TakeBytes(s, chunk)

\* The body ends: what is left is a line, and what it ends an event.
TakeEnd(s) ==
    LET line == Decoded(s.buffer)
        t == [s EXCEPT !.buffer = <<>>]
    IN  Yield(IF line = <<>> THEN t ELSE [t EXCEPT !.current = ApplySseLine(line, @)])

----------------------------------------------------------------------------
(* What a body says, read as a whole: its lines, the blocks of them that   *)
(* blank lines separate, and for each block its event.                     *)

\* What is in s before place n, since the last separator.
Piece(s, n, separator) ==
    LET cuts == {m \in 1 .. n - 1 : s[m] = separator}
    IN  SubSeq(s, IF cuts = {} THEN 1 ELSE Max(cuts) + 1, n - 1)

Lines(body) ==
    Keep([n \in DOMAIN body |-> Decoded(Piece(body, n, LF))], {n \in DOMAIN body : body[n] = LF})

Block(lines, n) == Piece(lines, n, <<>>)

\* the last value of each field, and all of the data from the first that is not empty
EventOf(block) ==
    LET values == [n \in DOMAIN block |-> Value(block[n])]
        of(field) == {n \in DOMAIN block : Field(block[n]) = field}
        last(places) == IF places = {} THEN None ELSE Some(values[Max(places)])
    IN  [event |-> last(of("event")), id |-> last(of("id")),
         retry |-> last({n \in of("retry") : IsNumber(values[n])}),
         data  |-> Keep(values, {n \in of("data") :
                                  \E m \in of("data") : m <= n /\ values[m] # <<>>})]

EventsOf(body) ==
    LET lines == Lines(body)
        event(n) == EventOf(Block(lines, n))
    IN  Keep([n \in DOMAIN lines |-> event(n)],
             {n \in DOMAIN lines : lines[n] = <<>> /\ ~IsEmpty(event(n))})
=============================================================================
