---------------------------------- MODULE Wire ----------------------------------
(***************************************************************************)
(* How the bytes of a connection become frames, lines and file requests    *)
(* (crates/bnetcc-proto: buf.rs, bncs.rs, mcp.rs, line.rs, bnftp.rs) in    *)
(* the read loops of session.rs and realm.rs, which get them in pieces cut *)
(* anywhere.  A byte is a digit in base Base, so that lengths of a few     *)
(* bytes take both digits of a length field, and the sizes are scaled.     *)
(***************************************************************************)
EXTENDS Values, Integers, SequencesExt

CONSTANTS
  Base, NUL, CR, LF, Magic,   \* bytes
  ReadChunk,                  \* what a read makes room for
  CompactAt,                  \* consumed bytes that are worth moving the rest for
  MaxFrame, MaxLine, MaxRequest, MaxFilename,
  Version2,                   \* BNFTP of Warcraft III
  V1Min, V1Fields,            \* least length and fixed fields of a version 1 request
  V2Min, V2Fixed              \* version 2: the header, the answer to the token

Byte == 0..Base - 1

Put(v, n) == [i \in 1..n |-> (v \div Base^(i - 1)) % Base]
Take(s, at) == s[at] + Base * s[at + 1]
From(s, i) == SubSeq(s, i, Len(s))

-----------------------------------------------------------------------------
(* RecvBuf: bytes, of which the first head are consumed.                   *)

NewBuf == [buf |-> <<>>, head |-> 0]

AsSlice(b) == From(b.buf, b.head + 1)

\* mutant: the bytes kept are those from the new head, which is not reset
ConsumeKeepsHead(b, n) ==
  LET head == IF b.head + n < Len(b.buf) THEN b.head + n ELSE Len(b.buf)
  IN  IF head = Len(b.buf) THEN NewBuf
      ELSE [buf |-> IF head >= CompactAt THEN From(b.buf, head + 1) ELSE b.buf, head |-> head]

Consume(b, n) ==
  LET head == IF b.head + n < Len(b.buf) THEN b.head + n ELSE Len(b.buf)
  IN  IF head = Len(b.buf) THEN NewBuf
      ELSE IF head >= Len(b.buf) \div 2 /\ head >= CompactAt
           THEN [buf |-> From(b.buf, head + 1), head |-> 0]
           ELSE [b EXCEPT !.head = head]

(* writable_tail makes room, the read fills some of it, commit cuts the    *)
(* rest off.                                                               *)
WritableTail(b) ==
  LET c == IF b.head > 0 /\ b.head = Len(b.buf) THEN NewBuf ELSE b
  IN  [c EXCEPT !.buf = @ \o [i \in 1..ReadChunk |-> NUL]]

Commit(b, written) == [b EXCEPT !.buf = SubSeq(@, 1, Len(@) - (ReadChunk - written))]

Filled(b, data) ==
  [b EXCEPT !.buf = [i \in DOMAIN @ |-> LET j == i - (Len(@) - ReadChunk)
                                        IN  IF j \in 1..Len(data) THEN data[j] ELSE @[i]]]

Receive(b, data) == Commit(Filled(WritableTail(b), data), Len(data))

-----------------------------------------------------------------------------
(* Reader and Writer strings.                                              *)

WriteCstr(v) == SelectSeq(v, LAMBDA c : c # NUL) \o <<NUL>>

FirstNul(s) == SelectInSeq(s, LAMBDA c : c = NUL)

ReadCstr(s, limit) ==
  IF FirstNul(s) = 0 \/ FirstNul(s) - 1 > limit THEN Error ELSE SubSeq(s, 1, FirstNul(s) - 1)

-----------------------------------------------------------------------------
(* Decoders: from the unread bytes to what they start with.                *)

Wait == [is |-> "wait"]
Bad == [is |-> "bad"]
Item(value, used) == [is |-> "item", value |-> value, used |-> used]

(* Where the header of a frame has its fields: bncs.rs and mcp.rs.         *)
Bncs == [header |-> 4, magic |-> TRUE, id |-> 2, len |-> 3]
Mcp == [header |-> 3, magic |-> FALSE, id |-> 3, len |-> 1]

FrameHeader(h, id, len) == IF h.magic THEN <<Magic, id>> \o Put(len, 2) ELSE Put(len, 2) \o <<id>>

EncodeFrame(h, f) == FrameHeader(h, f.id, h.header + Len(f.body)) \o f.body

DecodeFrame(h, s) ==
  IF Len(s) < h.header THEN Wait
  ELSE LET len == Take(s, h.len)
       IN  IF (h.magic /\ s[1] # Magic) \/ len < h.header \/ len > MaxFrame THEN Bad
           ELSE IF Len(s) < len THEN Wait
           ELSE Item([id |-> s[h.id], body |-> SubSeq(s, h.header + 1, len)], len)

EncodeLine(line) == line \o <<CR, LF>>

DecodeLine(s) ==
  LET end == SelectInSeq(s, LAMBDA c : c = LF)
  IN  IF end - 1 > MaxLine \/ (end = 0 /\ Len(s) > MaxLine) THEN Bad
      ELSE IF end = 0 THEN Wait
      ELSE Item(SubSeq(s, 1, IF end > 1 /\ s[end - 1] = CR THEN end - 2 ELSE end - 1), end)

Decode(p, s) ==
  CASE p = "bncs" -> DecodeFrame(Bncs, s)
    [] p = "mcp" -> DecodeFrame(Mcp, s)
    [] p = "chat" -> DecodeLine(s)

(* ProtocolSelector and session::handle: a connection's first byte.        *)
Selected(b) ==
  CASE b = 1 -> "bncs"
    [] b = 2 -> "bnftp"
    [] b = 3 -> "chat"
    [] OTHER -> None

-----------------------------------------------------------------------------
(* The read loops: every complete item of the buffer is handled before the *)
(* next read, and a malformed one ends the connection.                     *)

Start == [buf |-> NewBuf, out |-> <<>>, open |-> TRUE]

RECURSIVE Drain(_, _)
Drain(p, c) ==
  LET next == Decode(p, AsSlice(c.buf))
  IN  CASE next.is = "wait" -> c
        [] next.is = "bad" -> [c EXCEPT !.open = FALSE]
        [] next.is = "item" ->
             Drain(p, [c EXCEPT !.buf = Consume(@, next.used),
                                !.out = IF next.value = <<>> THEN @ ELSE Append(@, next.value)])

ReadLoop(p, chunks) ==
  FoldLeft(LAMBDA c, chunk : IF c.open THEN Drain(p, [c EXCEPT !.buf = Receive(@, chunk)]) ELSE c,
           Start, chunks)

-----------------------------------------------------------------------------
(* BNFTP: one request.  Version 1 names the file in it; version 2 sends a  *)
(* header, waits for a token and names the file in its answer.             *)

DecodeRequest(s) ==
  IF Len(s) < 4 THEN Wait
  ELSE LET declared == Take(s, 1)
           version == Take(s, 3)
           name == ReadCstr(From(SubSeq(s, 1, declared), 5 + V1Fields), MaxFilename)
       IN  IF declared > MaxRequest \/ declared < (IF version = Version2 THEN V2Min ELSE V1Min) THEN Bad
           ELSE IF Len(s) < declared THEN Wait
           ELSE IF version = Version2 THEN Item(None, Len(s))
           ELSE IF declared < 4 + V1Fields \/ name = Error THEN Bad
           ELSE Item(name, declared)

DecodeAnswer(s) ==
  LET rest == From(s, V2Fixed + 1)
  IN  IF Len(s) < V2Fixed \/ FirstNul(rest) = 0 THEN Wait
      ELSE IF FirstNul(rest) - 1 > MaxFilename THEN Bad
      ELSE Item(SubSeq(rest, 1, FirstNul(rest) - 1), Len(s))

(* Reads until the decoder is content, the peer is done or too much came.  *)
RECURSIVE ReadUntil(_, _, _)
ReadUntil(phase, s, chunks) ==
  LET r == IF phase = 1 THEN DecodeRequest(s) ELSE DecodeAnswer(s)
  IN  IF r.is # "wait" THEN [result |-> r, chunks |-> chunks]
      ELSE IF Len(s) > MaxRequest \/ chunks = <<>> THEN [result |-> Bad, chunks |-> <<>>]
      ELSE ReadUntil(phase, s \o Head(chunks), Tail(chunks))

(* What came with the header, beyond it, is dropped: answer starts empty.  *)
Requested(chunks) ==
  LET first == ReadUntil(1, <<>>, chunks)
      answer == ReadUntil(2, <<>>, first.chunks)
  IN  CASE first.result.is # "item" -> Error
        [] first.result.value # None -> first.result.value
        [] answer.result.is = "item" -> answer.result.value
        [] OTHER -> Error

EncodeRequest(name) ==
  LET body == Put(1, 2) \o [i \in 1..V1Fields |-> Magic] \o WriteCstr(name)
  IN  Put(Len(body) + 2, 2) \o body

EncodeHeader2 == Put(V2Min, 2) \o Put(Version2, 2) \o [i \in 1..V2Min - 4 |-> Magic]

EncodeAnswer(name) == [i \in 1..V2Fixed |-> NUL] \o WriteCstr(name)

-----------------------------------------------------------------------------
(* Properties.                                                             *)

(* The ways to cut a stream in at most three non-empty pieces.             *)
Cuts(s) ==
  {SelectSeq(<<SubSeq(s, 1, i), SubSeq(s, i + 1, j), From(s, j + 1)>>, LAMBDA c : c # <<>>) :
     <<i, j>> \in {c \in (0..Len(s)) \X (0..Len(s)) : c[1] <= c[2]}}

Frames == {[id |-> NUL, body |-> <<>>], [id |-> Magic, body |-> <<LF>>], [id |-> CR, body |-> <<NUL, Magic>>]}
Lines == {<<>>, <<NUL, CR>>, [i \in 1..MaxLine - 1 |-> Magic]}

(* What may follow the last whole frame: nothing, an unfinished one, or    *)
(* one that ends the connection.                                           *)
FrameTails(h) ==
  LET whole == EncodeFrame(h, [id |-> LF, body |-> <<CR>>])
  IN  {[bytes |-> SubSeq(whole, 1, n), open |-> TRUE] : n \in 0..Len(whole) - 1}
        \cup {[bytes |-> FrameHeader(h, LF, n), open |-> n \in h.header + 1..MaxFrame] :
                 n \in {h.header - 1, MaxFrame, MaxFrame + 1}}

LineTails ==
  {[bytes |-> [i \in 1..n |-> Magic], open |-> n <= MaxLine] : n \in 0..MaxLine + 1}
    \cup {[bytes |-> [i \in 1..MaxLine |-> Magic] \o <<CR, LF>>, open |-> FALSE]}

Sent(encode(_), items) == FlattenSeq([i \in DOMAIN items |-> encode(items[i])])

(* However the network cuts the bytes of a connection, its frames are      *)
(* handled once each, whole and in order, what is unfinished waits, and    *)
(* what can never be valid ends the connection after everything before it, *)
(* also when the buffer is compacted half-way through.                     *)
FramesAnyCut ==
  \A p \in {"bncs", "mcp"}, items \in SeqOf(Frames, 2) :
    LET h == IF p = "bncs" THEN Bncs ELSE Mcp
    IN  \A tail \in FrameTails(h) :
          \A chunks \in Cuts(Sent(LAMBDA f : EncodeFrame(h, f), items) \o tail.bytes) :
            LET end == ReadLoop(p, chunks)
            IN  end.out = items /\ end.open = tail.open

(* The same for the lines of the chat gateway, which skips empty ones.     *)
LinesAnyCut ==
  \A items \in SeqOf(Lines, 2), tail \in LineTails :
    \A chunks \in Cuts(Sent(EncodeLine, items) \o tail.bytes) :
      LET end == ReadLoop("chat", chunks)
      IN  end.out = SelectSeq(items, LAMBDA l : l # <<>>) /\ end.open = tail.open

(* The same for a file request, of either version: the name asked for is   *)
(* the one sent, when it fits, from a client that waits for the token.     *)
RequestsAnyCut ==
  \A name \in {<<>>, <<CR>>, [i \in 1..MaxFilename |-> LF], [i \in 1..MaxFilename + 1 |-> LF]} :
    LET expected == IF Len(name) > MaxFilename THEN Error ELSE name
    IN  /\ \A chunks \in Cuts(EncodeRequest(name)) : Requested(chunks) = expected
        /\ \A header \in Cuts(EncodeHeader2), answer \in Cuts(EncodeAnswer(name)) :
             Requested(header \o answer) = expected

FramingIndependent == FramesAnyCut /\ LinesAnyCut /\ RequestsAnyCut
=============================================================================
