---------------------------------- MODULE Http ----------------------------------
(***************************************************************************)
(* One HTTP request as the admin panel reads it (status.rs), and the path  *)
(* of one as the public feed and the tracker read it (public_status.rs,    *)
(* tracker.rs).  Bytes are real and the limit is scaled.  The words of a   *)
(* head are single values below zero, and Content-Length is one digit.     *)
(***************************************************************************)
EXTENDS Names

CONSTANTS
  MaxHttp      \* MAX_REQUEST_BYTES

EOL == <<13, 10>>
Plus == 43
Percent == 37
Amp == 38
Equals == 61
Question == 63
Semicolon == 59

GET == -1
POST == -2
ContentLength == -3
Cookie == -4
OtherHeader == -5

(* str::split: the pieces of s between its separators.                     *)
Pieces(s, sep) ==
  FoldLeft(LAMBDA out, c : IF c = sep THEN Append(out, <<>>) ELSE Front(out) \o <<Append(Last(out), c)>>,
           << <<>> >>, s)

(* str::split_once: None when there is no separator.                       *)
SplitOnce(s, sep) ==
  LET at == SelectInSeq(s, LAMBDA c : c = sep)
  IN  IF at = 0 THEN None ELSE <<SubSeq(s, 1, at - 1), From(s, at + 1)>>

Trim(s) ==
  LET kept == {i \in DOMAIN s : s[i] # Sp}
  IN  IF kept = {} THEN <<>> ELSE SubSeq(s, Min(kept), Max(kept))

WordsOf(s) == SelectSeq(Pieces(s, Sp), LAMBDA w : w # <<>>)

(* Where the needle starts in s, 0 when it is nowhere.                     *)
Find(s, needle) ==
  LET at == {i \in 1..Len(s) - Len(needle) + 1 : SubSeq(s, i, i + Len(needle) - 1) = needle}
  IN  IF at = {} THEN 0 ELSE Min(at)

HexVal(c) ==
  CASE c \in 48..57 -> c - 48
    [] c \in 97..102 -> c - 87
    [] c \in 65..70 -> c - 55
    [] OTHER -> None

(* A percent sign that two hexadecimal digits do not follow is kept.       *)
RECURSIVE UrlDecode(_)
UrlDecode(s) ==
  IF s = <<>> THEN <<>>
  ELSE IF s[1] = Plus THEN <<Sp>> \o UrlDecode(Tail(s))
  ELSE IF s[1] = Percent /\ Len(s) >= 3 /\ HexVal(s[2]) # None /\ HexVal(s[3]) # None
       THEN <<HexVal(s[2]) * 16 + HexVal(s[3])>> \o UrlDecode(From(s, 4))
  ELSE <<s[1]>> \o UrlDecode(Tail(s))

ParseForm(body) ==
  LET Field(pair) == IF Has(pair, Equals) THEN SplitOnce(pair, Equals) ELSE <<pair, <<>> >>
  IN  FoldLeft(LAMBDA out, pair : (UrlDecode(Field(pair)[1]) :> UrlDecode(Field(pair)[2])) @@ out,
               <<>>, SelectSeq(Pieces(body, Amp), LAMBDA p : p # <<>>))

RECURSIVE HeadLines(_)
HeadLines(s) ==
  LET at == Find(s, EOL)
  IN  IF at = 0 THEN <<s>> ELSE <<SubSeq(s, 1, at - 1)>> \o HeadLines(From(s, at + 2))

Cookies(v) ==
  LET pairs == SelectSeq(Pieces(v, Semicolon), LAMBDA p : Has(p, Equals))
      Of(p) == SplitOnce(Trim(p), Equals)
  IN  FoldLeft(LAMBDA out, p : (Trim(Of(p)[1]) :> Trim(Of(p)[2])) @@ out, <<>>, pairs)

(* The header lines: a number that does not parse counts as 0, lines       *)
(* without a colon and headers of no use are passed over.                  *)
Headers(lines) ==
  FoldLeft(LAMBDA out, line :
             LET kv == SplitOnce(line, Colon) IN
             CASE kv = None -> out
               [] Trim(kv[1]) = <<ContentLength>> ->
                    [out EXCEPT !.length = IF Len(Trim(kv[2])) = 1 /\ Digit(Trim(kv[2])[1]) THEN Trim(kv[2])[1] - 48 ELSE 0]
               [] Trim(kv[1]) = <<Cookie>> -> [out EXCEPT !.cookies = Cookies(kv[2]) @@ @]
               [] OTHER -> out,
           [length |-> 0, cookies |-> <<>>], lines)

(* The body: what came with the head, then reads until there is enough. A  *)
(* peer that closes early has sent what it has sent.                       *)
RECURSIVE ReadBody(_, _, _)
ReadBody(body, length, chunks) ==
  IF Len(body) >= length \/ chunks = <<>> THEN CutTo(body, length)
  ELSE LET more == body \o Head(chunks)
       IN  IF Len(more) > MaxHttp THEN Error ELSE ReadBody(more, length, Tail(chunks))

Parsed(head, rest, chunks) ==
  LET lines == HeadLines(head)
      words == WordsOf(lines[1])
      headers == Headers(Tail(lines))
      body == ReadBody(rest, IF headers.length < MaxHttp THEN headers.length ELSE MaxHttp, chunks)
      target == SplitOnce(words[2], Question)
  IN  IF Len(words) < 2 \/ body = Error THEN None
      ELSE [method |-> words[1],
            path |-> IF target = None THEN words[2] ELSE target[1],
            query |-> IF target = None THEN <<>> ELSE ParseForm(target[2]),
            cookies |-> headers.cookies,
            form |-> IF words[1] = <<POST>> THEN ParseForm(body) ELSE <<>>]

(* read_request *)
RECURSIVE ReadRequest(_, _)
ReadRequest(buf, chunks) ==
  LET at == Find(buf, EOL \o EOL)
  IN  IF at > 0 THEN Parsed(SubSeq(buf, 1, at + 3), From(buf, at + 4), chunks)
      ELSE IF chunks = <<>> \/ Len(buf \o Head(chunks)) > MaxHttp THEN None
      ELSE ReadRequest(buf \o Head(chunks), Tail(chunks))

PathOf(line) ==
  IF Len(WordsOf(line)) < 2 THEN None ELSE Pieces(WordsOf(line)[2], Question)[1]

(* read_path, of public_status.rs: the limit is tried on the buffer after  *)
(* a read; the tracker's tries it before, on the buffer so far.            *)
RECURSIVE ReadPath(_, _, _)
ReadPath(buf, chunks, after) ==
  LET at == Find(buf, EOL)
  IN  IF at > 0 THEN PathOf(SubSeq(buf, 1, at - 1))
      ELSE IF chunks = <<>> \/ Len(IF after THEN buf \o Head(chunks) ELSE buf) > MaxHttp THEN None
      ELSE ReadPath(buf \o Head(chunks), Tail(chunks), after)

-----------------------------------------------------------------------------
(* The browser.                                                            *)

HexDigit(n) == IF n < 10 THEN 48 + n ELSE 55 + n

UrlEncode(s) ==
  FlattenSeq([i \in DOMAIN s |-> IF s[i] = Sp THEN <<Plus>>
                                 ELSE IF Letter(s[i]) \/ Digit(s[i]) THEN <<s[i]>>
                                 ELSE <<Percent, HexDigit(s[i] \div 16), HexDigit(s[i] % 16)>>])

EncodeForm(keys, form) ==
  FlattenSeq([i \in DOMAIN keys |-> (IF i = 1 THEN <<>> ELSE <<Amp>>)
                                    \o UrlEncode(keys[i]) \o <<Equals>> \o UrlEncode(form[keys[i]])])

BrowserSends(method, target, cookie, body) ==
  <<method, Sp>> \o target \o EOL
    \o <<OtherHeader, Colon, Sp, 97>> \o EOL
    \o <<Cookie, Colon, Sp, 98, Equals, 99, Semicolon, Sp, 97, Equals>> \o cookie \o EOL
    \o (IF body = <<>> THEN <<>> ELSE <<ContentLength, Colon, Sp, 48 + Len(body)>> \o EOL)
    \o EOL \o body

(* However a request comes in, its path, its query, its cookies and the    *)
(* fields of its form are those the browser sent, whatever the characters  *)
(* in them; one that cannot fit is not answered.                           *)
FormsAnyCut ==
  LET texts == {<<>>, <<Sp>>, <<Amp>>, <<Equals>>, <<Percent>>, <<Plus>>, <<200>>, <<97, 65>>}
      Field(v) == <<97>> :> v
  IN  /\ \A a \in texts, b \in texts :
           LET keys == << <<97>>, <<98, Amp>> >>
               form == (keys[1] :> a) @@ (keys[2] :> b)
           IN  ParseForm(EncodeForm(keys, form)) = form
      /\ \A v \in texts, method \in {GET, POST}, path \in {<<Slash, 120>>, [i \in 1..9 |-> Slash]} :
           LET encoded == EncodeForm(<< <<97>> >>, Field(v))
               body == IF method = POST THEN encoded ELSE <<>>
               all == BrowserSends(method, path \o <<Question>> \o encoded, <<100>>, body)
           IN  \A chunks \in Cuts(all) :
                 LET r == ReadRequest(<<>>, chunks) IN
                 /\ Len(all) <= MaxHttp =>
                      /\ r = [method |-> <<method>>, path |-> path, query |-> Field(v),
                              cookies |-> (<<98>> :> <<99>>) @@ (<<97>> :> <<100>>),
                              form |-> IF method = POST THEN Field(v) ELSE <<>>]
                      /\ ReadPath(<<>>, chunks, TRUE) = path
                      /\ ReadPath(<<>>, chunks, FALSE) = path
                 /\ Len(all) - Len(body) > MaxHttp => r = None
=============================================================================
