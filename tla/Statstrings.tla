------------------------------ MODULE Statstrings ------------------------------
(***************************************************************************)
(* What a user shows to the others of a channel: the statstring, built by  *)
(* crates/bnetcc-proto/src/statstring.rs and d2.rs, guarded by             *)
(* Bncs::set_statstring and sent as a C string.  Bytes are real here; what *)
(* a client does with them is the reference (BNETDocs and the comments of  *)
(* d2_is_safe), written down under Properties.                             *)
(***************************************************************************)
EXTENDS Wire, Bitwise

Space == 32
Comma == 44
FF == 255
Tag(fourcc) == Reverse(fourcc)

STAR == <<83, 84, 65, 82>>
SEXP == <<83, 69, 88, 80>>
SSHR == <<83, 83, 72, 82>>
JSTR == <<74, 83, 84, 82>>
DRTL == <<68, 82, 84, 76>>
DSHR == <<68, 83, 72, 82>>
W2BN == <<87, 50, 66, 78>>
D2DV == <<68, 50, 68, 86>>
D2XP == <<68, 50, 88, 80>>
D2ST == <<68, 50, 83, 84>>
WAR3 == <<87, 65, 82, 51>>
W3XP == <<87, 51, 88, 80>>
Products == {STAR, SEXP, SSHR, JSTR, DRTL, DSHR, W2BN, D2DV, D2XP, WAR3, W3XP}

-----------------------------------------------------------------------------
(* The 33 bytes of a realm character (d2.rs).                              *)

PortraitLen == 33
Nothing(n) == [i \in 1..n |-> FF]
Assassin == 6
StatusShown == 108              \* hardcore, dead, expansion, ladder: 0x6C

\* mutant: the high bit is set on the first byte only
Push14Low(v) == <<128 + (v % 128), (v \div 128) % 128>>

(* Seven bits per byte, the high bit always set.                           *)
Push14(v) == <<128 + (v % 128), 128 + ((v \div 128) % 128)>>

Clamp(v, low, high) == IF v < low THEN low ELSE IF v > high THEN high ELSE v

Encode(c, header) ==
  header \o Nothing(11) \o <<Clamp(c.class, 0, Assassin) + 1>>
    \o Nothing(11) \o <<Clamp(c.level, 1, 99)>>
    \o Push14(256 * (c.progression % 32) + (c.status & StatusShown)) \o Push14(0)
    \o <<FF>> \o <<FF, FF>>

CharlistBytes(c, realmCount) == Encode(c, Push14(realmCount))

ChatStatstring(c, product, realm, name) ==
  Tag(product) \o realm \o <<Comma>> \o name \o <<Comma>> \o Encode(c, <<132, 128>>)

(* Realm,Character as SID_ENTERCHAT names it.                              *)
ParseEnterchat(raw) ==
  LET at == SelectInSeq(raw, LAMBDA b : b = Comma)
  IN  IF at <= 1 \/ at = Len(raw) THEN None
      ELSE [realm |-> SubSeq(raw, 1, at - 1), name |-> From(raw, at + 1)]

-----------------------------------------------------------------------------
(* The other products' (statstring.rs).                                    *)

Decimal(n) == IF n < 10 THEN <<48 + n>> ELSE <<48 + ((n \div 10) % 10), 48 + (n % 10)>>

Spaced(fields) == FlattenSeq([i \in DOMAIN fields |-> <<Space>> \o fields[i]])

BareTag == {WAR3, W3XP, D2DV, D2XP}

BuildDefault(product) ==
  CASE product \in BareTag -> Tag(product)
    [] product \in {DRTL, DSHR} ->
         Tag(product) \o Spaced([i \in 1..9 |-> Decimal(<<1, 0, 0, 30, 10, 20, 25, 0, 0>>[i])])
    [] OTHER -> Tag(product) \o Spaced([i \in 1..8 |-> Decimal(0)] \o <<Tag(product)>>)

NoRecord == [rating |-> 0, rank |-> 0, wins |-> 0, high |-> 0, iron |-> 0, ironRank |-> 0]

BuildStarcraft(product, r) ==
  LET numbers == <<r.rating, r.rank, r.wins, 0, 0, r.high, r.iron, r.ironRank>>
  IN  Tag(product) \o Spaced([i \in 1..8 |-> Decimal(numbers[i])] \o <<Tag(product)>>)

D2Tags == {Tag(D2DV), Tag(D2XP), Tag(D2ST)}

D2IsSafe(s) ==
  \/ Len(s) < 4
  \/ SubSeq(s, 1, 4) \notin D2Tags
  \/ Len(s) = 4
  \/ Len(SelectSeq(From(s, 5), LAMBDA b : b = Comma)) >= 2

(* The single place a session's statstring changes.                        *)
SetStatstring(s) == IF D2IsSafe(s) THEN s ELSE SubSeq(s, 1, 4)

(* The fields between spaces, empty ones left out.                         *)
Split(raw) ==
  LET sep == <<0>> \o SelectSeq([i \in DOMAIN raw |-> i], LAMBDA i : raw[i] = Space) \o <<Len(raw) + 1>>
      parts == [i \in 1..Len(sep) - 1 |-> SubSeq(raw, sep[i] + 1, sep[i + 1] - 1)]
  IN  SelectSeq(parts, LAMBDA p : p # <<>>)

Parse(raw) ==
  LET parts == Split(raw)
  IN  IF parts # <<>> /\ Len(Head(parts)) = 4
      THEN [product |-> Reverse(Head(parts)), fields |-> Tail(parts)]
      ELSE [product |-> None, fields |-> parts]

(* Warcraft III icon codes: level, tier letter, "3W".                      *)
TierLetters == {82, 72, 85, 78, 79, 68}
ToFourcc(icon) == <<48 + icon.level, icon.tier, 51, 87>>
ParseIcon(b) ==
  IF b[3] = 51 /\ b[4] = 87 /\ b[1] - 48 \in 1..6 /\ b[2] \in TierLetters
  THEN [level |-> b[1] - 48, tier |-> b[2]] ELSE None

Wc3IconCode(raw) ==
  LET fields == Parse(raw).fields
  IN  IF fields = <<>> \/ Len(Head(fields)) # 4 \/ ParseIcon(Head(fields)) = None THEN None
      ELSE Head(fields)

-----------------------------------------------------------------------------
(* Properties.                                                             *)

(* What reaches a client: the field of SID_CHATEVENT, a C string.          *)
Received(s) == LET bytes == WriteCstr(s) IN SubSeq(bytes, 1, FirstNul(bytes) - 1)

(* A Diablo II client copies two fields that end with a comma and nothing  *)
(* else, then the portrait; Error where it would read past the string.     *)
ClientReads(s) ==
  LET body == From(s, 5)
      one == SelectInSeq(body, LAMBDA b : b = Comma)
      rest == From(body, one + 1)
      two == SelectInSeq(rest, LAMBDA b : b = Comma)
  IN  IF Len(s) < 4 \/ SubSeq(s, 1, 4) \notin D2Tags \/ Len(s) = 4 THEN None
      ELSE IF one = 0 \/ two = 0 THEN Error
      ELSE [realm |-> SubSeq(body, 1, one - 1), name |-> SubSeq(rest, 1, two - 1),
            portrait |-> From(rest, two + 1)]

Get14(s, i) == (s[i] - 128) + 128 * (s[i + 1] - 128)

Drawn(p) == [class |-> p[14] - 1, level |-> p[26], flags |-> Get14(p, 27)]

Portraits ==
  [class : {0, 6, 7}, status : {0, 4, 108, 255}, level : {0, 1, 10, 99, 255}, progression : {0, 1, 31, 32}]
RealmName == <<82, 49>>
CharacterName == <<104, 45, 104>>

(* A character drawn in a channel is the one that was sent: whatever its   *)
(* class, level, flags and progress, no byte of it ends the string early,  *)
(* and the client finds the realm, the name and 33 bytes that decode to    *)
(* the same character, brought into range.                                 *)
CharactersReadBack ==
  \A c \in Portraits, product \in {D2DV, D2XP} :
    LET seen == ClientReads(Received(SetStatstring(ChatStatstring(c, product, RealmName, CharacterName))))
    IN  /\ seen.realm = RealmName /\ seen.name = CharacterName
        /\ Len(seen.portrait) = PortraitLen
        /\ Drawn(seen.portrait) =
             [class |-> Clamp(c.class, 0, 6), level |-> Clamp(c.level, 1, 99),
              flags |-> (c.status & StatusShown) + 256 * (c.progression % 32)]

(* The same for the character screen, whose header counts the characters.  *)
CharlistReadsBack ==
  \A c \in Portraits, n \in {0, 1, 8, 127, 128, 300} :
    LET seen == Received(CharlistBytes(c, n)) IN Len(seen) = PortraitLen /\ Get14(seen, 1) = n

Odd == SeqOf({Comma, Space, 65}, 4)

(* Nothing that set_statstring lets through makes a Diablo II client read  *)
(* past the string, also when the realm or the character has commas.       *)
NeverOverread ==
  \A t \in D2Tags \cup {Tag(STAR)}, s \in Odd : ClientReads(Received(SetStatstring(t \o s))) # Error

(* Every client identifies a user without a record by its product; an      *)
(* empty record shows the same line as none; and the record of a player is *)
(* read back field by field, the icon last.                                *)
RecordsReadBack ==
  /\ \A p \in Products : Parse(SetStatstring(BuildDefault(p))).product = p
  /\ \A p \in {STAR, SEXP, JSTR, SSHR, W2BN}, n \in {0, 9, 10, 99} :
       /\ BuildStarcraft(p, NoRecord) = BuildDefault(p)
       /\ LET seen == Parse(BuildStarcraft(p, [NoRecord EXCEPT !.rank = n, !.iron = n]))
          IN  /\ seen.product = p /\ Len(seen.fields) = 9 /\ Last(seen.fields) = Tag(p)
              /\ seen.fields[2] = Decimal(n) /\ seen.fields[7] = Decimal(n)

(* A Warcraft III icon code is found in a statstring exactly when the user *)
(* has one, and a level or a clan tag in its place is not taken for one.   *)
IconsReadBack ==
  \A level \in 0..7, tier \in TierLetters \cup {65} :
    LET code == ToFourcc([level |-> level, tier |-> tier])
        real == level \in 1..6 /\ tier \in TierLetters
    IN  /\ Wc3IconCode(Tag(W3XP) \o Spaced(<<code, Decimal(level)>>)) = IF real THEN code ELSE None
        /\ Wc3IconCode(Tag(W3XP) \o Spaced(<<Decimal(level), code>>)) = None
        /\ Wc3IconCode(Tag(W3XP)) = None

StatstringsReadBack ==
  CharactersReadBack /\ CharlistReadsBack /\ NeverOverread /\ RecordsReadBack /\ IconsReadBack
=============================================================================
