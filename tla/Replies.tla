-------------------------------- MODULE Replies --------------------------------
(***************************************************************************)
(* Packets and files that a client takes apart field by field: the game    *)
(* list of a realm (bnetcc-proto/src/mcp.rs), Warcraft III's general       *)
(* requests (w3general.rs), icon files (bni.rs) and the banners of         *)
(* bnetcc-core/src/ads.rs.  A number of any width is one cell; a string is *)
(* its bytes and a NUL.  The limits are scaled.                            *)
(***************************************************************************)
EXTENDS Statstrings

CONSTANTS
  GameNameMax, DescriptionMax,
  GameinfoCharacters,           \* a GAMEINFO packet holds this many
  MaxCodes,                     \* icon codes of one BNI entry
  NameMax                       \* of a profile request

-----------------------------------------------------------------------------
(* mcp.rs: the list and the details of games.                              *)

StatusNone == -1
StatusEnd == -2

GameFlags(difficulty, hardcore, expansion, ladder) ==
  4 + 4096 * (IF difficulty < 2 THEN difficulty ELSE 2)
    + (IF hardcore THEN 2048 ELSE 0) + (IF expansion THEN 1048576 ELSE 0) + (IF ladder THEN 2097152 ELSE 0)

\* mutant: cut to the length without stopping at a NUL, which the writer drops
ClippedWhole(s, max) == SubSeq(s, 1, IF Len(s) < max THEN Len(s) ELSE max)

Clipped(s, max) ==
  LET text == IF FirstNul(s) = 0 THEN s ELSE SubSeq(s, 1, FirstNul(s) - 1)
  IN  SubSeq(text, 1, IF Len(text) < max THEN Len(text) ELSE max)

GamelistEntry(request, token, g) ==
  <<request, token, g.players, g.status>>
    \o WriteCstr(Clipped(g.name, GameNameMax)) \o WriteCstr(Clipped(g.description, DescriptionMax))

GamelistEnd(request) == <<request, 0, 0, StatusEnd>>

Padded(s) == [i \in 1..GameinfoCharacters |-> IF i \in DOMAIN s THEN s[i] ELSE 0]

GameinfoReply(request, info) ==
  LET n == IF Len(info.characters) < GameinfoCharacters THEN Len(info.characters) ELSE GameinfoCharacters
      shown == SubSeq(info.characters, 1, n)
  IN  <<request, info.status, info.uptime, info.creator, info.difference, info.maxPlayers, n>>
        \o Padded([i \in 1..n |-> shown[i].class]) \o Padded([i \in 1..n |-> shown[i].level])
        \o WriteCstr(Clipped(info.description, DescriptionMax))
        \o FlattenSeq([i \in 1..n |-> WriteCstr(Clipped(shown[i].name, GameNameMax))])

GameinfoNone(request) == <<request, StatusNone, 0, 0, 255, 0, 0>>

-----------------------------------------------------------------------------
(* w3general.rs and Bncs::warcraft_general.                                *)

TOURNAMENT == 7
USER_RECORD == 4
CLAN_RECORD == 8
ICON_LIST == 9

(* A product as one number, as it is sent.                                 *)
FourCc(p) == p[4] + 256 * (p[3] + 256 * (p[2] + 256 * p[1]))

RaceRecords(fourcc) == IF fourcc = FourCc(W3XP) THEN 6 ELSE 5

(* A request, its fields in their order; Error when it is cut short.       *)
Fields(kind) ==
  CASE kind = 0 -> 9 [] kind = 2 -> 2 [] kind = TOURNAMENT -> 1 [] kind = USER_RECORD -> 2
    [] kind = CLAN_RECORD -> 3 [] kind = ICON_LIST -> 1 [] kind = 10 -> 1 [] OTHER -> 0

ParseRequest(body) ==
  IF body = <<>> THEN Error
  ELSE LET kind == Head(body)
           rest == From(body, 3)
           name == ReadCstr(rest, NameMax)
           fixed == IF kind = USER_RECORD /\ name # Error THEN From(rest, Len(name) + 2) ELSE rest
       IN  IF Len(body) - 1 < Fields(kind) \/ (kind = USER_RECORD /\ (name = Error \/ fixed = <<>>))
           THEN Error
           ELSE [kind |-> kind, cookie |-> IF Fields(kind) > 0 THEN body[2] ELSE None,
                 product |-> CASE kind = USER_RECORD -> Head(fixed)
                               [] kind = CLAN_RECORD -> body[4]
                               [] OTHER -> None]

Zeroes(n) == [i \in 1..n |-> 0]

NoTournament(cookie) == <<TOURNAMENT, cookie, 0>> \o Zeroes(10)
EmptyUserRecord(cookie, races) ==
  <<USER_RECORD, cookie, 0, 0, races>> \o Zeroes(2 * races) \o <<0, 0, 0>>
EmptyClanRecord(cookie, races) == <<CLAN_RECORD, cookie, 0, races>> \o Zeroes(2 * races)
EmptyIconList(cookie) == <<ICON_LIST, cookie, 0, 0, 0>>

WarcraftGeneral(product, body) ==
  LET r == ParseRequest(body)
  IN  IF product \notin {WAR3, W3XP} \/ r = Error THEN None
      ELSE CASE r.kind = TOURNAMENT -> NoTournament(r.cookie)
             [] r.kind = USER_RECORD -> EmptyUserRecord(r.cookie, RaceRecords(r.product))
             [] r.kind = CLAN_RECORD -> EmptyClanRecord(r.cookie, RaceRecords(r.product))
             [] r.kind = ICON_LIST -> EmptyIconList(r.cookie)
             [] OTHER -> None

-----------------------------------------------------------------------------
(* bni.rs: a table of icons and the image they are cut from.               *)

HeaderLen == 5
MpqMagic == 26

Entry(icon) == <<icon.flags, icon.width, icon.height>> \o icon.codes \o <<0>>
Table(icons) == FlattenSeq([i \in DOMAIN icons |-> Entry(icons[i])])

Build(file) ==
  <<HeaderLen, 1, 0, Len(file.icons), HeaderLen + Len(Table(file.icons))>> \o Table(file.icons) \o file.image

(* One entry at the start of the table, which ends where the image begins. *)
ParseEntry(table) ==
  LET end == SelectInSubSeq(table, 4, Len(table), LAMBDA w : w = 0)
      codes == SubSeq(table, 4, end - 1)
  IN  IF end = 0 THEN Error
      ELSE IF Len(codes) > MaxCodes THEN Error
      ELSE [flags |-> table[1], width |-> table[2], height |-> table[3], codes |-> codes]

(* The icons and where they end.                                           *)
RECURSIVE ParseEntries(_, _, _)
ParseEntries(table, icons, count) ==
  IF Len(icons) = count THEN [icons |-> icons, used |-> Len(Table(icons))]
  ELSE LET icon == ParseEntry(From(table, Len(Table(icons)) + 1))
       IN  IF icon = Error THEN Error ELSE ParseEntries(table, Append(icons, icon), count)

ParseBni(b) ==
  IF (b # <<>> /\ Head(b) = MpqMagic) \/ Len(b) < HeaderLen THEN Error
  ELSE LET offset == b[5]
           table == ParseEntries(SubSeq(b, HeaderLen + 1, offset), <<>>, b[4])
       IN  IF b[1] # HeaderLen \/ b[2] # 1 \/ 4 * b[4] > Len(b) \/ offset \notin HeaderLen..Len(b)
           THEN Error
           ELSE IF table = Error \/ HeaderLen + (IF table = Error THEN 0 ELSE table.used) # offset
           THEN Error
           ELSE [icons |-> table.icons, image |-> From(b, offset + 1)]

Heights(icons) == FoldLeft(LAMBDA n, icon : n + icon.height, 0, icons)

(* The image starts with the type, width, height and depth of its header.  *)
Validate(file) ==
  LET tga == file.image
      widths == {file.icons[i].width : i \in DOMAIN file.icons} \cup {0}
  IN  {<<"unreachable", i>> : i \in {j \in DOMAIN file.icons : file.icons[j].flags = 0 /\ file.icons[j].codes = <<>>}}
        \cup (IF Len(tga) < 4 THEN {<<"not tga", 0>>}
              ELSE {<<"type", tga[1]>> : x \in {y \in {0} : tga[1] # 10}}
                     \cup {<<"depth", tga[4]>> : x \in {y \in {0} : tga[4] \notin {24, 32}}}
                     \cup {<<"width", tga[2]>> : x \in {y \in {0} : tga[2] # Max(widths)}}
                     \cup {<<"height", tga[3]>> : x \in {y \in {0} : tga[3] # Heights(file.icons)}})

SelectIcon(file, flags, code) ==
  SelectInSeq(file.icons, LAMBDA icon : IF icon.flags # 0 THEN (icon.flags & flags) # 0
                                        ELSE code # None /\ \E i \in DOMAIN icon.codes : icon.codes[i] = code)

IconYOffset(file, index) == Heights(SubSeq(file.icons, 1, index - 1))

-----------------------------------------------------------------------------
(* ads.rs and Bncs::check_ad: the client says which banner it shows.       *)

Matches(banner, product, language) ==
  banner.product \in {None, product} /\ banner.language \in {None, language}

(* AdRotation::new: ids from 1 in the order of the configuration.          *)
Rotation(banners) == [i \in DOMAIN banners |-> banners[i] @@ [id |-> i]]

NextAd(banners, product, language, previous, seed) ==
  LET candidates == SelectSeq(Rotation(banners), LAMBDA b : Matches(b, product, language))
      at == SelectInSeq(candidates, LAMBDA b : b.id = previous)
      n == Len(candidates)
  IN  IF n = 0 THEN None
      ELSE IF product \in {WAR3, W3XP} THEN candidates[1 + (seed % n)]
      ELSE IF at # 0 /\ at < n THEN candidates[at + 1] ELSE candidates[1]

(* The picture format a banner's name announces; png goes as mng.          *)
Extension(kind) == CASE kind = "smk" -> 1 [] kind \in {"mng", "png"} -> 2 [] kind = "pcx" -> 3 [] OTHER -> 0

(* The session asks without a language.                                    *)
CheckAd(banners, product, previous, seed) ==
  LET ad == NextAd(banners, product, None, previous, seed)
  IN  IF ad = None THEN None
      ELSE <<ad.id, Extension(ad.kind), 0>> \o WriteCstr(ad.filename) \o WriteCstr(ad.url)

-----------------------------------------------------------------------------
(* Lists and file times (session.rs).                                      *)

ChannelList(names) == FlattenSeq([i \in DOMAIN names |-> WriteCstr(names[i])]) \o WriteCstr(<<>>)

QueryRealms(product, realm) ==
  IF product \notin {D2DV, D2XP} \/ realm = None THEN <<0, 0>>
  ELSE <<0, 1, 1>> \o WriteCstr(realm.name) \o WriteCstr(realm.description)

(* The time of a file there is, 0 otherwise; times is what file_mtime      *)
(* finds.  A request that does not parse closes the connection.            *)
FileMtime(times, name) == IF name \in DOMAIN times THEN times[name] ELSE 0
GetFiletime(times, body) ==
  LET name == ReadCstr(From(body, 3), MaxFilename)
  IN  IF Len(body) < 2 \/ name = Error THEN Error
      ELSE <<body[1], body[2], FileMtime(times, name)>> \o WriteCstr(name)

-----------------------------------------------------------------------------
(* Properties.                                                             *)

(* What the client makes of the packets of a list: a game needs two        *)
(* strings and nothing after them, END shows the list.                     *)
ListEntry(packet) ==
  LET rest == From(packet, 5)
      name == ReadCstr(rest, 99)
      description == IF name = Error THEN Error ELSE ReadCstr(From(rest, Len(name) + 2), 99)
  IN  IF packet[4] = StatusEnd THEN "end"
      ELSE IF name = Error \/ description = Error \/ Len(name) + Len(description) + 2 # Len(rest) THEN Error
      ELSE [name |-> name, description |-> description, status |-> packet[4]]

(* The longest start of a text that a client can keep as a string.         *)
Kept(s, max) == SubSeq(s, 1, Max({n \in 0..max : n <= Len(s) /\ \A i \in 1..n : s[i] # 0}))

(* A game is listed under its name cut to what the client keeps, whatever  *)
(* the name and the description hold; the end of the list and a game that  *)
(* is gone are never taken for a game; the details say of each character   *)
(* its own class, level and name.                                          *)
GamesReadBack ==
  LET texts == SeqOf({0, 65}, GameNameMax + 1)
  IN  /\ \A name \in texts, description \in texts, d \in {0, 2, 9}, b \in BOOLEAN :
           LET g == [players |-> 1, status |-> GameFlags(d, b, ~b, b), name |-> name, description |-> description]
           IN  ListEntry(GamelistEntry(7, 1, g)) =
                 [name |-> Kept(name, GameNameMax), description |-> Kept(description, DescriptionMax),
                  status |-> g.status]
      /\ ListEntry(GamelistEnd(7)) = "end" /\ GameinfoNone(7)[2] = StatusNone
      /\ \A n \in 0..GameinfoCharacters + 1, description \in texts :
           LET characters == [i \in 1..n |-> [class |-> i, level |-> 10 + i, name |-> <<64 + i, 0, 65>>]]
               packet == GameinfoReply(7, [status |-> 4, uptime |-> 0, creator |-> 1, difference |-> 0,
                                           maxPlayers |-> 8, description |-> description,
                                           characters |-> characters])
               shown == packet[7]
               strings == From(packet, 8 + 2 * GameinfoCharacters)
               names == From(strings, Len(ReadCstr(strings, 99)) + 2)
           IN  /\ shown = IF n < GameinfoCharacters THEN n ELSE GameinfoCharacters
               /\ names = FlattenSeq([i \in 1..shown |-> <<64 + i, 0>>])
               /\ \A i \in 1..shown : packet[7 + i] = i /\ packet[7 + GameinfoCharacters + i] = 10 + i

(* An answer to a Warcraft III request carries its subcommand and cookie,  *)
(* and as many race records as it says, for the product that was asked     *)
(* about, which need not be the client's own.                              *)
GeneralReadsBack ==
  \A product \in {WAR3, W3XP}, own \in {WAR3, W3XP, STAR}, kind \in 0..11 :
    LET whole == CASE kind = USER_RECORD -> <<kind, 5>> \o WriteCstr(<<65>>) \o <<FourCc(product)>>
                   [] kind = CLAN_RECORD -> <<kind, 5, 1, FourCc(product)>>
                   [] OTHER -> <<kind>> \o [i \in 1..Fields(kind) |-> 5]
        answer == WarcraftGeneral(own, whole)
        at == IF kind = USER_RECORD THEN 5 ELSE 4
    IN  /\ (answer # None) <=> own # STAR /\ kind \in {TOURNAMENT, USER_RECORD, CLAN_RECORD, ICON_LIST}
        /\ answer # None => answer[1] = kind /\ answer[2] = 5
        /\ answer # None /\ kind \in {USER_RECORD, CLAN_RECORD} =>
             /\ answer[at] = RaceRecords(FourCc(product))
             /\ Len(answer) = at + 2 * answer[at] + (IF kind = USER_RECORD THEN 3 ELSE 0)
        /\ WarcraftGeneral(own, SubSeq(whole, 1, Len(whole) - 1)) # None => Fields(kind) = 0

IconFiles ==
  {<<HeaderLen, 1, pad, count, offset>> \o words :
     pad \in {0, 9}, count \in 0..2, offset \in 4..15, words \in [1..9 -> {0, 1}] \cup [1..4 -> {0, 1}]}

(* An icon file that is accepted loses nothing when it is written again,   *)
(* has no entry with too many codes, and one without warnings shows each   *)
(* user a whole icon, the first that matches.                              *)
IconFilesReadBack ==
  /\ \A b \in IconFiles :
       LET file == ParseBni(b)
       IN  file # Error =>
             /\ ParseBni(Build(file)) = file /\ Len(Build(file)) = Len(b)
             /\ \A i \in DOMAIN file.icons : Len(file.icons[i].codes) <= MaxCodes
  /\ \A icons \in SeqOf([flags : {0, 1, 2}, width : {1}, height : {1, 2}, codes : {<<>>, <<7>>}], 2) :
       LET file == [icons |-> icons, image |-> <<10, 1, Heights(icons), 24>>]
       IN  (Validate(file) = {}) =>
             \A flags \in 0..3, code \in {None, 7} :
               LET i == SelectIcon(file, flags, code)
               IN  i # 0 => IconYOffset(file, i) + icons[i].height <= file.image[3]

(* Asking as often as there are banners for it shows a client every one of *)
(* them and no other, wherever it starts; a client with a random pick too  *)
(* only sees its own.                                                      *)
AdsRotate ==
  \A banners \in SeqOf([product : {None, STAR, WAR3}, language : {None, 1}], 3), language \in {None, 1} :
    LET mine == {i \in DOMAIN banners : Matches(banners[i], STAR, language)}
        Seen(p, previous) ==
          LET Turn(ids, k) == Append(ids, NextAd(banners, p, language, Last(ids), k).id)
          IN  FoldLeft(Turn, <<previous>>, [k \in 1..Cardinality(mine) |-> k])
    IN  /\ (mine = {}) <=> NextAd(banners, STAR, language, 0, 0) = None
        /\ \A previous \in 0..4 : mine # {} => Range(Tail(Seen(STAR, previous))) = mine
        /\ \A seed \in 0..4 :
             LET ad == NextAd(banners, WAR3, language, 0, seed)
             IN  ad # None => Matches(banners[ad.id], WAR3, language)

(* Strings one after another, up to an empty one.                          *)
RECURSIVE StringList(_)
StringList(s) ==
  LET first == ReadCstr(s, 99)
  IN  IF first \in {Error, <<>>} THEN <<>> ELSE <<first>> \o StringList(From(s, Len(first) + 2))

(* A channel list shows every channel up to the first without a visible    *)
(* name, a realm list its realm, a file time the file that was asked for   *)
(* whatever its name holds, and a banner its own file and link.            *)
ListsReadBack ==
  LET texts == SeqOf({0, 65}, 2)
  IN  /\ \A names \in SeqOf(texts, 3) :
           LET written == [i \in DOMAIN names |-> SelectSeq(names[i], LAMBDA c : c # 0)]
               gap == SelectInSeq(written, LAMBDA n : n = <<>>)
           IN  StringList(ChannelList(names)) = IF gap = 0 THEN written ELSE SubSeq(written, 1, gap - 1)
      /\ \A name \in texts, description \in texts, p \in {D2DV, STAR} :
           LET reply == QueryRealms(p, [name |-> name, description |-> description])
               shown == ReadCstr(From(reply, 4), 99)
           IN  reply[2] = 1 => p = D2DV /\ shown = SelectSeq(name, LAMBDA c : c # 0)
      /\ \A raw \in SeqOf({0, 65}, MaxFilename + 2), times \in {<<>>, <<65>> :> 8} :
           LET reply == GetFiletime(times, <<5, 6>> \o raw)
           IN  IF FirstNul(raw) = 0 \/ FirstNul(raw) > MaxFilename + 1 THEN reply = Error
               ELSE /\ SubSeq(reply, 1, 2) = <<5, 6>> /\ From(reply, 4) = SubSeq(raw, 1, FirstNul(raw))
                    /\ reply[3] = IF times # <<>> /\ FirstNul(raw) = 2 THEN 8 ELSE 0
      /\ \A product \in {STAR, WAR3}, previous \in 0..3, n \in 0..2 :
           LET banners == [i \in 1..n |-> [product |-> None, language |-> None, kind |-> "png",
                                           filename |-> <<64 + i>>, url |-> <<80 + i, 0>>]]
               reply == CheckAd(banners, product, previous, 1)
           IN  /\ (reply = None) <=> n = 0
               /\ reply # None => From(reply, 4) = <<64 + reply[1], 0, 80 + reply[1], 0>> /\ reply[2] = 2

RepliesReadBack == ListsReadBack /\ GamesReadBack /\ GeneralReadsBack /\ IconFilesReadBack /\ AdsRotate
=============================================================================
