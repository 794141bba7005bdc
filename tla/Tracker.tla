--------------------------------- MODULE Tracker ---------------------------------
(***************************************************************************)
(* The public server list (crates/bnetccd/src/tracker.rs): what a server   *)
(* says of itself in a beacon, the 1999 packet with a block of our own     *)
(* behind it, and what a tracker lists from the beacons it received.       *)
(*                                                                         *)
(* Descriptions are strings, for the codes in them run together and have   *)
(* to be told apart again; they are kept as their words.  Of the other     *)
(* fields the packet carries its counts.                                   *)
(***************************************************************************)
LOCAL INSTANCE Integers
LOCAL INSTANCE Sequences
LOCAL INSTANCE SequencesExt
LOCAL INSTANCE FiniteSets
LOCAL INSTANCE Functions

PacketSize == 464
DescSize == 64     \* bytes of the description field
MaxBeacon == 1200

-----------------------------------------------------------------------------
(* The codes of descriptions.                                              *)

(* OFFERINGS: token, code, whether it is a game                            *)
Offerings ==
  << <<"SSHR", "SSHR", TRUE>>, <<"JSTR", "JSTR", TRUE>>, <<"W2BN", "W2BN", TRUE>>,
     <<"WAR3", "WAR3", TRUE>>, <<"W3XP", "W3XP", TRUE>>, <<"D2DV", "D2DV", TRUE>>,
     <<"D2XP", "D2XP", TRUE>>, <<"DRTL", "DRTL", TRUE>>, <<"DSHR", "DSHR", TRUE>>,
     <<"STAR", "STAR", TRUE>>, <<"SEXP", "SEXP", TRUE>>, <<"CHAT", "CHAT", TRUE>>,
     <<"SPW", "SPWN", TRUE>>, <<"DHR", "DSHR", TRUE>>, <<"SBW", "SEXP", TRUE>>,
     <<"WC2", "W2BN", TRUE>>, <<"WC3", "WAR3", TRUE>>, <<"WCX", "W3XP", TRUE>>,
     <<"LOD", "D2XP", TRUE>>, <<"ALL", "ALL", TRUE>>, <<"OPE", "OPEN", FALSE>>,
     <<"CLO", "CLOSED", FALSE>>, <<"LDR", "LADDER", FALSE>>, <<"SC", "STAR", TRUE>>,
     <<"D1", "DRTL", TRUE>>, <<"D2", "D2DV", TRUE>> >>

(* ICON_CODES; JSTR, DSHR and CHAT have none                               *)
IconCode ==
  [STAR |-> "SC", SEXP |-> "SBW", SSHR |-> "SSHR", DRTL |-> "D1", D2DV |-> "D2",
   D2XP |-> "LOD", W2BN |-> "WC2", WAR3 |-> "WC3", W3XP |-> "WCX"]

Game(code) == \E i \in DOMAIN Offerings : Offerings[i][2] = code /\ Offerings[i][3]

Starts(word, token) ==
  Len(token) <= Len(word) /\ SubSeq(word, 1, Len(token)) = token

(* split_codes: the codes of a word that is nothing but codes, in the      *)
(* first way the table gives; <<>> for any other word                      *)
RECURSIVE SplitCodes(_)
SplitCodes(word) ==
  LET rest(i) == SubSeq(word, Len(Offerings[i][1]) + 1, Len(word))
      fits == {i \in DOMAIN Offerings :
                 /\ Starts(word, Offerings[i][1])
                 /\ rest(i) = "" \/ SplitCodes(rest(i)) # <<>>}
      first == CHOOSE i \in fits : \A j \in fits : i <= j
  IN  IF fits = {} THEN <<>>
      ELSE <<Offerings[first][2]>> \o (IF rest(first) = "" THEN <<>> ELSE SplitCodes(rest(first)))

\* mutant: a word is read as codes if it begins with one
SplitPrefix(word) ==
  LET fits == {i \in DOMAIN Offerings : Starts(word, Offerings[i][1])}
  IN  IF fits = {} THEN <<>> ELSE <<Offerings[CHOOSE i \in fits : \A j \in fits : i <= j][2]>>

Codes(word) == SplitCodes(word)

(* read_offerings: what the words say is offered, and the name left over   *)
ReadOfferings(words) ==
  [offers |-> UNION {ToSet(Codes(words[i])) : i \in DOMAIN words},
   name |-> SelectSeq(words, LAMBDA w : Codes(w) = <<>>)]

-----------------------------------------------------------------------------
(* Beacons.                                                                *)

RECURSIVE Joined(_)
Joined(s) == IF s = <<>> THEN "" ELSE Head(s) \o Joined(Tail(s))

(* Offered::describe: no icon for Brood War beside StarCraft's             *)
Describe(products, closed, name) ==
  LET shown == SelectSeq(products, LAMBDA p :
                 p \in DOMAIN IconCode /\ ~(p = "SEXP" /\ Contains(products, "STAR")))
      codes == [i \in DOMAIN shown |-> IconCode[shown[i]]]
  IN  <<Joined(codes) \o (IF closed THEN "CLOLDR" ELSE "OPELDR")>> \o name

(* put_str into the field: what is past its end is cut, which may cut the  *)
(* last word short or leave words out                                      *)
RECURSIVE Fitted(_, _)
Fitted(words, room) ==
  IF words = <<>> \/ room <= 0 THEN <<>>
  ELSE IF Len(Head(words)) >= room THEN <<SubSeq(Head(words), 1, room)>>
  ELSE <<Head(words)>> \o Fitted(Tail(words), room - Len(Head(words)) - 1)

(* build_beacon: what the operator wrote, or what the server is set up to  *)
(* serve                                                                   *)
BuildBeacon(server) ==
  [port |-> server.port, users |-> server.users,
   desc |-> Fitted(IF server.description # <<>> THEN server.description
                   ELSE Describe(server.products, server.closed, server.name), DescSize)]

(* Offered::extension, Extension                                           *)
NoBlock == [host |-> "", products |-> <<>>]
Block(server) == [host |-> server.host, products |-> server.products]

(* encode_with: the block goes behind the packet if it says anything and,  *)
(* with the size of its JSON, keeps the datagram whole                     *)
EncodeWith(packet, block, size) ==
  LET carried == block # NoBlock /\ PacketSize + 4 + size <= MaxBeacon
  IN  [version |-> 2, packet |-> packet,
       len |-> IF carried THEN PacketSize + 4 + size ELSE PacketSize,
       block |-> IF carried THEN block ELSE NoBlock]

(* advertise                                                               *)
Beacon(server) == EncodeWith(BuildBeacon(server), Block(server), server.size)

(* decode: another version, or less than a packet, is no beacon            *)
Decodes(datagram) == datagram.len >= PacketSize /\ datagram.version = 2

(* The entry receive_beacons makes of it: products named outright are      *)
(* believed over codes, the notes still stand.                             *)
Entry(datagram, ip, at) ==
  LET packet == datagram.packet
      read == ReadOfferings(packet.desc)
      block == datagram.block
  IN  [address |-> <<IF block.host = "" THEN ip ELSE block.host, packet.port>>,
       name |-> read.name,
       offers |-> IF block.products = <<>> THEN read.offers
                  ELSE {p \in ToSet(block.products) : Game(p)} \cup {o \in read.offers : ~Game(o)},
       users |-> packet.users, seen |-> at]

-----------------------------------------------------------------------------
(* The registry.                                                           *)

Alive(entry, at, prune) == at - entry.seen < prune

(* receive_beacons: inserted under its source, then the stale are dropped  *)
Received(registry, d, prune) ==
  LET key == <<d.ip, d.datagram.packet.port>>
      all == [k \in DOMAIN registry \cup {key} |->
                IF k = key THEN Entry(d.datagram, d.ip, d.at) ELSE registry[k]]
  IN  IF ~Decodes(d.datagram) THEN registry
      ELSE [k \in {k \in DOMAIN all : Alive(all[k], d.at, prune)} |-> all[k]]

(* snapshot: most users first, then by address                             *)
Listed(registry, at, prune) ==
  {registry[k] : k \in {k \in DOMAIN registry : Alive(registry[k], at, prune)}}
==================================================================================
