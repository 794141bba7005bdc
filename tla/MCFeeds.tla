---------------------------------- MODULE MCFeeds ----------------------------------
(* Two ladders; Discord's window shorter than the public feed's.  Of the   *)
(* servers that beacon, names that begin like a code, or are one; of the   *)
(* nodes, users in a channel that may be named, in one that may not and in *)
(* none, games with and without a password, and ladder results of one who  *)
(* is online and one who is not.                                           *)
EXTENDS Feeds, Tracker, PublicFeed, SequencesExt

CONSTANTS fish, pike, dace

MCLadders == {1, 2}
MCWindow == [r \in {"discord", "public"} |-> IF r = "discord" THEN 1 ELSE 2]

BeforeTheFirstStart == pusher.at = "off" /\ events = 0

-----------------------------------------------------------------------------
(* Behind "OPELDR" the last of these words is cut down to "CLO".           *)
LongName == <<"my-server-whose-name-fills-the-field-of-a-description", "CLOWNS">>

Server ==
  [products : SetToSeqs({"STAR", "SEXP", "D2DV", "JSTR"}) \cup {<<>>, <<"SEXP">>, <<"D2DV", "W2BN", "STAR">>},
   closed : BOOLEAN, name : {<<"SCOTLAND">>, <<"DISCO", "two">>, <<"D2D1">>, LongName},
   host : {"", "us.bnet.cc"}, description : {<<>>, <<"WC2SC", "Open">>},
   port : {6112}, users : {3}, size : {100, 1000}]

Notes(s) == {IF s.closed THEN "CLOSED" ELSE "OPEN", "LADDER"}
Iconed(s) == {p \in ToSet(s.products) : p \in DOMAIN IconCode /\ ~(p = "SEXP" /\ "STAR" \in ToSet(s.products))}

(* A server that leaves its description to the code is listed by ours with *)
(* every product it serves, by the old ones with every product that has an *)
(* icon, under its own name unless that name is codes to the last letter.  *)
(* Of a name that is cut at the end of the field the listing has what is   *)
(* left, and what is left of its last word may spell one offer more.       *)
OffersReadBack ==
  \A s \in {s \in Server : s.description = <<>>} :
    LET fits == 464 + 4 + s.size <= MaxBeacon
        kept == Tail(Beacon(s).packet.desc)
        own == Notes(s) \cup IF fits /\ s.products # <<>> THEN ToSet(s.products) ELSE Iconed(s)
        e == Entry(Beacon(s), "10.0.0.1", 0)
    IN  /\ kept = s.name /\ s.name # <<"D2D1">> => e.name = s.name /\ e.offers = own
        /\ kept # s.name => e.offers = own \cup ToSet(Codes(Last(kept)))
        /\ e.address[1] = IF fits /\ s.host # "" THEN s.host ELSE "10.0.0.1"

(* Whatever came when, and is a beacon at all or not, the list has the     *)
(* latest beacon of every source heard from within the prune time, and     *)
(* nothing else.                                                           *)
ListExact ==
  \A times \in [1..3 -> 0..3], ips \in [1..3 -> {"a", "b"}], versions \in [1..3 -> 1..2], late \in 3..4 :
    LET one == CHOOSE s \in Server : s.products = <<"SEXP">>
        arrival(i) == [ip |-> ips[i], at |-> times[i], 
                        datagram |-> [Beacon(one) EXCEPT !.packet.users = i, !.version = versions[i]]]
        arrived == [i \in 1..3 |-> arrival(i)]
        heard == {i \in 1..3 : versions[i] = 2}
        latest == {i \in heard : \A j \in heard : ips[j] = ips[i] => j <= i}
    IN  times[1] <= times[2] /\ times[2] <= times[3] =>
          Listed(FoldLeft(LAMBDA r, d : Received(r, d, 2), <<>>, arrived), late, 2)
            = {Entry(arrived[i].datagram, ips[i], times[i]) : i \in {i \in latest : late - times[i] < 2}}

(* What servers say of themselves in the 1999 packet and the block behind  *)
(* it is what trackers list (tracker.rs:229-249, 395-441, 494-571).        *)
TrackerListsTruly == BeforeTheFirstStart => OffersReadBack /\ ListExact

-----------------------------------------------------------------------------
Rule == [public : BOOLEAN, listed : BOOLEAN]
Node ==
  {[sessions |-> (fish :> "STAR" @@ pike :> None), rules |-> ("lobby" :> rule),
    channels |-> channels, operators |-> <<>>, hosted |-> ("W2BN" :> 2),
    games |-> {[name |-> "open", product |-> "STAR", private |-> FALSE],
               [name |-> "mine", product |-> "STAR", private |-> TRUE]},
    realmGames |-> {[name |-> "baal", private |-> private, players |-> 2]},
    recentLadder |-> {[player |-> p, product |-> "W2BN", outcome |-> "win"] : p \in players}] :
     rule \in Rule, private \in BOOLEAN, players \in {{}, {pike}, {pike, dace}},
     channels \in {<<>>, "lobby" :> {fish}, "den" :> {fish, pike},
                   ("lobby" :> {fish}) @@ ("den" :> {pike}), "lobby" :> {}}}

(* Whatever lists one looks at, the feed keeps to itself what it should,   *)
(* and counts every member, session and game once (public_status.rs:16-24). *)
FeedWithholds ==
  BeforeTheFirstStart => \A node \in Node, show \in BOOLEAN : Withholds(node, show) /\ CountsOnce(node, show)
====================================================================================
