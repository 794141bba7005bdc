-------------------------------- MODULE PublicFeed --------------------------------
(***************************************************************************)
(* The public status feed (crates/bnetccd/src/public_status.rs), served to *)
(* anyone and pushed to a website (stats_push.rs), made from what the node *)
(* holds (crates/bnetccd/src/node.rs): its sessions, its channels, its     *)
(* games and the latest ladder results.  A node is a record of these;      *)
(* lists that are only sorted for display are sets.                        *)
(***************************************************************************)
LOCAL INSTANCE Integers
LOCAL INSTANCE FiniteSetsExt

CONSTANT None
ChatProduct == "CHAT"   \* what a session without a product counts as

(* Channel rules the operator defined: public or listed ones may be named. *)
Named(node, channel) ==
  channel \in DOMAIN node.rules /\ (node.rules[channel].public \/ node.rules[channel].listed)

(* channel_names: every listed channel, and every live one once            *)
ChannelNames(node) == {c \in DOMAIN node.rules : node.rules[c].listed} \cup DOMAIN node.channels

(* channel_occupancy                                                       *)
Occupancy(node) ==
  {[name |-> c, members |-> node.channels[c], public |-> Named(node, c)] : c \in DOMAIN node.channels}

OnlineSessions(node) == {[name |-> s, product |-> node.sessions[s]] : s \in DOMAIN node.sessions}

Code(product) == IF product = None THEN ChatProduct ELSE product

(* The per-game section: every game somebody is on, hosts or has hosted.   *)
Products(node) ==
  LET codes == {Code(node.sessions[s]) : s \in DOMAIN node.sessions}
                 \cup {Code(g.product) : g \in node.games} \cup DOMAIN node.hosted
  IN  {[product |-> p,
        online |-> Cardinality({s \in DOMAIN node.sessions : Code(node.sessions[s]) = p}),
        open |-> Cardinality({g \in node.games : Code(g.product) = p}),
        hosted |-> IF p \in DOMAIN node.hosted THEN node.hosted[p] ELSE 0] : p \in codes}

\* mutant: the channel of a user is given whether or not it may be named
ChannelOfAny(node, user) ==
  LET in == {o \in Occupancy(node) : user \in o.members}
  IN  IF in = {} THEN None ELSE (CHOOSE o \in in : TRUE).name

(* The user list names a channel only where the channel list does.         *)
ChannelOf(node, user) ==
  LET in == {o \in Occupancy(node) : user \in o.members}
  IN  IF in = {} \/ ~(CHOOSE o \in in : TRUE).public THEN None ELSE (CHOOSE o \in in : TRUE).name

UserList(node, show) ==
  IF ~show THEN None
  ELSE {[name |-> s.name, product |-> Code(s.product), channel |-> ChannelOf(node, s.name)] :
          s \in OnlineSessions(node)}

(* fill_activity: channels that may not be named are counted if anyone is  *)
(* in them                                                                 *)
PublicChannels(node) ==
  {[name |-> o.name, users |-> Cardinality(o.members)] : o \in {o \in Occupancy(node) : o.public}}

OtherChannels(node) ==
  LET others == {o \in Occupancy(node) : ~o.public /\ o.members # {}}
  IN  [channels |-> Cardinality(others),
       users |-> MapThenSumSet(LAMBDA o : Cardinality(o.members), others)]

(* A game with a password keeps its name to itself; a host's address is in *)
(* no list.  The realm's games come from the game server.                  *)
PublicGame(g) ==
  [name |-> IF g.private THEN None ELSE g.name, product |-> Code(g.product), private |-> g.private]

Diablo2Games(node) ==
  {[name |-> IF g.private THEN None ELSE g.name, players |-> g.players] : g \in node.realmGames}

(* recent_ladder: a result names its player, for as long as the node       *)
(* remembers it.                                                           *)
LadderPlayers(node) == {result.player : result \in node.recentLadder}

(* snapshot_json                                                           *)
Feed(node, show) ==
  [online |-> Cardinality(DOMAIN node.sessions),
   channels |-> Cardinality(ChannelNames(node)),
   games |-> Cardinality(node.games),
   users |-> IF show THEN DOMAIN node.sessions ELSE None,
   products |-> Products(node),
   userList |-> UserList(node, show),
   channelList |-> PublicChannels(node),
   other |-> OtherChannels(node),
   gameList |-> {PublicGame(g) : g \in node.games},
   diablo2 |-> Diablo2Games(node),
   recentLadder |-> node.recentLadder]

-----------------------------------------------------------------------------
(* The admin panel's own view (status_snapshot): every channel with its    *)
(* members and who operates it.                                            *)
Snapshot(node) ==
  [channels |-> {[name |-> c, users |-> node.channels[c],
                  operator |-> IF c \in DOMAIN node.operators THEN node.operators[c] ELSE None] :
                   c \in DOMAIN node.channels},
   online |-> MapThenSumSet(LAMBDA c : Cardinality(node.channels[c]), DOMAIN node.channels),
   games |-> node.games]

-----------------------------------------------------------------------------
(* What the feed promises (public_status.rs:16-24).                        *)

(* Everybody some list of the feed names.                                  *)
UsersNamed(feed, show) ==
  (IF show THEN feed.users \cup {u.name : u \in feed.userList} ELSE {})
    \cup {result.player : result \in feed.recentLadder}

(* The feed names no channel the operator has not made public, nor a game  *)
(* with a password, whichever list one looks at.  Users are named where    *)
(* users are shown, and, shown or not, the players of the latest ladder    *)
(* results: who is merely online is not.                                   *)
Withholds(node, show) ==
  LET feed == Feed(node, show)
      named == {c.name : c \in feed.channelList}
      open == {g.name : g \in {g \in node.games \cup node.realmGames : ~g.private}}
  IN  /\ named \subseteq {c \in DOMAIN node.rules : node.rules[c].public \/ node.rules[c].listed}
      /\ named \subseteq ChannelNames(node)
      /\ show => {u.channel : u \in feed.userList} \subseteq named \cup {None}
      /\ ~show => feed.users = None /\ feed.userList = None
      /\ UsersNamed(feed, show) = (IF show THEN DOMAIN node.sessions ELSE {}) \cup LadderPlayers(node)
      /\ {g.name : g \in feed.gameList \cup feed.diablo2} \subseteq open \cup {None}

(* Every member of a channel, every session and every game is counted      *)
(* once.                                                                   *)
CountsOnce(node, show) ==
  LET feed == Feed(node, show)
      Sum(S, field(_)) == MapThenSumSet(field, S)
  IN  /\ Sum(feed.channelList, LAMBDA c : c.users) + feed.other.users
           = Sum(DOMAIN node.channels, LAMBDA c : Cardinality(node.channels[c]))
      /\ Sum(feed.products, LAMBDA p : p.online) = feed.online
      /\ Sum(feed.products, LAMBDA p : p.open) = feed.games
===================================================================================
