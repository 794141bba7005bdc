---------------------------------- MODULE Feeds ----------------------------------
(***************************************************************************)
(* What the daemon tells the outside on its own: the log of hosted games   *)
(* (crates/bnetccd/src/node.rs) that the Discord status (discord.rs) and   *)
(* the public feed (public_status.rs, stats_push.rs) count, each over a    *)
(* window of its own, and the ladder standings pushed to a website         *)
(* (ladder_push.rs) through a client that gives up on a slow post          *)
(* (outbound.rs).                                                          *)
(*                                                                         *)
(* A hosted game is its place in the order of hosting, which is the log's. *)
(* A ladder is its number of changes.  A snapshot reads the ladders one    *)
(* after the other, each in a command of its own to the storage actor, so  *)
(* that results arrive in between; a read that fails leaves players out.   *)
(***************************************************************************)
EXTENDS Integers, Sequences, FiniteSetsExt

CONSTANTS
  Ladders,   \* the leagues of every game, and the Diablo II characters
  Partial,   \* standings with players missing
  Window,    \* readers of the log of games, and how far back each looks
  LogCap,    \* CAP
  MaxClock, MaxEvents   \* bounds

ASSUME FeedsAssumption == LogCap \in Nat /\ \A r \in DOMAIN Window : Window[r] \in Nat

VARIABLES
  gameLog,      \* the games still in the log
  hosted,       \* history: when each game was hosted since the start
  standings,    \* changes of each ladder in the database
  owed,         \* ladders changed whose notification is still to come
  permit,       \* ladder_changed: a notification is stored
  pusher,       \* the push task: where it is, what it read, whether its last post succeeded
  site,         \* the standings the website shows
  unannounced,  \* history: a ladder changed without a notification since the last snapshot began
  now, events

vars == <<gameLog, hosted, standings, owed, permit, pusher, site, unannounced, now, events>>
push == <<standings, owed, permit, pusher, site, unannounced>>
log == <<gameLog, hosted>>
time == <<now, events>>

NothingRead == [l \in {} |-> 0]

Init ==
  /\ gameLog = {} /\ hosted = <<>>
  /\ standings = [l \in Ladders |-> 0]
  /\ owed = {} /\ permit = FALSE /\ unannounced = FALSE
  /\ pusher = [at |-> "off"]
  /\ site = [l \in Ladders |-> Partial]
  /\ now = 0 /\ events = 0

Event == events < MaxEvents /\ events' = events + 1 /\ UNCHANGED now

Tick ==
  /\ now < MaxClock
  /\ now' = now + 1
  /\ UNCHANGED <<log, push, events>>

-----------------------------------------------------------------------------
(* The process starts, and the first tick of the interval is at once; the  *)
(* process ends, and only the database and the website remain.             *)

Start ==
  /\ pusher.at = "off"
  /\ pusher' = [at |-> "read", got |-> NothingRead, ok |-> FALSE]
  /\ unannounced' = FALSE
  /\ UNCHANGED <<log, standings, owed, permit, site, time>>

Stop ==
  /\ pusher.at # "off" /\ Event
  /\ gameLog' = {} /\ hosted' = <<>>
  /\ owed' = {} /\ permit' = FALSE
  /\ pusher' = [at |-> "off"]
  /\ UNCHANGED <<standings, site, unannounced>>

-----------------------------------------------------------------------------
(* Hosted games.                                                           *)

Newest(games, n) == {g \in games : Cardinality({h \in games : h >= g}) <= n}

(* record_hosted_game: at the cap the oldest go                            *)
RecordHostedGame ==
  /\ pusher.at # "off" /\ Event
  /\ hosted' = Append(hosted, now)
  /\ gameLog' = Newest(gameLog \cup {Len(hosted) + 1}, LogCap)
  /\ UNCHANGED push

\* mutant: a game as old as the window is forgotten and not counted
HostedSinceStrictly(games, window) == {g \in games : hosted[g] > now - window}

HostedSince(games, window) == {g \in games : hosted[g] >= now - window}

(* games_hosted_since: whoever counts also forgets what is older than its  *)
(* own window.  status_message and fill_activity call it.                  *)
CountGames(reader) ==
  /\ pusher.at # "off" /\ Event
  /\ gameLog' = HostedSince(gameLog, Window[reader])
  /\ UNCHANGED <<hosted, push>>

-----------------------------------------------------------------------------
(* Ladder changes.                                                         *)

Changed(l) == standings' = [standings EXCEPT ![l] = @ + 1]

(* record_ladder_game, end_ladder_season: the database first               *)
RecordResult(l) ==
  /\ pusher.at # "off" /\ Event
  /\ Changed(l)
  /\ owed' = owed \cup {l}
  /\ UNCHANGED <<log, permit, pusher, site, unannounced>>

\* mutant: notify_waiters, which only wakes a task that waits
NotifyWaiters == permit' = (permit \/ pusher.at = "wait")

(* notify_one: kept for a task that does not wait yet                      *)
Notify == permit' = TRUE

(* and then the notification                                               *)
LadderChanged(l) ==
  /\ l \in owed
  /\ owed' = owed \ {l}
  /\ Notify
  /\ UNCHANGED <<log, standings, pusher, site, unannounced, time>>

(* A deleted account, a Diablo II character saved by the game server:      *)
(* standings change and nobody is told.                                    *)
ChangeQuietly(l) ==
  /\ pusher.at # "off" /\ Event
  /\ Changed(l)
  /\ unannounced' = TRUE
  /\ UNCHANGED <<log, owed, permit, pusher, site>>

-----------------------------------------------------------------------------
(* ladder_push::run                                                        *)

BeginSnapshot ==
  /\ pusher' = [pusher EXCEPT !.at = "read", !.got = NothingRead]
  /\ unannounced' = FALSE

(* The interval.  A notification that arrived at the same time is kept.    *)
PushTick ==
  /\ Event
  /\ pusher.at = "wait"
  /\ BeginSnapshot
  /\ UNCHANGED <<log, standings, owed, permit, site>>

(* A notification, which is used up, and CHANGE_DEBOUNCE.                  *)
Notified ==
  /\ pusher.at = "wait" /\ permit
  /\ permit' = FALSE
  /\ pusher' = [pusher EXCEPT !.at = "debounce"]
  /\ UNCHANGED <<log, standings, owed, site, unannounced, time>>

Debounced ==
  /\ pusher.at = "debounce"
  /\ BeginSnapshot
  /\ UNCHANGED <<log, standings, owed, permit, site, time>>

(* snapshot: the next ladder in the list                                   *)
ReadLadder(l, read) ==
  /\ pusher.at = "read" /\ l = Min(Ladders \ DOMAIN pusher.got)
  /\ read \in {standings[l], Partial}
  /\ pusher' = [pusher EXCEPT
                  !.at = IF Ladders \ DOMAIN pusher.got = {l} THEN "post" ELSE @,
                  !.got = [k \in DOMAIN pusher.got \cup {l} |-> IF k = l THEN read ELSE pusher.got[k]]]
  /\ UNCHANGED <<log, standings, owed, permit, site, unannounced, time>>

(* post_json: the website takes the standings or does not, and an answer   *)
(* that is not 2xx, or late, counts as a failure                           *)
Post(arrives, ok) ==
  /\ pusher.at = "post"
  /\ ok => arrives
  /\ site' = IF arrives THEN pusher.got ELSE site
  /\ pusher' = [at |-> "wait", got |-> NothingRead, ok |-> ok]
  /\ UNCHANGED <<log, standings, owed, permit, unannounced, time>>

-----------------------------------------------------------------------------
Next ==
  \/ Start \/ Stop \/ Tick
  \/ RecordHostedGame
  \/ \E r \in DOMAIN Window : CountGames(r)
  \/ \E l \in Ladders : RecordResult(l) \/ LadderChanged(l) \/ ChangeQuietly(l)
  \/ PushTick \/ Notified \/ Debounced
  \/ \E l \in Ladders : \E read \in {standings[l], Partial} : ReadLadder(l, read)
  \/ \E arrives, ok \in BOOLEAN : Post(arrives, ok)

Spec == Init /\ [][Next]_vars

-----------------------------------------------------------------------------
(* The reader with the shortest window counts every game hosted in it once *)
(* and no other, up to the cap, whatever the other readers made the node   *)
(* forget and whenever it restarted (node.rs:1390-1409).  A longer window  *)
(* has no such promise: the public feed says it counts the games of the    *)
(* last 24 hours (public_status.rs:65) and Discord's 6 hours prune them.   *)
ShortestWindowExact ==
  \A r \in DOMAIN Window :
    (\A q \in DOMAIN Window : Window[r] <= Window[q])
      => Cardinality(HostedSince(gameLog, Window[r]))
           = Min({LogCap, Cardinality({g \in DOMAIN hosted : now - hosted[g] <= Window[r]})})

(* The website shows the ladders as they are once the push task waits with *)
(* no notification left and its last post succeeded: no result is left     *)
(* unpushed that arrived while the ladders were read or posted             *)
(* (ladder_push.rs:8-9, "shortly after a ladder changes").                 *)
SiteCurrent ==
  pusher.at = "wait" /\ pusher.ok /\ ~permit /\ owed = {} /\ ~unannounced
    => \A l \in Ladders : site[l] \in {standings[l], Partial}
==================================================================================
