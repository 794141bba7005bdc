--------------------------------- MODULE Games ---------------------------------
(***************************************************************************)
(* The game directory and game results: the handlers of SID_STARTADVEX3,   *)
(* SID_STOPADV, SID_LEAVEGAME, SID_NOTIFYJOIN, SID_GETADVLISTEX and        *)
(* SID_GAMERESULT (crates/bnetccd/src/session.rs), the tables of node.rs   *)
(* they use, and the storage actor that keeps the records.                 *)
(*                                                                         *)
(* A session handles one packet at a time, and its handler stops at every  *)
(* reply it awaits from the actor, so the handlers of different sessions   *)
(* interleave there.  Several sessions may be logged on to one account.    *)
(***************************************************************************)
EXTENDS StorageActor

CONSTANTS
  Session,
  Accounts,      \* the accounts of the initial database: id -> row
  InitialWins,   \* id -> normal-game wins to begin with
  ProductOf,     \* the product of each session's client
  GameName,
  Report,        \* the SID_GAMERESULT bodies sent: [type, slots], each slot
                 \* [name, code]
  MinGameLength, \* Node::min_game_length; 0 counts every game
  RecentMax,     \* RECENT_LADDER_RESULTS
  MaxTime,       \* bound: the clock stops here
  MaxResults     \* bound: results reported in all

ASSUME GamesAssumption ==
  /\ Client = Session
  /\ LadderMinWins \in Nat /\ MinGameLength \in Nat /\ MaxTime \in Nat /\ MaxResults \in Nat
  /\ \A e \in Report : \A i \in DOMAIN e.slots : e.slots[i].code \in Nat

(* Account names are unique, and no value is none of the values.           *)
ASSUME AccountsAssumption ==
  /\ \A i, j \in DOMAIN Accounts : Accounts[i].name = Accounts[j].name => i = j
  /\ \A i \in DOMAIN Accounts : InitialWins[i] \in Nat
  /\ None \notin Session /\ None \notin DOMAIN Accounts

VARIABLES
  account,   \* Bncs::account: the account's id, None when not logged on
  hosting,   \* Bncs::hosting_game
  seat,      \* Bncs::game_seat: the game's name and since when, or None
  pc,        \* where the session's handler is
  job,       \* the locals of the handler
  games,     \* Node::games: name -> [host, product], the advertised ones
  started,   \* Node::started_games: <<product, name>> -> time
  recent,    \* Node::recent_ladder, newest first
  clock,
  results,   \* bound: results reported so far
  sat        \* history: when the session entered the game it has a seat in

own == <<account, hosting, seat, pc, job, sat>>
directory == <<games, started>>
vars == <<own, directory, recent, clock, results, storage>>

NoJob == [n |-> None]

Init ==
  /\ InitStorage([EmptyDb EXCEPT
       !.accounts = Accounts, !.nextId = Cardinality(DOMAIN Accounts) + 1,
       !.attrs = [id \in DOMAIN Accounts |->
                    [k \in {RecordKey(p, 0, "wins") : p \in Range(ProductOf)} |-> InitialWins[id]]]])
  /\ account = [s \in Session |-> None]
  /\ hosting = [s \in Session |-> FALSE]
  /\ seat = [s \in Session |-> None]
  /\ pc = [s \in Session |-> "idle"]
  /\ job = [s \in Session |-> NoJob]
  /\ games = <<>> /\ started = <<>>
  /\ recent = <<>>
  /\ clock = 0 /\ results = 0
  /\ sat = [s \in Session |-> 0]

Idle(s) == pc[s] = "idle" /\ account[s] # None

(* The handler goes on to await a reply, or ends.                          *)
Await(s, at, locals, c) ==
  /\ pc' = [pc EXCEPT ![s] = at]
  /\ job' = [job EXCEPT ![s] = locals]
  /\ Send(s, c)

Finish(s) ==
  /\ pc' = [pc EXCEPT ![s] = "idle"]
  /\ job' = [job EXCEPT ![s] = NoJob]
  /\ reply' = [reply EXCEPT ![s] = NoReply]
  /\ UNCHANGED <<db, queue, alive>>

Resumes(s, at) == pc[s] = at /\ Answered(s)

-----------------------------------------------------------------------------
(* The directory.                                                          *)

\* mutant: the account's games stay listed when its session ends
WithdrawNothing(a) == games' = games

(* withdraw_game: every game of the account, whichever session hosts it    *)
WithdrawGame(a) == games' = Without(games, {n \in DOMAIN games : games[n].host = a})

(* advertise_game: refused when another account's game has the name        *)
NameFree(n, a) == n \in DOMAIN games => games[n].host = a

AdvertiseGame(s, n) ==
  games' = Insert(games, n, [host |-> account[s], product |-> ProductOf[s]])

Day == 24 * 60 * 60

MarkGameStarted(s, n) ==
  LET recently == {k \in DOMAIN started : clock - started[k] < Day}
  IN  started' = Insert(Without(started, DOMAIN started \ recently), <<ProductOf[s], n>>, clock)

(* SID_GETADVLISTEX: the games of the client's product, of the wanted name *)
(* if it gives one.  The client's count only cuts the list short.          *)
GameList(s, wanted) ==
  {n \in DOMAIN games : games[n].product = ProductOf[s] /\ wanted \in {None, n}}

-----------------------------------------------------------------------------
(* Logging on and the end of a session (Bncs::cleanup).                    *)

LogOn(s, id) ==
  /\ account[s] = None
  /\ account' = [account EXCEPT ![s] = id]
  /\ UNCHANGED <<hosting, seat, pc, job, sat, directory, recent, clock, results, storage>>

Cleanup(s) ==
  /\ Idle(s)
  /\ WithdrawGame(account[s])
  /\ account' = [account EXCEPT ![s] = None]
  /\ hosting' = [hosting EXCEPT ![s] = FALSE]
  /\ seat' = [seat EXCEPT ![s] = None]
  /\ sat' = [sat EXCEPT ![s] = 0]
  /\ UNCHANGED <<pc, job, started, recent, clock, results, storage>>

-----------------------------------------------------------------------------
(* SID_STARTADVEX3.                                                        *)

(* The part of `advertise` behind the ladder check.  The first success of  *)
(* a game, not its refreshes, gives the session its seat.                  *)
Advertised(s, n) ==
  IF ~NameFree(n, account[s]) THEN UNCHANGED <<hosting, seat, sat, games>>
  ELSE /\ AdvertiseGame(s, n)
       /\ hosting' = [hosting EXCEPT ![s] = TRUE]
       /\ IF hosting[s] THEN UNCHANGED <<seat, sat>>
          ELSE /\ seat' = [seat EXCEPT ![s] = [name |-> n, since |-> clock]]
               /\ sat' = [sat EXCEPT ![s] = clock]

Advertise(s, n) ==
  /\ Idle(s)
  /\ Advertised(s, n)
  /\ UNCHANGED <<account, pc, job, started, recent, clock, results, storage>>

WinsKey(s) == RecordKey(ProductOf[s], 0, "wins")

(* normal_wins *)
AskWins(s, at, locals) ==
  Await(s, at, locals,
        [op |-> "ReadReadableAttrs", name |-> db.accounts[account[s]].name, keys |-> {WinsKey(s)}])

Wins(s) == IF WinsKey(s) \in DOMAIN Answer(s) THEN Answer(s)[WinsKey(s)] ELSE 0

AdvertiseLadder(s, n) ==
  /\ Idle(s)
  /\ AskWins(s, "advertising", [n |-> n])
  /\ UNCHANGED <<account, hosting, seat, sat, directory, recent, clock, results>>

AdvertiseLadderGranted(s) ==
  /\ Resumes(s, "advertising")
  /\ Wins(s) >= LadderMinWins
  /\ Advertised(s, job[s].n)
  /\ Finish(s)
  /\ UNCHANGED <<account, started, recent, clock, results>>

AdvertiseLadderRefused(s) ==
  /\ Resumes(s, "advertising")
  /\ Wins(s) < LadderMinWins
  /\ Finish(s)
  /\ UNCHANGED <<account, hosting, seat, sat, directory, recent, clock, results>>

(* SID_STOPADV starts the hosted game, SID_LEAVEGAME only leaves it.       *)
StopAdvertising(s, starts) ==
  /\ Idle(s)
  /\ WithdrawGame(account[s])
  /\ IF starts /\ hosting[s] /\ seat[s] # None
     THEN /\ seat' = [seat EXCEPT ![s].since = clock]
          /\ MarkGameStarted(s, seat[s].name)
     ELSE UNCHANGED <<seat, started>>
  /\ hosting' = [hosting EXCEPT ![s] = FALSE]
  /\ UNCHANGED <<account, pc, job, sat, recent, clock, results, storage>>

NotifyJoin(s, n) ==
  /\ Idle(s)
  /\ seat' = [seat EXCEPT ![s] = [name |-> n, since |-> clock]]
  /\ sat' = [sat EXCEPT ![s] = clock]
  /\ UNCHANGED <<account, hosting, pc, job, directory, recent, clock, results, storage>>

-----------------------------------------------------------------------------
(* SID_GAMERESULT.                                                         *)

(* The game's start if its host told it and it came after the seat.        *)
StartOfGame(s) ==
  LET k == <<ProductOf[s], seat[s].name>>
  IN  IF k \in DOMAIN started /\ started[k] >= seat[s].since THEN started[k] ELSE seat[s].since

LongEnough(s) == MinGameLength = 0 \/ clock - StartOfGame(s) > MinGameLength

(* The reporter's slot: the first one with its name.                       *)
Slot(s, report) ==
  LET at == {i \in DOMAIN report.slots : report.slots[i].name = db.accounts[account[s]].name}
  IN  IF at = {} THEN 0 ELSE Min(at)

Reported(s, report) ==
  IF Slot(s, report) = 0 THEN "none" ELSE OutcomeOf(report.slots[Slot(s, report)].code)

(* Empty slots and slots without a name or a result are no opponents.      *)
Opponents(s, report) ==
  LET at == {i \in DOMAIN report.slots :
               /\ i # Slot(s, report)
               /\ report.slots[i].name # None /\ report.slots[i].code # 0}
  IN  [i \in 1 .. Cardinality(at) |-> report.slots[SetToSortSeq(at, <)[i]].name]

(* A result that is counted.  Otherwise the handler returns at once.       *)
ResultCounts(s, report) == seat[s] # None /\ LongEnough(s) /\ Reported(s, report) # "none"

GameResult(s, report) ==
  /\ Idle(s)
  /\ results < MaxResults
  /\ results' = results + 1
  /\ ResultCounts(s, report)
  /\ IF LeagueOf(report.type) = 0
     THEN Await(s, "recording", [n |-> 0],
                [op |-> "RecordGame", id |-> account[s], product |-> ProductOf[s],
                 outcome |-> Reported(s, report)])
     ELSE AskWins(s, "eligible",
                  [n |-> report.type, outcome |-> Reported(s, report),
                   ask |-> Opponents(s, report)])
  /\ UNCHANGED <<account, hosting, seat, sat, directory, recent, clock>>

RatingKey(s) == RecordKey(ProductOf[s], job[s].n, "rating")

(* The opponents' ratings are read one await after the other and summed;   *)
(* after the last the game is recorded against their mean.                 *)
AskNext(s, ask, sum, rated) ==
  IF ask # <<>>
  THEN Await(s, "rating",
             [n |-> job[s].n, outcome |-> job[s].outcome, ask |-> ask, sum |-> sum, rated |-> rated],
             [op |-> "ReadReadableAttrs", name |-> Head(ask), keys |-> {RatingKey(s)}])
  ELSE Await(s, "recording", [n |-> job[s].n],
             [op |-> "RecordLadderGame", id |-> account[s], product |-> ProductOf[s],
              league |-> job[s].n, outcome |-> job[s].outcome, opponent |-> Mean(sum, rated)])

Eligible(s) ==
  /\ Resumes(s, "eligible")
  /\ Wins(s) >= LadderMinWins
  /\ AskNext(s, job[s].ask, 0, 0)
  /\ UNCHANGED <<account, hosting, seat, sat, directory, recent, clock, results>>

TooFewWins(s) ==
  /\ Resumes(s, "eligible")
  /\ Wins(s) < LadderMinWins
  /\ Finish(s)
  /\ UNCHANGED <<account, hosting, seat, sat, directory, recent, clock, results>>

RatingRead(s) == IF RatingKey(s) \in DOMAIN Answer(s) THEN Answer(s)[RatingKey(s)] ELSE StartRating

GotRating(s) ==
  /\ Resumes(s, "rating")
  /\ AskNext(s, Tail(job[s].ask), job[s].sum + RatingRead(s), job[s].rated + 1)
  /\ UNCHANGED <<account, hosting, seat, sat, directory, recent, clock, results>>

(* A recorded ladder game joins the recent results, the newest first.      *)
RecentResults(s) ==
  IF job[s].n = 0 \/ Answer(s) = Error THEN recent
  ELSE Truncate(<<[player |-> account[s], rating |-> Answer(s)]>> \o recent, RecentMax)

(* Then show_record reads the account's record anew, and its rank if it    *)
(* has a ladder rating.                                                    *)
Recorded(s) ==
  /\ Resumes(s, "recording")
  /\ recent' = RecentResults(s)
  /\ Await(s, "showing", NoJob,
           [op |-> "ReadReadableAttrs", name |-> Accounts[account[s]].name,
            keys |-> {WinsKey(s), RecordKey(ProductOf[s], 1, "rating")}])
  /\ UNCHANGED <<account, hosting, seat, sat, directory, clock, results>>

ShowRecord(s) ==
  /\ Resumes(s, "showing")
  /\ IF RecordKey(ProductOf[s], 1, "rating") \in DOMAIN Answer(s)
     THEN Await(s, "ranking", NoJob,
                [op |-> "LadderRows", product |-> ProductOf[s], league |-> 1])
     ELSE Finish(s)
  /\ UNCHANGED <<account, hosting, seat, sat, directory, recent, clock, results>>

ShowRank(s) ==
  /\ Resumes(s, "ranking")
  /\ Finish(s)
  /\ UNCHANGED <<account, hosting, seat, sat, directory, recent, clock, results>>

Tick ==
  /\ clock < MaxTime
  /\ clock' = clock + 1
  /\ UNCHANGED <<own, directory, recent, results, storage>>

Actor ==
  /\ Serve \/ Die
  /\ UNCHANGED <<own, directory, recent, clock, results>>

-----------------------------------------------------------------------------
Handler(s) ==
  \/ AdvertiseLadderGranted(s) \/ AdvertiseLadderRefused(s)
  \/ Eligible(s) \/ TooFewWins(s) \/ GotRating(s)
  \/ Recorded(s) \/ ShowRecord(s) \/ ShowRank(s)

Packet(s) ==
  \/ \E id \in DOMAIN Accounts : LogOn(s, id)
  \/ Cleanup(s)
  \/ \E n \in GameName : Advertise(s, n) \/ AdvertiseLadder(s, n) \/ NotifyJoin(s, n)
  \/ \E starts \in BOOLEAN : StopAdvertising(s, starts)
  \/ \E r \in Report : GameResult(s, r)

Next == Tick \/ Actor \/ \E s \in Session : Packet(s) \/ Handler(s)

Spec == Init /\ [][Next]_vars

-----------------------------------------------------------------------------
(* Properties.                                                             *)

PC == {"idle", "advertising", "eligible", "rating", "recording", "showing", "ranking"}

(* The variables have the shapes the code gives them.                      *)
TypeOK ==
  /\ account \in [Session -> DOMAIN Accounts \cup {None}]
  /\ hosting \in [Session -> BOOLEAN]
  /\ pc \in [Session -> PC]
  /\ \A n \in DOMAIN games : n \in GameName /\ games[n].host \in DOMAIN Accounts
  /\ clock \in 0 .. MaxTime /\ results \in 0 .. MaxResults
  /\ Len(recent) <= RecentMax

(* A listed game never outlives its host (Node::withdraw_game): whatever a *)
(* client sees in a game list belongs to an account somebody is logged on  *)
(* to.                                                                     *)
ListedGamesHaveHosts ==
  \A s \in Session : \A n \in GameList(s, None) :
    \E h \in Session : account[h] = games[n].host

(* The ladder games the account has a record of are those of a player with *)
(* the normal-game wins the ladder asks for.                               *)
LadderNeedsWins ==
  \A id \in DOMAIN db.attrs : \A k \in DOMAIN db.attrs[id] :
    k[1] = "Record" /\ k[3] # 0 =>
      Get(db, id, RecordKey(k[2], 0, "wins"), 0) >= LadderMinWins

(* Ladder records stay what the ladder makes of them whatever arrives      *)
(* between the awaits of a result (session.rs:3098-3175): nobody has one   *)
(* without the normal-game wins, read some awaits earlier, and the high    *)
(* rating is the highest the player ever had.                              *)
LadderRecordsHold ==
  [][/\ LadderNeedsWins'
     /\ \A id \in DOMAIN db.attrs : \A p \in Range(ProductOf), l \in {1, 3} :
          LET high == Get(db, id, RecordKey(p, l, "high rating"), StartRating)
          IN  db'.attrs[id] # db.attrs[id] =>
                /\ Get(db', id, RecordKey(p, l, "high rating"), StartRating) >= high
                /\ Get(db', id, RecordKey(p, l, "high rating"), StartRating)
                     >= Get(db', id, RecordKey(p, l, "rating"), StartRating)]_vars

(* Nobody is left waiting: a handler stopped at an await has either its    *)
(* answer or one command in the queue that will bring it, also after the   *)
(* actor died; and a session between packets has neither, so that no       *)
(* answer is taken for that of a later question.                           *)
NobodyForgotten ==
  \A s \in Session :
    LET asked == {i \in DOMAIN queue : queue[i].from = s}
    IN  IF pc[s] = "idle" \/ Answered(s) THEN asked = {} /\ (pc[s] = "idle" => ~Answered(s))
        ELSE Cardinality(asked) = 1
=============================================================================
