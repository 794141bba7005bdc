--------------------------------- MODULE Realm ---------------------------------
(***************************************************************************)
(* The Diablo II realm (crates/bnetccd/src/realm.rs): tickets, realm       *)
(* connections and their requests, and the end of a ladder season          *)
(* (Node::end_ladder_season).  A handler runs up to an await, of the       *)
(* storage actor or of the game server link, and goes on with its answer;  *)
(* what it read before may have changed.                                   *)
(*                                                                         *)
(* The game server opens the same database and saves the characters it     *)
(* plays (external: GameServerSaves).                                      *)
(***************************************************************************)
EXTENDS StorageActor, GameServerLink

CONSTANTS
  Login,          \* login connections (session.rs) of Diablo II clients
  OwnerOf,        \* Login -> the account logged on
  ExpansionOf,    \* Login -> whether the client has the expansion
  Panel,          \* the panel's task, a client of the storage actor
  NewCharacters,  \* what clients ask MCP_CHARCREATE for
  Asked,          \* what clients ask MCP_CREATEGAME for
  GameNames,
  TicketId,       \* bound: random ids of tickets
  InitialDb,
  MaxCharacters,  \* diablo2.max_characters
  MaxEvents,      \* bound: what requests, ends of a season and saves may cost together
  OtherCost       \* bound: making, choosing and deleting a character and joining a game
                  \* cost 1 each, anything else this

VARIABLES
  open,      \* login connections that are up
  tickets,   \* the node's realm tickets: id -> the account and product it stands for
  realmTickets, \* per login: the ids it minted
  ticket,    \* per realm connection: the ticket it started with last
  selected,  \* per realm connection: the character it plays
  pc, job,   \* per realm connection: the handler's await and its locals
  season,    \* the current season's number
  ending,    \* the panel awaits the end of a season
  events     \* counted against the bound

realm == <<open, tickets, realmTickets, ticket, selected, pc, job, season, ending, events>>
vars == <<realm, storage, link>>

-----------------------------------------------------------------------------
(* What the realm decides about characters and games without asking        *)
(* anyone: who may join a game and why not, the settings of a new one, and *)
(* the Diablo II ladders.  A character's status byte is the fields         *)
(* expansion, hardcore, ladder and dead; its save is None or a record with *)
(* its experience.  A game of a version-1 game server has no settings.     *)

AtMost(n, most) == IF n > most THEN most ELSE n

(* A classic client cannot use an expansion character.                     *)
Usable(ch, expansionClient) == expansionClient \/ ~ch.expansion

Visible(chars, expansionClient) == SelectSeq(chars, LAMBDA ch : Usable(ch, expansionClient))

(* client_facing_ipv4: a peer on this network is sent where it reached us, *)
(* anyone else to the configured address, if it resolves                   *)
ClientFacing(peerIsLocal, local, configured, resolved) ==
  IF peerIsLocal \/ configured = None \/ resolved = None THEN local ELSE resolved

IsDeadHardcore(ch) == ch.hardcore /\ ch.dead

(* One difficulty for every five acts, four in the classic game.           *)
HighestDifficulty(ch) == AtMost(ch.progression \div (IF ch.expansion THEN 5 ELSE 4), 2)

(* The client has a word for one side of each pair of kinds.               *)
KindRefusal(ch, s) ==
  CASE s.hardcore # ch.hardcore -> IF s.hardcore THEN "NOT_HARDCORE" ELSE "NO_SUCH_GAME"
    [] s.hardcore = ch.hardcore /\ s.expansion # ch.expansion ->
         IF s.expansion THEN "NOT_EXPANSION" ELSE "NOT_CLASSIC"
    [] s.hardcore = ch.hardcore /\ s.expansion = ch.expansion /\ s.ladder # ch.ladder ->
         IF s.ladder THEN "NOT_LADDER" ELSE "NO_SUCH_GAME"
    [] OTHER -> "none"

Difference(m, n) == IF m > n THEN m - n ELSE n - m

(* A missing level difference is None; the player limit is held in 1 .. 8. *)
RoomRefusal(ch, s, players) ==
  IF s.difference # None /\ Difference(ch.level, s.creatorLevel) > s.difference
  THEN "LEVEL_REQUIREMENT"
  ELSE IF players >= AtMost(AtLeast(1, s.maxPlayers), 8) THEN "FULL" ELSE "none"

JoinRefusal(ch, game) ==
  LET s == game.settings
  IN  IF s # None /\ KindRefusal(ch, s) # "none" THEN KindRefusal(ch, s)
      ELSE IF game.difficulty > HighestDifficulty(ch)
           THEN IF game.difficulty >= 2 THEN "NO_HELL" ELSE "NO_NIGHTMARE"
      ELSE IF s # None THEN RoomRefusal(ch, s, game.players) ELSE "none"

(* listable: a game it could join whose name the filter, None for any,     *)
(* picks out                                                               *)
Listable(ch, game, filter) == JoinRefusal(ch, game) = "none" /\ filter \in {None, game.name}

(* The settings of a game `creator` makes, who is None without a character *)
(* chosen.  255 is the client's word for no level restriction.             *)
Settings(creator, expansionClient, asked) ==
  [maxPlayers |-> IF asked.maxPlayers \in 1 .. 8 THEN asked.maxPlayers ELSE 8,
   difference |-> IF asked.difference < 100 THEN asked.difference ELSE None,
   creatorLevel |-> IF creator = None THEN 1 ELSE AtLeast(1, creator.level),
   expansion |-> IF creator = None THEN expansionClient ELSE creator.expansion,
   hardcore |-> creator # None /\ creator.hardcore,
   ladder |-> creator # None /\ creator.ladder]

-----------------------------------------------------------------------------
(* MCP_REQUESTLADDERDATA.                                                  *)

(* The characters a ladder type lists: hardcore or not, expansion or not,  *)
(* and a class or, None, all of them.                                      *)
LadderFilter(type) ==
  LET Run(base, hardcore, expansion) ==
        [hardcore |-> hardcore, expansion |-> expansion,
         class |-> IF type = base THEN None ELSE type - base - 1]
  IN  CASE type \in 0 .. 5 -> Run(0, TRUE, FALSE)
        [] type \in 9 .. 14 -> Run(9, FALSE, FALSE)
        [] type \in 19 .. 26 -> Run(19, TRUE, TRUE)
        [] type \in 27 .. 34 -> Run(27, FALSE, TRUE)
        [] OTHER -> None

ExperienceOf(ch) == IF ch.save = None THEN 0 ELSE ch.save.experience

(* Most experienced first, then the higher level, then the name.           *)
RankedAbove(a, b) ==
  \/ ExperienceOf(a) > ExperienceOf(b)
  \/ ExperienceOf(a) = ExperienceOf(b) /\ a.level > b.level
  \/ ExperienceOf(a) = ExperienceOf(b) /\ a.level = b.level /\ a.name < b.name

(* A page of sixteen from `start`; of an entry, whether it is the asker's. *)
LadderReply(characters, type, start, asker) ==
  LET f == LadderFilter(type)
      Listed(ch) == /\ f # None /\ ch.ladder
                    /\ ch.hardcore = f.hardcore /\ ch.expansion = f.expansion
                    /\ f.class \in {None, ch.class}
      all == Truncate(SortSeq(SelectSeq(characters, Listed), RankedAbove), MaxRank)
      page == Truncate(SubSeq(all, start + 1, Len(all)), 16)
  IN  [i \in DOMAIN page |-> [name |-> page[i].name, own |-> page[i].account = asker,
                              dead |-> IsDeadHardcore(page[i])]]

-----------------------------------------------------------------------------
NoJob == [op |-> "none"]

InitRealm ==
  /\ open = Login
  /\ tickets = <<>>
  /\ realmTickets = [l \in Login |-> <<>>]
  /\ ticket = [m \in Waiter |-> None]
  /\ selected = [m \in Waiter |-> None]
  /\ pc = [m \in Waiter |-> "idle"]
  /\ job = [m \in Waiter |-> NoJob]
  /\ season = 1 /\ ending = FALSE
  /\ events = 0

Init == InitStorage(InitialDb) /\ InitLink /\ InitRealm

-----------------------------------------------------------------------------
(* Tickets.  Every SID_LogonRealmEX mints another, under a random id that  *)
(* is not a live ticket's; the login keeps the ids of all it minted.       *)

MintRealmTicket(l, id) ==
  Insert(tickets, id, [account |-> OwnerOf[l], expansion |-> ExpansionOf[l]])

LogonRealm(l, id) ==
  /\ l \in open /\ id \notin DOMAIN tickets
  /\ tickets' = MintRealmTicket(l, id)
  /\ realmTickets' = [realmTickets EXCEPT ![l] = Append(@, id)]
  /\ UNCHANGED <<open, ticket, selected, pc, job, season, ending, events, storage, link>>

RevokeRealmTickets(ids) == Without(tickets, Range(ids))

\* mutant: a login that ends revokes the ticket it minted last
LogoffRevokesLast(l) ==
  /\ l \in open
  /\ open' = open \ {l}
  /\ tickets' = RevokeRealmTickets(IF realmTickets[l] = <<>> THEN <<>> ELSE <<Last(realmTickets[l])>>)
  /\ realmTickets' = [realmTickets EXCEPT ![l] = <<>>]
  /\ UNCHANGED <<ticket, selected, pc, job, season, ending, events, storage, link>>

(* Bncs::cleanup: revokes the login's tickets; realm connections stay.     *)
Logoff(l) ==
  /\ l \in open
  /\ open' = open \ {l}
  /\ tickets' = RevokeRealmTickets(realmTickets[l])
  /\ realmTickets' = [realmTickets EXCEPT ![l] = <<>>]
  /\ UNCHANGED <<ticket, selected, pc, job, season, ending, events, storage, link>>

(* MCP_STARTUP, the only request taken without a ticket, and taken again   *)
(* with one: another replaces it, and the character played stays.  It is   *)
(* looked up, not consumed; the connection closes on one that is unknown   *)
(* or has another cookie.                                                  *)
Startup(m, id, cookieMatches) ==
  /\ pc[m] = "idle"
  /\ id \in DOMAIN tickets /\ cookieMatches
  /\ ticket' = [ticket EXCEPT ![m] = tickets[id]]
  /\ UNCHANGED <<open, tickets, realmTickets, selected, pc, job, season, ending, events, storage, link>>

(* Any connection ends when its peer or a time-out ends it.                *)
Close(m) ==
  /\ pc[m] = "idle" /\ ticket[m] # None
  /\ ticket' = [ticket EXCEPT ![m] = None]
  /\ selected' = [selected EXCEPT ![m] = None]
  /\ UNCHANGED <<open, tickets, realmTickets, pc, job, season, ending, events, storage, link>>

-----------------------------------------------------------------------------
(* A request: taken between two others, on a connection with a ticket.     *)

Event(cost) == events + cost <= MaxEvents /\ events' = events + cost

Takes(m, cost) ==
  /\ pc[m] = "idle" /\ ticket[m] # None
  /\ Event(cost)
  /\ UNCHANGED <<open, tickets, realmTickets, ticket, season, ending>>

(* Goes on from an await of storage, or of the link.                       *)
Resumes(m, at) ==
  /\ pc[m] = at /\ Answered(m)
  /\ UNCHANGED <<open, tickets, realmTickets, ticket, season, ending, events>>

ResumesCall(m, at) ==
  /\ pc[m] = at /\ CallAnswered(m)
  /\ UNCHANGED <<open, tickets, realmTickets, ticket, season, ending, events>>

At(m, next, locals) ==
  /\ pc' = [pc EXCEPT ![m] = next]
  /\ job' = [job EXCEPT ![m] = locals]

Await(m, next, locals, c) == At(m, next, locals) /\ Send(m, c)

Taken(m) == reply' = [reply EXCEPT ![m] = NoReply] /\ UNCHANGED <<db, queue, alive>>

Finish(m) == At(m, "idle", NoJob) /\ Taken(m) /\ UNCHANGED link

FinishCall(m) == At(m, "idle", NoJob) /\ EndCall(m) /\ UNCHANGED storage

(* own_character: the one of the name, if it is the account's and the      *)
(* client can use it                                                       *)
Own(m, ch) ==
  IF ch # None /\ ch.account = ticket[m].account /\ Usable(ch, ticket[m].expansion)
  THEN ch ELSE None

Read(m, next, locals, name) == Await(m, next, locals, [op |-> "CharacterByName", name |-> name])

-----------------------------------------------------------------------------
(* Characters.                                                             *)

(* char_list, ladder_data: one read and a reply (Visible, LadderReply)     *)
CharList(m) ==
  /\ Takes(m, OtherCost)
  /\ Await(m, "listing", NoJob, [op |-> "Characters", id |-> ticket[m].account])
  /\ UNCHANGED <<selected, link>>

LadderData(m) ==
  /\ Takes(m, OtherCost)
  /\ Await(m, "ranking", NoJob, [op |-> "AllCharacters"])
  /\ UNCHANGED <<selected, link>>

Listed(m) ==
  /\ \/ Resumes(m, "listing")
     \/ Resumes(m, "ranking")
  /\ Finish(m)
  /\ UNCHANGED selected

(* A status byte with what clients may create: no expansion character for  *)
(* a classic client, and no expansion class without the expansion.         *)
ValidNew(m, new) ==
  /\ new.class \in 0 .. 6
  /\ new.class \in {5, 6} => new.expansion
  /\ new.expansion => ticket[m].expansion

CharCreate(m, new) ==
  /\ Takes(m, 1)
  /\ IF ValidNew(m, new)
     THEN Await(m, "counting", [new |-> new], [op |-> "Characters", id |-> ticket[m].account])
     ELSE UNCHANGED <<pc, job, storage>>
  /\ UNCHANGED <<selected, link>>

(* The count of an account that cannot be read is 0.                       *)
Counted(m) == IF Answer(m) = Error THEN 0 ELSE Len(Answer(m))

CharCounted(m) ==
  /\ Resumes(m, "counting")
  /\ IF Counted(m) >= MaxCharacters THEN Finish(m)
     ELSE /\ Await(m, "creating", job[m],
                   [op |-> "CreateCharacter",
                    char |-> job[m].new @@ [account |-> ticket[m].account, dead |-> FALSE,
                                            level |-> 1, progression |-> 0, save |-> None]])
          /\ UNCHANGED link
  /\ UNCHANGED selected

(* A character made is the one the connection plays.                       *)
CharCreated(m) ==
  /\ Resumes(m, "creating")
  /\ selected' = IF Answer(m) = "ok" THEN [selected EXCEPT ![m] = job[m].new.name] ELSE selected
  /\ Finish(m)

CharLogon(m, name) ==
  /\ Takes(m, 1)
  /\ Read(m, "logging on", NoJob, name)
  /\ UNCHANGED <<selected, link>>

(* The row that was read is written back whole, with a new last_played.    *)
CharLogonRead(m) ==
  LET ch == Own(m, Answer(m))
  IN  /\ Resumes(m, "logging on")
      /\ IF ch = None THEN Finish(m)
         ELSE /\ Await(m, "logged on", [name |-> ch.name], [op |-> "UpdateCharacter", char |-> ch])
              /\ UNCHANGED link
      /\ UNCHANGED selected

(* Whatever became of the update.                                          *)
CharLoggedOn(m) ==
  /\ Resumes(m, "logged on")
  /\ selected' = [selected EXCEPT ![m] = job[m].name]
  /\ Finish(m)

CharDelete(m, name) ==
  /\ Takes(m, 1)
  /\ Await(m, "deleting", [name |-> name],
           [op |-> "DeleteCharacter", id |-> ticket[m].account, name |-> name])
  /\ UNCHANGED <<selected, link>>

CharDeleted(m) ==
  /\ Resumes(m, "deleting")
  /\ selected' = IF Answer(m) \in {TRUE} /\ selected[m] = job[m].name
                 THEN [selected EXCEPT ![m] = None] ELSE selected
  /\ Finish(m)

CharUpgrade(m, name) ==
  /\ Takes(m, OtherCost)
  /\ Read(m, "upgrading", NoJob, name)
  /\ UNCHANGED <<selected, link>>

CharUpgradeRead(m) ==
  LET ch == Answer(m)
  IN  /\ Resumes(m, "upgrading")
      /\ IF ch # None /\ Own(m, ch) = ch /\ ticket[m].expansion /\ ~ch.expansion
         THEN /\ Await(m, "upgraded", NoJob,
                       [op |-> "UpdateCharacter", char |-> [ch EXCEPT !.expansion = TRUE]])
              /\ UNCHANGED link
         ELSE Finish(m)
      /\ UNCHANGED selected

CharUpgraded(m) ==
  /\ Resumes(m, "upgraded")
  /\ Finish(m)
  /\ UNCHANGED selected

-----------------------------------------------------------------------------
(* Games.  A handler first reads the character the connection plays.       *)

CallGameServer(m, next, locals, what, args) ==
  /\ At(m, next, locals)
  /\ Call(m, what, args)

(* MCP_GAMELIST, MCP_CREATEGAME and MCP_JOINGAME: playing()                *)
Plays(m, locals) ==
  /\ Takes(m, IF locals.op = "join" THEN 1 ELSE OtherCost)
  /\ IF selected[m] # None
     THEN /\ Read(m, "playing", locals, selected[m])
          /\ UNCHANGED link
     ELSE CASE locals.op = "list" -> UNCHANGED <<pc, job, storage, link>>   \* an empty list
            [] locals.op = "join" -> UNCHANGED <<pc, job, storage, link>>   \* NO_SUCH_GAME
            [] locals.op = "create" ->
                 /\ CallGameServer(m, "asking", locals, "create",
                                   [name |-> locals.name,
                                    settings |-> Settings(None, ticket[m].expansion, locals.asked)])
                 /\ UNCHANGED storage
  /\ UNCHANGED selected

GameList(m) == Plays(m, [op |-> "list"])

CreateGame(m, name, asked) == Plays(m, [op |-> "create", name |-> name, asked |-> asked])

JoinGame(m, name) == Plays(m, [op |-> "join", name |-> name])

(* MCP_GAMEINFO needs no character.                                        *)
GameInfo(m, name) ==
  /\ Takes(m, OtherCost)
  /\ CallGameServer(m, "asking", [op |-> "info"], "info", [name |-> name])
  /\ UNCHANGED <<selected, storage>>

\* mutant: the character chosen is not asked for its account again
NobodyByName(m) == Answer(m) = None

Nobody(m) == Own(m, Answer(m)) = None

ListPlaying(m) ==
  /\ Resumes(m, "playing") /\ job[m].op = "list"
  /\ IF Nobody(m) THEN Finish(m)
     ELSE CallGameServer(m, "asking", [op |-> "list", char |-> Answer(m)], "list", NoJob) /\ Taken(m)
  /\ UNCHANGED selected

(* The settings are of the character read first; whether it is dead is     *)
(* read again.                                                             *)
CreatePlaying(m) ==
  /\ Resumes(m, "playing") /\ job[m].op = "create"
  /\ Read(m, "dead?",
          [name |-> job[m].name,
           settings |-> Settings(Own(m, Answer(m)), ticket[m].expansion, job[m].asked)],
          selected[m])
  /\ UNCHANGED <<selected, link>>

CreateIfAlive(m) ==
  /\ Resumes(m, "dead?")
  /\ IF ~Nobody(m) /\ IsDeadHardcore(Answer(m)) THEN Finish(m)
     ELSE CallGameServer(m, "asking", [op |-> "create"], "create", job[m]) /\ Taken(m)
  /\ UNCHANGED selected

JoinPlaying(m) ==
  /\ Resumes(m, "playing") /\ job[m].op = "join"
  /\ IF Nobody(m) \/ IsDeadHardcore(Answer(m)) THEN Finish(m)
     ELSE /\ CallGameServer(m, "refusal", [char |-> Answer(m), name |-> job[m].name],
                            "info", [name |-> job[m].name])
          /\ Taken(m)
  /\ UNCHANGED selected

(* A game the game server does not describe is left to it.                 *)
JoinIfWelcome(m) ==
  LET game == CallResult(m)
      ch == job[m].char
  IN  /\ ResumesCall(m, "refusal")
      /\ IF game \notin {None, Down} /\ JoinRefusal(ch, game) # "none" THEN FinishCall(m)
         ELSE /\ CallGameServer(m, "asking", [op |-> "join"], "join",
                                [name |-> job[m].name, account |-> ch.account, char |-> ch.name])
              /\ UNCHANGED storage
      /\ UNCHANGED selected

(* The reply: a list of the games the character could join, a game, a      *)
(* token, or why not.                                                      *)
GameReply(m) ==
  /\ ResumesCall(m, "asking")
  /\ FinishCall(m)
  /\ UNCHANGED selected

-----------------------------------------------------------------------------
(* The end of a season, from the panel: the season moves on only after     *)
(* storage has retired every ladder character.                             *)

EndSeason ==
  /\ ~ending /\ Event(OtherCost)
  /\ ending' = TRUE
  /\ Send(Panel, [op |-> "EndLadderSeason"])
  /\ UNCHANGED <<open, tickets, realmTickets, ticket, selected, pc, job, season, link>>

(* LadderSeasons::begin_next; a write that fails is logged and no more.    *)
BeginNext == season + 1

SeasonEnded ==
  /\ ending /\ Answered(Panel)
  /\ ending' = FALSE
  /\ season' = IF Answer(Panel) = Error THEN season ELSE BeginNext
  /\ Taken(Panel)
  /\ UNCHANGED <<open, tickets, realmTickets, ticket, selected, pc, job, events, link>>

(* External: the game server saves a character it has been playing.        *)
GameServerSaves(i) ==
  /\ Event(OtherCost)
  /\ \E dies \in BOOLEAN :
       db' = [db EXCEPT !.chars[i].level = @ + 1, !.chars[i].dead = @ \/ dies,
                        !.chars[i].save = [ladder |-> db.chars[i].ladder, experience |-> db.chars[i].level]]
  /\ UNCHANGED <<queue, reply, alive>>
  /\ UNCHANGED <<open, tickets, realmTickets, ticket, selected, pc, job, season, ending, link>>

Granted == [granted |-> TRUE]
Refused == [granted |-> FALSE]

(* External: what the game server may answer.                              *)
Answers(m) ==
  CASE m.message \in {"Create", "CreateGame"} -> {Down, Granted, Refused}
    [] m.message = "ListGames" -> {Down, <<>>}
    [] m.message = "GameInfo" ->
         {Down, None} \cup
           {[name |-> m.args.name, difficulty |-> 0, players |-> n,
             settings |-> Settings(None, TRUE, [maxPlayers |-> 1, difference |-> 255])] : n \in 0 .. 1}
    [] m.message = "Join" -> {Down, Granted, Refused}

-----------------------------------------------------------------------------
Packet(m) ==
  \/ CharList(m) \/ LadderData(m) \/ GameList(m)
  \/ \E new \in NewCharacters :
       CharCreate(m, new) \/ CharLogon(m, new.name) \/ CharDelete(m, new.name) \/ CharUpgrade(m, new.name)
  \/ \E n \in GameNames :
       GameInfo(m, n) \/ JoinGame(m, n) \/ \E a \in Asked : CreateGame(m, n, a)

Handler(m) ==
  \/ Listed(m) \/ CharCounted(m) \/ CharCreated(m) \/ CharLogonRead(m) \/ CharLoggedOn(m)
  \/ CharDeleted(m) \/ CharUpgradeRead(m) \/ CharUpgraded(m)
  \/ ListPlaying(m) \/ CreatePlaying(m) \/ CreateIfAlive(m) \/ JoinPlaying(m) \/ JoinIfWelcome(m)
  \/ GameReply(m)

Next ==
  \/ \E l \in Login : Logoff(l) \/ \E id \in TicketId : LogonRealm(l, id)
  \/ \E m \in Waiter :
       \/ \E id \in TicketId, matches \in BOOLEAN : Startup(m, id, matches)
       \/ Close(m) \/ Packet(m) \/ Handler(m)
  \/ EndSeason \/ SeasonEnded
  \/ \E i \in DOMAIN db.chars : GameServerSaves(i)
  \/ (Serve \/ Die) /\ UNCHANGED <<realm, link>>
  \/ LinkStep(Answers) /\ UNCHANGED <<realm, storage>>

Spec == Init /\ [][Next]_vars

-----------------------------------------------------------------------------
(* Properties.                                                             *)

(* A ticket handed to a client is good as long as the login that minted it *)
(* is up and no longer, for its account, however many the login asked for  *)
(* and however often they are presented (mint_realm_ticket,                *)
(* revoke_realm_ticket).                                                   *)
TicketsOfOpenLogins ==
  /\ \A id \in DOMAIN tickets : \E l \in open : id \in Range(realmTickets[l])
  /\ \A l \in open : \A id \in Range(realmTickets[l]) :
       id \in DOMAIN tickets /\ tickets[id].account = OwnerOf[l]

(* The messages on their way to a game server, or in its hands.            *)
InFlight == UNION {gs[g].taken \cup Range(gs[g].queue) : g \in GameServer}

(* A join is only ever staged for a character of the connection's own      *)
(* account: the character it chose may since have been deleted and its     *)
(* name taken by another account, and the connection itself started again  *)
(* with another account's ticket.                                          *)
JoinsOnlyOwn ==
  \A q \in InFlight :
    q.message = "Join" /\ q.id \in DOMAIN pending =>
      q.args.account = ticket[pending[q.id]].account
=============================================================================
