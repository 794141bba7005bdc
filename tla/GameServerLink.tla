----------------------------- MODULE GameServerLink -----------------------------
(***************************************************************************)
(* The realm's end of the link to its game server                          *)
(* (crates/bnetccd/src/gslink.rs, messages of crates/bnetcc-gslink): game  *)
(* servers dial in, prove the token, and the newest installed answers the  *)
(* realm's requests.  Each request has an id, a waiter in `pending` and a  *)
(* deadline.                                                               *)
(*                                                                         *)
(* The game server itself is external: it takes requests off the link in   *)
(* order and answers any of them, in any order, more than once or never.   *)
(***************************************************************************)
EXTENDS Values, Naturals, Sequences, FiniteSets, TLC

CONSTANTS
  Waiter,       \* the tasks that may have a request under way
  GameServer,   \* connections game servers make
  QueueCap,     \* room in a connection's outbound queue (64)
  MaxIds,       \* bound: requests sent
  Down          \* LinkError::Down

ASSUME LinkAssumption ==
  None \notin GameServer /\ None \notin [generation : Nat, version : Nat, to : GameServer]

MinVersion == 1
Version == 2
LobbyVersion == 2

VARIABLES
  gs,          \* per connection: its stage and what is under way on it
  current,     \* the linked game server's connection
  generation,  \* connections that have been numbered
  pending,     \* request id -> the task waiting for it
  nextId,
  games,       \* the connection whose list of games is shown; None for an empty list
  call,        \* per task: the request it has under way
  installed    \* history: the connection installed last

link == <<gs, current, generation, pending, nextId, games, call, installed>>

NoCall == [stage |-> "none"]

InitLink ==
  /\ gs = [g \in GameServer |-> [stage |-> "new", version |-> 0, generation |-> 0,
                                 writer |-> FALSE, queue |-> <<>>, taken |-> {}]]
  /\ current = None /\ generation = 0
  /\ pending = <<>> /\ nextId = 0
  /\ games = None
  /\ call = [w \in Waiter |-> NoCall]
  /\ installed = None

-----------------------------------------------------------------------------
(* A game server's connection.                                             *)

ToStage(g, stage) == gs' = [gs EXCEPT ![g].stage = stage]

(* The hello: one within the deadline, with the token and a version the    *)
(* realm knows, and a Welcome that can be written, leads on.               *)
Hello(g, tokenMatches, version) ==
  /\ gs[g].stage = "new"
  /\ \/ /\ tokenMatches /\ version \in MinVersion .. Version
        /\ gs' = [gs EXCEPT ![g].stage = "welcomed", ![g].version = version]
     \/ ToStage(g, "ended")
  /\ UNCHANGED <<current, generation, pending, nextId, games, call, installed>>

(* generation.fetch_add: not under the lock that guards `current`          *)
Number(g) ==
  /\ gs[g].stage = "welcomed"
  /\ generation' = generation + 1
  /\ gs' = [gs EXCEPT ![g].stage = "numbered", ![g].generation = generation + 1]
  /\ UNCHANGED <<current, pending, nextId, games, call, installed>>

Install(g) ==
  /\ gs[g].stage = "numbered"
  /\ gs' = [gs EXCEPT ![g].stage = "linked", ![g].writer = TRUE]
  /\ current' = [generation |-> gs[g].generation, version |-> gs[g].version, to |-> g]
  /\ installed' = g
  /\ UNCHANGED <<generation, pending, nextId, games, call>>

(* The list of games a game server pushes, from a replaced one too.        *)
PushGames(g) ==
  /\ gs[g].stage = "linked"
  /\ games' = g
  /\ UNCHANGED <<gs, current, generation, pending, nextId, call, installed>>

(* A write fails: the writer task ends and its queue is dropped.           *)
WriterFails(g) ==
  /\ gs[g].writer
  /\ gs' = [gs EXCEPT ![g].writer = FALSE, ![g].queue = <<>>]
  /\ UNCHANGED <<current, generation, pending, nextId, games, call, installed>>

Closed(g) == [gs EXCEPT ![g].stage = "ended", ![g].writer = FALSE, ![g].queue = <<>>, ![g].taken = {}]

\* mutant: whichever connection ends, the link is taken for down
UnlinkAny(g) ==
  /\ gs[g].stage = "linked"
  /\ gs' = Closed(g)
  /\ current' = None /\ games' = None
  /\ UNCHANGED <<generation, pending, nextId, call, installed>>

(* The read loop ends.  Only the connection that is current clears it.     *)
Unlink(g) ==
  /\ gs[g].stage = "linked"
  /\ gs' = Closed(g)
  /\ IF current # None /\ current.generation = gs[g].generation
     THEN current' = None /\ games' = None
     ELSE UNCHANGED <<current, games>>
  /\ UNCHANGED <<generation, pending, nextId, call, installed>>

-----------------------------------------------------------------------------
(* Requests.                                                               *)

(* create, list_games, game_info, join: the caller starts one.             *)
Call(w, what, args) ==
  /\ call' = [call EXCEPT ![w] = [stage |-> "choose", what |-> what, args |-> args]]
  /\ UNCHANGED <<gs, current, generation, pending, nextId, games, installed>>

(* What the caller gets: Down or the answer.                               *)
CallAnswered(w) == call[w].stage = "done"

CallResult(w) == call[w].result

EndCall(w) ==
  /\ call' = [call EXCEPT ![w] = NoCall]
  /\ UNCHANGED <<gs, current, generation, pending, nextId, games, installed>>

Finished(w, result) == [call EXCEPT ![w] = [stage |-> "done", result |-> result]]

LinkedVersion == IF current = None THEN 0 ELSE current.version

(* What a game server of the version is asked; None when it is not asked.  *)
MessageFor(what, version) ==
  CASE what = "create" -> IF version >= LobbyVersion THEN "CreateGame" ELSE "Create"
    [] what = "list" -> IF version >= LobbyVersion THEN "ListGames" ELSE None
    [] what = "info" -> IF version >= LobbyVersion THEN "GameInfo" ELSE None
    [] what = "join" -> "Join"

(* A list or a game is asked for after two looks at the link, each under a *)
(* lock of its own: whether there is a game server, and whether the one    *)
(* there then answers the lobby.  A create looks once, a join not at all.  *)
LooksTwice == {"list", "info"}

Look(w) ==
  /\ call[w].stage = "choose" /\ call[w].what \in LooksTwice
  /\ call' = IF LinkedVersion = 0 THEN Finished(w, Down)
             ELSE [call EXCEPT ![w] = [stage |-> "lobby", what |-> call[w].what, args |-> call[w].args]]
  /\ UNCHANGED <<gs, current, generation, pending, nextId, games, installed>>

(* Without the lobby there is no list and no game.                         *)
Choose(w) ==
  LET message == MessageFor(call[w].what, LinkedVersion)
  IN  /\ \/ call[w].stage = "choose" /\ call[w].what \notin LooksTwice
         \/ call[w].stage = "lobby"
      /\ call' = IF message # None
                 THEN [call EXCEPT ![w] = [stage |-> "request", message |-> message, args |-> call[w].args]]
                 ELSE Finished(w, None)
      /\ UNCHANGED <<gs, current, generation, pending, nextId, games, installed>>

(* request: up to the await                                                *)
Request(w) ==
  /\ call[w].stage = "request"
  /\ IF current = None
     THEN call' = Finished(w, Down) /\ UNCHANGED <<pending, nextId>>
     ELSE /\ nextId < MaxIds
          /\ nextId' = nextId + 1
          /\ pending' = [i \in DOMAIN pending \cup {nextId} |-> IF i = nextId THEN w ELSE pending[i]]
          /\ call' = [call EXCEPT ![w] = [stage |-> "send", id |-> nextId, to |-> current.to,
                                          message |-> call[w].message, args |-> call[w].args]]
  /\ UNCHANGED <<gs, current, generation, games, installed>>

Forget(id) == [i \in DOMAIN pending \ {id} |-> pending[i]]

(* tx.send: waits for room in the queue, fails once the writer is gone     *)
PassOn(w) ==
  LET c == call[w]
  IN  /\ c.stage = "send"
      /\ IF gs[c.to].writer
         THEN /\ Len(gs[c.to].queue) < QueueCap
              /\ gs' = [gs EXCEPT ![c.to].queue =
                          Append(@, [id |-> c.id, message |-> c.message, args |-> c.args])]
              /\ call' = [call EXCEPT ![w].stage = "wait"]
              /\ UNCHANGED pending
         ELSE /\ call' = Finished(w, Down)
              /\ pending' = Forget(c.id)
              /\ UNCHANGED gs
      /\ UNCHANGED <<current, generation, nextId, games, installed>>

\* mutant: the waiter of a request that timed out is left in `pending`
TimeOutForgotten(w) ==
  /\ call[w].stage \in {"send", "wait"}
  /\ call' = Finished(w, Down)
  /\ UNCHANGED <<gs, current, generation, pending, nextId, games, installed>>

TimeOut(w) ==
  /\ call[w].stage \in {"send", "wait"}
  /\ call' = Finished(w, Down)
  /\ pending' = Forget(call[w].id)
  /\ UNCHANGED <<gs, current, generation, nextId, games, installed>>

-----------------------------------------------------------------------------
(* External: the game server.                                              *)

ServerTakes(g) ==
  /\ gs[g].queue # <<>>
  /\ gs' = [gs EXCEPT ![g].queue = Tail(@), ![g].taken = @ \cup {Head(gs[g].queue)}]
  /\ UNCHANGED <<current, generation, pending, nextId, games, call, installed>>

(* The read loop: a reply is matched by its id, whichever connection it    *)
(* came on; without a waiter it is dropped.  A reply of the wrong kind is  *)
(* Down to its caller.                                                     *)
ServerAnswers(g, m, answer) ==
  /\ gs[g].stage = "linked"
  /\ m \in gs[g].taken
  /\ m.id \in DOMAIN pending
  /\ call' = Finished(pending[m.id], answer)
  /\ pending' = Forget(m.id)
  /\ UNCHANGED <<gs, current, generation, nextId, games, installed>>

LinkStep(Answers(_)) ==
  \/ \E g \in GameServer :
       \/ \E t \in BOOLEAN, v \in 0 .. Version + 1 : Hello(g, t, v)
       \/ Number(g) \/ Install(g) \/ PushGames(g) \/ WriterFails(g) \/ Unlink(g)
       \/ ServerTakes(g)
       \/ \E m \in gs[g].taken : \E a \in Answers(m) : ServerAnswers(g, m, a)
  \/ \E w \in Waiter : Look(w) \/ Choose(w) \/ Request(w) \/ PassOn(w) \/ TimeOut(w)

(* The link by itself, with callers that ask for anything.                 *)
LinkCaller(w) ==
  \/ call[w].stage = "none" /\ \E what \in {"create", "list", "info", "join"} : Call(w, what, None)
  \/ CallAnswered(w) /\ EndCall(w)

AnyAnswer(m) == {Down, "ok"}

LinkNext == LinkStep(AnyAnswer) \/ \E w \in Waiter : LinkCaller(w)

LinkSpec == InitLink /\ [][LinkNext]_link

-----------------------------------------------------------------------------
(* Properties.                                                             *)

(* `pending` holds exactly the requests somebody still waits for: an       *)
(* answer, a time-out, a failed send and the end of the link each leave no *)
(* entry behind, and no entry is taken from under a waiter.                *)
PendingExact ==
  /\ \A i \in DOMAIN pending :
       call[pending[i]].stage \in {"send", "wait"} /\ call[pending[i]].id = i
  /\ \A w \in Waiter :
       call[w].stage \in {"send", "wait"} =>
         call[w].id \in DOMAIN pending /\ pending[call[w].id] = w

(* The link is the game server installed last, until its own connection    *)
(* ends: the end of one it replaced, however late, does not take it down,  *)
(* and a connection that has ended is never asked again.                   *)
LinkFollowsInstall ==
  IF installed # None /\ gs[installed].stage = "linked"
  THEN current # None /\ current.to = installed
  ELSE current = None
=============================================================================
