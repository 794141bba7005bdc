------------------------------- MODULE RealmProofs -------------------------------
(***************************************************************************)
(* The Diablo II realm and its end of the game server link (realm.rs,      *)
(* gslink.rs), for any number of logins, realm connections, requests under *)
(* way and game servers that dial in: the table of requests has exactly    *)
(* the waiters, the link is the game server installed last, a ticket does  *)
(* not outlive its login, and a join is staged only for the account's own  *)
(* character.                                                              *)
(***************************************************************************)
EXTENDS Realm, TLAPS

What == {"create", "list", "info", "join"}

Stage == {"none", "choose", "lobby", "request", "send", "wait", "done"}

(* The shape of a call; its arguments and its result may be anything.      *)
IsCall(c) ==
  /\ c.stage \in Stage
  /\ c.stage = "choose" => c.what \in What
  /\ c.stage = "lobby" => c.what \in LooksTwice
  /\ c.stage \in {"send", "wait"} =>
       /\ c = [stage |-> c.stage, id |-> c.id, to |-> c.to, message |-> c.message, args |-> c.args]
       /\ c.id \in Nat /\ c.to \in GameServer

IsMap(f, S) == f = [x \in S |-> f[x]]

Waits(w) == call[w].stage \in {"send", "wait"}

(* The inductive invariant of the table of requests: its ids have been     *)
(* given out, so that the next one is new, and entries and waiters are in  *)
(* one-to-one correspondence.                                              *)
TableInv ==
  /\ IsMap(call, Waiter) /\ \A w \in Waiter : IsCall(call[w])
  /\ nextId \in Nat
  /\ pending \in [DOMAIN pending -> Waiter]
  /\ \A i \in DOMAIN pending : i \in Nat /\ i < nextId
  /\ current # None => current.to \in GameServer
  /\ PendingExact

-----------------------------------------------------------------------------
(* The table of requests.                                                  *)

LEMMA TableInit == InitLink => TableInv
  BY DEF InitLink, TableInv, PendingExact, IsMap, IsCall, Stage, NoCall

(* What leaves the requests, the table and the link alone.                 *)
LEMMA TableUnchanged ==
  ASSUME TableInv, UNCHANGED <<call, pending, nextId>>,
         current' # None => current'.to \in GameServer
  PROVE  TableInv'
  BY DEF TableInv, PendingExact

(* A task that does not wait before and after a step changes nothing that  *)
(* the table is about.                                                     *)
LEMMA TableElsewhere ==
  ASSUME TableInv, NEW w \in Waiter, NEW c, IsCall(c),
         ~Waits(w), c.stage \notin {"send", "wait"},
         call' = [call EXCEPT ![w] = c], UNCHANGED <<pending, nextId, current>>
  PROVE  TableInv'
<1>1. IsMap(call', Waiter) /\ \A v \in Waiter : IsCall(call'[v])
  BY DEF TableInv, IsMap
<1>2. call'[w] = c /\ \A v \in Waiter \ {w} : call'[v] = call[v]
  BY DEF TableInv, IsMap
<1>3. \A i \in DOMAIN pending : pending[i] # w /\ pending[i] \in Waiter
  BY DEF TableInv, PendingExact, Waits
<1>4. PendingExact'
  BY <1>2, <1>3 DEF TableInv, PendingExact
<1> QED
  BY <1>1, <1>4 DEF TableInv

(* The answer, a time-out and a failed send end a request: its entry and   *)
(* no other goes, and its waiter no longer waits.                          *)
LEMMA TableEnds ==
  ASSUME TableInv, NEW w \in Waiter, Waits(w), NEW result,
         call' = Finished(w, result), pending' = Forget(call[w].id),
         UNCHANGED <<nextId, current>>
  PROVE  TableInv'
<1> DEFINE done == [stage |-> "done", result |-> result]
<1>1. IsCall(done) /\ done.stage = "done"
  BY DEF IsCall, Stage
<1>2. IsMap(call', Waiter) /\ \A v \in Waiter : IsCall(call'[v])
  BY <1>1 DEF TableInv, Finished, IsMap
<1>3. call'[w] = done /\ \A v \in Waiter \ {w} : call'[v] = call[v]
  BY DEF TableInv, Finished, IsMap
<1>4. /\ DOMAIN pending' = DOMAIN pending \ {call[w].id}
      /\ \A i \in DOMAIN pending' : pending'[i] = pending[i]
  BY DEF Forget
<1>5. pending' \in [DOMAIN pending' -> Waiter]
  BY <1>4 DEF TableInv, Forget
<1>6. \A i \in DOMAIN pending' : pending[i] # w /\ pending[i] \in Waiter
  BY <1>4 DEF TableInv, PendingExact
<1>7. \A v \in Waiter \ {w} : Waits(v) => call[v].id # call[w].id
  BY DEF TableInv, PendingExact, Waits
<1>8. PendingExact'
  BY <1>1, <1>3, <1>4, <1>6, <1>7 DEF TableInv, PendingExact, Waits
<1> QED
  BY <1>2, <1>4, <1>5, <1>8 DEF TableInv

(* request enters an id that nobody has.                                   *)
LEMMA TableEnters ==
  ASSUME TableInv, NEW w \in Waiter, Request(w)
  PROVE  TableInv'
<1>1. CASE current = None
  <2> DEFINE done == [stage |-> "done", result |-> Down]
  <2>1. IsCall(done) /\ done.stage \notin {"send", "wait"} /\ ~Waits(w)
    BY DEF IsCall, Stage, Waits, Request
  <2>2. call' = [call EXCEPT ![w] = done]
    BY <1>1 DEF Request, Finished
  <2>3. UNCHANGED <<pending, nextId, current>>
    BY <1>1 DEF Request
  <2> HIDE DEF done
  <2> QED
    BY <2>1, <2>2, <2>3, TableElsewhere
<1>2. CASE current # None
  <2> DEFINE c == [stage |-> "send", id |-> nextId, to |-> current.to,
                   message |-> call[w].message, args |-> call[w].args]
  <2>1. call[w].stage = "request"
    BY DEF Request
  <2>2. IsCall(c) /\ c.stage = "send" /\ c.id = nextId
    BY <1>2 DEF TableInv, IsCall, Stage
  <2>3. call' = [call EXCEPT ![w] = c]
    BY <1>2 DEF Request
  <2> HIDE DEF c
  <2>4. IsMap(call', Waiter) /\ \A v \in Waiter : IsCall(call'[v])
    BY <2>2, <2>3 DEF TableInv, IsMap
  <2>5. call'[w] = c /\ \A v \in Waiter \ {w} : call'[v] = call[v]
    BY <2>3 DEF TableInv, IsMap
  <2>6. pending' = [i \in DOMAIN pending \cup {nextId} |-> IF i = nextId THEN w ELSE pending[i]]
        /\ nextId' = nextId + 1 /\ current' = current
    BY <1>2 DEF Request
  <2>7. pending' \in [DOMAIN pending' -> Waiter]
    BY <2>6 DEF TableInv
  <2>8. \A i \in DOMAIN pending' : i \in Nat /\ i < nextId'
    BY <2>6 DEF TableInv
  <2>9. \A i \in DOMAIN pending : i # nextId /\ pending'[i] = pending[i] /\ pending[i] \in Waiter \ {w}
    BY <2>1, <2>6 DEF TableInv, PendingExact
  <2>10. pending'[nextId] = w /\ DOMAIN pending' = DOMAIN pending \cup {nextId}
    BY <2>6
  <2>11. PendingExact'
    BY <2>2, <2>5, <2>9, <2>10 DEF TableInv, PendingExact
  <2> QED
    BY <2>4, <2>6, <2>7, <2>8, <2>11 DEF TableInv
<1> QED
  BY <1>1, <1>2

(* A request that is passed on waits on, under its id.                     *)
LEMMA TablePassesOn ==
  ASSUME TableInv, NEW w \in Waiter, PassOn(w)
  PROVE  TableInv'
<1>1. IsCall(call[w]) /\ call[w].stage = "send" /\ Waits(w)
  BY DEF TableInv, PassOn, Waits
<1>2. CASE gs[call[w].to].writer
  <2> DEFINE c == [call[w] EXCEPT !.stage = "wait"]
  <2>1. call' = [call EXCEPT ![w] = c]
    BY <1>2 DEF PassOn
  <2>2. IsCall(c) /\ c.id = call[w].id /\ c.stage = "wait"
    BY <1>1 DEF IsCall, Stage
  <2> HIDE DEF c
  <2>3. IsMap(call', Waiter) /\ \A v \in Waiter : IsCall(call'[v])
    BY <2>1, <2>2 DEF TableInv, IsMap
  <2>4. call'[w] = c /\ \A v \in Waiter \ {w} : call'[v] = call[v]
    BY <2>1 DEF TableInv, IsMap
  <2>5. UNCHANGED <<pending, nextId, current>>
    BY <1>2 DEF PassOn
  <2>6. \A v \in Waiter : /\ call'[v].stage \in {"send", "wait"} <=> Waits(v)
                          /\ Waits(v) => call'[v].id = call[v].id
    BY <1>1, <2>2, <2>4 DEF Waits
  <2>7. \A i \in DOMAIN pending : pending[i] \in Waiter
    BY DEF TableInv
  <2>8. PendingExact'
    BY <2>5, <2>6, <2>7 DEF TableInv, PendingExact, Waits
  <2> QED
    BY <2>3, <2>5, <2>8 DEF TableInv
<1>3. CASE ~gs[call[w].to].writer
  BY <1>1, <1>3, TableEnds DEF PassOn
<1> QED
  BY <1>2, <1>3

(* The looks at the link, the start and the end of a call.                 *)
LEMMA TableLooks ==
  ASSUME TableInv, NEW w \in Waiter, Look(w)
  PROVE  TableInv'
<1> DEFINE ask == [stage |-> "lobby", what |-> call[w].what, args |-> call[w].args]
           done == [stage |-> "done", result |-> Down]
           c == IF LinkedVersion = 0 THEN done ELSE ask
<1>1. call' = [call EXCEPT ![w] = c]
  BY DEF Look, Finished
<1>2. IsCall(c) /\ c.stage \notin {"send", "wait"}
  BY DEF IsCall, Stage, Look
<1>3. ~Waits(w) /\ UNCHANGED <<pending, nextId, current>>
  BY DEF Look, Waits
<1> HIDE DEF c
<1> QED
  BY <1>1, <1>2, <1>3, TableElsewhere

LEMMA TableChooses ==
  ASSUME TableInv, NEW w \in Waiter, Choose(w)
  PROVE  TableInv'
<1> DEFINE message == MessageFor(call[w].what, LinkedVersion)
           ask == [stage |-> "request", message |-> message, args |-> call[w].args]
           done == [stage |-> "done", result |-> None]
           c == IF message # None THEN ask ELSE done
<1>1. call' = [call EXCEPT ![w] = c]
  BY DEF Choose, Finished
<1>2. IsCall(c) /\ c.stage \notin {"send", "wait"}
  BY DEF IsCall, Stage
<1>3. ~Waits(w) /\ UNCHANGED <<pending, nextId, current>>
  BY DEF Choose, Waits
<1> HIDE DEF c
<1> QED
  BY <1>1, <1>2, <1>3, TableElsewhere

LEMMA TableCalls ==
  ASSUME TableInv, NEW w \in Waiter, ~Waits(w), NEW what \in What, NEW args, Call(w, what, args)
  PROVE  TableInv'
<1> DEFINE c == [stage |-> "choose", what |-> what, args |-> args]
<1>1. call' = [call EXCEPT ![w] = c] /\ UNCHANGED <<pending, nextId, current>>
  BY DEF Call
<1>2. IsCall(c) /\ c.stage \notin {"send", "wait"}
  BY DEF IsCall, Stage
<1> HIDE DEF c
<1> QED
  BY <1>1, <1>2, TableElsewhere

LEMMA TableCallEnds ==
  ASSUME TableInv, NEW w \in Waiter, CallAnswered(w), EndCall(w)
  PROVE  TableInv'
<1>1. IsCall(NoCall) /\ NoCall.stage \notin {"send", "wait"} /\ ~Waits(w)
  BY DEF IsCall, Stage, NoCall, Waits, CallAnswered
<1>2. call' = [call EXCEPT ![w] = NoCall] /\ UNCHANGED <<pending, nextId, current>>
  BY DEF EndCall
<1> QED
  BY <1>1, <1>2, TableElsewhere

(* What a task does to the link while its request is under way, and what a *)
(* game server's connection does; any answer may come.                     *)
TaskMoves(w) == Look(w) \/ Choose(w) \/ Request(w) \/ PassOn(w) \/ TimeOut(w)

ServerMoves(g) ==
  \/ \E t \in BOOLEAN, v \in 0 .. Version + 1 : Hello(g, t, v)
  \/ Number(g) \/ Install(g) \/ PushGames(g) \/ WriterFails(g) \/ Unlink(g)
  \/ ServerTakes(g)

LinkMoves ==
  \/ \E g \in GameServer : ServerMoves(g) \/ \E m, a : m \in gs[g].taken /\ ServerAnswers(g, m, a)
  \/ \E w \in Waiter : TaskMoves(w)

(* A step of a game server's connection: only an answer touches the table. *)
LEMMA TableServer ==
  ASSUME TableInv, NEW g \in GameServer,
         ServerMoves(g)
  PROVE  TableInv'
<1>1. UNCHANGED <<call, pending, nextId>>
  BY DEF ServerMoves, Hello, Number, Install, PushGames, WriterFails, Unlink, ServerTakes
<1>2. current' # None => current'.to \in GameServer
  BY DEF ServerMoves, TableInv, Hello, Number, Install, PushGames, WriterFails, Unlink, ServerTakes
<1> QED
  BY <1>1, <1>2, TableUnchanged

LEMMA TableAnswered ==
  ASSUME TableInv, NEW g \in GameServer, NEW m, NEW answer,
         ServerAnswers(g, m, answer)
  PROVE  TableInv'
<1>1. m.id \in DOMAIN pending /\ pending[m.id] \in Waiter
  BY DEF ServerAnswers, TableInv
<1>2. Waits(pending[m.id]) /\ call[pending[m.id]].id = m.id
  BY <1>1 DEF TableInv, PendingExact, Waits
<1>3. /\ call' = Finished(pending[m.id], answer)
      /\ pending' = Forget(call[pending[m.id]].id)
      /\ UNCHANGED <<nextId, current>>
  BY <1>2 DEF ServerAnswers
<1> QED
  BY <1>1, <1>2, <1>3, TableEnds

LEMMA TableMoves ==
  ASSUME TableInv, LinkMoves
  PROVE  TableInv'
<1>1. ASSUME NEW g \in GameServer, ServerMoves(g)
      PROVE  TableInv'
  BY <1>1, TableServer
<1>2. ASSUME NEW g \in GameServer, NEW m, NEW a, ServerAnswers(g, m, a)
      PROVE  TableInv'
  BY <1>2, TableAnswered
<1>3. ASSUME NEW w \in Waiter, TaskMoves(w)
      PROVE  TableInv'
  <2>1. CASE TimeOut(w)
    BY <2>1, TableEnds DEF TimeOut, Waits
  <2> QED
    BY <1>3, <2>1, TableLooks, TableChooses, TableEnters, TablePassesOn DEF TaskMoves
<1> QED
  BY <1>1, <1>2, <1>3 DEF LinkMoves

-----------------------------------------------------------------------------
(* The current link.                                                       *)

IsQueue(q) == q \in Seq(Range(q))

LEMMA QueueEmpty == IsQueue(<<>>) /\ Range(<<>>) = {}
  BY DEF IsQueue, Range

LEMMA QueueAppend ==
  ASSUME NEW q, IsQueue(q), NEW e
  PROVE  IsQueue(Append(q, e)) /\ Range(Append(q, e)) = Range(q) \cup {e}
<1> DEFINE r == Append(q, e)
           S == Range(q) \cup {e}
<1>1. q \in Seq(S) /\ Len(q) \in Nat /\ DOMAIN q = 1 .. Len(q)
  BY DEF IsQueue
<1>2. r \in Seq(S) /\ DOMAIN r = 1 .. Len(q) + 1
  BY <1>1
<1>3. (\A i \in 1 .. Len(q) : r[i] = q[i]) /\ r[Len(q) + 1] = e
  BY <1>1
<1>4. \A i \in DOMAIN r : r[i] \in Range(r)
  BY DEF Range
<1> HIDE DEF r
<1>5. r \in Seq(Range(r))
  BY <1>2, <1>4
<1>6. \A x \in Range(r) : x \in S
  BY <1>1, <1>2, <1>3 DEF Range
<1>7. \A x \in S : x \in Range(r)
  BY <1>1, <1>2, <1>3 DEF Range
<1>8. Range(r) = S
  BY <1>6, <1>7
<1> QED
  BY <1>5, <1>8 DEF IsQueue, r

LEMMA QueueTail ==
  ASSUME NEW q, IsQueue(q), q # <<>>
  PROVE  IsQueue(Tail(q)) /\ Head(q) \in Range(q) /\ \A x \in Range(Tail(q)) : x \in Range(q)
<1> DEFINE r == Tail(q)
<1>1. q \in Seq(Range(q)) /\ Len(q) \in Nat /\ DOMAIN q = 1 .. Len(q) /\ Len(q) # 0
  BY DEF IsQueue
<1>2. r \in Seq(Range(q)) /\ DOMAIN r = 1 .. Len(q) - 1
  BY <1>1
<1>3. \A i \in 1 .. Len(q) - 1 : r[i] = q[i + 1]
  BY <1>1
<1>4. \A i \in DOMAIN r : r[i] \in Range(r)
  BY DEF Range
<1>5. Head(q) \in Range(q)
  BY <1>1
<1> HIDE DEF r
<1>6. r \in Seq(Range(r))
  BY <1>2, <1>4
<1>7. \A x \in Range(r) : x \in Range(q)
  BY <1>1, <1>2, <1>3 DEF Range
<1> QED
  BY <1>5, <1>6, <1>7 DEF IsQueue, r

(* The shape of a connection; the messages on it may be anything.          *)
IsConnection(c) ==
  /\ c \in [stage : {c.stage}, version : Nat, generation : Nat,
             writer : {c.writer}, queue : {c.queue}, taken : {c.taken}]
  /\ IsQueue(c.queue)

AreConnections(f) == IsMap(f, GameServer) /\ \A g \in GameServer : IsConnection(f[g])

(* The messages a connection carries: on their way, or in the hands of the *)
(* game server.                                                            *)
Carries(c) == c.taken \cup Range(c.queue)

(* No two connections share a number, and a connection has one before it   *)
(* is linked.                                                              *)
NumbersInv ==
  /\ generation \in Nat
  /\ AreConnections(gs)
  /\ \A g \in GameServer :
       /\ gs[g].generation <= generation
       /\ gs[g].stage \in {"numbered", "linked"} => gs[g].generation # 0
  /\ \A g, h \in GameServer :
       gs[g].generation = gs[h].generation /\ gs[g].generation # 0 => g = h

(* The link carries the number of the connection installed last.           *)
CurrentInv ==
  /\ installed \in GameServer \cup {None}
  /\ current # None =>
       installed # None /\ current.to = installed /\ current.generation = gs[installed].generation
  /\ LinkFollowsInstall

(* A message under way whose request is in the table is what its waiter    *)
(* asked: nobody else's answer can reach it.                               *)
FlightInv ==
  \A g \in GameServer : \A q \in Carries(gs[g]) :
    /\ q.id \in Nat /\ q.id < nextId
    /\ q.id \in DOMAIN pending =>
         /\ call[pending[q.id]].stage = "wait"
         /\ call[pending[q.id]].message = q.message /\ call[pending[q.id]].args = q.args

LinkInv == TableInv /\ NumbersInv /\ CurrentInv /\ FlightInv

LEMMA LinkInit == InitLink => LinkInv
<1> SUFFICES ASSUME InitLink PROVE LinkInv
  OBVIOUS
<1> DEFINE new == [stage |-> "new", version |-> 0, generation |-> 0,
                   writer |-> FALSE, queue |-> <<>>, taken |-> {}]
<1>1. TableInv
  BY TableInit
<1>2. gs = [g \in GameServer |-> new]
  BY DEF InitLink
<1>3. IsConnection(new) /\ Carries(new) = {} /\ new.generation = 0 /\ new.stage = "new"
  BY QueueEmpty DEF IsConnection, Carries
<1> HIDE DEF new
<1>4. NumbersInv
  <2>1. IsMap(gs, GameServer)
    BY <1>2 DEF IsMap
  <2>2. \A g \in GameServer : gs[g] = new
    BY <1>2
  <2>3. AreConnections(gs)
    BY <1>3, <2>1, <2>2 DEF AreConnections
  <2> QED
    BY <1>3, <2>2, <2>3 DEF InitLink, NumbersInv
<1>5. CurrentInv
  BY <1>2, <1>3 DEF InitLink, CurrentInv, LinkFollowsInstall
<1>6. FlightInv
  BY <1>2, <1>3 DEF FlightInv
<1> QED
  BY <1>1, <1>4, <1>5, <1>6 DEF LinkInv

(* One connection changes.                                                 *)
LEMMA OneConnection ==
  ASSUME LinkInv, NEW g \in GameServer, NEW c, IsConnection(c), gs' = [gs EXCEPT ![g] = c]
  PROVE  AreConnections(gs') /\ gs'[g] = c /\ \A h \in GameServer \ {g} : gs'[h] = gs[h]
  BY DEF LinkInv, NumbersInv, AreConnections, IsMap

LEMMA ItsConnection ==
  ASSUME LinkInv, NEW g \in GameServer
  PROVE  IsConnection(gs[g]) /\ gs[g].generation \in Nat
  BY DEF LinkInv, NumbersInv, AreConnections, IsConnection

(* A step that leaves every connection's stage and number, and the link,   *)
(* as they are.                                                            *)
LEMMA SameLink ==
  ASSUME LinkInv, AreConnections(gs'),
         \A g \in GameServer : gs'[g].stage = gs[g].stage /\ gs'[g].generation = gs[g].generation,
         UNCHANGED <<current, generation, installed>>
  PROVE  NumbersInv' /\ CurrentInv'
<1>1. NumbersInv'
  BY DEF LinkInv, NumbersInv
<1>2. CurrentInv'
  BY LinkAssumption DEF LinkInv, CurrentInv, LinkFollowsInstall
<1> QED
  BY <1>1, <1>2

(* A step of connection g that is not yet linked, before and after: its    *)
(* stage changes and its number may become a new one.                      *)
LEMMA NotLinked ==
  ASSUME LinkInv, NEW g \in GameServer, NEW c, IsConnection(c), gs' = [gs EXCEPT ![g] = c],
         gs[g].stage # "linked", c.stage # "linked", generation' \in Nat,
         \/ c.generation = gs[g].generation /\ generation' = generation
              /\ (c.stage = "numbered" => c.generation # 0)
         \/ c.generation = generation + 1 /\ generation' = generation + 1,
         UNCHANGED <<current, installed>>
  PROVE  NumbersInv' /\ CurrentInv'
<1>1. AreConnections(gs') /\ gs'[g] = c /\ \A h \in GameServer \ {g} : gs'[h] = gs[h]
  BY OneConnection
<1>2. \A h \in GameServer : gs[h].generation \in Nat /\ gs[h].generation <= generation
  BY ItsConnection DEF LinkInv, NumbersInv
<1>3. generation \in Nat
  BY DEF LinkInv, NumbersInv
<1>4. NumbersInv'
  <2>1. \A h \in GameServer : gs'[h].generation <= generation'
    BY <1>1, <1>2, <1>3
  <2>2. \A h \in GameServer : gs'[h].stage \in {"numbered", "linked"} => gs'[h].generation # 0
    BY <1>1, <1>3 DEF LinkInv, NumbersInv
  <2>3. \A h, k \in GameServer :
          gs'[h].generation = gs'[k].generation /\ gs'[h].generation # 0 => h = k
    BY <1>1, <1>2, <1>3 DEF LinkInv, NumbersInv
  <2> QED
    BY <1>1, <2>1, <2>2, <2>3 DEF NumbersInv
<1>5. CurrentInv'
  <2>1. current # None => installed # g
    BY LinkAssumption DEF LinkInv, CurrentInv, LinkFollowsInstall
  <2>2. current # None => gs'[installed] = gs[installed]
    BY <1>1, <2>1 DEF LinkInv, CurrentInv
  <2>3. LinkFollowsInstall'
    BY <1>1, LinkAssumption DEF LinkInv, CurrentInv, LinkFollowsInstall
  <2> QED
    BY <2>2, <2>3 DEF LinkInv, CurrentInv
<1> QED
  BY <1>4, <1>5

LEMMA HelloLink ==
  ASSUME LinkInv, NEW g \in GameServer, NEW t \in BOOLEAN, NEW v \in 0 .. Version + 1,
         Hello(g, t, v)
  PROVE  NumbersInv' /\ CurrentInv'
<1>1. IsConnection(gs[g])
  BY ItsConnection
<1>2. CASE gs' = [gs EXCEPT ![g].stage = "welcomed", ![g].version = v]
  <2> DEFINE c == [gs[g] EXCEPT !.stage = "welcomed", !.version = v]
  <2>1. gs' = [gs EXCEPT ![g] = c]
    BY <1>2 DEF LinkInv, NumbersInv
  <2>2. IsConnection(c) /\ c.stage = "welcomed" /\ c.generation = gs[g].generation
    <3>1. v \in Nat
      BY DEF Version
    <3> QED
      BY <1>1, <3>1 DEF IsConnection
  <2> HIDE DEF c
  <2> QED
    BY <2>1, <2>2, NotLinked DEF Hello, LinkInv, NumbersInv
<1>3. CASE ToStage(g, "ended")
  <2> DEFINE c == [gs[g] EXCEPT !.stage = "ended"]
  <2>1. gs' = [gs EXCEPT ![g] = c]
    BY <1>3 DEF ToStage
  <2>2. IsConnection(c) /\ c.stage = "ended" /\ c.generation = gs[g].generation
    BY <1>1 DEF IsConnection
  <2> HIDE DEF c
  <2> QED
    BY <2>1, <2>2, NotLinked DEF Hello, LinkInv, NumbersInv
<1> QED
  BY <1>2, <1>3 DEF Hello

LEMMA NumberLink ==
  ASSUME LinkInv, NEW g \in GameServer, Number(g)
  PROVE  NumbersInv' /\ CurrentInv'
<1> DEFINE c == [gs[g] EXCEPT !.stage = "numbered", !.generation = generation + 1]
<1>1. IsConnection(gs[g]) /\ generation \in Nat
  BY ItsConnection DEF LinkInv, NumbersInv
<1>2. gs' = [gs EXCEPT ![g] = c]
  BY DEF Number, LinkInv, NumbersInv
<1>3. generation + 1 \in Nat
  BY <1>1
<1>4. IsConnection(c) /\ c.stage = "numbered" /\ c.generation = generation + 1
  BY <1>1, <1>3 DEF IsConnection
<1> HIDE DEF c
<1>5. gs[g].stage # "linked" /\ generation' = generation + 1 /\ UNCHANGED <<current, installed>>
  BY DEF Number
<1> QED
  BY <1>2, <1>3, <1>4, <1>5, NotLinked

(* The numbers go on as they are; the link is that of g.                   *)
LEMMA InstallLink ==
  ASSUME LinkInv, NEW g \in GameServer, Install(g)
  PROVE  NumbersInv' /\ CurrentInv'
<1> DEFINE c == [gs[g] EXCEPT !.stage = "linked", !.writer = TRUE]
           new == [generation |-> gs[g].generation, version |-> gs[g].version, to |-> g]
<1>1. IsConnection(gs[g])
  BY ItsConnection
<1>2. gs' = [gs EXCEPT ![g] = c]
  BY DEF Install, LinkInv, NumbersInv
<1>3. IsConnection(c) /\ c.stage = "linked" /\ c.generation = gs[g].generation
  BY <1>1 DEF IsConnection
<1>4. current' = new /\ installed' = g /\ generation' = generation
  BY DEF Install
<1>5. new # None /\ new.to = g /\ new.generation = gs[g].generation
  <2>1. new \in [generation : Nat, version : Nat, to : GameServer]
    BY <1>1 DEF IsConnection
  <2> QED
    BY <2>1, LinkAssumption
<1> HIDE DEF c, new
<1>6. /\ AreConnections(gs')
      /\ gs'[g] = c /\ \A h \in GameServer \ {g} : gs'[h] = gs[h]
  BY <1>2, <1>3, OneConnection
<1>7. gs[g].stage = "numbered"
  BY DEF Install
<1>8. NumbersInv'
  BY <1>3, <1>4, <1>6, <1>7 DEF LinkInv, NumbersInv
<1>9. CurrentInv'
  BY <1>3, <1>4, <1>5, <1>6, LinkAssumption DEF CurrentInv, LinkFollowsInstall
<1> QED
  BY <1>8, <1>9

(* The end of a connection clears the link exactly if it is its own: that  *)
(* is where numbers must not be shared.                                    *)
LEMMA UnlinkLink ==
  ASSUME LinkInv, NEW g \in GameServer, Unlink(g)
  PROVE  NumbersInv' /\ CurrentInv'
<1> DEFINE c == [gs[g] EXCEPT !.stage = "ended", !.writer = FALSE, !.queue = <<>>, !.taken = {}]
<1>1. IsConnection(gs[g])
  BY ItsConnection
<1>2. gs' = [gs EXCEPT ![g] = c]
  BY DEF Unlink, Closed, LinkInv, NumbersInv
<1>3. IsConnection(c) /\ c.stage = "ended" /\ c.generation = gs[g].generation
  BY <1>1, QueueEmpty DEF IsConnection
<1> HIDE DEF c
<1>4. /\ AreConnections(gs')
      /\ gs'[g] = c /\ \A h \in GameServer \ {g} : gs'[h] = gs[h]
  BY <1>2, <1>3, OneConnection
<1>5. NumbersInv'
  <2>1. generation' = generation
    BY DEF Unlink
  <2> QED
    BY <1>3, <1>4, <2>1 DEF LinkInv, NumbersInv
<1>6. CASE current # None /\ current.generation = gs[g].generation
  <2>1. installed \in GameServer /\ gs[installed].generation = gs[g].generation
    BY <1>6 DEF LinkInv, CurrentInv
  <2>2. installed = g
    BY <2>1 DEF LinkInv, NumbersInv, Unlink
  <2>3. current' = None /\ installed' = g
    BY <1>6, <2>2 DEF Unlink
  <2> QED
    BY <1>3, <1>4, <1>5, <2>3 DEF CurrentInv, LinkFollowsInstall
<1>7. CASE ~(current # None /\ current.generation = gs[g].generation)
  <2>1. UNCHANGED <<current, installed>>
    BY <1>7 DEF Unlink
  <2>2. installed # g
    BY <1>7, LinkAssumption DEF LinkInv, CurrentInv, LinkFollowsInstall, Unlink
  <2>3. installed # None => installed \in GameServer /\ gs'[installed] = gs[installed]
    BY <1>4, <2>2 DEF LinkInv, CurrentInv
  <2>4. CurrentInv'
    BY <2>1, <2>3 DEF LinkInv, CurrentInv, LinkFollowsInstall
  <2> QED
    BY <1>5, <2>4
<1> QED
  BY <1>6, <1>7

(* Messages come and go on a connection's queue, and its writer ends.      *)
LEMMA QueueLink ==
  ASSUME LinkInv, NEW g \in GameServer, WriterFails(g) \/ ServerTakes(g)
  PROVE  NumbersInv' /\ CurrentInv'
<1>1. IsConnection(gs[g])
  BY ItsConnection
<1> DEFINE failed == [gs[g] EXCEPT !.writer = FALSE, !.queue = <<>>]
           took == [gs[g] EXCEPT !.queue = Tail(gs[g].queue),
                                 !.taken = gs[g].taken \cup {Head(gs[g].queue)}]
<1>2. IsConnection(failed) /\ failed.stage = gs[g].stage /\ failed.generation = gs[g].generation
  BY <1>1, QueueEmpty DEF IsConnection
<1>3. ServerTakes(g) => IsConnection(took)
  BY <1>1, QueueTail DEF IsConnection, ServerTakes
<1>4. took.stage = gs[g].stage /\ took.generation = gs[g].generation
  BY <1>1 DEF IsConnection
<1>5. \E c : IsConnection(c) /\ c.stage = gs[g].stage /\ c.generation = gs[g].generation
              /\ gs' = [gs EXCEPT ![g] = c]
  <2>1. CASE WriterFails(g)
    <3>1. gs' = [gs EXCEPT ![g] = failed]
      BY <2>1 DEF WriterFails, LinkInv, NumbersInv, AreConnections, IsMap
    <3> HIDE DEF failed
    <3> QED
      BY <1>2, <3>1
  <2>2. CASE ServerTakes(g)
    <3>1. gs' = [gs EXCEPT ![g] = took]
      BY <2>2 DEF ServerTakes, LinkInv, NumbersInv, AreConnections, IsMap
    <3> HIDE DEF took
    <3> QED
      BY <1>3, <1>4, <2>2, <3>1
  <2> QED
    BY <2>1, <2>2
<1>6. PICK c : IsConnection(c) /\ c.stage = gs[g].stage /\ c.generation = gs[g].generation
               /\ gs' = [gs EXCEPT ![g] = c]
  BY <1>5
<1>7. AreConnections(gs') /\ gs'[g] = c /\ \A h \in GameServer \ {g} : gs'[h] = gs[h]
  BY <1>6, OneConnection
<1>8. UNCHANGED <<current, generation, installed>>
  BY DEF WriterFails, ServerTakes
<1> QED
  BY <1>6, <1>7, <1>8, SameLink

(* A request is passed on to the connection it was made for, and is the    *)
(* only message there with its id.                                         *)
LEMMA PassOnLink ==
  ASSUME LinkInv, NEW w \in Waiter, PassOn(w), gs[call[w].to].writer
  PROVE  NumbersInv' /\ CurrentInv' /\ FlightInv'
<1> DEFINE m == [id |-> call[w].id, message |-> call[w].message, args |-> call[w].args]
<1>1. IsCall(call[w]) /\ call[w].stage = "send"
  BY DEF LinkInv, TableInv, PassOn
<1>2. PICK g \in GameServer : g = call[w].to
  BY <1>1 DEF IsCall
<1> DEFINE c == [gs[g] EXCEPT !.queue = Append(gs[g].queue, m)]
<1>3. IsConnection(gs[g])
  BY ItsConnection
<1>4. /\ IsConnection(c) /\ c.stage = gs[g].stage /\ c.generation = gs[g].generation
      /\ Carries(c) = Carries(gs[g]) \cup {m}
  <2>1. IsQueue(Append(gs[g].queue, m)) /\ Range(Append(gs[g].queue, m)) = Range(gs[g].queue) \cup {m}
    BY <1>3, QueueAppend DEF IsConnection
  <2>2. /\ c.queue = Append(gs[g].queue, m) /\ c.taken = gs[g].taken
        /\ c.stage = gs[g].stage /\ c.generation = gs[g].generation
    BY <1>3 DEF IsConnection
  <2> HIDE DEF m
  <2>3. IsConnection(c)
    BY <1>3, <2>1 DEF IsConnection
  <2> QED
    BY <2>1, <2>2, <2>3 DEF Carries
<1>5. gs' = [gs EXCEPT ![g] = c] /\ UNCHANGED <<current, generation, installed, pending, nextId>>
  BY <1>2 DEF PassOn
<1>6. call'[w].stage = "wait" /\ call'[w].message = m.message /\ call'[w].args = m.args
  BY <1>1 DEF PassOn, LinkInv, TableInv, IsMap, IsCall
<1>7. \A v \in Waiter \ {w} : call'[v] = call[v]
  BY DEF PassOn, LinkInv, TableInv, IsMap
<1>8. m.id = call[w].id /\ m.id \in DOMAIN pending /\ pending[m.id] = w
  BY <1>1 DEF LinkInv, TableInv, PendingExact
<1>9. m.id \in Nat /\ m.id < nextId
  BY <1>8 DEF LinkInv, TableInv
<1> HIDE DEF m, c
<1>10. AreConnections(gs') /\ gs'[g] = c /\ \A h \in GameServer \ {g} : gs'[h] = gs[h]
  BY <1>4, <1>5, OneConnection
<1>11. NumbersInv' /\ CurrentInv'
  BY <1>4, <1>5, <1>10, SameLink
<1>12. ASSUME NEW h \in GameServer, NEW q \in Carries(gs[h])
       PROVE  /\ q.id \in Nat /\ q.id < nextId
              /\ q.id \in DOMAIN pending =>
                   /\ call'[pending[q.id]].stage = "wait"
                   /\ call'[pending[q.id]].message = q.message
                   /\ call'[pending[q.id]].args = q.args
  <2>1. /\ q.id \in Nat /\ q.id < nextId
        /\ q.id \in DOMAIN pending =>
             /\ call[pending[q.id]].stage = "wait" /\ pending[q.id] \in Waiter
             /\ call[pending[q.id]].message = q.message
             /\ call[pending[q.id]].args = q.args
    BY DEF LinkInv, FlightInv, TableInv
  <2>2. q.id \in DOMAIN pending => pending[q.id] # w
    BY <1>1, <2>1
  <2> QED
    BY <1>7, <2>1, <2>2
<1>13. FlightInv'
  BY <1>4, <1>5, <1>6, <1>8, <1>9, <1>10, <1>12 DEF FlightInv
<1> QED
  BY <1>11, <1>13

(* Nothing new is under way, and the table is as it was.                   *)
LEMMA FlightShrinks ==
  ASSUME LinkInv, UNCHANGED <<call, pending, nextId>>,
         \A g \in GameServer : \A q \in Carries(gs'[g]) : q \in Carries(gs[g])
  PROVE  FlightInv'
  BY DEF LinkInv, FlightInv

LEMMA FlightServer ==
  ASSUME LinkInv, NEW g \in GameServer, ServerMoves(g)
  PROVE  FlightInv'
<1>1. UNCHANGED <<call, pending, nextId>>
  BY DEF ServerMoves, Hello, Number, Install, PushGames, WriterFails, Unlink, ServerTakes
<1>2. IsMap(gs, GameServer) /\ IsConnection(gs[g])
  BY ItsConnection DEF LinkInv, NumbersInv, AreConnections
<1>3. \A h \in GameServer \ {g} : gs'[h] = gs[h]
  BY <1>2 DEF IsMap, ServerMoves, Hello, ToStage, Number, Install, PushGames, WriterFails, Unlink,
              Closed, ServerTakes
<1>4. \/ gs'[g].taken = gs[g].taken /\ gs'[g].queue = gs[g].queue
      \/ gs'[g].taken = gs[g].taken /\ gs'[g].queue = <<>>
      \/ gs'[g].taken = {} /\ gs'[g].queue = <<>>
      \/ /\ gs[g].queue # <<>>
         /\ gs'[g].taken = gs[g].taken \cup {Head(gs[g].queue)} /\ gs'[g].queue = Tail(gs[g].queue)
  <2>1. CASE \E t \in BOOLEAN, v \in 0 .. Version + 1 : Hello(g, t, v)
    <3>1. CASE \E v : gs' = [gs EXCEPT ![g].stage = "welcomed", ![g].version = v]
      BY <1>2, <3>1 DEF IsMap, IsConnection
    <3>2. CASE ToStage(g, "ended")
      BY <1>2, <3>2 DEF IsMap, IsConnection, ToStage
    <3> QED
      BY <2>1, <3>1, <3>2 DEF Hello
  <2>2. CASE Number(g) \/ Install(g)
    BY <1>2, <2>2 DEF IsMap, IsConnection, Number, Install
  <2>3. CASE PushGames(g) \/ WriterFails(g) \/ Unlink(g)
    BY <1>2, <2>3 DEF IsMap, IsConnection, PushGames, WriterFails, Unlink, Closed
  <2>4. CASE ServerTakes(g)
    BY <1>2, <2>4 DEF IsMap, IsConnection, ServerTakes
  <2> QED
    BY <2>1, <2>2, <2>3, <2>4 DEF ServerMoves
<1>5. \A q \in Carries(gs'[g]) : q \in Carries(gs[g])
  <2>1. IsQueue(gs[g].queue)
    BY <1>2 DEF IsConnection
  <2> QED
    BY <1>4, <2>1, QueueEmpty, QueueTail DEF Carries
<1> QED
  BY <1>1, <1>3, <1>5, FlightShrinks

(* A task that does not wait has nothing under way.                        *)
LEMMA FlightElsewhere ==
  ASSUME LinkInv, NEW w \in Waiter, ~Waits(w), NEW c, call' = [call EXCEPT ![w] = c],
         UNCHANGED <<gs, pending, nextId>>
  PROVE  FlightInv'
<1>1. \A v \in Waiter \ {w} : call'[v] = call[v]
  BY DEF LinkInv, TableInv, IsMap
<1>2. \A i \in DOMAIN pending : pending[i] \in Waiter \ {w}
  BY DEF LinkInv, TableInv, PendingExact, Waits
<1> QED
  BY <1>1, <1>2 DEF LinkInv, FlightInv

(* The end of a request takes its entry with it.                           *)
LEMMA FlightEnds ==
  ASSUME LinkInv, NEW w \in Waiter, Waits(w), NEW result,
         call' = Finished(w, result), pending' = Forget(call[w].id),
         UNCHANGED <<gs, nextId>>
  PROVE  FlightInv'
<1>1. \A v \in Waiter \ {w} : call'[v] = call[v]
  BY DEF LinkInv, TableInv, IsMap, Finished
<1>2. /\ DOMAIN pending' = DOMAIN pending \ {call[w].id}
      /\ \A i \in DOMAIN pending' : pending'[i] = pending[i]
  BY DEF Forget
<1>3. \A i \in DOMAIN pending' : pending[i] \in Waiter \ {w}
  BY <1>2 DEF LinkInv, TableInv, PendingExact
<1> QED
  BY <1>1, <1>2, <1>3 DEF LinkInv, FlightInv

(* A new request has an id that nothing under way has.                     *)
LEMMA FlightEnters ==
  ASSUME LinkInv, NEW w \in Waiter, Request(w), current # None
  PROVE  FlightInv'
<1>1. \A v \in Waiter \ {w} : call'[v] = call[v]
  BY DEF Request, LinkInv, TableInv, IsMap
<1>2. /\ pending' = [i \in DOMAIN pending \cup {nextId} |-> IF i = nextId THEN w ELSE pending[i]]
      /\ nextId' = nextId + 1 /\ nextId \in Nat /\ gs' = gs
  BY DEF Request, LinkInv, TableInv
<1>3. \A i \in DOMAIN pending : pending[i] \in Waiter \ {w}
  BY DEF Request, LinkInv, TableInv, PendingExact
<1> QED
  BY <1>1, <1>2, <1>3 DEF LinkInv, FlightInv

LEMMA TaskMovesLink ==
  ASSUME LinkInv, NEW w \in Waiter, TaskMoves(w)
  PROVE  NumbersInv' /\ CurrentInv' /\ FlightInv'
<1>1. UNCHANGED <<gs, current, generation, installed>> => NumbersInv' /\ CurrentInv'
  BY SameLink DEF LinkInv, NumbersInv
<1>2. TableInv
  BY DEF LinkInv
<1>3. CASE Look(w) \/ Choose(w)
  <2>1. \E c : call' = [call EXCEPT ![w] = c]
    BY <1>3 DEF Look, Choose, Finished
  <2>2. ~Waits(w) /\ UNCHANGED <<gs, current, generation, installed, pending, nextId>>
    BY <1>3 DEF Look, Choose, Waits
  <2> QED
    BY <1>1, <2>1, <2>2, FlightElsewhere
<1>4. CASE Request(w)
  <2>1. UNCHANGED <<gs, current, generation, installed>> /\ ~Waits(w)
    BY <1>4 DEF Request, Waits
  <2>2. CASE current = None
    <3>1. call' = [call EXCEPT ![w] = [stage |-> "done", result |-> Down]]
          /\ UNCHANGED <<pending, nextId>>
      BY <1>4, <2>2 DEF Request, Finished
    <3> QED
      BY <1>1, <2>1, <3>1, FlightElsewhere
  <2> QED
    BY <1>1, <1>4, <2>1, <2>2, FlightEnters
<1>5. CASE PassOn(w) /\ gs[call[w].to].writer
  BY <1>5, PassOnLink
<1>6. CASE (PassOn(w) /\ ~gs[call[w].to].writer) \/ TimeOut(w)
  <2>1. /\ Waits(w) /\ call' = Finished(w, Down) /\ pending' = Forget(call[w].id)
        /\ UNCHANGED <<gs, current, generation, installed, nextId>>
    BY <1>6 DEF PassOn, TimeOut, Waits
  <2> QED
    BY <1>1, <2>1, FlightEnds
<1> QED
  BY <1>3, <1>4, <1>5, <1>6 DEF TaskMoves

LEMMA LinkMovesKeep ==
  ASSUME LinkInv, LinkMoves
  PROVE  LinkInv'
<1>1. TableInv'
  BY TableMoves DEF LinkInv
<1>2. ASSUME NEW g \in GameServer, ServerMoves(g)
      PROVE  NumbersInv' /\ CurrentInv' /\ FlightInv'
  <2>1. CASE PushGames(g)
    BY <1>2, <2>1, SameLink, FlightServer DEF PushGames, LinkInv, NumbersInv
  <2> QED
    BY <1>2, <2>1, HelloLink, NumberLink, InstallLink, UnlinkLink, QueueLink, FlightServer
       DEF ServerMoves
<1>3. ASSUME NEW g \in GameServer, NEW m, NEW a, ServerAnswers(g, m, a)
      PROVE  NumbersInv' /\ CurrentInv' /\ FlightInv'
  <2>1. m.id \in DOMAIN pending /\ pending[m.id] \in Waiter
    BY <1>3 DEF ServerAnswers, LinkInv, TableInv
  <2>2. Waits(pending[m.id]) /\ call[pending[m.id]].id = m.id
    BY <2>1 DEF LinkInv, TableInv, PendingExact, Waits
  <2>3. /\ call' = Finished(pending[m.id], a) /\ pending' = Forget(call[pending[m.id]].id)
        /\ UNCHANGED <<gs, current, generation, installed, nextId>>
    BY <1>3, <2>2 DEF ServerAnswers
  <2>4. FlightInv'
    BY <2>1, <2>2, <2>3, FlightEnds
  <2> QED
    BY <2>3, <2>4, SameLink DEF LinkInv, NumbersInv
<1>4. ASSUME NEW w \in Waiter, TaskMoves(w)
      PROVE  NumbersInv' /\ CurrentInv' /\ FlightInv'
  BY <1>4, TaskMovesLink
<1>5. NumbersInv' /\ CurrentInv' /\ FlightInv'
  BY <1>2, <1>3, <1>4 DEF LinkMoves
<1> QED
  BY <1>1, <1>5 DEF LinkInv

(* A caller starts a call, or takes its result.                            *)
LEMMA CallKeeps ==
  ASSUME LinkInv, NEW w \in Waiter, ~Waits(w), NEW what \in What, NEW args, Call(w, what, args)
  PROVE  LinkInv'
<1>1. TableInv'
  BY TableCalls DEF LinkInv
<1>2. FlightInv'
  BY FlightElsewhere DEF Call
<1>3. NumbersInv' /\ CurrentInv'
  BY SameLink DEF Call, LinkInv, NumbersInv
<1> QED
  BY <1>1, <1>2, <1>3 DEF LinkInv

LEMMA EndCallKeeps ==
  ASSUME LinkInv, NEW w \in Waiter, CallAnswered(w), EndCall(w)
  PROVE  LinkInv'
<1>1. TableInv' /\ ~Waits(w)
  BY TableCallEnds DEF LinkInv, CallAnswered, Waits
<1>2. FlightInv'
  BY <1>1, FlightElsewhere DEF EndCall
<1>3. NumbersInv' /\ CurrentInv'
  BY SameLink DEF EndCall, LinkInv, NumbersInv
<1> QED
  BY <1>1, <1>2, <1>3 DEF LinkInv

LEMMA LinkUnchanged ==
  ASSUME LinkInv, UNCHANGED link
  PROVE  LinkInv'
  BY DEF link, LinkInv, TableInv, PendingExact, NumbersInv, CurrentInv, LinkFollowsInstall, FlightInv

LEMMA LinkInductive == LinkInv /\ [LinkNext]_link => LinkInv'
<1> SUFFICES ASSUME LinkInv, [LinkNext]_link PROVE LinkInv'
  OBVIOUS
<1>1. LinkStep(AnyAnswer) => LinkMoves
  BY DEF LinkStep, LinkMoves, ServerMoves, TaskMoves
<1>2. ASSUME NEW w \in Waiter, LinkCaller(w)
      PROVE  LinkInv'
  <2>1. CASE call[w].stage = "none" /\ \E what \in What : Call(w, what, None)
    BY <2>1, CallKeeps DEF Waits
  <2>2. CASE CallAnswered(w) /\ EndCall(w)
    BY <2>2, EndCallKeeps
  <2> QED
    BY <1>2, <2>1, <2>2 DEF LinkCaller, What
<1> QED
  BY <1>1, <1>2, LinkMovesKeep, LinkUnchanged DEF LinkNext

(* Every request has an entry while somebody waits for its answer and no   *)
(* longer, whatever order answers, time-outs, failed sends and the ends of *)
(* links come in (gslink.rs, request).                                     *)
THEOREM PendingStaysExact == LinkSpec => []PendingExact
<1>1. LinkInv => PendingExact
  BY DEF LinkInv, TableInv
<1> QED
  BY <1>1, LinkInit, LinkInductive, PTL DEF LinkSpec

(* The link is the game server installed last until its own connection     *)
(* ends, however many connect at once and whatever order they are          *)
(* numbered, installed and ended in (gslink.rs, connection).               *)
THEOREM LinkIsLastInstalled == LinkSpec => []LinkFollowsInstall
<1>1. LinkInv => LinkFollowsInstall
  BY DEF LinkInv, CurrentInv
<1> QED
  BY <1>1, LinkInit, LinkInductive, PTL DEF LinkSpec
-----------------------------------------------------------------------------
(* The realm's connections.  A handler that has a call under way is at an  *)
(* await of the link, and only a connection between two packets starts or  *)
(* ends: the ticket stays what it was when the call was made.              *)

(* A call that joins, in any of its stages, names the account.             *)
JoinsFor(c, account) ==
  \/ c.stage = "choose" /\ c.what = "join"
  \/ c.stage \in {"request", "send", "wait"} /\ c.message = "Join"
  => c.args.account = account

ConnectionInv(m) ==
  /\ call[m].stage # "none" => pc[m] \in {"asking", "refusal"}
  /\ pc[m] = "refusal" => job[m].char.account = ticket[m].account
  /\ JoinsFor(call[m], ticket[m].account)

RealmInv ==
  /\ LinkInv
  /\ IsMap(pc, Waiter) /\ IsMap(job, Waiter) /\ IsMap(ticket, Waiter)
  /\ \A m \in Waiter : ConnectionInv(m)

LEMMA RealmInit == Init => RealmInv
<1> SUFFICES ASSUME Init PROVE RealmInv
  OBVIOUS
<1>1. LinkInv
  BY LinkInit DEF Init
<1>2. IsMap(pc, Waiter) /\ IsMap(job, Waiter) /\ IsMap(ticket, Waiter)
  BY DEF Init, InitRealm, IsMap
<1>3. \A m \in Waiter : call[m].stage = "none" /\ pc[m] = "idle"
  BY DEF Init, InitRealm, InitLink, NoCall
<1> QED
  BY <1>1, <1>2, <1>3 DEF RealmInv, ConnectionInv, JoinsFor

LEMMA RealmUnchanged ==
  ASSUME RealmInv, UNCHANGED <<link, pc, job, ticket>>
  PROVE  RealmInv'
<1>1. LinkInv' /\ UNCHANGED call
  BY LinkUnchanged DEF RealmInv, link
<1> QED
  BY <1>1 DEF RealmInv, ConnectionInv

(* A handler without a call goes on to an await of storage, or ends.       *)
LEMMA RealmAwaits ==
  ASSUME RealmInv, NEW m \in Waiter, call[m].stage = "none",
         NEW next, next # "refusal", NEW locals, At(m, next, locals),
         UNCHANGED <<link, ticket>>
  PROVE  RealmInv'
<1>1. LinkInv' /\ UNCHANGED call
  BY LinkUnchanged DEF RealmInv, link
<1>2. /\ IsMap(pc', Waiter) /\ IsMap(job', Waiter) /\ pc'[m] = next
      /\ \A n \in Waiter \ {m} : pc'[n] = pc[n] /\ job'[n] = job[n]
  BY DEF At, RealmInv, IsMap
<1>3. ConnectionInv(m)'
  BY <1>1, <1>2 DEF ConnectionInv, JoinsFor
<1>4. \A n \in Waiter \ {m} : ConnectionInv(n)'
  BY <1>1, <1>2 DEF RealmInv, ConnectionInv
<1> QED
  BY <1>1, <1>2, <1>3, <1>4 DEF RealmInv

(* A handler asks the game server.                                         *)
LEMMA RealmCalls ==
  ASSUME RealmInv, NEW m \in Waiter, call[m].stage \in {"none", "done"},
         NEW next \in {"asking", "refusal"}, NEW locals, NEW what \in What, NEW args,
         next = "refusal" => locals.char.account = ticket[m].account,
         what = "join" => args.account = ticket[m].account,
         CallGameServer(m, next, locals, what, args), UNCHANGED ticket
  PROVE  RealmInv'
<1>1. LinkInv'
  BY CallKeeps DEF CallGameServer, RealmInv, Waits
<1>2. /\ IsMap(pc', Waiter) /\ IsMap(job', Waiter) /\ pc'[m] = next /\ job'[m] = locals
      /\ \A n \in Waiter \ {m} : pc'[n] = pc[n] /\ job'[n] = job[n]
  BY DEF CallGameServer, At, RealmInv, IsMap
<1>3. /\ call'[m] = [stage |-> "choose", what |-> what, args |-> args]
      /\ \A n \in Waiter \ {m} : call'[n] = call[n]
  BY DEF CallGameServer, Call, RealmInv, LinkInv, TableInv, IsMap
<1>4. ConnectionInv(m)'
  BY <1>2, <1>3 DEF ConnectionInv, JoinsFor
<1>5. \A n \in Waiter \ {m} : ConnectionInv(n)'
  BY <1>2, <1>3 DEF RealmInv, ConnectionInv
<1> QED
  BY <1>1, <1>2, <1>4, <1>5 DEF RealmInv

(* A handler takes the game server's answer and ends.                      *)
LEMMA RealmFinishes ==
  ASSUME RealmInv, NEW m \in Waiter, CallAnswered(m), FinishCall(m), UNCHANGED ticket
  PROVE  RealmInv'
<1>1. LinkInv'
  BY EndCallKeeps DEF FinishCall, RealmInv
<1>2. /\ IsMap(pc', Waiter) /\ IsMap(job', Waiter) /\ pc'[m] = "idle"
      /\ \A n \in Waiter \ {m} : pc'[n] = pc[n] /\ job'[n] = job[n]
  BY DEF FinishCall, At, RealmInv, IsMap
<1>3. call'[m] = NoCall /\ \A n \in Waiter \ {m} : call'[n] = call[n]
  BY DEF FinishCall, EndCall, RealmInv, LinkInv, TableInv, IsMap
<1>4. ConnectionInv(m)'
  BY <1>2, <1>3 DEF ConnectionInv, JoinsFor, NoCall
<1>5. \A n \in Waiter \ {m} : ConnectionInv(n)'
  BY <1>2, <1>3 DEF RealmInv, ConnectionInv
<1> QED
  BY <1>1, <1>2, <1>4, <1>5 DEF RealmInv

(* A realm connection starts or ends between two packets.                  *)
LEMMA RealmTickets ==
  ASSUME RealmInv, NEW m \in Waiter, pc[m] = "idle", NEW t, ticket' = [ticket EXCEPT ![m] = t],
         UNCHANGED <<link, pc, job>>
  PROVE  RealmInv'
<1>1. LinkInv' /\ UNCHANGED call
  BY LinkUnchanged DEF RealmInv, link
<1>2. IsMap(ticket', Waiter) /\ \A n \in Waiter \ {m} : ticket'[n] = ticket[n]
  BY DEF RealmInv, IsMap
<1>3. call[m].stage = "none"
  BY DEF RealmInv, ConnectionInv
<1>4. ConnectionInv(m)'
  BY <1>1, <1>3 DEF ConnectionInv, JoinsFor
<1>5. \A n \in Waiter \ {m} : ConnectionInv(n)'
  BY <1>1, <1>2 DEF RealmInv, ConnectionInv
<1> QED
  BY <1>1, <1>2, <1>4, <1>5 DEF RealmInv

(* A step of the link moves a call on, ends it, or leaves it; what it asks *)
(* for and with which arguments it keeps.                                  *)
LEMMA CallMoves ==
  ASSUME LinkInv, LinkMoves, NEW w \in Waiter
  PROVE  /\ call'[w].stage # "none" => call[w].stage # "none"
         /\ \A a : JoinsFor(call[w], a) => JoinsFor(call'[w], a)
<1>1. CASE call'[w] = call[w]
  BY <1>1
<1>2. CASE \E r : call' = Finished(w, r) /\ call[w].stage # "none"
  <2>1. call'[w].stage = "done"
    BY <1>2 DEF Finished, LinkInv, TableInv, IsMap
  <2> QED
    BY <1>2, <2>1 DEF JoinsFor
<1>3. CASE Choose(w)
  <2> DEFINE message == MessageFor(call[w].what, LinkedVersion)
  <2>1. /\ call[w].stage \in {"choose", "lobby"} /\ call[w].what \in What
        /\ call[w].what = "join" => call[w].stage = "choose"
    BY <1>3 DEF Choose, LinkInv, TableInv, IsCall, LooksTwice, What
  <2>2. CASE message # None
    <3>1. call'[w] = [stage |-> "request", message |-> message, args |-> call[w].args]
      BY <1>3, <2>2 DEF Choose, LinkInv, TableInv, IsMap
    <3>2. message = "Join" => call[w].what = "join"
      BY <2>1, <2>2 DEF MessageFor, What
    <3> HIDE DEF message
    <3> QED
      BY <2>1, <3>1, <3>2 DEF JoinsFor
  <2>3. CASE message = None
    BY <1>2, <1>3, <2>1, <2>3 DEF Choose
  <2> QED
    BY <2>2, <2>3
<1>4. CASE Request(w)
  <2>1. CASE current = None
    BY <1>2, <1>4, <2>1 DEF Request
  <2>2. CASE current # None
    <3>1. call'[w] = [stage |-> "send", id |-> nextId, to |-> current.to,
                      message |-> call[w].message, args |-> call[w].args]
      BY <1>4, <2>2 DEF Request, LinkInv, TableInv, IsMap
    <3> QED
      BY <1>4, <3>1 DEF Request, JoinsFor
  <2> QED
    BY <2>1, <2>2
<1>5. CASE PassOn(w)
  <2>1. CASE ~gs[call[w].to].writer
    BY <1>2, <1>5, <2>1 DEF PassOn
  <2>2. CASE gs[call[w].to].writer
    <3>1. IsCall(call[w]) /\ call[w].stage = "send"
      BY <1>5 DEF PassOn, LinkInv, TableInv
    <3>2. /\ call'[w].stage = "wait"
          /\ call'[w].message = call[w].message /\ call'[w].args = call[w].args
      BY <1>5, <2>2, <3>1 DEF PassOn, LinkInv, TableInv, IsMap, IsCall
    <3> QED
      BY <3>1, <3>2 DEF JoinsFor
  <2> QED
    BY <2>1, <2>2
<1>6. CASE TimeOut(w)
  BY <1>2, <1>6 DEF TimeOut
<1>10. CASE Look(w)
  <2>1. CASE LinkedVersion = 0
    BY <1>2, <1>10, <2>1 DEF Look
  <2>2. CASE LinkedVersion # 0
    <3>1. call'[w] = [stage |-> "lobby", what |-> call[w].what, args |-> call[w].args]
      BY <1>10, <2>2 DEF Look, LinkInv, TableInv, IsMap
    <3> QED
      BY <1>10, <3>1 DEF Look, JoinsFor
  <2> QED
    BY <2>1, <2>2
<1>7. ASSUME NEW v \in Waiter, v # w, TaskMoves(v)
      PROVE  call'[w] = call[w]
  BY <1>7 DEF TaskMoves, Look, Choose, Request, PassOn, TimeOut, Finished, LinkInv, TableInv, IsMap
<1>8. ASSUME NEW g \in GameServer, NEW m, NEW a, ServerAnswers(g, m, a)
      PROVE  call'[w] = call[w] \/ (call' = Finished(w, a) /\ call[w].stage # "none")
  <2>1. /\ m.id \in DOMAIN pending /\ pending[m.id] \in Waiter
        /\ call' = Finished(pending[m.id], a)
    BY <1>8 DEF ServerAnswers, LinkInv, TableInv
  <2>2. call[pending[m.id]].stage # "none"
    BY <2>1 DEF LinkInv, TableInv, PendingExact
  <2> QED
    BY <2>1, <2>2 DEF Finished, LinkInv, TableInv, IsMap
<1>9. ASSUME NEW g \in GameServer, ServerMoves(g)
      PROVE  call' = call
  BY <1>9 DEF ServerMoves, Hello, Number, Install, PushGames, WriterFails, Unlink, ServerTakes
<1> QED
  BY <1>1, <1>2, <1>3, <1>4, <1>5, <1>6, <1>7, <1>8, <1>9, <1>10 DEF LinkMoves, TaskMoves

LEMMA RealmLink ==
  ASSUME RealmInv, LinkMoves, UNCHANGED <<pc, job, ticket>>
  PROVE  RealmInv'
<1>1. LinkInv'
  BY LinkMovesKeep DEF RealmInv
<1>2. \A m \in Waiter : ConnectionInv(m)'
  BY CallMoves DEF RealmInv, ConnectionInv
<1> QED
  BY <1>1, <1>2 DEF RealmInv

(* Away from the awaits of the link no call is under way.                  *)
LEMMA NoneUnderWay ==
  ASSUME RealmInv, NEW m \in Waiter, pc[m] \notin {"asking", "refusal"}
  PROVE  call[m].stage = "none"
  BY DEF RealmInv, ConnectionInv

LEMMA RealmPlays ==
  ASSUME RealmInv, NEW m \in Waiter, NEW locals,
         locals.op \in {"list", "create", "join"}, Plays(m, locals)
  PROVE  RealmInv'
<1>1. pc[m] = "idle" /\ UNCHANGED ticket /\ call[m].stage = "none"
  BY NoneUnderWay DEF Plays, Takes
<1>2. CASE selected[m] # None
  <2>1. At(m, "playing", locals) /\ UNCHANGED link
    BY <1>2 DEF Plays, Read, Await
  <2> QED
    BY <1>1, <2>1, RealmAwaits
<1>3. CASE selected[m] = None /\ locals.op \in {"list", "join"}
  <2>1. UNCHANGED <<pc, job, link>>
    BY <1>3 DEF Plays
  <2> QED
    BY <1>1, <2>1, RealmUnchanged
<1>4. CASE selected[m] = None /\ locals.op = "create"
  <2>1. CallGameServer(m, "asking", locals, "create",
                       [name |-> locals.name,
                        settings |-> Settings(None, ticket[m].expansion, locals.asked)])
    BY <1>4 DEF Plays
  <2> QED
    BY <1>1, <2>1, RealmCalls DEF What
<1> QED
  BY <1>2, <1>3, <1>4

LEMMA RealmPacket ==
  ASSUME RealmInv, NEW m \in Waiter, Packet(m)
  PROVE  RealmInv'
<1>1. ASSUME NEW next, next # "refusal", NEW locals, NEW c,
             NEW cost, Takes(m, cost), Await(m, next, locals, c), UNCHANGED link
      PROVE  RealmInv'
  <2>1. pc[m] = "idle" /\ UNCHANGED ticket /\ At(m, next, locals)
    BY <1>1 DEF Takes, Await
  <2> QED
    BY <1>1, <2>1, NoneUnderWay, RealmAwaits
<1>2. CASE CharList(m) \/ LadderData(m)
  BY <1>1, <1>2 DEF CharList, LadderData
<1>3. CASE GameList(m)
  BY <1>3, RealmPlays DEF GameList
<1>4. ASSUME NEW new, CharCreate(m, new)
      PROVE  RealmInv'
  <2>1. CASE ValidNew(m, new)
    BY <1>1, <1>4, <2>1 DEF CharCreate
  <2>2. CASE ~ValidNew(m, new)
    BY <1>4, <2>2, RealmUnchanged DEF CharCreate, Takes
  <2> QED
    BY <2>1, <2>2
<1>5. ASSUME NEW name, CharLogon(m, name) \/ CharDelete(m, name) \/ CharUpgrade(m, name)
      PROVE  RealmInv'
  BY <1>1, <1>5 DEF CharLogon, CharDelete, CharUpgrade, Read
<1>6. ASSUME NEW name, GameInfo(m, name)
      PROVE  RealmInv'
  <2>1. /\ pc[m] = "idle" /\ UNCHANGED ticket
        /\ CallGameServer(m, "asking", [op |-> "info"], "info", [name |-> name])
    BY <1>6 DEF GameInfo, Takes
  <2> QED
    BY <2>1, NoneUnderWay, RealmCalls DEF What
<1>7. ASSUME NEW name, JoinGame(m, name)
      PROVE  RealmInv'
  <2>1. [op |-> "join", name |-> name].op = "join"
    OBVIOUS
  <2> QED
    BY <1>7, <2>1, RealmPlays DEF JoinGame
<1>8. ASSUME NEW name, NEW asked, CreateGame(m, name, asked)
      PROVE  RealmInv'
  <2>1. [op |-> "create", name |-> name, asked |-> asked].op = "create"
    OBVIOUS
  <2> QED
    BY <1>8, <2>1, RealmPlays DEF CreateGame
<1> QED
  BY <1>2, <1>3, <1>4, <1>5, <1>6, <1>7, <1>8 DEF Packet

(* A handler goes on from an await of storage.                             *)
LEMMA RealmResumes ==
  ASSUME RealmInv, NEW m \in Waiter, pc[m] \notin {"asking", "refusal"}, UNCHANGED ticket,
         \/ Finish(m)
         \/ UNCHANGED link /\ \E next, locals, c : next # "refusal" /\ Await(m, next, locals, c)
  PROVE  RealmInv'
<1>1. call[m].stage = "none"
  BY NoneUnderWay
<1>2. CASE Finish(m)
  BY <1>1, <1>2, RealmAwaits DEF Finish
<1>3. CASE UNCHANGED link /\ \E next, locals, c : next # "refusal" /\ Await(m, next, locals, c)
  BY <1>1, <1>3, RealmAwaits DEF Await
<1> QED
  BY <1>2, <1>3

(* The characters' handlers ask storage only.                              *)
LEMMA RealmCharacters ==
  ASSUME RealmInv, NEW m \in Waiter,
         \/ Listed(m) \/ CharCounted(m) \/ CharCreated(m) \/ CharLogonRead(m) \/ CharLoggedOn(m)
         \/ CharDeleted(m) \/ CharUpgradeRead(m) \/ CharUpgraded(m) \/ CreatePlaying(m)
  PROVE  RealmInv'
<1>1. CASE Listed(m)
  BY <1>1, RealmResumes DEF Listed, Resumes
<1>2. CASE CharCounted(m)
  BY <1>2, RealmResumes DEF CharCounted, Resumes
<1>3. CASE CharCreated(m) \/ CharLoggedOn(m) \/ CharDeleted(m) \/ CharUpgraded(m)
  BY <1>3, RealmResumes DEF CharCreated, CharLoggedOn, CharDeleted, CharUpgraded, Resumes
<1>4. CASE CharLogonRead(m)
  BY <1>4, RealmResumes DEF CharLogonRead, Resumes
<1>5. CASE CharUpgradeRead(m)
  BY <1>5, RealmResumes DEF CharUpgradeRead, Resumes
<1>6. CASE CreatePlaying(m)
  BY <1>6, RealmResumes DEF CreatePlaying, Read, Resumes
<1> QED
  BY <1>1, <1>2, <1>3, <1>4, <1>5, <1>6

(* The games' handlers.  What is joined for is the character that was read *)
(* last, and it is the account's own: the name alone would not do.         *)
LEMMA RealmGames ==
  ASSUME RealmInv, NEW m \in Waiter,
         ListPlaying(m) \/ CreateIfAlive(m) \/ JoinPlaying(m) \/ JoinIfWelcome(m) \/ GameReply(m)
  PROVE  RealmInv'
<1>1. CASE ListPlaying(m)
  <2>1. pc[m] = "playing" /\ UNCHANGED ticket
    BY <1>1 DEF ListPlaying, Resumes
  <2>2. CASE Nobody(m)
    BY <1>1, <2>1, <2>2, RealmResumes DEF ListPlaying
  <2>3. CASE ~Nobody(m)
    <3>1. CallGameServer(m, "asking", [op |-> "list", char |-> Answer(m)], "list", NoJob)
      BY <1>1, <2>3 DEF ListPlaying
    <3> QED
      BY <2>1, <3>1, NoneUnderWay, RealmCalls DEF What
  <2> QED
    BY <2>2, <2>3
<1>2. CASE CreateIfAlive(m)
  <2>1. pc[m] = "dead?" /\ UNCHANGED ticket
    BY <1>2 DEF CreateIfAlive, Resumes
  <2>2. CASE ~Nobody(m) /\ IsDeadHardcore(Answer(m))
    BY <1>2, <2>1, <2>2, RealmResumes DEF CreateIfAlive
  <2>3. CASE ~(~Nobody(m) /\ IsDeadHardcore(Answer(m)))
    <3>1. CallGameServer(m, "asking", [op |-> "create"], "create", job[m])
      BY <1>2, <2>3 DEF CreateIfAlive
    <3> QED
      BY <2>1, <3>1, NoneUnderWay, RealmCalls DEF What
  <2> QED
    BY <2>2, <2>3
<1>3. CASE JoinPlaying(m)
  <2>1. pc[m] = "playing" /\ UNCHANGED ticket
    BY <1>3 DEF JoinPlaying, Resumes
  <2>2. CASE Nobody(m) \/ IsDeadHardcore(Answer(m))
    BY <1>3, <2>1, <2>2, RealmResumes DEF JoinPlaying
  <2>3. CASE ~(Nobody(m) \/ IsDeadHardcore(Answer(m)))
    <3> DEFINE locals == [char |-> Answer(m), name |-> job[m].name]
    <3>1. CallGameServer(m, "refusal", locals, "info", [name |-> job[m].name])
      BY <1>3, <2>3 DEF JoinPlaying
    <3>2. locals.char.account = ticket[m].account
      BY <2>3 DEF Nobody, Own
    <3> HIDE DEF locals
    <3> QED
      BY <2>1, <3>1, <3>2, NoneUnderWay, RealmCalls DEF What
  <2> QED
    BY <2>2, <2>3
<1>4. CASE JoinIfWelcome(m)
  <2> DEFINE args == [name |-> job[m].name, account |-> job[m].char.account, char |-> job[m].char.name]
  <2>1. pc[m] = "refusal" /\ CallAnswered(m) /\ UNCHANGED ticket
    BY <1>4 DEF JoinIfWelcome, ResumesCall
  <2>2. CASE FinishCall(m)
    BY <2>1, <2>2, RealmFinishes
  <2>3. CASE CallGameServer(m, "asking", [op |-> "join"], "join", args)
    <3>1. args.account = ticket[m].account
      BY <2>1 DEF RealmInv, ConnectionInv
    <3>2. call[m].stage = "done"
      BY <2>1 DEF CallAnswered
    <3> HIDE DEF args
    <3> QED
      BY <2>1, <2>3, <3>1, <3>2, RealmCalls DEF What
  <2> QED
    BY <1>4, <2>2, <2>3 DEF JoinIfWelcome
<1>5. CASE GameReply(m)
  BY <1>5, RealmFinishes DEF GameReply, ResumesCall
<1> QED
  BY <1>1, <1>2, <1>3, <1>4, <1>5

LEMMA RealmInductive == RealmInv /\ [Next]_vars => RealmInv'
<1> SUFFICES ASSUME RealmInv, [Next]_vars PROVE RealmInv'
  OBVIOUS
<1>1. CASE UNCHANGED vars
  BY <1>1, RealmUnchanged DEF vars, realm
<1>2. ASSUME NEW l \in Login, Logoff(l) \/ \E id \in TicketId : LogonRealm(l, id)
      PROVE  RealmInv'
  BY <1>2, RealmUnchanged DEF LogonRealm, Logoff
<1>3. ASSUME NEW m \in Waiter, NEW id \in TicketId, NEW matches \in BOOLEAN, Startup(m, id, matches)
      PROVE  RealmInv'
  BY <1>3, RealmTickets DEF Startup
<1>4. ASSUME NEW m \in Waiter, Close(m)
      PROVE  RealmInv'
  BY <1>4, RealmTickets DEF Close
<1>5. ASSUME NEW m \in Waiter, Handler(m)
      PROVE  RealmInv'
  BY <1>5, RealmCharacters, RealmGames DEF Handler
<1>6. CASE EndSeason \/ SeasonEnded
  BY <1>6, RealmUnchanged DEF EndSeason, SeasonEnded
<1>7. ASSUME NEW i, GameServerSaves(i)
      PROVE  RealmInv'
  BY <1>7, RealmUnchanged DEF GameServerSaves
<1>8. CASE (Serve \/ Die) /\ UNCHANGED <<realm, link>>
  BY <1>8, RealmUnchanged DEF realm
<1>9. CASE LinkStep(Answers) /\ UNCHANGED <<realm, storage>>
  <2>1. LinkMoves
    BY <1>9 DEF LinkStep, LinkMoves, ServerMoves, TaskMoves
  <2> QED
    BY <1>9, <2>1, RealmLink DEF realm
<1> QED
  BY <1>1, <1>2, <1>3, <1>4, <1>5, <1>6, <1>7, <1>8, <1>9, RealmPacket DEF Next

-----------------------------------------------------------------------------
(* What the realm promises.                                                *)

(* The realm's requests keep the table of the link exact, and the link the *)
(* game server installed last: what LinkSpec has of callers that ask for   *)
(* anything holds of the handlers of realm.rs.                             *)
THEOREM RealmKeepsLink == Spec => [](PendingExact /\ LinkFollowsInstall)
<1>1. RealmInv => PendingExact /\ LinkFollowsInstall
  BY DEF RealmInv, LinkInv, TableInv, CurrentInv
<1> QED
  BY <1>1, RealmInit, RealmInductive, PTL DEF Spec

(* A join is staged for a character of the connection's own account,       *)
(* whatever became of the name it chose while its handler waited for       *)
(* storage and for the game server (realm.rs, join_game).                  *)
THEOREM JoinsOwnCharacters == Spec => []JoinsOnlyOwn
<1>1. RealmInv => JoinsOnlyOwn
  <2> SUFFICES ASSUME RealmInv, NEW q \in InFlight, q.message = "Join", q.id \in DOMAIN pending
               PROVE  q.args.account = ticket[pending[q.id]].account
    BY DEF JoinsOnlyOwn
  <2>1. PICK g \in GameServer : q \in Carries(gs[g])
    BY DEF InFlight, Carries
  <2>2. /\ pending[q.id] \in Waiter /\ call[pending[q.id]].stage = "wait"
        /\ call[pending[q.id]].message = "Join" /\ call[pending[q.id]].args = q.args
    BY <2>1 DEF RealmInv, LinkInv, FlightInv, TableInv
  <2> QED
    BY <2>2 DEF RealmInv, ConnectionInv, JoinsFor
<1> QED
  BY <1>1, RealmInit, RealmInductive, PTL DEF Spec

(* A ticket is live while the login that minted it is, and stands for its  *)
(* account, however many it mints (node.rs, mint_realm_ticket and          *)
(* revoke_realm_ticket).  No two logins list the same one: what a login    *)
(* revokes when it ends is nobody else's.                                  *)
TicketsInv ==
  /\ open \subseteq Login
  /\ IsMap(realmTickets, Login) /\ \A l \in Login : IsQueue(realmTickets[l])
  /\ TicketsOfOpenLogins
  /\ \A l, k \in open : l # k => Range(realmTickets[l]) \cap Range(realmTickets[k]) = {}

LEMMA TicketsStart == Init => TicketsInv
<1> SUFFICES ASSUME Init PROVE TicketsInv
  OBVIOUS
<1>1. /\ open = Login /\ DOMAIN tickets = {}
      /\ IsMap(realmTickets, Login) /\ \A l \in Login : realmTickets[l] = <<>>
  BY DEF Init, InitRealm, IsMap
<1> QED
  BY <1>1, QueueEmpty DEF TicketsInv, TicketsOfOpenLogins

LEMMA TicketsMinted ==
  ASSUME TicketsInv, NEW l \in Login, NEW id, LogonRealm(l, id)
  PROVE  TicketsInv'
<1>1. l \in open /\ id \notin DOMAIN tickets /\ open' = open
  BY DEF LogonRealm
<1>2. IsQueue(Append(realmTickets[l], id))
      /\ Range(Append(realmTickets[l], id)) = Range(realmTickets[l]) \cup {id}
  BY QueueAppend DEF TicketsInv
<1>3. /\ IsMap(realmTickets', Login) /\ realmTickets'[l] = Append(realmTickets[l], id)
      /\ \A k \in Login \ {l} : realmTickets'[k] = realmTickets[k]
  BY DEF LogonRealm, TicketsInv, IsMap
<1>4. /\ DOMAIN tickets' = DOMAIN tickets \cup {id} /\ tickets'[id].account = OwnerOf[l]
      /\ \A i \in DOMAIN tickets : tickets'[i] = tickets[i]
  BY <1>1 DEF LogonRealm, MintRealmTicket, Insert
<1>5. \A k \in open : id \notin Range(realmTickets[k])
  BY <1>1 DEF TicketsInv, TicketsOfOpenLogins
<1>6. /\ Range(realmTickets'[l]) = Range(realmTickets[l]) \cup {id}
      /\ \A k \in open \ {l} : Range(realmTickets'[k]) = Range(realmTickets[k])
  BY <1>2, <1>3 DEF TicketsInv
<1>7. TicketsOfOpenLogins'
  <2>1. \A i \in DOMAIN tickets' : \E k \in open' : i \in Range(realmTickets'[k])
    BY <1>1, <1>4, <1>6 DEF TicketsInv, TicketsOfOpenLogins
  <2>2. \A k \in open' : \A i \in Range(realmTickets'[k]) :
          i \in DOMAIN tickets' /\ tickets'[i].account = OwnerOf[k]
    BY <1>1, <1>4, <1>5, <1>6 DEF TicketsInv, TicketsOfOpenLogins
  <2> QED
    BY <2>1, <2>2 DEF TicketsOfOpenLogins
<1>8. \A j, k \in open' : j # k => Range(realmTickets'[j]) \cap Range(realmTickets'[k]) = {}
  BY <1>1, <1>5, <1>6 DEF TicketsInv
<1>9. \A k \in Login : IsQueue(realmTickets'[k])
  BY <1>2, <1>3 DEF TicketsInv
<1> QED
  BY <1>1, <1>3, <1>7, <1>8, <1>9 DEF TicketsInv

LEMMA TicketsRevoked ==
  ASSUME TicketsInv, NEW l \in Login, Logoff(l)
  PROVE  TicketsInv'
<1>1. l \in open /\ open' = open \ {l}
  BY DEF Logoff
<1>2. /\ IsMap(realmTickets', Login) /\ realmTickets'[l] = <<>>
      /\ \A k \in Login \ {l} : realmTickets'[k] = realmTickets[k]
  BY DEF Logoff, TicketsInv, IsMap
<1>3. /\ DOMAIN tickets' = DOMAIN tickets \ Range(realmTickets[l])
      /\ \A i \in DOMAIN tickets' : tickets'[i] = tickets[i]
  BY DEF Logoff, RevokeRealmTickets, Without
<1>4. \A k \in open' : k \in open /\ k # l /\ k \in Login /\ Range(realmTickets'[k]) = Range(realmTickets[k])
  BY <1>1, <1>2 DEF TicketsInv
<1>5. TicketsOfOpenLogins'
  <2>1. ASSUME NEW i \in DOMAIN tickets'
        PROVE  \E k \in open' : i \in Range(realmTickets'[k])
    <3>1. PICK k \in open : i \in Range(realmTickets[k])
      BY <1>3, <2>1 DEF TicketsInv, TicketsOfOpenLogins
    <3> QED
      BY <1>1, <1>3, <1>4, <2>1, <3>1
  <2>2. \A k \in open' : \A i \in Range(realmTickets'[k]) :
          i \in DOMAIN tickets' /\ tickets'[i].account = OwnerOf[k]
    BY <1>1, <1>3, <1>4 DEF TicketsInv, TicketsOfOpenLogins
  <2> QED
    BY <2>1, <2>2 DEF TicketsOfOpenLogins
<1>6. \A j, k \in open' : j # k => Range(realmTickets'[j]) \cap Range(realmTickets'[k]) = {}
  BY <1>4 DEF TicketsInv
<1>7. \A k \in Login : IsQueue(realmTickets'[k])
  BY <1>2, QueueEmpty DEF TicketsInv
<1> QED
  BY <1>1, <1>2, <1>5, <1>6, <1>7 DEF TicketsInv

(* A ticket handed to a client is good as long as the login that minted it *)
(* is up and no longer, for its account, in whatever order any number of   *)
(* logins mint, present and end (node.rs, mint_realm_ticket, realm_ticket  *)
(* and revoke_realm_ticket; session.rs, cleanup).                          *)
THEOREM TicketsEndWithLogins == Spec => []TicketsOfOpenLogins
<1> DEFINE theTickets == <<open, tickets, realmTickets>>
<1>1. TicketsInv => TicketsOfOpenLogins
  BY DEF TicketsInv
<1>2. TicketsInv /\ [Next]_vars => TicketsInv'
  <2> SUFFICES ASSUME TicketsInv, [Next]_vars PROVE TicketsInv'
    OBVIOUS
  <2>1. CASE UNCHANGED theTickets
    BY <2>1 DEF TicketsInv, TicketsOfOpenLogins
  <2>2. ASSUME NEW l \in Login, NEW id \in TicketId, LogonRealm(l, id)
        PROVE  TicketsInv'
    BY <2>2, TicketsMinted
  <2>3. ASSUME NEW l \in Login, Logoff(l)
        PROVE  TicketsInv'
    BY <2>3, TicketsRevoked
  <2>4. ASSUME NEW m \in Waiter, Packet(m)
        PROVE  UNCHANGED theTickets
    BY <2>4 DEF Packet, CharList, LadderData, GameList, CharCreate, CharLogon, CharDelete, CharUpgrade,
                GameInfo, JoinGame, CreateGame, Plays, Takes
  <2>5. ASSUME NEW m \in Waiter, Handler(m)
        PROVE  UNCHANGED theTickets
    BY <2>5 DEF Handler, Listed, CharCounted, CharCreated, CharLogonRead, CharLoggedOn, CharDeleted,
                CharUpgradeRead, CharUpgraded, ListPlaying, CreatePlaying, CreateIfAlive, JoinPlaying,
                JoinIfWelcome, GameReply, Resumes, ResumesCall
  <2>6. ASSUME NEW m \in Waiter,
               (\E id \in TicketId, matches \in BOOLEAN : Startup(m, id, matches)) \/ Close(m)
        PROVE  UNCHANGED theTickets
    BY <2>6 DEF Startup, Close
  <2>7. CASE EndSeason \/ SeasonEnded \/ \E i \in DOMAIN db.chars : GameServerSaves(i)
    BY <2>1, <2>7 DEF EndSeason, SeasonEnded, GameServerSaves
  <2>8. UNCHANGED realm \/ UNCHANGED vars => UNCHANGED theTickets
    BY DEF vars, realm
  <2> QED
    BY <2>1, <2>2, <2>3, <2>4, <2>5, <2>6, <2>7, <2>8 DEF Next
<1> QED
  BY <1>1, <1>2, TicketsStart, PTL DEF Spec
=================================================================================
