----------------------------- MODULE GamesProofs -----------------------------
(***************************************************************************)
(* Games and their results, for every set of sessions, accounts, games and *)
(* reports and any number of them: no listed game without its host, nobody *)
(* left waiting for the storage actor, and ladder records that hold        *)
(* whatever happens between the awaits of a result.                        *)
(***************************************************************************)
EXTENDS Games, FiniteSetTheorems, TLAPS

-----------------------------------------------------------------------------
(* Queues.                                                                 *)

IsQueue(q) == q \in Seq(Range(q))

LEMMA QueueEmpty == IsQueue(<<>>) /\ DOMAIN <<>> = {}
  BY DEF IsQueue

LEMMA QueueAppend ==
  ASSUME NEW q, IsQueue(q), NEW e
  PROVE  /\ IsQueue(Append(q, e))
         /\ \E n : /\ n \notin DOMAIN q /\ DOMAIN Append(q, e) = DOMAIN q \cup {n}
                   /\ Append(q, e)[n] = e
                   /\ \A i \in DOMAIN q : Append(q, e)[i] = q[i]
<1> DEFINE r == Append(q, e)
           S == Range(q) \cup {e}
<1>1. q \in Seq(S) /\ Len(q) \in Nat /\ DOMAIN q = 1 .. Len(q)
  BY DEF IsQueue
<1>2. r \in Seq(S) /\ Len(r) = Len(q) + 1 /\ DOMAIN r = 1 .. Len(q) + 1
  BY <1>1
<1>3. (\A i \in 1 .. Len(q) : r[i] = q[i]) /\ r[Len(q) + 1] = e
  BY <1>1
<1>4. \A i \in DOMAIN r : r[i] \in Range(r)
  BY DEF Range
<1> HIDE DEF r
<1>5. r \in Seq(Range(r))
  BY <1>2, <1>4
<1>6. /\ Len(q) + 1 \notin DOMAIN q /\ DOMAIN r = DOMAIN q \cup {Len(q) + 1}
      /\ r[Len(q) + 1] = e /\ \A i \in DOMAIN q : r[i] = q[i]
  BY <1>1, <1>2, <1>3
<1>7. IsQueue(r)
  BY <1>5 DEF IsQueue
<1> QED
  BY <1>6, <1>7 DEF r

LEMMA QueueTail ==
  ASSUME NEW q, IsQueue(q), q # <<>>
  PROVE  /\ IsQueue(Tail(q)) /\ 1 \in DOMAIN q /\ Head(q) = q[1]
         /\ \A i \in DOMAIN Tail(q) :
              i + 1 \in DOMAIN q /\ Tail(q)[i] = q[i + 1] /\ i \in Nat /\ i # 0
         /\ \A j \in DOMAIN q : j # 1 => j - 1 \in DOMAIN Tail(q) /\ Tail(q)[j - 1] = q[j]
<1> DEFINE r == Tail(q)
<1>1. q \in Seq(Range(q))
  BY DEF IsQueue
<1>2. r \in Seq(Range(q)) /\ Len(r) = Len(q) - 1 /\ DOMAIN r = 1 .. Len(q) - 1
  BY <1>1
<1>3. \A i \in 1 .. Len(q) - 1 : r[i] = q[i + 1]
  BY <1>1
<1>4. \A i \in DOMAIN r : r[i] \in Range(r)
  BY DEF Range
<1>5. Len(q) \in Nat /\ DOMAIN q = 1 .. Len(q) /\ Len(q) # 0
  BY <1>1
<1> HIDE DEF r
<1>6. r \in Seq(Range(r))
  BY <1>2, <1>4
<1>7. \A j \in DOMAIN q : j # 1 => j - 1 \in DOMAIN r /\ r[j - 1] = q[j]
  BY <1>2, <1>3, <1>5
<1> QED
  BY <1>1, <1>2, <1>3, <1>5, <1>6, <1>7 DEF IsQueue, r

-----------------------------------------------------------------------------
(* Those who wait.                                                         *)

(* A command in the queue has a sender that waits and has no answer.       *)
Waiting(e) == e.from \in Session /\ pc[e.from] # "idle" /\ reply[e.from] = NoReply

QueueInv ==
  /\ IsQueue(queue) /\ pc \in [Session -> PC]
  /\ DOMAIN reply = Session /\ DOMAIN job = Session
  /\ \A i \in DOMAIN queue : Waiting(queue[i])
  /\ \A i, j \in DOMAIN queue : queue[i].from = queue[j].from => i = j
  /\ \A s \in Session : reply[s] # NoReply => pc[s] # "idle"
  /\ \A s \in Session :
       pc[s] # "idle" /\ reply[s] = NoReply => \E i \in DOMAIN queue : queue[i].from = s

(* What a step of the session s, that leaves the others alone, leaves      *)
(* alone.                                                                  *)
Others(s) ==
  \A t \in Session \ {s} : pc'[t] = pc[t] /\ job'[t] = job[t] /\ reply'[t] = reply[t]

(* A handler stops to wait: it was not waiting, and now it is.             *)
LEMMA QueueAwait ==
  ASSUME QueueInv, NEW s \in Session, pc[s] = "idle" \/ Answered(s), NEW at \in PC \ {"idle"},
         NEW locals, NEW c, Await(s, at, locals, c)
  PROVE  /\ QueueInv' /\ Others(s) /\ pc'[s] = at /\ job'[s] = locals /\ UNCHANGED db
         /\ reply'[s] = NoReply \/ reply'[s] = <<Gone(c)>>
         /\ \A i \in DOMAIN queue' :
              \/ i \in DOMAIN queue /\ queue'[i] = queue[i] /\ queue[i].from # s
              \/ queue'[i].from = s /\ queue'[i].cmd = c
<1>1. \A i \in DOMAIN queue : queue[i].from # s
  BY DEF QueueInv, Waiting, Answered
<1>2. /\ pc' \in [Session -> PC] /\ pc'[s] = at /\ \A t \in Session : t # s => pc'[t] = pc[t]
      /\ DOMAIN job' = Session /\ job'[s] = locals /\ \A t \in Session : t # s => job'[t] = job[t]
  BY DEF QueueInv, Await
<1>3. UNCHANGED db
  BY DEF Await, Send
<1>4. CASE alive
  <2> DEFINE e == [from |-> s, cmd |-> c]
  <2>1. queue' = Append(queue, e) /\ reply' = [reply EXCEPT ![s] = NoReply]
    BY <1>4 DEF Await, Send
  <2>2. e.from = s /\ e.cmd = c
    OBVIOUS
  <2> HIDE DEF e
  <2>3. PICK n : /\ n \notin DOMAIN queue /\ DOMAIN queue' = DOMAIN queue \cup {n}
                 /\ queue'[n] = e /\ \A i \in DOMAIN queue : queue'[i] = queue[i]
    BY <2>1, QueueAppend DEF QueueInv
  <2>4. IsQueue(queue')
    BY <2>1, QueueAppend DEF QueueInv
  <2>5. DOMAIN reply' = Session /\ reply'[s] = NoReply /\ \A t \in Session : t # s => reply'[t] = reply[t]
    BY <2>1 DEF QueueInv
  <2>6. \A i \in DOMAIN queue' : Waiting(queue[i])'
    BY <1>1, <1>2, <2>2, <2>3, <2>5 DEF QueueInv, Waiting
  <2>7. \A i, j \in DOMAIN queue' : queue'[i].from = queue'[j].from => i = j
    BY <1>1, <2>2, <2>3 DEF QueueInv
  <2>8. \A t \in Session :
          pc'[t] # "idle" /\ reply'[t] = NoReply => \E i \in DOMAIN queue' : queue'[i].from = t
    BY <1>2, <2>2, <2>3, <2>5 DEF QueueInv
  <2>9. QueueInv'
    BY <1>2, <2>4, <2>5, <2>6, <2>7, <2>8 DEF QueueInv
  <2> QED
    BY <1>1, <1>2, <1>3, <2>2, <2>3, <2>5, <2>9 DEF Others
<1>5. CASE ~alive
  <2>1. queue' = queue /\ reply' = [reply EXCEPT ![s] = <<Gone(c)>>]
    BY <1>5 DEF Await, Send
  <2>2. /\ DOMAIN reply' = Session /\ reply'[s] = <<Gone(c)>>
        /\ \A t \in Session : t # s => reply'[t] = reply[t]
    BY <2>1 DEF QueueInv
  <2>3. reply'[s] # NoReply
    BY <2>2 DEF NoReply
  <2>4. QueueInv'
    BY <1>1, <1>2, <2>1, <2>2, <2>3 DEF QueueInv, Waiting
  <2> QED
    BY <1>1, <1>2, <1>3, <2>1, <2>2, <2>4 DEF Others
<1> QED
  BY <1>4, <1>5

(* A handler ends with its answer.                                         *)
LEMMA QueueFinish ==
  ASSUME QueueInv, NEW s \in Session, Answered(s), Finish(s)
  PROVE  QueueInv' /\ Others(s) /\ pc'[s] = "idle" /\ reply'[s] = NoReply /\ UNCHANGED <<db, queue>>
<1>1. \A i \in DOMAIN queue : queue[i].from # s
  BY DEF QueueInv, Waiting, Answered
<1>2. /\ pc' \in [Session -> PC] /\ pc'[s] = "idle" /\ \A t \in Session : t # s => pc'[t] = pc[t]
      /\ DOMAIN job' = Session /\ \A t \in Session : t # s => job'[t] = job[t]
  BY DEF QueueInv, Finish, PC
<1>3. DOMAIN reply' = Session /\ reply'[s] = NoReply /\ \A t \in Session : t # s => reply'[t] = reply[t]
  BY DEF QueueInv, Finish
<1>4. UNCHANGED <<db, queue>>
  BY DEF Finish
<1>5. QueueInv'
  BY <1>1, <1>2, <1>3, <1>4 DEF QueueInv, Waiting
<1> QED
  BY <1>2, <1>3, <1>4, <1>5 DEF Others

(* The actor answers the first command.                                    *)
LEMMA QueueServe ==
  ASSUME QueueInv, Serve, UNCHANGED <<pc, job>>
  PROVE  /\ QueueInv' /\ queue # <<>> /\ 1 \in DOMAIN queue
         /\ \E o \in Outcomes(db, queue[1].cmd) :
              /\ db' = o.db /\ reply'[queue[1].from] = <<o.reply>>
              /\ \A t \in Session \ {queue[1].from} : reply'[t] = reply[t]
         /\ \A i \in DOMAIN queue' : \E j \in DOMAIN queue : j # 1 /\ queue'[i] = queue[j]
<1> DEFINE e == queue[1]
<1>1. /\ IsQueue(queue') /\ 1 \in DOMAIN queue /\ Head(queue) = e /\ queue # <<>>
      /\ \A i \in DOMAIN queue' : i + 1 \in DOMAIN queue /\ queue'[i] = queue[i + 1] /\ i \in Nat /\ i # 0
      /\ \A j \in DOMAIN queue : j # 1 => j - 1 \in DOMAIN queue' /\ queue'[j - 1] = queue[j]
  BY QueueTail DEF Serve, QueueInv
<1>2. e.from \in Session /\ e.from # None
  BY <1>1, AccountsAssumption DEF QueueInv, Waiting
<1>3. PICK o \in Outcomes(db, e.cmd) : db' = o.db /\ reply' = [reply EXCEPT ![e.from] = <<o.reply>>]
  BY <1>1, <1>2 DEF Serve
<1>4. /\ DOMAIN reply' = Session /\ reply'[e.from] = <<o.reply>>
      /\ \A t \in Session \ {e.from} : reply'[t] = reply[t]
  BY <1>2, <1>3 DEF QueueInv
<1>5. reply'[e.from] # NoReply /\ pc[e.from] # "idle"
  BY <1>1, <1>4 DEF NoReply, QueueInv, Waiting
<1>6. \A i \in DOMAIN queue' : queue'[i].from # e.from
  BY <1>1 DEF QueueInv
<1>7. \A i \in DOMAIN queue' : Waiting(queue[i])'
  BY <1>1, <1>4, <1>6 DEF QueueInv, Waiting
<1>8. ASSUME NEW i \in DOMAIN queue', NEW j \in DOMAIN queue', queue'[i].from = queue'[j].from
      PROVE  i = j
  <2>1. i + 1 = j + 1
    BY <1>1, <1>8 DEF QueueInv
  <2> QED
    BY <1>1, <2>1
<1>9. ASSUME NEW t \in Session, pc'[t] # "idle", reply'[t] = NoReply
      PROVE  \E i \in DOMAIN queue' : queue'[i].from = t
  <2>1. t # e.from /\ reply[t] = NoReply
    BY <1>4, <1>5, <1>9
  <2>2. PICK j \in DOMAIN queue : queue[j].from = t
    BY <1>9, <2>1 DEF QueueInv
  <2> QED
    BY <1>1, <2>1, <2>2
<1>10. QueueInv'
  BY <1>1, <1>4, <1>5, <1>7, <1>8, <1>9 DEF QueueInv
<1>11. \A i \in DOMAIN queue' : \E j \in DOMAIN queue : j # 1 /\ queue'[i] = queue[j]
  <2> SUFFICES ASSUME NEW i \in DOMAIN queue'
               PROVE  \E j \in DOMAIN queue : j # 1 /\ queue'[i] = queue[j]
    OBVIOUS
  <2>1. i + 1 \in DOMAIN queue /\ i + 1 # 1 /\ queue'[i] = queue[i + 1]
    BY <1>1
  <2> QED
    BY <2>1
<1> QED
  BY <1>1, <1>3, <1>4, <1>10, <1>11

(* The actor dies, and everybody who waited has an answer.                 *)
LEMMA QueueDie ==
  ASSUME QueueInv, Die, UNCHANGED <<pc, job>>
  PROVE  /\ QueueInv' /\ UNCHANGED db /\ DOMAIN queue' = {}
         /\ \A s \in Session :
              \/ reply'[s] = reply[s]
              \/ \E i \in DOMAIN queue : queue[i].from = s /\ reply'[s] = <<Gone(queue[i].cmd)>>
<1>1. queue' = <<>> /\ IsQueue(queue') /\ DOMAIN queue' = {} /\ UNCHANGED db
  BY QueueEmpty DEF Die
<1>2. DOMAIN reply' = Session
  BY GamesAssumption DEF Die
<1>3. ASSUME NEW s \in Session
      PROVE  \/ reply'[s] = reply[s] /\ ~\E i \in DOMAIN queue : queue[i].from = s
             \/ \E i \in DOMAIN queue : queue[i].from = s /\ reply'[s] = <<Gone(queue[i].cmd)>>
  <2>1. CASE \E i \in DOMAIN queue : queue[i].from = s
    <3> DEFINE i == CHOOSE i \in DOMAIN queue : queue[i].from = s
    <3>1. i \in DOMAIN queue /\ queue[i].from = s
      BY <2>1
    <3>2. reply'[s] = <<Gone(queue[i].cmd)>>
      BY <2>1, GamesAssumption DEF Die
    <3> QED
      BY <3>1, <3>2
  <2>2. CASE ~\E i \in DOMAIN queue : queue[i].from = s
    BY <2>2, GamesAssumption DEF Die
  <2> QED
    BY <2>1, <2>2
<1>4. ASSUME NEW s \in Session PROVE reply'[s] # NoReply <=> pc'[s] # "idle"
  <2>1. \A v : <<v>> # NoReply
    BY DEF NoReply
  <2> QED
    BY <1>3, <2>1 DEF QueueInv, Waiting
<1>5. QueueInv'
  BY <1>1, <1>2, <1>4 DEF QueueInv
<1> QED
  BY <1>1, <1>3, <1>5

-----------------------------------------------------------------------------
(* Records in the database.                                                *)

WinsOf(d, id, p) == Get(d, id, RecordKey(p, 0, "wins"), 0)
RatingOf(d, id, p, l) == Get(d, id, RecordKey(p, l, "rating"), StartRating)
HighOf(d, id, p, l) == Get(d, id, RecordKey(p, l, "high rating"), StartRating)

DbTypes(d) ==
  /\ DOMAIN d = {"accounts", "nextId", "attrs", "chars"}
  /\ d.accounts = Accounts /\ DOMAIN d.attrs = DOMAIN Accounts
  /\ \A id \in DOMAIN d.attrs : \A k \in DOMAIN d.attrs[id] : d.attrs[id][k] \in Nat

(* LadderNeedsWins, of a database                                          *)
NeedsWins(d) ==
  \A id \in DOMAIN d.attrs : \A k \in DOMAIN d.attrs[id] :
    k[1] = "Record" /\ k[3] # 0 => WinsOf(d, id, k[2]) >= LadderMinWins

HighIsHigh(d) == \A id, p, l : l # 0 => HighOf(d, id, p, l) >= RatingOf(d, id, p, l)

DbOK(d) == DbTypes(d) /\ NeedsWins(d) /\ HighIsHigh(d)

(* What no command does to a record: take wins away, lower a high rating.  *)
Grows(d, e) ==
  /\ \A id, p : WinsOf(e, id, p) >= WinsOf(d, id, p)
  /\ \A id, p, l : l # 0 => HighOf(e, id, p, l) >= HighOf(d, id, p, l)

LEMMA RecordNat ==
  ASSUME NEW d, DbTypes(d), NEW id, NEW p, NEW l
  PROVE  WinsOf(d, id, p) \in Nat /\ HighOf(d, id, p, l) \in Nat /\ RatingOf(d, id, p, l) \in Nat
<1>1. 0 \in Nat /\ StartRating \in Nat
  BY DEF StartRating
<1>2. \A k, n : n \in Nat => Get(d, id, k, n) \in Nat
  BY DEF DbTypes, Get
<1> QED
  BY <1>1, <1>2 DEF WinsOf, HighOf, RatingOf

LEMMA GetNat ==
  ASSUME NEW d, DbTypes(d), NEW id, NEW k, NEW default \in Nat
  PROVE  Get(d, id, k, default) \in Nat
  BY DEF DbTypes, Get

LEMMA GrowsSame ==
  ASSUME NEW d, DbTypes(d)
  PROVE  Grows(d, d)
  BY RecordNat DEF Grows

(* attrs_put, by what it lets one read afterwards.                         *)
LEMMA PutFacts ==
  ASSUME NEW d, DbTypes(d), NEW id, NEW m, \A k \in DOMAIN m : m[k] \in Nat
  PROVE  LET e == PutAttrs(d, id, m) IN
         /\ DbTypes(e)
         /\ \A i \in DOMAIN Accounts :
              /\ i = id => DOMAIN e.attrs[i] = DOMAIN d.attrs[i] \cup DOMAIN m
              /\ i # id => e.attrs[i] = d.attrs[i]
         /\ \A i, k, default :
              Get(e, i, k, default) =
                IF i = id /\ i \in DOMAIN Accounts /\ k \in DOMAIN m THEN m[k]
                ELSE Get(d, i, k, default)
<1> DEFINE e == PutAttrs(d, id, m)
           v == Merged(d.attrs[id], m)
<1>1. CASE id \notin DOMAIN Accounts
  <2>1. e = d
    BY <1>1 DEF PutAttrs, DbTypes
  <2> QED
    BY <1>1, <2>1
<1>2. CASE id \in DOMAIN Accounts
  <2>1. DOMAIN v = DOMAIN d.attrs[id] \cup DOMAIN m /\ \A k \in DOMAIN v : v[k] = IF k \in DOMAIN m THEN m[k] ELSE d.attrs[id][k]
    BY DEF Merged
  <2>2. e = [d EXCEPT !.attrs[id] = v]
    BY <1>2 DEF PutAttrs, DbTypes
  <2> HIDE DEF e, v
  <2>3. DOMAIN e = DOMAIN d /\ e.accounts = d.accounts /\ e.attrs = [d.attrs EXCEPT ![id] = v]
    BY <2>2 DEF DbTypes
  <2>4. /\ DOMAIN e.attrs = DOMAIN Accounts /\ e.attrs[id] = v
        /\ \A i \in DOMAIN Accounts : i # id => e.attrs[i] = d.attrs[i]
    BY <1>2, <2>3 DEF DbTypes
  <2>5. DbTypes(e)
    BY <1>2, <2>1, <2>3, <2>4 DEF DbTypes
  <2>6. ASSUME NEW i, NEW k, NEW default
        PROVE  Get(e, i, k, default) =
                IF i = id /\ i \in DOMAIN Accounts /\ k \in DOMAIN m THEN m[k]
                ELSE Get(d, i, k, default)
    <3>1. CASE i = id
      BY <1>2, <2>1, <2>4, <3>1 DEF Get, DbTypes
    <3>2. CASE i # id
      BY <2>4, <3>2 DEF Get, DbTypes
    <3> QED
      BY <3>1, <3>2
  <2> QED
    BY <2>1, <2>4, <2>5, <2>6 DEF e
<1> QED
  BY <1>1, <1>2

(* A normal game counts.                                                   *)
LEMMA RecordGameOK ==
  ASSUME NEW d, DbOK(d), NEW c, NEW o \in RecordGame(d, c)
  PROVE  DbOK(o.db) /\ Grows(d, o.db)
<1> DEFINE k == RecordKey(c.product, 0, c.outcome)
           n == Get(d, c.id, k, 0) + 1
           m == [x \in {k} |-> n]
           e == PutAttrs(d, c.id, m)
<1>1. o.db = d \/ o.db = e
  BY DEF RecordGame, Done
<1>2. Get(d, c.id, k, 0) \in Nat /\ n \in Nat /\ n >= Get(d, c.id, k, 0)
  <2>1. Get(d, c.id, k, 0) \in Nat
    BY GetNat DEF DbOK
  <2> QED
    BY <2>1
<1>3. DOMAIN m = {k} /\ m[k] = n
  OBVIOUS
<1> HIDE DEF m, n
<1>4. /\ DbTypes(e)
      /\ \A i \in DOMAIN Accounts :
           /\ i = c.id => DOMAIN e.attrs[i] = DOMAIN d.attrs[i] \cup {k}
           /\ i # c.id => e.attrs[i] = d.attrs[i]
      /\ \A i, x, default :
           Get(e, i, x, default) =
             IF i = c.id /\ i \in DOMAIN Accounts /\ x = k THEN n ELSE Get(d, i, x, default)
  BY <1>2, <1>3, PutFacts DEF DbOK
<1> HIDE DEF e
<1>5. ASSUME NEW i, NEW p PROVE WinsOf(e, i, p) >= WinsOf(d, i, p) /\ WinsOf(e, i, p) \in Nat /\ WinsOf(d, i, p) \in Nat
  <2>1. Get(d, i, RecordKey(p, 0, "wins"), 0) \in Nat
    BY GetNat DEF DbOK
  <2> QED
    BY <1>2, <1>4, <2>1 DEF WinsOf
<1>6. ASSUME NEW i, NEW p, NEW l, l # 0
      PROVE  HighOf(e, i, p, l) = HighOf(d, i, p, l) /\ RatingOf(e, i, p, l) = RatingOf(d, i, p, l)
  <2>1. k[3] = 0 /\ RecordKey(p, l, "high rating")[3] = l /\ RecordKey(p, l, "rating")[3] = l
    BY DEF RecordKey
  <2>2. RecordKey(p, l, "high rating") # k /\ RecordKey(p, l, "rating") # k
    BY <1>6, <2>1
  <2> QED
    BY <1>4, <2>2 DEF HighOf, RatingOf
<1>7. HighIsHigh(e)
  BY <1>6 DEF HighIsHigh, DbOK
<1>8. Grows(d, e)
  <2>1. \A i, p, l : HighOf(d, i, p, l) \in Nat
    BY RecordNat DEF DbOK
  <2> QED
    BY <1>5, <1>6, <2>1 DEF Grows
<1>9. NeedsWins(e)
  <2> SUFFICES ASSUME NEW i \in DOMAIN e.attrs, NEW x \in DOMAIN e.attrs[i], x[1] = "Record", x[3] # 0
               PROVE  WinsOf(e, i, x[2]) >= LadderMinWins
    BY DEF NeedsWins
  <2>1. x # k
    BY DEF RecordKey
  <2>2. i \in DOMAIN d.attrs /\ x \in DOMAIN d.attrs[i]
    BY <1>4, <2>1 DEF DbOK, DbTypes
  <2>3. WinsOf(d, i, x[2]) >= LadderMinWins
    BY <2>2 DEF DbOK, NeedsWins
  <2> QED
    BY <1>5, <2>3, GamesAssumption
<1> QED
  BY <1>1, <1>4, <1>7, <1>8, <1>9, GrowsSame DEF DbOK

LEMMA RatingIsNumber ==
  ASSUME NEW r \in Nat, NEW opponent \in Int, NEW outcome
  PROVE  RatingAfter(r, opponent, outcome) \in Nat
<1>1. Score(outcome) \in Int
  BY DEF Score
<1>2. Expected(r, opponent) \in Int
  <2> DEFINE d == opponent - r
             at == IF d > Saturation THEN Saturation ELSE AtLeast(-Saturation, d)
  <2>1. at \in -Saturation .. Saturation
    BY LadderAssumption DEF AtLeast
  <2> DEFINE differences == -Saturation .. Saturation
  <2>2. ExpectedBy \in [differences -> 0 .. 1000] /\ at \in differences
    BY <2>1, LadderAssumption
  <2> HIDE DEF at, differences
  <2>3. ExpectedBy[at] \in 0 .. 1000
    BY <2>2
  <2> QED
    BY <2>3 DEF Expected, at
<1>3. ASSUME NEW n \in Int PROVE Rounded(n) \in Int
  BY DEF Rounded
<1>4. 1000 * r + KFactor * (Score(outcome) - Expected(r, opponent)) \in Int
  BY <1>1, <1>2 DEF KFactor
<1>5. ASSUME NEW n \in Int PROVE AtLeast(1, n) \in Nat
  BY DEF AtLeast
<1> QED
  BY <1>3, <1>4, <1>5 DEF RatingAfter

(* A ladder game counts, for a player with the wins.                       *)
LEMMA RecordLadderGameOK ==
  ASSUME NEW d, DbOK(d), NEW c, c.league # 0, c.opponent \in Int,
         WinsOf(d, c.id, c.product) >= LadderMinWins, NEW o \in RecordLadderGame(d, c)
  PROVE  DbOK(o.db) /\ Grows(d, o.db)
<1> DEFINE rk == LadderKey(c, "rating")
           hk == LadderKey(c, "high rating")
           ok == LadderKey(c, c.outcome)
           old == Get(d, c.id, hk, StartRating)
           next == RatingAfter(Get(d, c.id, rk, StartRating), c.opponent, c.outcome)
           high == AtLeast(next, old)
           m == LadderEntry(d, c, next, high)
           e == PutAttrs(d, c.id, m)
<1>1. o.db = d \/ o.db = e
  <2>1. RecordLadderGame(d, c) = {Done(d, Error), Done(e, next)}
    BY DEF RecordLadderGame
  <2> HIDE DEF e, next
  <2> QED
    BY <2>1 DEF Done
<1>2. old \in Nat /\ next \in Nat /\ high \in Nat /\ high >= next /\ high >= old
  <2>1. StartRating \in Nat
    BY DEF StartRating
  <2>2. old \in Nat /\ Get(d, c.id, rk, StartRating) \in Nat
    BY <2>1, GetNat DEF DbOK
  <2>3. next \in Nat
    BY <2>2, RatingIsNumber
  <2> HIDE DEF next, old
  <2> QED
    BY <2>2, <2>3 DEF AtLeast
<1>3. /\ rk[1] = "Record" /\ rk[2] = c.product /\ rk[3] = c.league /\ rk[4] = "rating"
      /\ hk[1] = "Record" /\ hk[2] = c.product /\ hk[3] = c.league /\ hk[4] = "high rating"
      /\ ok[2] = c.product /\ ok[3] = c.league
  BY DEF LadderKey, RecordKey
<1>4. rk # hk
  BY <1>3
<1>5. Get(d, c.id, ok, 0) \in Nat
  BY GetNat DEF DbOK
<1>6. DOMAIN m = {ok, rk, hk} /\ m[rk] = next /\ m[hk] = high /\ \A x \in DOMAIN m : m[x] \in Nat
  <2> DEFINE leaves == {c.outcome, "rating", "high rating"}
             keys == {LadderKey(c, leaf) : leaf \in leaves}
             val(k) == CASE k = rk -> next [] k = hk -> high [] OTHER -> Get(d, c.id, k, 0) + 1
  <2>1. m = [k \in keys |-> val(k)]
    BY DEF LadderEntry
  <2>2. keys = {ok, rk, hk}
    OBVIOUS
  <2>3. val(rk) = next /\ val(hk) = high
    BY <1>4
  <2>4. \A x \in keys : val(x) \in Nat
    <3> HIDE DEF next, high, ok, rk, hk
    <3> SUFFICES ASSUME NEW x \in {ok, rk, hk} PROVE val(x) \in Nat
      BY <2>2
    <3>1. Get(d, c.id, x, 0) \in Nat
      BY GetNat DEF DbOK
    <3> QED
      BY <1>2, <3>1
  <2> HIDE DEF keys, val, m, next, high, ok, rk, hk
  <2> QED
    BY <2>1, <2>2, <2>3, <2>4
<1> HIDE DEF m, next, high, old, rk, hk, ok
<1>7. /\ DbTypes(e)
      /\ \A i \in DOMAIN Accounts :
           /\ i = c.id => DOMAIN e.attrs[i] = DOMAIN d.attrs[i] \cup DOMAIN m
           /\ i # c.id => e.attrs[i] = d.attrs[i]
      /\ \A i, x, default :
           Get(e, i, x, default) =
             IF i = c.id /\ i \in DOMAIN Accounts /\ x \in DOMAIN m THEN m[x]
             ELSE Get(d, i, x, default)
  BY <1>6, PutFacts DEF DbOK
<1> HIDE DEF e
<1>8. \A x \in DOMAIN m : x[2] = c.product /\ x[3] = c.league
  BY <1>3, <1>6
<1>9. ASSUME NEW i, NEW p PROVE WinsOf(e, i, p) = WinsOf(d, i, p)
  <2>1. RecordKey(p, 0, "wins")[3] = 0
    BY DEF RecordKey
  <2>2. RecordKey(p, 0, "wins") \notin DOMAIN m
    BY <1>8, <2>1
  <2> QED
    BY <1>7, <2>2 DEF WinsOf
<1>10. ASSUME NEW i, NEW p, NEW l, l # 0
       PROVE  /\ HighOf(e, i, p, l) >= HighOf(d, i, p, l)
              /\ HighOf(e, i, p, l) >= RatingOf(e, i, p, l)
  <2> DEFINE r == RecordKey(p, l, "rating")
             h == RecordKey(p, l, "high rating")
  <2>0. /\ HighOf(d, i, p, l) \in Nat /\ RatingOf(d, i, p, l) \in Nat
        /\ HighOf(d, i, p, l) >= RatingOf(d, i, p, l)
    BY <1>10, RecordNat DEF DbOK, HighIsHigh
  <2>1. CASE i = c.id /\ i \in DOMAIN Accounts /\ p = c.product /\ l = c.league
    <3>1. r = rk /\ h = hk
      BY <2>1 DEF LadderKey, rk, hk
    <3> HIDE DEF r, h
    <3>2. HighOf(e, i, p, l) = high /\ RatingOf(e, i, p, l) = next
      <4>1. Get(e, i, h, StartRating) = high /\ Get(e, i, r, StartRating) = next
        BY <1>6, <1>7, <2>1, <3>1
      <4> QED
        BY <4>1 DEF HighOf, RatingOf, h, r
    <3>3. HighOf(d, i, p, l) = old
      BY <2>1, <3>1 DEF HighOf, old, h
    <3> QED
      BY <1>2, <3>2, <3>3
  <2>2. CASE ~(i = c.id /\ i \in DOMAIN Accounts /\ p = c.product /\ l = c.league)
    <3>1. r[2] = p /\ r[3] = l /\ h[2] = p /\ h[3] = l
      BY DEF RecordKey
    <3> HIDE DEF r, h
    <3>2. /\ Get(e, i, h, StartRating) = Get(d, i, h, StartRating)
          /\ Get(e, i, r, StartRating) = Get(d, i, r, StartRating)
      BY <1>7, <1>8, <2>2, <3>1
    <3>3. HighOf(e, i, p, l) = HighOf(d, i, p, l) /\ RatingOf(e, i, p, l) = RatingOf(d, i, p, l)
      BY <3>2 DEF HighOf, RatingOf, r, h
    <3> QED
      BY <2>0, <3>3
  <2> QED
    BY <2>1, <2>2
<1>11. HighIsHigh(e)
  BY <1>10 DEF HighIsHigh
<1>12. Grows(d, e)
  <2>1. \A i, p : WinsOf(d, i, p) \in Nat
    BY RecordNat DEF DbOK
  <2> QED
    BY <1>9, <1>10, <2>1 DEF Grows
<1>13. NeedsWins(e)
  <2> SUFFICES ASSUME NEW i \in DOMAIN e.attrs, NEW x \in DOMAIN e.attrs[i], x[1] = "Record", x[3] # 0
               PROVE  WinsOf(e, i, x[2]) >= LadderMinWins
    BY DEF NeedsWins
  <2>1. i \in DOMAIN Accounts /\ i \in DOMAIN d.attrs
    BY <1>7 DEF DbOK, DbTypes
  <2>2. CASE x \in DOMAIN d.attrs[i]
    BY <1>9, <2>1, <2>2 DEF DbOK, NeedsWins
  <2>3. CASE x \notin DOMAIN d.attrs[i]
    <3>1. i = c.id /\ x \in DOMAIN m
      BY <1>7, <2>1, <2>3
    <3> QED
      BY <1>8, <1>9, <3>1
  <2> QED
    BY <2>2, <2>3
<1> QED
  BY <1>1, <1>7, <1>11, <1>12, <1>13, GrowsSame DEF DbOK

(* What a read answers with, and the answer of an actor that is gone, are  *)
(* numbers.                                                                *)
Numbers(f) == \A k \in DOMAIN f : f[k] \in Nat

LEMMA ReadOK ==
  ASSUME NEW d, DbTypes(d), NEW c, NEW o \in ReadReadableAttrs(d, c)
  PROVE  /\ o.db = d /\ Numbers(o.reply)
         /\ \A id \in DOMAIN Accounts : c.name = Accounts[id].name =>
              \A k \in DOMAIN o.reply : k \in DOMAIN d.attrs[id] /\ o.reply[k] = d.attrs[id][k]
<1> DEFINE id == ByName(d, c.name)
<1>1. /\ o.db = d
      /\ o.reply = <<>> \/ (id # None /\ o.reply = ReadableAttrs(d, id, c.keys))
  BY DEF ReadReadableAttrs, Done
<1>2. id # None => id \in DOMAIN Accounts /\ Accounts[id].name = c.name
  BY DEF ByName, DbTypes
<1> HIDE DEF id
<1>3. CASE o.reply = <<>>
  <2>1. DOMAIN o.reply = {}
    BY <1>3
  <2> QED
    BY <1>1, <2>1 DEF Numbers
<1>4. CASE id # None /\ o.reply = ReadableAttrs(d, id, c.keys)
  <2>1. \A k \in DOMAIN o.reply : k \in DOMAIN d.attrs[id] /\ o.reply[k] = d.attrs[id][k]
    BY <1>4 DEF ReadableAttrs
  <2>2. \A j \in DOMAIN Accounts : c.name = Accounts[j].name => j = id
    BY <1>2, <1>4, AccountsAssumption
  <2> QED
    BY <1>1, <1>2, <1>4, <2>1, <2>2 DEF Numbers, DbTypes
<1> QED
  BY <1>1, <1>3, <1>4

-----------------------------------------------------------------------------
(* Handlers and their commands.                                            *)

Ops == {"ReadReadableAttrs", "RecordGame", "RecordLadderGame", "LadderRows"}

Ready(id, p) == WinsOf(db, id, p) >= LadderMinWins

(* A ladder game on its way to storage is that of a player with the wins,  *)
(* and a question about wins is about those of the asker.                  *)
CmdOK(e) ==
  /\ e.cmd.op \in Ops
  /\ e.cmd.op = "RecordLadderGame" =>
       e.cmd.league # 0 /\ e.cmd.opponent \in Int /\ Ready(e.cmd.id, e.cmd.product)
  /\ pc[e.from] \in {"eligible", "rating"} => e.cmd.op = "ReadReadableAttrs"
  /\ pc[e.from] = "eligible" => e.cmd.name = Accounts[account[e.from]].name

JobOK(s) ==
  /\ pc[s] # "idle" => account[s] # None
  /\ pc[s] \in {"eligible", "rating"} => job[s].n # 0
  /\ pc[s] \in {"eligible", "rating"} /\ Answered(s) => Numbers(Answer(s))
  /\ pc[s] = "eligible" /\ Answered(s) => Wins(s) <= WinsOf(db, account[s], ProductOf[s])
  /\ pc[s] = "rating" =>
       job[s].sum \in Nat /\ job[s].rated \in Nat /\ Ready(account[s], ProductOf[s])

(* Every listed game has a host who is logged on.                          *)
Hosted ==
  \A n \in DOMAIN games :
    games[n].host # None /\ \E h \in Session : account[h] = games[n].host

GamesInv ==
  /\ QueueInv /\ DbOK(db)
  /\ account \in [Session -> DOMAIN Accounts \cup {None}] /\ Hosted
  /\ \A i \in DOMAIN queue : CmdOK(queue[i])
  /\ \A s \in Session : JobOK(s)

(* What others wait for survives a step in which records only grow.        *)
LEMMA JobKept ==
  ASSUME GamesInv, DbOK(db'), Grows(db, db'), NEW t \in Session, account'[t] = account[t],
         pc'[t] = pc[t], job'[t] = job[t], reply'[t] = reply[t]
  PROVE  JobOK(t)'
<1>1. JobOK(t)
  BY DEF GamesInv
<1>2. /\ WinsOf(db', account[t], ProductOf[t]) >= WinsOf(db, account[t], ProductOf[t])
      /\ WinsOf(db', account[t], ProductOf[t]) \in Nat /\ WinsOf(db, account[t], ProductOf[t]) \in Nat
  BY RecordNat DEF Grows, GamesInv, DbOK
<1>3. Answered(t) <=> (Answered(t))'
  BY DEF Answered
<1>4. Answer(t)' = Answer(t) /\ Wins(t)' = Wins(t)
  BY DEF Answer, Wins, WinsKey
<1>5. ASSUME pc[t] = "eligible", Answered(t) PROVE Wins(t) \in Nat
  BY <1>1, <1>5 DEF JobOK, Wins, Numbers
<1>6. Ready(account[t], ProductOf[t]) => Ready(account[t], ProductOf[t])'
  BY <1>2, GamesAssumption DEF Ready
<1>7. (pc[t] = "eligible" /\ Answered(t))' => (Wins(t) <= WinsOf(db, account[t], ProductOf[t]))'
  BY <1>1, <1>2, <1>3, <1>4, <1>5 DEF JobOK
<1> QED
  BY <1>1, <1>3, <1>4, <1>6, <1>7 DEF JobOK

LEMMA CmdKept ==
  ASSUME GamesInv, DbOK(db'), Grows(db, db'), NEW e, CmdOK(e), pc'[e.from] = pc[e.from],
         account'[e.from] = account[e.from]
  PROVE  CmdOK(e)'
<1>1. /\ WinsOf(db', e.cmd.id, e.cmd.product) >= WinsOf(db, e.cmd.id, e.cmd.product)
      /\ WinsOf(db', e.cmd.id, e.cmd.product) \in Nat /\ WinsOf(db, e.cmd.id, e.cmd.product) \in Nat
  BY RecordNat DEF Grows, GamesInv, DbOK
<1>2. Ready(e.cmd.id, e.cmd.product) => Ready(e.cmd.id, e.cmd.product)'
  BY <1>1, GamesAssumption DEF Ready
<1> QED
  BY <1>2 DEF CmdOK

(* A handler stops to wait, with a command and locals that fit.            *)
LEMMA AwaitOK ==
  ASSUME GamesInv, NEW s \in Session, pc[s] = "idle" \/ Answered(s), NEW at \in PC \ {"idle"},
         NEW locals, NEW c, Await(s, at, locals, c), UNCHANGED <<account, games>>, account[s] # None,
         c.op \in Ops,
         c.op = "RecordLadderGame" => c.league # 0 /\ c.opponent \in Int /\ Ready(c.id, c.product),
         at \in {"eligible", "rating"} => c.op = "ReadReadableAttrs" /\ locals.n # 0,
         at = "eligible" => c.name = Accounts[account[s]].name,
         at = "rating" => locals.sum \in Nat /\ locals.rated \in Nat /\ Ready(account[s], ProductOf[s])
  PROVE  GamesInv' /\ UNCHANGED db
<1>1. /\ QueueInv' /\ Others(s) /\ pc'[s] = at /\ job'[s] = locals /\ UNCHANGED db
      /\ reply'[s] = NoReply \/ reply'[s] = <<Gone(c)>>
      /\ \A i \in DOMAIN queue' :
           \/ i \in DOMAIN queue /\ queue'[i] = queue[i] /\ queue[i].from # s
           \/ queue'[i].from = s /\ queue'[i].cmd = c
  BY QueueAwait DEF GamesInv
<1>2. DbOK(db') /\ Grows(db, db')
  BY <1>1, GrowsSame DEF GamesInv, DbOK
<1>3. \A t \in Session \ {s} : JobOK(t)'
  BY <1>1, <1>2, JobKept DEF Others
<1>4. JobOK(s)'
  <2>1. WinsOf(db', account[s], ProductOf[s]) \in Nat
    BY <1>2, RecordNat DEF DbOK
  <2>2. ASSUME at \in {"eligible", "rating"}, (Answered(s))' PROVE Answer(s)' = <<>>
    <3>1. Gone(c) = <<>>
      BY <2>2 DEF Gone
    <3> QED
      BY <1>1, <2>2, <3>1 DEF Answered, Answer
  <2>3. DOMAIN <<>> = {}
    OBVIOUS
  <2>4. ASSUME at \in {"eligible", "rating"}, (Answered(s))' PROVE Numbers(Answer(s)') /\ Wins(s)' = 0
    BY <2>2, <2>3, <2>4 DEF Numbers, Wins
  <2>5. Ready(account[s], ProductOf[s]) => Ready(account[s], ProductOf[s])'
    BY <1>1 DEF Ready
  <2> QED
    BY <1>1, <2>1, <2>4, <2>5 DEF JobOK
<1>5. ASSUME NEW i \in DOMAIN queue' PROVE CmdOK(queue[i])'
  <2>1. CASE i \in DOMAIN queue /\ queue'[i] = queue[i] /\ queue[i].from # s
    <3>1. queue[i].from \in Session \ {s}
      BY <2>1 DEF GamesInv, QueueInv, Waiting
    <3>2. CmdOK(queue[i])
      BY <2>1 DEF GamesInv
    <3>3. pc'[queue[i].from] = pc[queue[i].from]
      BY <1>1, <3>1 DEF Others
    <3> QED
      BY <1>1, <2>1, <3>2, <3>3 DEF CmdOK, Ready
  <2>2. CASE queue'[i].from = s /\ queue'[i].cmd = c
    BY <1>1, <2>2 DEF CmdOK, Ready
  <2> QED
    BY <1>1, <1>5, <2>1, <2>2
<1>6. account' \in [Session -> DOMAIN Accounts \cup {None}] /\ Hosted'
  BY DEF GamesInv, Hosted
<1> QED
  BY <1>1, <1>2, <1>3, <1>4, <1>5, <1>6 DEF GamesInv

(* A handler ends.                                                         *)
LEMMA FinishOK ==
  ASSUME GamesInv, NEW s \in Session, Answered(s), Finish(s), UNCHANGED account, Hosted'
  PROVE  GamesInv' /\ UNCHANGED db
<1>1. QueueInv' /\ Others(s) /\ pc'[s] = "idle" /\ UNCHANGED <<db, queue>>
  BY QueueFinish DEF GamesInv
<1>2. DbOK(db') /\ Grows(db, db')
  BY <1>1, GrowsSame DEF GamesInv, DbOK
<1>3. \A t \in Session \ {s} : JobOK(t)'
  BY <1>1, <1>2, JobKept DEF Others
<1>4. JobOK(s)'
  BY <1>1 DEF JobOK
<1>5. ASSUME NEW i \in DOMAIN queue PROVE CmdOK(queue[i])'
  <2>1. queue[i].from \in Session \ {s} /\ CmdOK(queue[i])
    BY <1>5 DEF GamesInv, QueueInv, Waiting, Answered
  <2>2. pc'[queue[i].from] = pc[queue[i].from]
    BY <1>1, <2>1 DEF Others
  <2> QED
    BY <1>1, <2>1, <2>2 DEF CmdOK, Ready
<1> QED
  BY <1>1, <1>2, <1>3, <1>4, <1>5 DEF GamesInv

(* A step of the directory alone, of a session that is not in a handler.   *)
LEMMA DirectoryOK ==
  ASSUME GamesInv, NEW s \in Session, pc[s] = "idle", UNCHANGED <<pc, job, storage>>,
         account' \in [Session -> DOMAIN Accounts \cup {None}],
         \A t \in Session \ {s} : account'[t] = account[t], Hosted'
  PROVE  GamesInv' /\ UNCHANGED db
<1>1. UNCHANGED <<db, queue, reply>>
  BY DEF storage
<1>2. QueueInv'
  BY <1>1 DEF GamesInv, QueueInv, Waiting
<1>3. DbOK(db') /\ Grows(db, db')
  BY <1>1, GrowsSame DEF GamesInv, DbOK
<1>4. \A t \in Session \ {s} : JobOK(t)'
  BY <1>1, <1>3, JobKept
<1>5. JobOK(s)'
  BY DEF JobOK
<1>6. ASSUME NEW i \in DOMAIN queue PROVE CmdOK(queue[i])'
  <2>1. queue[i].from \in Session \ {s} /\ CmdOK(queue[i])
    BY <1>6 DEF GamesInv, QueueInv, Waiting
  <2> QED
    BY <1>1, <2>1 DEF CmdOK, Ready
<1> QED
  BY <1>1, <1>2, <1>3, <1>4, <1>5, <1>6 DEF GamesInv

-----------------------------------------------------------------------------
(* The actor.                                                              *)

LEMMA OutcomeOK ==
  ASSUME GamesInv, NEW e, CmdOK(e), NEW o \in Outcomes(db, e.cmd)
  PROVE  /\ DbOK(o.db) /\ Grows(db, o.db)
         /\ e.cmd.op = "ReadReadableAttrs" => o.db = db /\ o \in ReadReadableAttrs(db, e.cmd)
<1> DEFINE c == e.cmd
<1>0. DbOK(db) /\ DbTypes(db)
  BY DEF GamesInv, DbOK
<1>1. CASE c.op = "ReadReadableAttrs"
  <2>1. Outcomes(db, c) = ReadReadableAttrs(db, c)
    BY <1>1 DEF Outcomes
  <2>2. o.db = db
    BY <1>0, <2>1, ReadOK
  <2> QED
    BY <1>0, <2>1, <2>2, GrowsSame
<1>2. CASE c.op = "RecordGame"
  <2>1. Outcomes(db, c) = RecordGame(db, c)
    BY <1>2 DEF Outcomes
  <2> QED
    BY <1>0, <1>2, <2>1, RecordGameOK
<1>3. CASE c.op = "RecordLadderGame"
  <2>1. Outcomes(db, c) = RecordLadderGame(db, c)
    BY <1>3 DEF Outcomes
  <2>2. c.league # 0 /\ c.opponent \in Int /\ WinsOf(db, c.id, c.product) >= LadderMinWins
    BY <1>3 DEF CmdOK, Ready
  <2> QED
    BY <1>0, <1>3, <2>1, <2>2, RecordLadderGameOK
<1>4. CASE c.op = "LadderRows"
  <2>1. Outcomes(db, c) = LadderRows(db, c)
    BY <1>4 DEF Outcomes
  <2>2. o.db = db
    BY <2>1 DEF LadderRows, Done
  <2> QED
    BY <1>0, <1>4, <2>2, GrowsSame
<1> QED
  BY <1>1, <1>2, <1>3, <1>4 DEF CmdOK, Ops

LEMMA ServeOK ==
  ASSUME GamesInv, Serve, UNCHANGED <<account, games, pc, job>>
  PROVE  GamesInv' /\ Grows(db, db')
<1>1. QueueInv' /\ 1 \in DOMAIN queue
  BY QueueServe DEF GamesInv
<1>0. PICK e, s : e = queue[1] /\ s = e.from
  OBVIOUS
<1>2. \A i \in DOMAIN queue' : \E j \in DOMAIN queue : queue'[i] = queue[j]
  BY QueueServe DEF GamesInv
<1>3. PICK o \in Outcomes(db, e.cmd) :
        /\ db' = o.db /\ reply'[s] = <<o.reply>>
        /\ \A t \in Session \ {s} : reply'[t] = reply[t]
  BY <1>0, QueueServe DEF GamesInv
<1>4. CmdOK(e) /\ s \in Session /\ pc[s] # "idle"
  BY <1>0, <1>1 DEF GamesInv, QueueInv, Waiting
<1>5. /\ DbOK(db') /\ Grows(db, db')
      /\ e.cmd.op = "ReadReadableAttrs" => db' = db /\ o \in ReadReadableAttrs(db, e.cmd)
  BY <1>3, <1>4, OutcomeOK
<1>6. \A t \in Session \ {s} : JobOK(t)'
  BY <1>3, <1>5, JobKept
<1>7. JobOK(s)'
  <2>1. JobOK(s) /\ account[s] \in DOMAIN Accounts
    BY <1>4 DEF GamesInv, JobOK
  <2>2. Answer(s)' = o.reply
    BY <1>3 DEF Answer
  <2>3. ASSUME pc[s] \in {"eligible", "rating"}
        PROVE  e.cmd.op = "ReadReadableAttrs" /\ Numbers(o.reply) /\ db' = db
    <3>1. e.cmd.op = "ReadReadableAttrs"
      BY <1>0, <1>4, <2>3 DEF CmdOK
    <3>2. DbTypes(db)
      BY DEF GamesInv, DbOK
    <3> QED
      BY <1>5, <3>1, <3>2, ReadOK
  <2>4. ASSUME pc[s] = "eligible"
        PROVE  (Wins(s) <= WinsOf(db, account[s], ProductOf[s]))'
    <3>1. e.cmd.name = Accounts[account[s]].name
      BY <1>0, <1>4, <2>4 DEF CmdOK
    <3>2. DbTypes(db) /\ DOMAIN db.attrs = DOMAIN Accounts
      BY DEF GamesInv, DbOK, DbTypes
    <3>3. \A k \in DOMAIN o.reply :
            k \in DOMAIN db.attrs[account[s]] /\ o.reply[k] = db.attrs[account[s]][k]
      BY <1>5, <2>1, <2>3, <2>4, <3>1, <3>2, ReadOK
    <3>4. WinsOf(db, account[s], ProductOf[s]) \in Nat
      BY <3>2, RecordNat
    <3>5. WinsOf(db, account[s], ProductOf[s]) = Get(db, account[s], WinsKey(s), 0)
      BY DEF WinsOf, WinsKey
    <3>6. Wins(s)' = IF WinsKey(s) \in DOMAIN o.reply THEN o.reply[WinsKey(s)] ELSE 0
      BY <2>2 DEF Wins, WinsKey
    <3>7. Wins(s)' <= WinsOf(db, account[s], ProductOf[s])
      BY <2>1, <3>2, <3>3, <3>4, <3>5, <3>6 DEF Get
    <3> QED
      BY <2>3, <2>4, <3>7
  <2>5. Ready(account[s], ProductOf[s]) /\ pc[s] = "rating" => Ready(account[s], ProductOf[s])'
    BY <2>3 DEF Ready
  <2> QED
    BY <2>1, <2>2, <2>3, <2>4, <2>5 DEF JobOK
<1>8. ASSUME NEW i \in DOMAIN queue' PROVE CmdOK(queue[i])'
  <2>1. PICK j \in DOMAIN queue : queue'[i] = queue[j]
    BY <1>2, <1>8
  <2>2. CmdOK(queue[j])
    BY DEF GamesInv
  <2>3. ASSUME NEW x, CmdOK(x) PROVE CmdOK(x)'
    BY <1>5, <2>3, CmdKept
  <2>4. \A x : x = queue[j] => CmdOK(x)'
    BY <2>2, <2>3
  <2> QED
    BY <2>1, <2>4 DEF CmdOK
<1>9. account' \in [Session -> DOMAIN Accounts \cup {None}] /\ Hosted'
  BY DEF GamesInv, Hosted
<1> QED
  BY <1>1, <1>5, <1>6, <1>7, <1>8, <1>9 DEF GamesInv

LEMMA DieOK ==
  ASSUME GamesInv, Die, UNCHANGED <<account, games, pc, job>>
  PROVE  GamesInv' /\ UNCHANGED db
<1>1. QueueInv' /\ UNCHANGED db /\ DOMAIN queue' = {}
  BY QueueDie DEF GamesInv
<1>2. DbOK(db') /\ Grows(db, db')
  BY <1>1, GrowsSame DEF GamesInv, DbOK
<1>3. ASSUME NEW s \in Session PROVE JobOK(s)'
  <2>1. CASE reply'[s] = reply[s]
    BY <1>2, <2>1, JobKept
  <2>2. CASE \E i \in DOMAIN queue : queue[i].from = s /\ reply'[s] = <<Gone(queue[i].cmd)>>
    <3>1. PICK i \in DOMAIN queue : queue[i].from = s /\ reply'[s] = <<Gone(queue[i].cmd)>>
      BY <2>2
    <3>2. CmdOK(queue[i]) /\ JobOK(s)
      BY DEF GamesInv
    <3>3. ASSUME pc[s] \in {"eligible", "rating"} PROVE Answer(s)' = <<>>
      <4>1. Gone(queue[i].cmd) = <<>>
        BY <3>1, <3>2, <3>3 DEF CmdOK, Gone
      <4> QED
        BY <3>1, <4>1 DEF Answer
    <3>4. DOMAIN <<>> = {}
      OBVIOUS
    <3>5. ASSUME pc[s] \in {"eligible", "rating"} PROVE Numbers(Answer(s)') /\ Wins(s)' = 0
      BY <3>3, <3>4, <3>5 DEF Numbers, Wins
    <3>6. WinsOf(db', account[s], ProductOf[s]) \in Nat
      BY <1>2, RecordNat DEF DbOK
    <3>7. Ready(account[s], ProductOf[s]) => Ready(account[s], ProductOf[s])'
      BY <1>1 DEF Ready
    <3> QED
      BY <3>2, <3>5, <3>6, <3>7 DEF JobOK
  <2> QED
    BY <2>1, <2>2, QueueDie DEF GamesInv
<1>4. account' \in [Session -> DOMAIN Accounts \cup {None}] /\ Hosted'
  BY DEF GamesInv, Hosted
<1> QED
  BY <1>1, <1>2, <1>3, <1>4 DEF GamesInv

-----------------------------------------------------------------------------
(* The directory.                                                          *)

LEMMA AdvertisedOK ==
  ASSUME GamesInv, NEW s \in Session, NEW n, Advertised(s, n), UNCHANGED account, account[s] # None
  PROVE  Hosted'
<1>1. CASE games' = games
  BY <1>1 DEF GamesInv, Hosted
<1>2. CASE AdvertiseGame(s, n)
  <2> DEFINE g == [host |-> account[s], product |-> ProductOf[s]]
  <2>1. games' = Insert(games, n, g) /\ g.host = account[s]
    BY <1>2 DEF AdvertiseGame
  <2> HIDE DEF g
  <2>2. DOMAIN games' = DOMAIN games \cup {n} /\ \A x \in DOMAIN games' : games'[x] = IF x = n THEN g ELSE games[x]
    BY <2>1 DEF Insert
  <2> QED
    BY <2>1, <2>2 DEF GamesInv, Hosted
<1> QED
  BY <1>1, <1>2 DEF Advertised

LEMMA WithdrawFacts ==
  ASSUME NEW a, WithdrawGame(a)
  PROVE  /\ DOMAIN games' \subseteq DOMAIN games
         /\ \A n \in DOMAIN games' : games'[n] = games[n] /\ games[n].host # a
  BY DEF WithdrawGame, Without

LEMMA LogOnOK ==
  ASSUME GamesInv, NEW s \in Session, NEW id \in DOMAIN Accounts, LogOn(s, id)
  PROVE  GamesInv' /\ UNCHANGED db
<1>1. account[s] = None /\ account' = [account EXCEPT ![s] = id] /\ UNCHANGED <<pc, job, storage, games>>
  BY DEF LogOn, directory
<1>2. pc[s] = "idle"
  BY <1>1 DEF GamesInv, JobOK
<1>3. /\ account' \in [Session -> DOMAIN Accounts \cup {None}]
      /\ \A t \in Session \ {s} : account'[t] = account[t]
  BY <1>1 DEF GamesInv
<1>4. Hosted'
  BY <1>1, <1>3 DEF GamesInv, Hosted
<1> QED
  BY <1>1, <1>2, <1>3, <1>4, DirectoryOK

LEMMA CleanupOK ==
  ASSUME GamesInv, NEW s \in Session, Cleanup(s)
  PROVE  GamesInv' /\ UNCHANGED db
<1>1. /\ pc[s] = "idle" /\ account' = [account EXCEPT ![s] = None] /\ WithdrawGame(account[s])
      /\ UNCHANGED <<pc, job, storage>>
  BY DEF Cleanup, Idle
<1>2. /\ account' \in [Session -> DOMAIN Accounts \cup {None}]
      /\ \A t \in Session \ {s} : account'[t] = account[t]
  BY <1>1 DEF GamesInv
<1>3. Hosted'
  BY <1>1, <1>2, WithdrawFacts DEF GamesInv, Hosted
<1> QED
  BY <1>1, <1>2, <1>3, DirectoryOK

LEMMA DirectoryPacketOK ==
  ASSUME GamesInv, NEW s \in Session, NEW n, NEW starts,
         Advertise(s, n) \/ StopAdvertising(s, starts) \/ NotifyJoin(s, n)
  PROVE  GamesInv' /\ UNCHANGED db
<1>1. /\ pc[s] = "idle" /\ account[s] # None /\ UNCHANGED <<account, pc, job, storage>>
  BY DEF Advertise, StopAdvertising, NotifyJoin, Idle
<1>2. Hosted'
  <2>1. CASE Advertise(s, n)
    BY <1>1, <2>1, AdvertisedOK DEF Advertise
  <2>2. CASE StopAdvertising(s, starts)
    BY <1>1, <2>2, WithdrawFacts DEF StopAdvertising, GamesInv, Hosted
  <2>3. CASE NotifyJoin(s, n)
    BY <1>1, <2>3 DEF NotifyJoin, directory, GamesInv, Hosted
  <2> QED
    BY <2>1, <2>2, <2>3
<1> QED
  BY <1>1, <1>2, DirectoryOK DEF GamesInv

-----------------------------------------------------------------------------
(* Results.                                                                *)

(* normal_wins asks for the wins of the session's own account.             *)
LEMMA AskWinsOK ==
  ASSUME GamesInv, NEW s \in Session, pc[s] = "idle", account[s] # None,
         NEW at \in {"advertising", "eligible"}, NEW locals, at = "eligible" => locals.n # 0,
         AskWins(s, at, locals), UNCHANGED <<account, games>>
  PROVE  GamesInv' /\ UNCHANGED db
<1> DEFINE c == [op |-> "ReadReadableAttrs", name |-> db.accounts[account[s]].name, keys |-> {WinsKey(s)}]
<1>1. Await(s, at, locals, c)
  BY DEF AskWins
<1>2. c.op = "ReadReadableAttrs" /\ c.name = Accounts[account[s]].name
  BY DEF GamesInv, DbOK, DbTypes
<1> HIDE DEF c
<1>3. at \in PC \ {"idle"} /\ c.op \in Ops
  BY <1>2 DEF PC, Ops
<1> QED
  BY <1>1, <1>2, <1>3, AwaitOK

LEMMA GameResultOK ==
  ASSUME GamesInv, NEW s \in Session, NEW report, GameResult(s, report)
  PROVE  GamesInv' /\ UNCHANGED db
<1>1. pc[s] = "idle" /\ account[s] # None /\ UNCHANGED <<account, games>>
  BY DEF GameResult, Idle, directory
<1>2. CASE LeagueOf(report.type) = 0
  <2> DEFINE c == [op |-> "RecordGame", id |-> account[s], product |-> ProductOf[s],
                   outcome |-> Reported(s, report)]
  <2>1. Await(s, "recording", [n |-> 0], c)
    BY <1>2 DEF GameResult
  <2>2. c.op = "RecordGame"
    OBVIOUS
  <2> HIDE DEF c
  <2>3. "recording" \in PC \ {"idle"} /\ c.op \in Ops
    BY <2>2 DEF PC, Ops
  <2> QED
    BY <1>1, <2>1, <2>2, <2>3, AwaitOK
<1>3. CASE LeagueOf(report.type) # 0
  <2> DEFINE locals == [n |-> report.type, outcome |-> Reported(s, report), ask |-> Opponents(s, report)]
  <2>1. AskWins(s, "eligible", locals)
    BY <1>3 DEF GameResult
  <2>2. locals.n # 0
    BY <1>3 DEF LeagueOf
  <2> HIDE DEF locals
  <2> QED
    BY <1>1, <2>1, <2>2, AskWinsOK
<1> QED
  BY <1>2, <1>3

(* The next opponent, or the game itself: for a player with the wins.      *)
LEMMA AskNextOK ==
  ASSUME GamesInv, NEW s \in Session, pc[s] \in {"eligible", "rating"}, Answered(s),
         Ready(account[s], ProductOf[s]), NEW ask, NEW sum \in Nat, NEW rated \in Nat,
         AskNext(s, ask, sum, rated), UNCHANGED <<account, games>>
  PROVE  GamesInv' /\ UNCHANGED db
<1>1. account[s] # None /\ job[s].n # 0
  BY DEF GamesInv, JobOK
<1>2. CASE ask # <<>>
  <2> DEFINE c == [op |-> "ReadReadableAttrs", name |-> Head(ask), keys |-> {RatingKey(s)}]
             locals == [n |-> job[s].n, outcome |-> job[s].outcome, ask |-> ask, sum |-> sum, rated |-> rated]
  <2>1. Await(s, "rating", locals, c)
    BY <1>2 DEF AskNext
  <2>2. c.op = "ReadReadableAttrs" /\ locals.n = job[s].n /\ locals.sum = sum /\ locals.rated = rated
    OBVIOUS
  <2> HIDE DEF c, locals
  <2>3. "rating" \in PC \ {"idle"} /\ c.op \in Ops
    BY <2>2 DEF PC, Ops
  <2> QED
    BY <1>1, <2>1, <2>2, <2>3, AwaitOK
<1>3. CASE ask = <<>>
  <2> DEFINE c == [op |-> "RecordLadderGame", id |-> account[s], product |-> ProductOf[s],
                   league |-> job[s].n, outcome |-> job[s].outcome, opponent |-> Mean(sum, rated)]
  <2>1. Await(s, "recording", [n |-> job[s].n], c)
    BY <1>3 DEF AskNext
  <2>2. /\ c.op = "RecordLadderGame" /\ c.id = account[s] /\ c.product = ProductOf[s]
        /\ c.league = job[s].n /\ c.opponent = Mean(sum, rated)
    OBVIOUS
  <2> HIDE DEF c
  <2>3. "recording" \in PC \ {"idle"} /\ c.op \in Ops
    BY <2>2 DEF PC, Ops
  <2>4. Mean(sum, rated) \in Int
    BY DEF Mean, StartRating
  <2> QED
    BY <1>1, <2>1, <2>2, <2>3, <2>4, AwaitOK
<1> QED
  BY <1>2, <1>3

LEMMA EligibleOK ==
  ASSUME GamesInv, NEW s \in Session, Eligible(s) \/ GotRating(s)
  PROVE  GamesInv' /\ UNCHANGED db
<1>1. JobOK(s) /\ WinsOf(db, account[s], ProductOf[s]) \in Nat
  BY RecordNat DEF GamesInv, DbOK
<1>2. CASE Eligible(s)
  <2>1. /\ pc[s] = "eligible" /\ Answered(s) /\ Wins(s) >= LadderMinWins
        /\ AskNext(s, job[s].ask, 0, 0) /\ UNCHANGED <<account, games>>
    BY <1>2 DEF Eligible, Resumes, directory
  <2>2. Wins(s) \in Nat /\ Wins(s) <= WinsOf(db, account[s], ProductOf[s])
    BY <1>1, <2>1 DEF JobOK, Numbers, Wins
  <2>3. Ready(account[s], ProductOf[s])
    BY <1>1, <2>1, <2>2, GamesAssumption DEF Ready
  <2> QED
    BY <2>1, <2>3, AskNextOK
<1>3. CASE GotRating(s)
  <2>1. /\ pc[s] = "rating" /\ Answered(s) /\ UNCHANGED <<account, games>>
        /\ AskNext(s, Tail(job[s].ask), job[s].sum + RatingRead(s), job[s].rated + 1)
    BY <1>3 DEF GotRating, Resumes, directory
  <2>2. /\ job[s].sum \in Nat /\ job[s].rated \in Nat /\ Ready(account[s], ProductOf[s])
        /\ Numbers(Answer(s))
    BY <1>1, <2>1 DEF JobOK
  <2>3. RatingRead(s) \in Nat
    BY <2>2 DEF RatingRead, Numbers, StartRating
  <2>4. job[s].sum + RatingRead(s) \in Nat /\ job[s].rated + 1 \in Nat
    BY <2>2, <2>3
  <2> QED
    BY <2>1, <2>2, <2>4, AskNextOK
<1> QED
  BY <1>2, <1>3

(* show_record: two reads, whatever they say.                              *)
LEMMA ShowingOK ==
  ASSUME GamesInv, NEW s \in Session, Recorded(s) \/ ShowRecord(s)
  PROVE  GamesInv' /\ UNCHANGED db
<1>1. Answered(s) /\ pc[s] # "idle" /\ UNCHANGED <<account, games>>
  BY DEF Recorded, ShowRecord, Resumes, directory
<1>2. account[s] # None
  BY <1>1 DEF GamesInv, JobOK
<1>3. CASE Finish(s)
  BY <1>1, <1>3, FinishOK DEF GamesInv, Hosted
<1>4. CASE Recorded(s)
  <2> DEFINE c == [op |-> "ReadReadableAttrs", name |-> Accounts[account[s]].name,
                   keys |-> {WinsKey(s), RecordKey(ProductOf[s], 1, "rating")}]
  <2>1. Await(s, "showing", NoJob, c)
    BY <1>4 DEF Recorded
  <2>2. c.op = "ReadReadableAttrs"
    OBVIOUS
  <2> HIDE DEF c
  <2>3. "showing" \in PC \ {"idle"} /\ c.op \in Ops
    BY <2>2 DEF PC, Ops
  <2> QED
    BY <1>1, <1>2, <2>1, <2>2, <2>3, AwaitOK
<1>5. CASE ShowRecord(s) /\ ~Finish(s)
  <2> DEFINE c == [op |-> "LadderRows", product |-> ProductOf[s], league |-> 1]
  <2>1. Await(s, "ranking", NoJob, c)
    BY <1>5 DEF ShowRecord
  <2>2. c.op = "LadderRows"
    OBVIOUS
  <2> HIDE DEF c
  <2>3. "ranking" \in PC \ {"idle"} /\ c.op \in Ops
    BY <2>2 DEF PC, Ops
  <2> QED
    BY <1>1, <1>2, <2>1, <2>2, <2>3, AwaitOK
<1> QED
  BY <1>3, <1>4, <1>5

LEMMA EndingOK ==
  ASSUME GamesInv, NEW s \in Session,
         \/ AdvertiseLadderGranted(s) \/ AdvertiseLadderRefused(s)
         \/ TooFewWins(s) \/ ShowRank(s)
  PROVE  GamesInv' /\ UNCHANGED db
<1>1. Answered(s) /\ pc[s] # "idle" /\ Finish(s) /\ UNCHANGED account
  BY DEF AdvertiseLadderGranted, AdvertiseLadderRefused, TooFewWins, ShowRank, Resumes
<1>2. account[s] # None
  BY <1>1 DEF GamesInv, JobOK
<1>3. Hosted'
  <2>1. CASE AdvertiseLadderGranted(s)
    BY <1>1, <1>2, <2>1, AdvertisedOK DEF AdvertiseLadderGranted
  <2>2. CASE ~AdvertiseLadderGranted(s)
    <3>1. games' = games
      BY <2>2 DEF AdvertiseLadderRefused, TooFewWins, ShowRank, directory
    <3> QED
      BY <1>1, <3>1 DEF GamesInv, Hosted
  <2> QED
    BY <2>1, <2>2
<1> QED
  BY <1>1, <1>3, FinishOK

-----------------------------------------------------------------------------
(* The theorems.                                                           *)

LEMMA GamesInvInit == Init => GamesInv
<1> SUFFICES ASSUME Init PROVE GamesInv
  OBVIOUS
<1>1. queue = <<>> /\ reply = [c \in Client |-> NoReply]
  BY DEF Init, InitStorage
<1>2. QueueInv
  BY <1>1, QueueEmpty, GamesAssumption DEF Init, QueueInv, PC
<1>3. DbOK(db)
  <2> DEFINE attrs == [id \in DOMAIN Accounts |->
                        [k \in {RecordKey(p, 0, "wins") : p \in Range(ProductOf)} |-> InitialWins[id]]]
  <2>1. /\ db.accounts = Accounts /\ db.attrs = attrs
        /\ DOMAIN db = {"accounts", "nextId", "attrs", "chars"}
    BY DEF Init, InitStorage, EmptyDb
  <2>2. DOMAIN attrs = DOMAIN Accounts /\ \A id \in DOMAIN Accounts : \A k \in DOMAIN attrs[id] :
          (\E p : k = RecordKey(p, 0, "wins")) /\ attrs[id][k] = InitialWins[id]
    OBVIOUS
  <2> HIDE DEF attrs
  <2>3. DbTypes(db)
    BY <2>1, <2>2, AccountsAssumption DEF DbTypes
  <2>4. \A id \in DOMAIN db.attrs : \A k \in DOMAIN db.attrs[id] : k[3] = 0 /\ k[4] = "wins"
    BY <2>1, <2>2 DEF RecordKey
  <2>5. NeedsWins(db)
    BY <2>4 DEF NeedsWins
  <2>6. ASSUME NEW id, NEW p, NEW l, l # 0
        PROVE  HighOf(db, id, p, l) = StartRating /\ RatingOf(db, id, p, l) = StartRating
    <3>1. RecordKey(p, l, "high rating")[3] = l /\ RecordKey(p, l, "rating")[3] = l
      BY DEF RecordKey
    <3> QED
      BY <2>4, <2>6, <3>1 DEF HighOf, RatingOf, Get
  <2> QED
    BY <2>3, <2>5, <2>6 DEF DbOK, HighIsHigh, StartRating
<1>4. account \in [Session -> DOMAIN Accounts \cup {None}] /\ DOMAIN games = {}
  BY DEF Init
<1>5. Hosted
  BY <1>4 DEF Hosted
<1>6. \A s \in Session : JobOK(s)
  BY DEF Init, JobOK
<1> QED
  BY <1>1, <1>2, <1>3, <1>4, <1>5, <1>6, QueueEmpty DEF GamesInv

(* Every step keeps the invariant, and no step takes wins away or lowers a *)
(* high rating.                                                            *)
LEMMA GamesInvNext == GamesInv /\ [Next]_vars => GamesInv' /\ Grows(db, db')
<1> SUFFICES ASSUME GamesInv, [Next]_vars PROVE GamesInv' /\ Grows(db, db')
  OBVIOUS
<1>1. ASSUME UNCHANGED db PROVE Grows(db, db')
  BY <1>1, GrowsSame DEF GamesInv, DbOK
<1>2. ASSUME UNCHANGED <<account, games, pc, job, storage>> PROVE GamesInv' /\ UNCHANGED db
  <2>1. UNCHANGED <<db, queue, reply>>
    BY <1>2 DEF storage
  <2>2. QueueInv' /\ DbOK(db') /\ Grows(db, db')
    BY <1>1, <1>2, <2>1 DEF GamesInv, QueueInv, Waiting
  <2>3. \A t \in Session : JobOK(t)'
    BY <1>2, <2>1, <2>2, JobKept
  <2>4. \A i \in DOMAIN queue' : CmdOK(queue[i])'
    BY <1>2, <2>1 DEF GamesInv, CmdOK, Ready
  <2> QED
    BY <1>2, <2>1, <2>2, <2>3, <2>4 DEF GamesInv, Hosted
<1>3. CASE UNCHANGED vars
  BY <1>1, <1>2, <1>3 DEF vars, own, directory
<1>4. CASE Tick
  BY <1>1, <1>2, <1>4 DEF Tick, own, directory
<1>5. CASE Actor
  <2>1. UNCHANGED <<account, games, pc, job>>
    BY <1>5 DEF Actor, own, directory
  <2> QED
    BY <1>1, <1>5, <2>1, ServeOK, DieOK DEF Actor
<1>6. ASSUME NEW s \in Session, Packet(s) PROVE GamesInv' /\ Grows(db, db')
  <2>1. ASSUME NEW n, AdvertiseLadder(s, n) PROVE GamesInv' /\ UNCHANGED db
    BY <2>1, AskWinsOK DEF AdvertiseLadder, Idle, directory
  <2> QED
    BY <1>1, <1>6, <2>1, LogOnOK, CleanupOK, DirectoryPacketOK, GameResultOK DEF Packet
<1>7. ASSUME NEW s \in Session, Handler(s) PROVE GamesInv' /\ Grows(db, db')
  BY <1>1, <1>7, EligibleOK, ShowingOK, EndingOK DEF Handler
<1> QED
  BY <1>3, <1>4, <1>5, <1>6, <1>7 DEF Next

(* ListedGamesHaveHosts: whatever sessions log on to one account, and      *)
(* whenever they end, no client is shown a game of an account that nobody  *)
(* is logged on to (withdraw_game, Bncs::cleanup).                         *)
THEOREM GamesHaveHosts == Spec => []ListedGamesHaveHosts
<1>1. GamesInv => ListedGamesHaveHosts
  BY DEF GamesInv, Hosted, ListedGamesHaveHosts, GameList
<1> QED
  BY <1>1, GamesInvInit, GamesInvNext, PTL DEF Spec

(* NobodyForgotten: every handler that waits for the storage actor has its *)
(* answer or exactly one command under way, and nobody else has either.    *)
THEOREM EverybodyAnswered == Spec => []NobodyForgotten
<1>1. GamesInv => NobodyForgotten
  <2> SUFFICES ASSUME QueueInv, NEW s \in Session
               PROVE  LET asked == {i \in DOMAIN queue : queue[i].from = s}
                      IN  IF pc[s] = "idle" \/ Answered(s)
                          THEN asked = {} /\ (pc[s] = "idle" => ~Answered(s))
                          ELSE Cardinality(asked) = 1
    BY DEF GamesInv, NobodyForgotten
  <2> DEFINE asked == {i \in DOMAIN queue : queue[i].from = s}
  <2>1. CASE pc[s] = "idle" \/ Answered(s)
    BY <2>1 DEF QueueInv, Waiting, Answered
  <2>2. CASE ~(pc[s] = "idle" \/ Answered(s))
    <3>1. PICK i \in DOMAIN queue : queue[i].from = s
      BY <2>2 DEF QueueInv, Answered
    <3>2. asked = {i}
      BY <3>1 DEF QueueInv
    <3>3. Cardinality(asked) = 1
      BY <3>2, FS_Singleton
    <3> QED
      BY <2>2, <3>3
  <2> QED
    BY <2>1, <2>2
<1> QED
  BY <1>1, GamesInvInit, GamesInvNext, PTL DEF Spec

(* LadderRecordsHold: however results of one account interleave between    *)
(* their awaits, nobody has a ladder record without the wins the ladder    *)
(* asks for, and a high rating is never lowered nor below the rating.      *)
THEOREM LadderHolds == Spec => LadderRecordsHold
<1> DEFINE A == /\ LadderNeedsWins'
                /\ \A id \in DOMAIN db.attrs : \A p \in Range(ProductOf), l \in {1, 3} :
                     LET high == Get(db, id, RecordKey(p, l, "high rating"), StartRating)
                     IN  db'.attrs[id] # db.attrs[id] =>
                           /\ Get(db', id, RecordKey(p, l, "high rating"), StartRating) >= high
                           /\ Get(db', id, RecordKey(p, l, "high rating"), StartRating)
                                >= Get(db', id, RecordKey(p, l, "rating"), StartRating)
<1>1. ASSUME GamesInv', Grows(db, db') PROVE A
  <2>1. LadderNeedsWins'
    BY <1>1 DEF GamesInv, DbOK, NeedsWins, LadderNeedsWins, WinsOf
  <2>2. ASSUME NEW id, NEW p, NEW l \in {1, 3}
        PROVE  /\ Get(db', id, RecordKey(p, l, "high rating"), StartRating)
                   >= Get(db, id, RecordKey(p, l, "high rating"), StartRating)
               /\ Get(db', id, RecordKey(p, l, "high rating"), StartRating)
                   >= Get(db', id, RecordKey(p, l, "rating"), StartRating)
    <3>1. HighIsHigh(db') /\ l # 0
      BY <1>1 DEF GamesInv, DbOK
    <3>2. HighOf(db', id, p, l) >= HighOf(db, id, p, l)
      BY <1>1, <3>1 DEF Grows
    <3>3. HighOf(db', id, p, l) >= RatingOf(db', id, p, l)
      BY <3>1 DEF HighIsHigh
    <3> QED
      BY <3>2, <3>3 DEF HighOf, RatingOf
  <2> QED
    BY <2>1, <2>2
<1>2. GamesInv /\ [Next]_vars => [A]_vars
  BY <1>1, GamesInvNext
<1> QED
  BY <1>2, GamesInvInit, GamesInvNext, PTL DEF Spec, LadderRecordsHold
=============================================================================
