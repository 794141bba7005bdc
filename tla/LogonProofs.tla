----------------------------- MODULE LogonProofs -----------------------------
(***************************************************************************)
(* Logging on, for every set of sessions, accounts, names and passwords    *)
(* and any number of events: a session is logged on exactly if its client  *)
(* was told so, challenges are used once, and realm accounts are the ones  *)
(* with an SRP credential.                                                 *)
(*                                                                         *)
(* All three rest on one fact about the storage actor: the answer a        *)
(* handler resumes with is the answer to its own question.                 *)
(***************************************************************************)
EXTENDS Logon, FiniteSetTheorems, TLAPS

-----------------------------------------------------------------------------
(* Queues.                                                                 *)

IsQueue(q) == q \in Seq(Range(q))

LEMMA QueueDomain ==
  ASSUME NEW q, IsQueue(q)
  PROVE  Len(q) \in Nat /\ DOMAIN q = 1 .. Len(q)
  BY DEF IsQueue

LEMMA QueueEmpty == IsQueue(<<>>) /\ DOMAIN <<>> = {}
  BY DEF IsQueue

LEMMA QueueAppend ==
  ASSUME NEW q, IsQueue(q), NEW e
  PROVE  LET r == Append(q, e) IN
         /\ IsQueue(r) /\ DOMAIN r = DOMAIN q \cup {Len(q) + 1}
         /\ \A i \in DOMAIN q : r[i] = q[i]
         /\ r[Len(q) + 1] = e /\ Len(q) + 1 \notin DOMAIN q
<1> DEFINE r == Append(q, e)
           S == Range(q) \cup {e}
<1>1. q \in Seq(S)
  BY DEF IsQueue
<1>2. r \in Seq(S) /\ Len(r) = Len(q) + 1 /\ DOMAIN r = 1 .. Len(q) + 1
  BY <1>1
<1>3. (\A i \in 1 .. Len(q) : r[i] = q[i]) /\ r[Len(q) + 1] = e
  BY <1>1
<1>4. \A i \in DOMAIN r : r[i] \in Range(r)
  BY DEF Range
<1> HIDE DEF r
<1>5. r \in Seq(Range(r))
  BY <1>2, <1>4
<1>6. Len(q) \in Nat /\ DOMAIN q = 1 .. Len(q)
  BY QueueDomain
<1> QED
  BY <1>2, <1>3, <1>5, <1>6 DEF IsQueue, r

LEMMA QueueTail ==
  ASSUME NEW q, IsQueue(q), q # <<>>
  PROVE  /\ IsQueue(Tail(q)) /\ 1 \in DOMAIN q /\ Head(q) = q[1]
         /\ \A i \in DOMAIN Tail(q) : i + 1 \in DOMAIN q /\ Tail(q)[i] = q[i + 1] /\ i \in Nat /\ i # 0
<1> DEFINE r == Tail(q)
<1>1. q \in Seq(Range(q))
  BY DEF IsQueue
<1>2. r \in Seq(Range(q)) /\ Len(r) = Len(q) - 1 /\ DOMAIN r = 1 .. Len(q) - 1
  BY <1>1
<1>3. \A i \in 1 .. Len(q) - 1 : r[i] = q[i + 1]
  BY <1>1
<1>4. \A i \in DOMAIN r : r[i] \in Range(r)
  BY DEF Range
<1>5. Len(q) \in Nat /\ DOMAIN q = 1 .. Len(q) /\ Len(q) # 0
  BY <1>1
<1> HIDE DEF r
<1>6. r \in Seq(Range(r))
  BY <1>2, <1>4
<1> QED
  BY <1>1, <1>2, <1>3, <1>5, <1>6 DEF IsQueue, r

-----------------------------------------------------------------------------
(* The database.                                                           *)

(* Accounts are numbered, and those with a realm are those with an SRP     *)
(* credential.                                                             *)
DbOK(d) ==
  /\ DOMAIN d = {"accounts", "nextId", "attrs", "chars"}
  /\ DOMAIN d.accounts \subseteq Nat /\ d.nextId \in Nat
  /\ \A id \in DOMAIN d.accounts :
       /\ DOMAIN d.accounts[id] = {"name", "family", "secret"}
       /\ HasRealm(d.accounts[id].name) <=> d.accounts[id].family = "srp"

(* The commands of these handlers and of staff.                            *)
Ops == {"AccountByName", "CreateAccount", "ResetPassword", "DeleteUser", "UserFlags",
        "RecordLogin", "ReadReadableAttrs", "CharacterByName"}

FamilyFits(c) == c.op = "CreateAccount" => (HasRealm(c.name) <=> c.family = "srp")

(* An account a handler is told of has a number.                           *)
Known(row) == row = None \/ row.id \in Nat

LEMMA InsertFacts ==
  ASSUME NEW f, NEW k, NEW v
  PROVE  /\ DOMAIN Insert(f, k, v) = DOMAIN f \cup {k}
         /\ Insert(f, k, v)[k] = v
         /\ \A x \in DOMAIN f : x # k => Insert(f, k, v)[x] = f[x]
  BY DEF Insert

LEMMA CreateOK ==
  ASSUME NEW d, DbOK(d), NEW c, HasRealm(c.name) <=> c.family = "srp",
         NEW o \in CreateAccount(d, c)
  PROVE  DbOK(o.db)
<1> DEFINE row == [name |-> c.name, family |-> c.family, secret |-> c.secret]
           new == WithAccount(d, row)
<1>1. o.db = d \/ o.db = new
  BY DEF CreateAccount, Done
<1>2. DOMAIN row = {"name", "family", "secret"} /\ row.name = c.name /\ row.family = c.family
  OBVIOUS
<1> HIDE DEF row
<1>3. /\ DOMAIN new = DOMAIN d /\ new.accounts = Insert(d.accounts, d.nextId, row)
      /\ new.nextId = d.nextId + 1
  BY DEF DbOK, WithAccount
<1> HIDE DEF new
<1>4. /\ DOMAIN new.accounts = DOMAIN d.accounts \cup {d.nextId}
      /\ new.accounts[d.nextId] = row
      /\ \A x \in DOMAIN d.accounts : x # d.nextId => new.accounts[x] = d.accounts[x]
  BY <1>3 DEF Insert
<1>5. DbOK(new)
  BY <1>2, <1>3, <1>4 DEF DbOK
<1> QED
  BY <1>1, <1>5

LEMMA ResetOK ==
  ASSUME NEW d, DbOK(d), NEW c, NEW o \in ResetPassword(d, c)
  PROVE  DbOK(o.db)
<1> DEFINE new == [d EXCEPT !.accounts[c.id].secret = c.secret]
<1>1. o.db = d \/ (c.id \in DOMAIN d.accounts /\ o.db = new)
  BY DEF ResetPassword, Done
<1>2. ASSUME c.id \in DOMAIN d.accounts PROVE DbOK(new)
  <2>1. /\ DOMAIN new = DOMAIN d /\ new.nextId = d.nextId
        /\ new.accounts = [d.accounts EXCEPT ![c.id].secret = c.secret]
    BY DEF DbOK
  <2>2. DOMAIN new.accounts = DOMAIN d.accounts
    BY <2>1
  <2> HIDE DEF new
  <2>3. ASSUME NEW id \in DOMAIN new.accounts
        PROVE  /\ DOMAIN new.accounts[id] = DOMAIN d.accounts[id]
               /\ new.accounts[id].name = d.accounts[id].name
               /\ new.accounts[id].family = d.accounts[id].family
    <3>1. CASE id = c.id
      <4>1. new.accounts[id] = [d.accounts[id] EXCEPT !.secret = c.secret]
        BY <1>2, <2>1, <3>1
      <4> QED
        BY <1>2, <3>1, <4>1 DEF DbOK
    <3>2. CASE id # c.id
      BY <2>1, <2>2, <2>3, <3>2
    <3> QED
      BY <3>1, <3>2
  <2> QED
    BY <2>1, <2>2, <2>3 DEF DbOK
<1> HIDE DEF new
<1> QED
  BY <1>1, <1>2

LEMMA DeleteOK ==
  ASSUME NEW d, DbOK(d), NEW c, NEW o \in DeleteUser(d, c)
  PROVE  DbOK(o.db)
<1> DEFINE new == WithoutAccount(d, c.id)
<1>1. o.db = d \/ o.db = new
  BY DEF DeleteUser, Done
<1>2. /\ DOMAIN new = DOMAIN d /\ new.nextId = d.nextId
      /\ new.accounts = Without(d.accounts, {c.id})
  BY DEF DbOK, WithoutAccount
<1> HIDE DEF new
<1>3. /\ DOMAIN new.accounts \subseteq DOMAIN d.accounts
      /\ \A id \in DOMAIN new.accounts : new.accounts[id] = d.accounts[id]
  BY <1>2 DEF Without
<1>4. DbOK(new)
  BY <1>2, <1>3 DEF DbOK
<1> QED
  BY <1>1, <1>4

LEMMA RecordLoginOK ==
  ASSUME NEW d, DbOK(d), NEW c, NEW o \in RecordLogin(d, c)
  PROVE  DbOK(o.db)
<1> DEFINE m == [k \in {LastLoginKey} |-> c.when]
<1>1. o.db = d \/ o.db = PutAttrs(d, c.id, m)
  BY DEF RecordLogin, Done
<1> HIDE DEF m
<1>2. \/ PutAttrs(d, c.id, m) = d
      \/ PutAttrs(d, c.id, m) = [d EXCEPT !.attrs[c.id] = Merged(d.attrs[c.id], m)]
  BY DEF PutAttrs
<1>3. \A v : DbOK([d EXCEPT !.attrs[c.id] = v])
  BY DEF DbOK
<1> QED
  BY <1>1, <1>2, <1>3

(* A look-up answers with an account that has a number.                    *)
LEMMA LookupOK ==
  ASSUME NEW d, DbOK(d), NEW c, NEW o \in AccountByName(d, c)
  PROVE  DbOK(o.db) /\ Known(o.reply)
<1>1. o.db = d
  BY DEF AccountByName, Done
<1>2. o.reply = None \/ (ByName(d, c.name) # None /\ o.reply = AccountOf(d, ByName(d, c.name)))
  BY DEF AccountByName, Done
<1>3. ByName(d, c.name) # None => ByName(d, c.name) \in DOMAIN d.accounts
  BY DEF ByName
<1>4. \A id : AccountOf(d, id).id = id
  BY DEF AccountOf
<1> QED
  BY <1>1, <1>2, <1>3, <1>4 DEF Known, DbOK

(* What a command of these handlers does to the database, and says.        *)
LEMMA OutcomeOK ==
  ASSUME NEW d, DbOK(d), NEW c, c.op \in Ops, FamilyFits(c), NEW o \in Outcomes(d, c)
  PROVE  DbOK(o.db) /\ (c.op = "AccountByName" => Known(o.reply))
<1>1. CASE c.op = "AccountByName"
  <2>1. Outcomes(d, c) = AccountByName(d, c)
    BY <1>1 DEF Outcomes
  <2> QED
    BY <1>1, <2>1, LookupOK
<1>2. CASE c.op = "CreateAccount"
  <2>1. Outcomes(d, c) = CreateAccount(d, c)
    BY <1>2 DEF Outcomes
  <2> QED
    BY <1>2, <2>1, CreateOK DEF FamilyFits
<1>3. CASE c.op = "ResetPassword"
  <2>1. Outcomes(d, c) = ResetPassword(d, c)
    BY <1>3 DEF Outcomes
  <2> QED
    BY <1>3, <2>1, ResetOK
<1>4. CASE c.op = "DeleteUser"
  <2>1. Outcomes(d, c) = DeleteUser(d, c)
    BY <1>4 DEF Outcomes
  <2> QED
    BY <1>4, <2>1, DeleteOK
<1>5. CASE c.op = "RecordLogin"
  <2>1. Outcomes(d, c) = RecordLogin(d, c)
    BY <1>5 DEF Outcomes
  <2> QED
    BY <1>5, <2>1, RecordLoginOK
<1>6. CASE c.op \in {"UserFlags", "ReadReadableAttrs", "CharacterByName"}
  <2>1. \/ Outcomes(d, c) = UserFlags(d, c)
        \/ Outcomes(d, c) = ReadReadableAttrs(d, c)
        \/ Outcomes(d, c) = CharacterByName(d, c)
    BY <1>6 DEF Outcomes
  <2>2. o.db = d
    BY <2>1 DEF UserFlags, ReadReadableAttrs, CharacterByName, Done
  <2> QED
    BY <1>6, <2>2
<1> QED
  BY <1>1, <1>2, <1>3, <1>4, <1>5, <1>6 DEF Ops

-----------------------------------------------------------------------------
(* The queue and those who wait for it.                                    *)

(* Where a handler waits for storage, and what it asked there.             *)
Waits == {"logon", "finishing", "creating", "challenge", "reading", "entering"}

Asked(at) ==
  CASE at \in {"logon", "challenge"} -> "AccountByName"
    [] at = "finishing" -> "UserFlags"
    [] at = "creating" -> "CreateAccount"
    [] at = "reading" -> "ReadReadableAttrs"
    [] at = "entering" -> "CharacterByName"

Places == Waits \cup {"idle", "computing", "verifying"}

(* A command in the queue is the one its sender waits for.                 *)
Awaited(e) ==
  /\ e.from \in Session
  /\ pc[e.from] \in Waits
  /\ e.cmd.op = Asked(pc[e.from])
  /\ reply[e.from] = NoReply

QueueInv ==
  /\ IsQueue(queue)
  /\ pc \in [Session -> Places]
  /\ DOMAIN reply = Client
  /\ \A i \in DOMAIN queue :
       /\ queue[i].cmd.op \in Ops /\ FamilyFits(queue[i].cmd)
       /\ queue[i].from # None => Awaited(queue[i])
  /\ \A i, j \in DOMAIN queue : queue[i].from = queue[j].from /\ queue[i].from # None => i = j
  /\ \A s \in Session : reply[s] # NoReply =>
       pc[s] \in Waits /\ (pc[s] \in {"logon", "challenge"} => Known(reply[s][1]))

Free(s) == pc[s] \notin Waits \/ reply[s] # NoReply

(* A handler that stops to wait.                                           *)
LEMMA QueueAwait ==
  ASSUME QueueInv, NEW s \in Session, Free(s), NEW at \in Waits, NEW locals, NEW c,
         c.op = Asked(at), c.op \in Ops, FamilyFits(c), Await(s, at, locals, c)
  PROVE  QueueInv'
<1>1. s \in Client /\ s # None
  BY LogonAssumption, NoneAssumption
<1>2. \A i \in DOMAIN queue : queue[i].from # s
  BY <1>1 DEF QueueInv, Awaited, Free
<1>3. pc' \in [Session -> Places] /\ pc'[s] = at /\ \A t \in Session : t # s => pc'[t] = pc[t]
  BY DEF QueueInv, Await, With, Places
<1>4. CASE alive
  <2> DEFINE e == [from |-> s, cmd |-> c]
  <2>1. queue' = Append(queue, e) /\ reply' = [reply EXCEPT ![s] = NoReply]
    BY <1>4 DEF Await, Send
  <2>2. e.from = s /\ e.cmd = c
    OBVIOUS
  <2> HIDE DEF e
  <2>3. /\ IsQueue(queue') /\ DOMAIN queue' = DOMAIN queue \cup {Len(queue) + 1}
        /\ \A i \in DOMAIN queue : queue'[i] = queue[i]
        /\ queue'[Len(queue) + 1] = e /\ Len(queue) + 1 \notin DOMAIN queue
    BY <2>1, QueueAppend DEF QueueInv
  <2>4. DOMAIN reply' = Client /\ reply'[s] = NoReply /\ \A t \in Session : t # s => reply'[t] = reply[t]
    BY <1>1, <2>1, LogonAssumption DEF QueueInv
  <2>5. ASSUME NEW i \in DOMAIN queue'
        PROVE  /\ queue'[i].cmd.op \in Ops /\ FamilyFits(queue'[i].cmd)
               /\ queue'[i].from # None => Awaited(queue[i])'
    <3>1. CASE i \in DOMAIN queue
      BY <1>2, <1>3, <2>3, <2>4, <3>1 DEF QueueInv, Awaited
    <3>2. CASE i = Len(queue) + 1
      BY <1>3, <2>2, <2>3, <2>4, <3>2 DEF Awaited
    <3> QED
      BY <2>3, <2>5, <3>1, <3>2
  <2>6. \A i, j \in DOMAIN queue' : queue'[i].from = queue'[j].from /\ queue'[i].from # None => i = j
    BY <1>2, <2>2, <2>3 DEF QueueInv
  <2> QED
    BY <1>3, <2>3, <2>4, <2>5, <2>6 DEF QueueInv
<1>5. CASE ~alive
  <2>1. queue' = queue /\ reply' = [reply EXCEPT ![s] = <<Gone(c)>>]
    BY <1>5 DEF Await, Send
  <2>2. /\ DOMAIN reply' = Client /\ reply'[s][1] = Gone(c)
        /\ \A t \in Session : t # s => reply'[t] = reply[t]
    BY <1>1, <2>1, LogonAssumption DEF QueueInv
  <2>3. at \in {"logon", "challenge"} => Known(Gone(c))
    BY DEF Asked, Gone, Known
  <2> QED
    BY <1>2, <1>3, <2>1, <2>2, <2>3 DEF QueueInv, Awaited
<1> QED
  BY <1>4, <1>5

(* A handler that waits for nothing, before and after.                     *)
LEMMA QueueSame ==
  ASSUME QueueInv, UNCHANGED <<queue, reply>>, NEW s \in Session, pc[s] \notin Waits,
         NEW at \in Places \ Waits, pc' = pc \/ pc' = With(pc, s, at)
  PROVE  QueueInv'
<1>1. /\ pc' \in [Session -> Places] /\ \A t \in Session : t # s => pc'[t] = pc[t]
      /\ pc'[s] \notin Waits
  BY DEF QueueInv, With
<1> QED
  BY <1>1 DEF QueueInv, Awaited

(* A handler that has its answer and goes on.                              *)
LEMMA QueueDismissed ==
  ASSUME QueueInv, NEW s \in Session, reply[s] # NoReply, queue' = queue,
         reply' = With(reply, s, NoReply), NEW at \in Places \ Waits, pc' = With(pc, s, at)
  PROVE  QueueInv'
<1>1. /\ pc' \in [Session -> Places] /\ \A t \in Session : t # s => pc'[t] = pc[t]
  BY DEF QueueInv, With
<1>2. s \in Client /\ DOMAIN reply' = Client
  BY LogonAssumption DEF QueueInv, With
<1>3. reply'[s] = NoReply /\ \A t \in Session : t # s => reply'[t] = reply[t]
  BY <1>2, LogonAssumption DEF QueueInv, With
<1>4. \A i \in DOMAIN queue : queue[i].from # None => queue[i].from # s
  BY DEF QueueInv, Awaited
<1> QED
  BY <1>1, <1>2, <1>3, <1>4 DEF QueueInv, Awaited

(* A command nobody waits for.                                             *)
LEMMA QueueCast ==
  ASSUME QueueInv, UNCHANGED <<reply, pc>>, NEW c, c.op \in Ops, FamilyFits(c),
         queue' = IF alive THEN Append(queue, [from |-> None, cmd |-> c]) ELSE queue
  PROVE  QueueInv'
<1>1. CASE ~alive
  BY <1>1 DEF QueueInv, Awaited
<1>2. CASE alive
  <2> DEFINE e == [from |-> None, cmd |-> c]
  <2>1. queue' = Append(queue, e) /\ e.from = None /\ e.cmd = c
    BY <1>2
  <2> HIDE DEF e
  <2>2. /\ IsQueue(queue') /\ DOMAIN queue' = DOMAIN queue \cup {Len(queue) + 1}
        /\ \A i \in DOMAIN queue : queue'[i] = queue[i]
        /\ queue'[Len(queue) + 1] = e /\ Len(queue) + 1 \notin DOMAIN queue
    BY <2>1, QueueAppend DEF QueueInv
  <2> QED
    BY <2>1, <2>2 DEF QueueInv, Awaited
<1> QED
  BY <1>1, <1>2

(* The actor serves the first command: its sender, if any, was waiting for *)
(* just this one and now has the answer.                                   *)
LEMMA QueueServe ==
  ASSUME QueueInv, DbOK(db), Serve, UNCHANGED pc
  PROVE  QueueInv' /\ DbOK(db')
<1> DEFINE e == queue[1]
<1>1. /\ IsQueue(queue') /\ 1 \in DOMAIN queue /\ Head(queue) = e
      /\ \A i \in DOMAIN queue' : i + 1 \in DOMAIN queue /\ queue'[i] = queue[i + 1] /\ i \in Nat /\ i # 0
  BY QueueTail DEF Serve, QueueInv
<1>2. PICK o \in Outcomes(db, e.cmd) :
        /\ db' = o.db
        /\ reply' = IF e.from = None THEN reply ELSE [reply EXCEPT ![e.from] = <<o.reply>>]
  BY <1>1 DEF Serve
<1>3. e.cmd.op \in Ops /\ FamilyFits(e.cmd) /\ (e.from # None => Awaited(e))
  BY <1>1 DEF QueueInv
<1>4. DbOK(db') /\ (e.cmd.op = "AccountByName" => Known(o.reply))
  BY <1>2, <1>3, OutcomeOK
<1>5. \A i \in DOMAIN queue' : queue'[i].from # None => queue'[i].from # e.from
  BY <1>1 DEF QueueInv
<1>6. \A i, j \in DOMAIN queue' : queue'[i].from = queue'[j].from /\ queue'[i].from # None => i = j
  <2> SUFFICES ASSUME NEW i \in DOMAIN queue', NEW j \in DOMAIN queue',
                      queue'[i].from = queue'[j].from, queue'[i].from # None
               PROVE  i = j
    OBVIOUS
  <2>1. i + 1 = j + 1
    BY <1>1 DEF QueueInv
  <2> QED
    BY <1>1, <2>1
<1>7. CASE e.from = None
  BY <1>1, <1>2, <1>4, <1>6, <1>7 DEF QueueInv, Awaited
<1>8. CASE e.from # None
  <2>1. e.from \in Session /\ e.from \in Client /\ pc[e.from] \in Waits /\ e.cmd.op = Asked(pc[e.from])
    BY <1>3, <1>8, LogonAssumption DEF Awaited
  <2>2. /\ DOMAIN reply' = Client /\ reply'[e.from][1] = o.reply
        /\ \A t \in Session : t # e.from => reply'[t] = reply[t]
    BY <1>2, <1>8, <2>1, LogonAssumption DEF QueueInv
  <2>3. pc[e.from] \in {"logon", "challenge"} => Known(reply'[e.from][1])
    BY <1>4, <2>1, <2>2 DEF Asked
  <2>4. ASSUME NEW i \in DOMAIN queue'
        PROVE  /\ queue'[i].cmd.op \in Ops /\ FamilyFits(queue'[i].cmd)
               /\ queue'[i].from # None => Awaited(queue[i])'
    BY <1>1, <1>5, <2>2, <2>4 DEF QueueInv, Awaited
  <2> QED
    BY <1>1, <1>4, <1>6, <2>1, <2>2, <2>3, <2>4 DEF QueueInv
<1> QED
  BY <1>4, <1>7, <1>8

(* The actor dies, and whoever waited has the answer of an actor that is   *)
(* gone.                                                                   *)
LEMMA QueueDie ==
  ASSUME QueueInv, Die, UNCHANGED pc
  PROVE  QueueInv'
<1>1. queue' = <<>> /\ IsQueue(queue') /\ DOMAIN queue' = {}
  BY QueueEmpty DEF Die
<1>2. DOMAIN reply' = Client
  BY DEF Die
<1>3. ASSUME NEW s \in Session, reply'[s] # NoReply
      PROVE  pc[s] \in Waits /\ (pc[s] \in {"logon", "challenge"} => Known(reply'[s][1]))
  <2>0. s \in Client /\ s # None
    BY LogonAssumption, NoneAssumption
  <2>1. CASE \E i \in DOMAIN queue : queue[i].from = s
    <3> DEFINE i == CHOOSE i \in DOMAIN queue : queue[i].from = s
    <3>1. i \in DOMAIN queue /\ queue[i].from = s
      BY <2>1
    <3>2. reply'[s] = <<Gone(queue[i].cmd)>>
      BY <2>0, <2>1 DEF Die
    <3> HIDE DEF i
    <3>3. pc[s] \in Waits /\ queue[i].cmd.op = Asked(pc[s])
      BY <2>0, <3>1 DEF QueueInv, Awaited
    <3>4. reply'[s][1] = Gone(queue[i].cmd)
      BY <3>2
    <3>5. pc[s] \in {"logon", "challenge"} => Known(Gone(queue[i].cmd))
      BY <3>3 DEF Asked, Gone, Known
    <3> QED
      BY <3>3, <3>4, <3>5
  <2>2. CASE ~\E i \in DOMAIN queue : queue[i].from = s
    <3>1. reply'[s] = reply[s]
      BY <2>0, <2>2 DEF Die
    <3> QED
      BY <1>3, <3>1 DEF QueueInv
  <2> QED
    BY <2>1, <2>2
<1> QED
  BY <1>1, <1>2, <1>3 DEF QueueInv

-----------------------------------------------------------------------------
(* The sessions.                                                           *)

LogonIds == {"LOGONRESPONSE", "LOGONRESPONSE2", "AUTH_ACCOUNTLOGONPROOF"}

(* The packets a handler may be about, by where it is.                     *)
JobIds(at) ==
  CASE at = "logon" -> {"LOGONRESPONSE", "LOGONRESPONSE2"}
    [] at = "finishing" -> LogonIds
    [] at = "creating" -> {"CREATEACCOUNT", "AUTH_ACCOUNTCREATE"}
    [] at \in {"challenge", "computing"} -> {"AUTH_ACCOUNTLOGON"}
    [] at = "verifying" -> {"AUTH_ACCOUNTLOGONPROOF"}
    [] at = "reading" -> {"READUSERDATA"}
    [] OTHER -> {"ENTERCHAT"}

SessTypes ==
  /\ state \in [Session -> State] /\ account \in [Session -> Nat \cup {None}]
  /\ DOMAIN srp = Session /\ DOMAIN job = Session
  /\ DOMAIN told = Session /\ DOMAIN issued = Session

(* LogonOutcomeExact, whatever the handler is waiting for.                 *)
Exact(s) ==
  state[s] # "closing" =>
    /\ Authenticated(state[s]) <=> account[s] # None
    /\ Authenticated(state[s]) <=> ToldSuccess(s)

(* The handlers of the log-on run in a session that is not logged on yet,  *)
(* and leave for no other state meanwhile.                                 *)
Busy(s) ==
  pc[s] # "idle" =>
    /\ state[s] # "closing" /\ job[s].id \in JobIds(pc[s])
    /\ pc[s] \notin {"reading", "entering"} => state[s] = "authenticating"
    /\ pc[s] = "entering" => Authenticated(state[s])
    /\ pc[s] \in {"finishing", "computing", "verifying"} => job[s].account \in Nat

Challenged(s) == srp[s] # None => srp[s].account \in Nat /\ srp[s].b = issued[s]

SessOK(s) == Exact(s) /\ Busy(s) /\ Challenged(s)

SessInv == SessTypes /\ \A s \in Session : SessOK(s)

(* The whole invariant.                                                    *)
LogonInv == QueueInv /\ DbOK(db) /\ SessInv

-----------------------------------------------------------------------------
(* The state machine.                                                      *)

(* Where the packets of the log-on are accepted.                           *)
LEMMA AcceptedBefore ==
  ASSUME NEW st \in State,
         NEW id \in LogonIds \cup Creation \cup {"AUTH_ACCOUNTLOGON"}, Accepts(st, id)
  PROVE  st = "authenticating"
  BY DEF State, LogonIds, Creation, Accepts, Anywhere, Handshake, LoggedInPackets, ChatPackets

LEMMA EnterChatAfter ==
  ASSUME NEW st \in State, Accepts(st, "ENTERCHAT")
  PROVE  Authenticated(st)
  BY DEF State, Accepts, Anywhere, Handshake, Authenticated

(* Where a handler that continues leaves the session.                      *)
LEMMA AdvanceQuiet ==
  ASSUME NEW s, NEW a, state[s] \in State, state[s] # "closing",
         NEW id \in {"READUSERDATA", "AUTH_ACCOUNTLOGON"} \cup Creation
  PROVE  Advance(s, id, a) = state[s]
  BY DEF Advance, NextOnSuccess, State, Handshake, Creation

LEMMA AdvanceHandled ==
  ASSUME NEW s, NEW a, state[s] \in State, state[s] # "closing", NEW id \in Packet \ Awaiting
  PROVE  /\ Advance(s, id, a) \in State /\ Advance(s, id, a) # "closing"
         /\ Authenticated(Advance(s, id, a)) <=> Authenticated(state[s])
<1>1. id \notin {"LOGONRESPONSE", "LOGONRESPONSE2", "AUTH_ACCOUNTLOGONPROOF", "ENTERCHAT"}
  BY DEF Awaiting
<1>2. NextOnSuccess(state[s], id) \in {None, "versioning", "authenticating", "inChannel"}
  BY <1>1 DEF NextOnSuccess
<1>3. /\ NextOnSuccess(state[s], id) = "versioning" => state[s] = "connected"
      /\ NextOnSuccess(state[s], id) = "authenticating" => state[s] = "versioning"
      /\ NextOnSuccess(state[s], id) = "inChannel" => state[s] = "chatting"
  BY <1>1, NoneAssumption DEF NextOnSuccess, State
<1> QED
  BY <1>2, <1>3, NoneAssumption DEF Advance, Authenticated, State

LEMMA AdvanceEnter ==
  ASSUME NEW s, NEW a, state[s] \in State, Authenticated(state[s])
  PROVE  /\ Advance(s, "ENTERCHAT", a) \in State /\ Advance(s, "ENTERCHAT", a) # "closing"
         /\ Authenticated(Advance(s, "ENTERCHAT", a))
  BY DEF Advance, NextOnSuccess, State, Handshake, Authenticated

LEMMA AdvanceLogon ==
  ASSUME NEW s, NEW a, state[s] = "authenticating", NEW id \in LogonIds
  PROVE  Advance(s, id, a) = IF a = None THEN "authenticating" ELSE "loggedIn"
<1>1. NextOnSuccess(state[s], id) = "loggedIn"
  BY DEF NextOnSuccess, LogonIds
<1> QED
  BY <1>1, NoneAssumption DEF Advance, State

(* One session's step leaves the others as they were.                      *)
LEMMA SessionStep ==
  ASSUME SessInv, NEW s \in Session, SessTypes', SessOK(s)',
         \A t \in Session \ {s} :
           /\ state'[t] = state[t] /\ account'[t] = account[t] /\ srp'[t] = srp[t]
           /\ pc'[t] = pc[t] /\ job'[t] = job[t] /\ told'[t] = told[t] /\ issued'[t] = issued[t]
  PROVE  SessInv'
<1>1. \A t \in Session \ {s} : SessOK(t)'
  BY DEF SessInv, SessOK, Exact, Busy, Challenged, ToldSuccess
<1> QED
  BY <1>1 DEF SessInv

LEMMA SessionsSame ==
  ASSUME SessInv, UNCHANGED own
  PROVE  SessInv'
  BY DEF SessInv, SessTypes, SessOK, Exact, Busy, Challenged, ToldSuccess, own

-----------------------------------------------------------------------------
(* The kinds of steps a session takes.                                     *)

(* The session's challenge after the step, and nobody else's touched.      *)
ChallengeStep(s) ==
  /\ DOMAIN srp' = Session /\ DOMAIN issued' = Session
  /\ \A t \in Session \ {s} : srp'[t] = srp[t] /\ issued'[t] = issued[t]
  /\ Challenged(s)'

LEMMA ChallengeSame ==
  ASSUME SessInv, NEW s \in Session, UNCHANGED <<srp, issued>>
  PROVE  ChallengeStep(s)
  BY DEF SessInv, SessTypes, SessOK, Challenged, ChallengeStep

LEMMA ChallengeGone ==
  ASSUME SessInv, NEW s \in Session, srp' = With(srp, s, None), issued' = With(issued, s, None)
  PROVE  ChallengeStep(s)
  BY DEF SessInv, SessTypes, Challenged, ChallengeStep, With

(* A handler stops at another place.                                       *)
LEMMA SessGoes ==
  ASSUME QueueInv, SessInv, NEW s \in Session, NEW at \in Places \ {"idle"}, NEW locals,
         pc' = With(pc, s, at), job' = With(job, s, locals), UNCHANGED <<state, account, told>>,
         ChallengeStep(s),
         state[s] # "closing", locals.id \in JobIds(at),
         at \notin {"reading", "entering"} => state[s] = "authenticating",
         at = "entering" => Authenticated(state[s]),
         at \in {"finishing", "computing", "verifying"} => locals.account \in Nat
  PROVE  SessInv'
<1>1. SessTypes'
  BY DEF SessInv, SessTypes, ChallengeStep, With
<1>2. \A t \in Session \ {s} : pc'[t] = pc[t] /\ job'[t] = job[t]
  BY DEF QueueInv, SessInv, SessTypes, With
<1>3. pc'[s] = at /\ job'[s] = locals
  BY DEF QueueInv, SessInv, SessTypes, With
<1>4. Exact(s)'
  BY DEF SessInv, SessOK, Exact, ToldSuccess
<1>5. Busy(s)'
  BY <1>3 DEF Busy
<1>6. SessOK(s)'
  BY <1>4, <1>5 DEF SessOK, ChallengeStep
<1> QED
  BY <1>1, <1>2, <1>6, SessionStep DEF ChallengeStep

(* A handler ends, or the session closes: it is idle again.                *)
LEMMA SessRests ==
  ASSUME QueueInv, SessInv, NEW s \in Session, NEW st \in State, NEW a \in Nat \cup {None},
         state' = With(state, s, st), account' = With(account, s, a),
         pc' = With(pc, s, "idle"), job' = With(job, s, NoJob),
         DOMAIN told' = Session, \A t \in Session \ {s} : told'[t] = told[t],
         ChallengeStep(s),
         st # "closing" => /\ Authenticated(st) <=> a # None
                           /\ Authenticated(st) <=> ToldSuccess(s)'
  PROVE  SessInv'
<1>1. SessTypes'
  BY DEF SessInv, SessTypes, ChallengeStep, With
<1>2. \A t \in Session \ {s} :
        pc'[t] = pc[t] /\ job'[t] = job[t] /\ state'[t] = state[t] /\ account'[t] = account[t]
  BY DEF QueueInv, SessInv, SessTypes, With
<1>3. pc'[s] = "idle" /\ state'[s] = st /\ account'[s] = a
  BY DEF QueueInv, SessInv, SessTypes, With
<1>4. Exact(s)' /\ Busy(s)'
  BY <1>3 DEF Exact, Busy
<1>5. SessOK(s)'
  BY <1>4 DEF SessOK, ChallengeStep
<1> QED
  BY <1>1, <1>2, <1>5, SessionStep DEF ChallengeStep

LEMMA WithSame ==
  ASSUME NEW S, NEW f, f = [x \in S |-> f[x]], NEW s \in S
  PROVE  With(f, s, f[s]) = f
  BY DEF With

(* The connection closes.                                                  *)
LEMMA SessCloses ==
  ASSUME QueueInv, SessInv, NEW s \in Session, Closes(s), UNCHANGED <<account, told, srp, issued>>
  PROVE  SessInv'
<1>1. account[s] \in Nat \cup {None} /\ account = [x \in Session |-> account[x]]
  BY DEF SessInv, SessTypes
<1>2. account' = With(account, s, account[s])
  BY <1>1, WithSame
<1>3. "closing" \in State
  BY DEF State
<1> QED
  BY <1>1, <1>2, <1>3, SessRests, ChallengeSame DEF Closes, SessInv, SessTypes

(* A handler ends without a word about the log-on.                         *)
LEMMA SessEnds ==
  ASSUME QueueInv, SessInv, NEW s \in Session, NEW id, Ends(s, id, account[s]), UNCHANGED told,
         ChallengeStep(s), state[s] # "closing", Advance(s, id, account[s]) \in State,
         Authenticated(Advance(s, id, account[s])) <=> Authenticated(state[s])
  PROVE  SessInv'
<1>1. account[s] \in Nat \cup {None}
  BY DEF SessInv, SessTypes
<1>2. "closing" \in State
  BY DEF State
<1>3. PICK st \in {Advance(s, id, account[s]), "closing"} : state' = With(state, s, st)
  BY DEF Ends
<1>4. st # "closing" => /\ Authenticated(st) <=> account[s] # None
                        /\ Authenticated(st) <=> ToldSuccess(s)'
  BY <1>3 DEF SessInv, SessOK, Exact, ToldSuccess
<1> QED
  BY <1>1, <1>2, <1>3, <1>4, SessRests DEF Ends, SessInv, SessTypes

(* A handler ends the log-on, with an account exactly if it says so.       *)
LEMMA SessAnswers ==
  ASSUME QueueInv, SessInv, NEW s \in Session, NEW id \in LogonIds, NEW status \in Nat,
         NEW a \in Nat \cup {None}, Answers(s, id, status, a), UNCHANGED <<srp, issued>>,
         state[s] = "authenticating", a # None <=> status = SUCCESS
  PROVE  SessInv'
<1>1. "closing" \in State /\ "authenticating" \in State /\ "loggedIn" \in State
  BY DEF State
<1>2. PICK st \in {Advance(s, id, a), "closing"} : state' = With(state, s, st)
  BY DEF Answers, Ends
<1>3. st # "closing" => st = IF a = None THEN "authenticating" ELSE "loggedIn"
  BY <1>2, AdvanceLogon
<1>4. st \in State /\ (st # "closing" => (Authenticated(st) <=> a # None))
  BY <1>1, <1>3 DEF Authenticated
<1> DEFINE word == [id |-> id, status |-> StatusOf(id, status)]
<1>5. DOMAIN told' = Session /\ told'[s] = word /\ \A t \in Session \ {s} : told'[t] = told[t]
  BY DEF Answers, With, SessInv, SessTypes
<1>6. word \in [id : Packet, status : Nat]
  BY DEF StatusOf, LogonIds, Packet, Handshake
<1>7. word # None /\ word.id = id /\ word.status = StatusOf(id, status)
  BY <1>6, NoneAssumption
<1> HIDE DEF word
<1>8. ToldSuccess(s)' <=> status = SUCCESS
  <2>1. ToldSuccess(s)' <=> word # None /\ word.status = IF word.id = "LOGONRESPONSE" THEN 1 ELSE 0
    BY <1>5 DEF ToldSuccess
  <2>2. StatusOf(id, status) = (IF id = "LOGONRESPONSE" THEN 1 ELSE 0) <=> status = SUCCESS
    BY DEF StatusOf, SUCCESS
  <2> QED
    BY <1>7, <2>1, <2>2
<1> QED
  BY <1>2, <1>4, <1>5, <1>8, SessRests, ChallengeSame DEF Answers, Ends

-----------------------------------------------------------------------------
(* Packets: a session that is idle and open.                               *)

LEMMA IdleFacts ==
  ASSUME LogonInv, NEW s \in Session, Idle(s)
  PROVE  /\ Free(s) /\ pc[s] = "idle" /\ pc[s] \notin Waits
         /\ state[s] \in State /\ state[s] # "closing"
         /\ account[s] \in Nat \cup {None} /\ "idle" \in Places \ Waits
  BY DEF Idle, LogonInv, SessInv, SessTypes, Free, Waits, Places

LEMMA HandledOK ==
  ASSUME LogonInv, NEW s \in Session, Handled(s) \/ OutOfPlace(s) \/ Hangup(s)
  PROVE  LogonInv'
<1>1. Idle(s) /\ UNCHANGED <<account, srp, pc, job, told, issued, storage>>
  BY DEF Handled, OutOfPlace, Hangup
<1>2. QueueInv' /\ DbOK(db')
  BY <1>1, IdleFacts, QueueSame DEF LogonInv, storage
<1>3. ASSUME state' = state PROVE SessInv'
  BY <1>1, <1>3, SessionsSame DEF own, LogonInv
<1>4. ASSUME NEW st \in State, state' = With(state, s, st),
             st # "closing" => (Authenticated(st) <=> Authenticated(state[s]))
      PROVE  SessInv'
  <2>1. /\ state' \in [Session -> State] /\ state'[s] = st
        /\ \A t \in Session \ {s} : state'[t] = state[t]
    BY <1>4 DEF LogonInv, SessInv, SessTypes, With
  <2>2. SessTypes'
    BY <1>1, <2>1 DEF LogonInv, SessInv, SessTypes
  <2>3. Exact(s)'
    BY <1>1, <1>4, <2>1, IdleFacts DEF LogonInv, SessInv, SessOK, Exact, ToldSuccess
  <2>4. Busy(s)' /\ Challenged(s)'
    BY <1>1, IdleFacts DEF LogonInv, SessInv, SessOK, Busy, Challenged
  <2> QED
    BY <1>1, <2>1, <2>2, <2>3, <2>4, SessionStep DEF LogonInv, SessOK
<1>5. "closing" \in State
  BY DEF State
<1>6. CASE Handled(s)
  <2>1. PICK id \in Packet \ Awaiting : state' = With(state, s, Advance(s, id, account[s]))
    BY <1>6 DEF Handled
  <2>2. /\ Advance(s, id, account[s]) \in State
        /\ Authenticated(Advance(s, id, account[s])) <=> Authenticated(state[s])
    BY <1>1, IdleFacts, AdvanceHandled
  <2> QED
    BY <1>2, <1>4, <2>1, <2>2 DEF LogonInv
<1>7. CASE OutOfPlace(s) \/ Hangup(s)
  <2>1. state' = state \/ state' = With(state, s, "closing")
    BY <1>7 DEF OutOfPlace, Hangup
  <2> QED
    BY <1>2, <1>3, <1>4, <1>5, <2>1 DEF LogonInv
<1> QED
  BY <1>6, <1>7

(* The handlers that close the connection at once.                         *)
LEMMA RefusedOK ==
  ASSUME LogonInv, NEW s \in Session, Refused(s) \/ ProofUnasked(s)
  PROVE  LogonInv'
<1>1. Idle(s) /\ Closes(s) /\ UNCHANGED <<account, srp, told, issued, storage>>
  BY DEF Refused, ProofUnasked, Receives
<1>2. QueueInv' /\ DbOK(db')
  BY <1>1, IdleFacts, QueueSame DEF LogonInv, storage, Closes
<1> QED
  BY <1>1, <1>2, SessCloses DEF LogonInv

LEMMA ReconnectOK ==
  ASSUME LogonInv, NEW s \in Session, Reconnect(s)
  PROVE  LogonInv'
<1>1. pc[s] = "idle"
  BY DEF Reconnect, LogonInv, SessInv, SessOK, Busy
<1>2. QueueInv' /\ DbOK(db')
  BY <1>1, QueueSame DEF LogonInv, storage, Reconnect, Waits, Places
<1>3. SessTypes' /\ pc' = pc /\ job' = job
  BY DEF Reconnect, LogonInv, SessInv, SessTypes, With, State
<1>4. \A t \in Session \ {s} :
        /\ state'[t] = state[t] /\ account'[t] = account[t] /\ srp'[t] = srp[t]
        /\ told'[t] = told[t] /\ issued'[t] = issued[t]
  BY DEF Reconnect, LogonInv, SessInv, SessTypes, With
<1>5. state'[s] = "connected" /\ account'[s] = None /\ srp'[s] = None /\ told'[s] = None
  BY DEF Reconnect, LogonInv, SessInv, SessTypes, With
<1>6. SessOK(s)'
  BY <1>1, <1>3, <1>5 DEF SessOK, Exact, Busy, Challenged, ToldSuccess, Authenticated
<1> QED
  BY <1>2, <1>3, <1>4, <1>6, SessionStep DEF LogonInv

(* The packets that ask storage something.                                 *)
LEMMA AsksOK ==
  ASSUME LogonInv, NEW s \in Session, NEW at \in Waits, NEW locals, NEW c, Idle(s),
         Await(s, at, locals, c), UNCHANGED <<state, account, told>>, ChallengeStep(s),
         c.op = Asked(at), c.op \in Ops, FamilyFits(c), locals.id \in JobIds(at),
         at # "finishing",
         at \notin {"reading", "entering"} => state[s] = "authenticating",
         at = "entering" => Authenticated(state[s])
  PROVE  LogonInv'
<1>1. QueueInv' /\ DbOK(db')
  BY IdleFacts, QueueAwait DEF LogonInv, Await, Send
<1>2. at \in Places \ {"idle"} /\ at \notin {"finishing", "computing", "verifying"}
  BY DEF Places, Waits
<1> QED
  BY <1>1, <1>2, SessGoes, IdleFacts DEF LogonInv, Await

LEMMA LogonOK ==
  ASSUME LogonInv, NEW s \in Session, NEW id \in {"LOGONRESPONSE", "LOGONRESPONSE2"}, NEW typed,
         NEW secret, NEW ours \in BOOLEAN, Logon(s, id, typed, secret, ours)
  PROVE  LogonInv'
<1> DEFINE locals == [id |-> id, secret |-> secret, fits |-> ours \/ id = "LOGONRESPONSE"]
           c == [op |-> "AccountByName", name |-> typed]
<1>1. Idle(s) /\ Await(s, "logon", locals, c) /\ UNCHANGED <<state, account, srp, told, issued>>
  BY DEF Logon, Receives
<1>2. locals.id = id /\ c.op = "AccountByName"
  OBVIOUS
<1> HIDE DEF locals, c
<1>3. state[s] = "authenticating"
  BY AcceptedBefore, <1>1, IdleFacts DEF Logon, Receives, LogonIds
<1>4. ChallengeStep(s)
  BY <1>1, ChallengeSame DEF LogonInv
<1>5. c.op = Asked("logon") /\ c.op \in Ops /\ FamilyFits(c) /\ locals.id \in JobIds("logon")
  BY <1>2 DEF Asked, Ops, FamilyFits, JobIds
<1> QED
  BY <1>1, <1>3, <1>4, <1>5, AsksOK DEF Waits

LEMMA DoCreateAccountOK ==
  ASSUME LogonInv, NEW s \in Session, NEW typed, NEW secret, DoCreateAccount(s, typed, secret)
  PROVE  LogonInv'
<1> DEFINE locals == [id |-> "CREATEACCOUNT"]
           c == [op |-> "CreateAccount", name |-> typed, family |-> "xsha1", secret |-> secret]
<1>1. Idle(s) /\ Await(s, "creating", locals, c) /\ UNCHANGED <<state, account, srp, told, issued>>
  BY DEF DoCreateAccount, Receives, Registers
<1>2. locals.id = "CREATEACCOUNT" /\ c.op = "CreateAccount" /\ c.name = typed /\ c.family = "xsha1"
  OBVIOUS
<1> HIDE DEF locals, c
<1>3. state[s] = "authenticating"
  BY AcceptedBefore, <1>1, IdleFacts DEF DoCreateAccount, Receives, Creation
<1>4. ChallengeStep(s)
  BY <1>1, ChallengeSame DEF LogonInv
<1>5. c.op = Asked("creating") /\ c.op \in Ops /\ FamilyFits(c) /\ locals.id \in JobIds("creating")
  BY <1>2 DEF DoCreateAccount, Asked, Ops, FamilyFits, JobIds
<1> QED
  BY <1>1, <1>3, <1>4, <1>5, AsksOK DEF Waits

LEMMA AuthAccountCreateOK ==
  ASSUME LogonInv, NEW s \in Session, NEW typed, NEW secret, AuthAccountCreate(s, typed, secret)
  PROVE  LogonInv'
<1> DEFINE locals == [id |-> "AUTH_ACCOUNTCREATE"]
           c == [op |-> "CreateAccount", name |-> Qualified(typed), family |-> "srp",
                 secret |-> secret]
<1>1. Idle(s) /\ Await(s, "creating", locals, c) /\ UNCHANGED <<state, account, srp, told, issued>>
  BY DEF AuthAccountCreate, Receives
<1>2. /\ locals.id = "AUTH_ACCOUNTCREATE" /\ c.op = "CreateAccount"
      /\ c.name = Qualified(typed) /\ c.family = "srp"
  OBVIOUS
<1> HIDE DEF locals, c
<1>3. state[s] = "authenticating"
  BY AcceptedBefore, <1>1, IdleFacts DEF AuthAccountCreate, Receives, Creation
<1>4. ChallengeStep(s)
  BY <1>1, ChallengeSame DEF LogonInv
<1>5. HasRealm(Qualified(typed))
  BY LogonAssumption DEF HasRealm, Qualified
<1>6. c.op = Asked("creating") /\ c.op \in Ops /\ FamilyFits(c) /\ locals.id \in JobIds("creating")
  BY <1>2, <1>5 DEF Asked, Ops, FamilyFits, JobIds
<1> QED
  BY <1>1, <1>3, <1>4, <1>6, AsksOK DEF Waits

LEMMA CreateRefusedOK ==
  ASSUME LogonInv, NEW s \in Session, NEW typed, CreateRefused(s, typed)
  PROVE  LogonInv'
<1>1. /\ Idle(s) /\ Ends(s, "CREATEACCOUNT", account[s])
      /\ UNCHANGED <<srp, told, issued, storage>>
  BY DEF CreateRefused
<1>2. QueueInv' /\ DbOK(db')
  BY <1>1, IdleFacts, QueueSame DEF LogonInv, storage, Ends
<1>3. Advance(s, "CREATEACCOUNT", account[s]) = state[s]
  BY <1>1, IdleFacts, AdvanceQuiet DEF Creation
<1> QED
  BY <1>1, <1>2, <1>3, IdleFacts, SessEnds, ChallengeSame DEF LogonInv

LEMMA AuthAccountLogonOK ==
  ASSUME LogonInv, NEW s \in Session, NEW typed, AuthAccountLogon(s, typed)
  PROVE  LogonInv'
<1> DEFINE locals == [id |-> "AUTH_ACCOUNTLOGON"]
           c == [op |-> "AccountByName", name |-> Qualified(typed)]
<1>1. /\ Idle(s) /\ srp' = With(srp, s, None) /\ issued' = With(issued, s, None)
      /\ told' = told
  BY DEF AuthAccountLogon, Receives
<1>2. ChallengeStep(s)
  BY <1>1, ChallengeGone DEF LogonInv
<1>3. CASE HasRealm(typed)
  <2>1. Ends(s, "AUTH_ACCOUNTLOGON", account[s]) /\ UNCHANGED storage
    BY <1>3 DEF AuthAccountLogon
  <2>2. QueueInv' /\ DbOK(db')
    BY <1>1, <2>1, IdleFacts, QueueSame DEF LogonInv, storage, Ends
  <2>3. Advance(s, "AUTH_ACCOUNTLOGON", account[s]) = state[s]
    BY <1>1, IdleFacts, AdvanceQuiet
  <2> QED
    BY <1>1, <1>2, <2>1, <2>2, <2>3, IdleFacts, SessEnds DEF LogonInv
<1>4. CASE ~HasRealm(typed)
  <2>1. Await(s, "challenge", locals, c) /\ UNCHANGED <<state, account>>
    BY <1>4 DEF AuthAccountLogon
  <2>2. locals.id = "AUTH_ACCOUNTLOGON" /\ c.op = "AccountByName"
    OBVIOUS
  <2> HIDE DEF locals, c
  <2>3. state[s] = "authenticating"
    BY AcceptedBefore, <1>1, IdleFacts DEF AuthAccountLogon, Receives
  <2>4. c.op = Asked("challenge") /\ c.op \in Ops /\ FamilyFits(c) /\ locals.id \in JobIds("challenge")
    BY <2>2 DEF Asked, Ops, FamilyFits, JobIds
  <2> QED
    BY <1>1, <1>2, <2>1, <2>3, <2>4, AsksOK DEF Waits
<1> QED
  BY <1>3, <1>4

LEMMA ProofOK ==
  ASSUME LogonInv, NEW s \in Session, NEW secret, NEW b, Proof(s, secret, b)
  PROVE  LogonInv'
<1> DEFINE locals == [id |-> "AUTH_ACCOUNTLOGONPROOF", account |-> srp[s].account,
                      holds |-> secret = srp[s].verifier /\ b = srp[s].b]
<1>1. /\ Idle(s) /\ srp[s] # None /\ srp' = With(srp, s, None) /\ issued' = With(issued, s, None)
      /\ pc' = With(pc, s, "verifying") /\ job' = With(job, s, locals)
      /\ UNCHANGED <<state, account, told, storage>>
  BY DEF Proof, Receives
<1>2. locals.id = "AUTH_ACCOUNTLOGONPROOF" /\ locals.account = srp[s].account
  OBVIOUS
<1> HIDE DEF locals
<1>3. srp[s].account \in Nat
  BY <1>1 DEF LogonInv, SessInv, SessOK, Challenged
<1>4. state[s] = "authenticating"
  BY AcceptedBefore, <1>1, IdleFacts DEF Proof, Receives, LogonIds
<1>5. "verifying" \in Places \ Waits /\ "verifying" \in Places \ {"idle"}
  BY DEF Places, Waits
<1>6. QueueInv' /\ DbOK(db')
  BY <1>1, <1>5, IdleFacts, QueueSame DEF LogonInv, storage
<1>7. locals.id \in JobIds("verifying")
  BY <1>2 DEF JobIds
<1>8. ChallengeStep(s)
  BY <1>1, ChallengeGone DEF LogonInv
<1> QED
  BY <1>1, <1>2, <1>3, <1>4, <1>5, <1>6, <1>7, <1>8, SessGoes DEF LogonInv

(* SID_READUSERDATA asks for the next name.                                *)
LEMMA AskDataFacts ==
  ASSUME NEW s, NEW rest, AskData(s, rest)
  PROVE  \E locals, c :
           /\ Await(s, "reading", locals, c) /\ locals.id \in JobIds("reading")
           /\ c.op = Asked("reading") /\ c.op \in Ops /\ FamilyFits(c)
<1> DEFINE locals == [id |-> "READUSERDATA", rest |-> Tail(rest)]
           c == [op |-> "ReadReadableAttrs", name |-> Head(rest), keys |-> {LastLoginKey}]
<1>1. Await(s, "reading", locals, c)
  BY DEF AskData
<1>2. locals.id = "READUSERDATA" /\ c.op = "ReadReadableAttrs"
  OBVIOUS
<1> HIDE DEF locals, c
<1>3. c.op = Asked("reading") /\ c.op \in Ops /\ FamilyFits(c) /\ locals.id \in JobIds("reading")
  BY <1>2 DEF Asked, Ops, FamilyFits, JobIds
<1> QED
  BY <1>1, <1>3

LEMMA ReadUserDataOK ==
  ASSUME LogonInv, NEW s \in Session, NEW ns, ReadUserData(s, ns)
  PROVE  LogonInv'
<1>1. Idle(s) /\ AskData(s, ns) /\ UNCHANGED <<state, account, srp, told, issued>>
  BY DEF ReadUserData, Receives
<1>2. ChallengeStep(s)
  BY <1>1, ChallengeSame DEF LogonInv
<1> QED
  BY <1>1, <1>2, AskDataFacts, AsksOK DEF Waits

LEMMA EnterChatOK ==
  ASSUME LogonInv, NEW s \in Session, EnterChat(s)
  PROVE  LogonInv'
<1> DEFINE locals == [id |-> "ENTERCHAT"]
           c == [op |-> "CharacterByName", name |-> account[s]]
<1>1. Idle(s) /\ Await(s, "entering", locals, c) /\ UNCHANGED <<state, account, srp, told, issued>>
  BY DEF EnterChat, Receives
<1>2. locals.id = "ENTERCHAT" /\ c.op = "CharacterByName"
  OBVIOUS
<1> HIDE DEF locals, c
<1>3. Authenticated(state[s])
  BY EnterChatAfter, <1>1, IdleFacts DEF EnterChat, Receives
<1>4. ChallengeStep(s)
  BY <1>1, ChallengeSame DEF LogonInv
<1>5. c.op = Asked("entering") /\ c.op \in Ops /\ FamilyFits(c) /\ locals.id \in JobIds("entering")
  BY <1>2 DEF Asked, Ops, FamilyFits, JobIds
<1> QED
  BY <1>1, <1>3, <1>4, <1>5, AsksOK DEF Waits

LEMMA PacketsOK ==
  ASSUME LogonInv, NEW s \in Session, Packets(s)
  PROVE  LogonInv'
  BY HandledOK, RefusedOK, ReconnectOK, LogonOK, DoCreateAccountOK, AuthAccountCreateOK,
     CreateRefusedOK, AuthAccountLogonOK, ProofOK, ReadUserDataOK, EnterChatOK
     DEF Packets

-----------------------------------------------------------------------------
(* Handlers that resume.                                                   *)

(* A session that is not idle is open, its packet known.                   *)
LEMMA BusyFacts ==
  ASSUME LogonInv, NEW s \in Session, pc[s] # "idle"
  PROVE  /\ state[s] # "closing" /\ state[s] \in State /\ job[s].id \in JobIds(pc[s])
         /\ pc[s] \notin {"reading", "entering"} => state[s] = "authenticating"
         /\ pc[s] = "entering" => Authenticated(state[s])
         /\ pc[s] \in {"finishing", "computing", "verifying"} => job[s].account \in Nat
         /\ account[s] \in Nat \cup {None}
         /\ state[s] = "authenticating" => account[s] = None
         /\ "idle" \in Places \ Waits
<1>1. SessOK(s) /\ SessTypes
  BY DEF LogonInv, SessInv
<1>2. state[s] = "authenticating" => account[s] = None
  BY <1>1 DEF SessOK, Exact, Authenticated
<1>3. "idle" \in Places \ Waits
  BY DEF Places, Waits
<1> QED
  BY <1>1, <1>2, <1>3 DEF SessOK, SessTypes, Busy

(* A handler that ends with its answer, and no word about the log-on.      *)
LEMMA EndsOK ==
  ASSUME LogonInv, NEW s \in Session, pc[s] \in {"creating", "challenge", "reading", "entering"},
         Answered(s), Ends(s, job[s].id, account[s]), Dismissed(s), UNCHANGED <<srp, told, issued>>
  PROVE  LogonInv'
<1>1. QueueInv' /\ DbOK(db')
  BY BusyFacts, QueueDismissed DEF LogonInv, Dismissed, Ends, Answered
<1>2. /\ Advance(s, job[s].id, account[s]) \in State
      /\ Authenticated(Advance(s, job[s].id, account[s])) <=> Authenticated(state[s])
  <2>1. CASE pc[s] = "entering"
    <3>1. job[s].id = "ENTERCHAT"
      BY <2>1, BusyFacts DEF JobIds
    <3> QED
      BY <2>1, <3>1, BusyFacts, AdvanceEnter
  <2>2. CASE pc[s] # "entering"
    <3>1. job[s].id \in {"READUSERDATA", "AUTH_ACCOUNTLOGON"} \cup Creation
      BY <2>2, BusyFacts DEF JobIds, Creation
    <3> QED
      BY <3>1, BusyFacts, AdvanceQuiet
  <2> QED
    BY <2>1, <2>2
<1> QED
  BY <1>1, <1>2, BusyFacts, SessEnds, ChallengeSame DEF LogonInv

(* The account is known: its flags are read, and the log-on finished.      *)
LEMMA FinishingOK ==
  ASSUME LogonInv, NEW s \in Session, pc[s] \in {"logon", "verifying"}, Free(s),
         NEW id \in Nat,
         Await(s, "finishing", [id |-> job[s].id, account |-> id], [op |-> "UserFlags", id |-> id]),
         UNCHANGED <<state, account, srp, told, issued>>
  PROVE  LogonInv'
<1> DEFINE locals == [id |-> job[s].id, account |-> id]
           c == [op |-> "UserFlags", id |-> id]
<1>1. locals.id = job[s].id /\ locals.account = id /\ c.op = "UserFlags"
  OBVIOUS
<1>2. Await(s, "finishing", locals, c)
  OBVIOUS
<1> HIDE DEF locals, c
<1>3. "finishing" \in Waits /\ "finishing" \in Places \ {"idle"}
  BY DEF Waits, Places
<1>4. c.op = Asked("finishing") /\ c.op \in Ops /\ FamilyFits(c)
  BY <1>1 DEF Asked, Ops, FamilyFits
<1>5. QueueInv' /\ DbOK(db')
  BY <1>2, <1>3, <1>4, QueueAwait DEF LogonInv, Await, Send
<1>6. locals.id \in JobIds("finishing") /\ state[s] = "authenticating"
  BY <1>1, BusyFacts DEF JobIds, LogonIds
<1>7. pc' = With(pc, s, "finishing") /\ job' = With(job, s, locals)
  BY <1>2 DEF Await
<1> QED
  BY <1>1, <1>3, <1>5, <1>6, <1>7, SessGoes, ChallengeSame DEF LogonInv

LEMMA LogonCheckedOK ==
  ASSUME LogonInv, NEW s \in Session, LogonChecked(s) \/ ProofHolds(s)
  PROVE  LogonInv'
<1>1. CASE LogonChecked(s)
  <2>1. pc[s] = "logon" /\ reply[s] # NoReply /\ Answer(s) # None
    BY <1>1 DEF LogonChecked, Resumes, Answered, Verdict, NO_SUCH_ACCOUNT, SUCCESS
  <2>2. Answer(s).id \in Nat
    BY <2>1 DEF LogonInv, QueueInv, Known, Answer
  <2> QED
    BY <1>1, <2>1, <2>2, FinishingOK DEF LogonChecked, Free
<1>2. CASE ProofHolds(s)
  <2>1. pc[s] = "verifying" /\ pc[s] \notin Waits
    BY <1>2 DEF ProofHolds, Waits
  <2>2. job[s].account \in Nat
    BY <2>1, BusyFacts
  <2> QED
    BY <1>2, <2>1, <2>2, FinishingOK DEF ProofHolds, Free
<1> QED
  BY <1>1, <1>2

LEMMA LogonRefusedOK ==
  ASSUME LogonInv, NEW s \in Session, LogonRefused(s)
  PROVE  LogonInv'
<1>1. PICK status \in {Verdict(Answer(s), job[s]), NO_SUCH_ACCOUNT} \ {SUCCESS} :
        Answers(s, job[s].id, status, account[s])
  BY DEF LogonRefused
<1>2. pc[s] = "logon" /\ reply[s] # NoReply /\ Dismissed(s) /\ UNCHANGED <<srp, issued>>
  BY DEF LogonRefused, Resumes, Answered
<1>3. status \in Nat /\ status # SUCCESS
  BY <1>1 DEF Verdict, NO_SUCH_ACCOUNT, WRONG_PASSWORD, SUCCESS
<1>4. job[s].id \in LogonIds /\ state[s] = "authenticating" /\ account[s] = None
  BY <1>2, BusyFacts DEF JobIds, LogonIds
<1>5. QueueInv' /\ DbOK(db')
  BY <1>1, <1>2, BusyFacts, QueueDismissed DEF LogonInv, Dismissed, Answers, Ends
<1> QED
  BY <1>1, <1>2, <1>3, <1>4, <1>5, SessAnswers DEF LogonInv

LEMMA FinishLogonOK ==
  ASSUME LogonInv, NEW s \in Session, FinishLogon(s)
  PROVE  LogonInv'
<1> DEFINE c == [op |-> "RecordLogin", id |-> job[s].account, when |-> 0]
<1>1. /\ pc[s] = "finishing" /\ reply[s] # NoReply /\ UNCHANGED <<srp, issued, db, alive>>
      /\ Answers(s, job[s].id, SUCCESS, job[s].account)
      /\ queue' = IF alive THEN Append(queue, [from |-> None, cmd |-> c]) ELSE queue
      /\ reply' = With(reply, s, NoReply)
  BY DEF FinishLogon, Resumes, Answered
<1>2. c.op = "RecordLogin"
  OBVIOUS
<1> HIDE DEF c
<1>3. c.op \in Ops /\ FamilyFits(c)
  BY <1>2 DEF Ops, FamilyFits
<1>4. pc' = With(pc, s, "idle") /\ "idle" \in Places \ Waits
  BY <1>1 DEF Answers, Ends, Places, Waits
<1>5. QueueInv'
  <2>1. /\ pc' \in [Session -> Places] /\ \A t \in Session : t # s => pc'[t] = pc[t]
    BY <1>4 DEF LogonInv, QueueInv, With
  <2>2. s \in Client /\ DOMAIN reply' = Client
    BY <1>1, LogonAssumption DEF LogonInv, QueueInv, With
  <2>3. reply'[s] = NoReply /\ \A t \in Session : t # s => reply'[t] = reply[t]
    BY <1>1, <2>2, LogonAssumption DEF LogonInv, QueueInv, With
  <2>4. \A i \in DOMAIN queue : queue[i].from # None => queue[i].from # s
    BY <1>1 DEF LogonInv, QueueInv, Awaited
  <2>5. \A e : (e.from # None /\ e.from # s /\ Awaited(e)) => (Awaited(e))'
    BY <2>1, <2>3 DEF Awaited
  <2>6. CASE ~alive
    BY <1>1, <2>1, <2>2, <2>3, <2>4, <2>5, <2>6 DEF LogonInv, QueueInv, Awaited
  <2>7. CASE alive
    <3> DEFINE e == [from |-> None, cmd |-> c]
    <3>1. queue' = Append(queue, e) /\ e.from = None /\ e.cmd = c
      BY <1>1, <2>7
    <3> HIDE DEF e
    <3>2. /\ IsQueue(queue') /\ DOMAIN queue' = DOMAIN queue \cup {Len(queue) + 1}
          /\ \A i \in DOMAIN queue : queue'[i] = queue[i]
          /\ queue'[Len(queue) + 1] = e /\ Len(queue) + 1 \notin DOMAIN queue
      BY <3>1, QueueAppend DEF LogonInv, QueueInv
    <3> QED
      BY <1>3, <2>1, <2>2, <2>3, <2>4, <3>1, <3>2 DEF LogonInv, QueueInv, Awaited
  <2> QED
    BY <2>6, <2>7
<1>6. job[s].id \in LogonIds /\ state[s] = "authenticating" /\ job[s].account \in Nat
  BY <1>1, BusyFacts DEF JobIds
<1>7. job[s].account # None /\ SUCCESS \in Nat
  BY <1>6, NoneAssumption DEF SUCCESS
<1>8. SessInv'
  BY <1>1, <1>6, <1>7, SessAnswers DEF LogonInv
<1> QED
  BY <1>1, <1>5, <1>8 DEF LogonInv

LEMMA CreatedOK ==
  ASSUME LogonInv, NEW s \in Session, Created(s)
  PROVE  LogonInv'
<1>1. /\ pc[s] = "creating" /\ Answered(s) /\ Dismissed(s) /\ UNCHANGED <<srp, told, issued>>
  BY DEF Created, Resumes
<1>2. CASE Ends(s, job[s].id, account[s])
  BY <1>1, <1>2, EndsOK
<1>3. CASE Closes(s) /\ UNCHANGED account
  <2>1. QueueInv' /\ DbOK(db')
    BY <1>1, <1>3, BusyFacts, QueueDismissed DEF LogonInv, Dismissed, Closes, Answered
  <2> QED
    BY <1>1, <1>3, <2>1, SessCloses DEF LogonInv
<1> QED
  BY <1>2, <1>3 DEF Created

LEMMA ChallengeComputingOK ==
  ASSUME LogonInv, NEW s \in Session, ChallengeComputing(s)
  PROVE  LogonInv'
<1> DEFINE locals == [id |-> job[s].id, account |-> Answer(s).id,
                      verifier |-> Answer(s).secret, b |-> drawn + 1]
<1>1. /\ pc[s] = "challenge" /\ reply[s] # NoReply /\ Answer(s) # None
      /\ pc' = With(pc, s, "computing") /\ job' = With(job, s, locals)
      /\ Dismissed(s) /\ UNCHANGED <<state, account, srp, told, issued>>
  BY DEF ChallengeComputing, Resumes, Answered
<1>2. locals.id = job[s].id /\ locals.account = Answer(s).id
  OBVIOUS
<1> HIDE DEF locals
<1>3. Answer(s).id \in Nat
  BY <1>1 DEF LogonInv, QueueInv, Known, Answer
<1>4. "computing" \in Places \ Waits /\ "computing" \in Places \ {"idle"}
  BY DEF Places, Waits
<1>5. QueueInv' /\ DbOK(db')
  BY <1>1, <1>4, QueueDismissed DEF LogonInv, Dismissed
<1>6. locals.id \in JobIds("computing") /\ state[s] = "authenticating"
  BY <1>1, <1>2, BusyFacts DEF JobIds
<1> QED
  BY <1>1, <1>2, <1>3, <1>4, <1>5, <1>6, SessGoes, ChallengeSame DEF LogonInv

LEMMA ChallengeSentOK ==
  ASSUME LogonInv, NEW s \in Session, ChallengeSent(s)
  PROVE  LogonInv'
<1> DEFINE new == [account |-> job[s].account, verifier |-> job[s].verifier, b |-> job[s].b]
<1>1. /\ pc[s] = "computing" /\ srp' = With(srp, s, new) /\ issued' = With(issued, s, job[s].b)
      /\ Ends(s, job[s].id, account[s]) /\ UNCHANGED <<told, storage>>
  BY DEF ChallengeSent
<1>2. new.account = job[s].account /\ new.b = job[s].b
  OBVIOUS
<1> HIDE DEF new
<1>3. job[s].account \in Nat /\ job[s].id = "AUTH_ACCOUNTLOGON" /\ state[s] # "closing"
  BY <1>1, BusyFacts DEF JobIds
<1>4. ChallengeStep(s)
  BY <1>1, <1>2, <1>3 DEF ChallengeStep, Challenged, With, LogonInv, SessInv, SessTypes
<1>5. pc[s] \notin Waits /\ "idle" \in Places \ Waits
  BY <1>1 DEF Waits, Places
<1>6. QueueInv' /\ DbOK(db')
  BY <1>1, <1>5, QueueSame DEF LogonInv, storage, Ends
<1>7. Advance(s, job[s].id, account[s]) = state[s]
  BY <1>1, <1>3, BusyFacts, AdvanceQuiet
<1> QED
  BY <1>1, <1>3, <1>4, <1>6, <1>7, BusyFacts, SessEnds DEF LogonInv

LEMMA ProofRefusedOK ==
  ASSUME LogonInv, NEW s \in Session, ProofRefused(s)
  PROVE  LogonInv'
<1> DEFINE status == IF job[s].holds THEN PROOF_CUSTOM_ERROR ELSE WRONG_PASSWORD
<1>1. /\ pc[s] = "verifying" /\ Answers(s, job[s].id, status, account[s])
      /\ UNCHANGED <<srp, issued, storage>>
  BY DEF ProofRefused
<1>2. status \in Nat /\ status # SUCCESS
  BY DEF PROOF_CUSTOM_ERROR, WRONG_PASSWORD, SUCCESS
<1> HIDE DEF status
<1>3. job[s].id \in LogonIds /\ state[s] = "authenticating" /\ account[s] = None
  BY <1>1, BusyFacts DEF JobIds, LogonIds
<1>4. pc[s] \notin Waits /\ "idle" \in Places \ Waits
  BY <1>1 DEF Waits, Places
<1>5. QueueInv' /\ DbOK(db')
  BY <1>1, <1>4, QueueSame DEF LogonInv, storage, Answers, Ends
<1> QED
  BY <1>1, <1>2, <1>3, <1>5, SessAnswers DEF LogonInv

LEMMA TaskFailedOK ==
  ASSUME LogonInv, NEW s \in Session, TaskFailed(s)
  PROVE  LogonInv'
<1>1. pc[s] \notin Waits /\ "idle" \in Places \ Waits
  BY DEF TaskFailed, Waits, Places
<1>2. QueueInv' /\ DbOK(db')
  BY <1>1, QueueSame DEF LogonInv, TaskFailed, storage, Closes
<1> QED
  BY <1>2, SessCloses DEF LogonInv, TaskFailed

LEMMA GotDataOK ==
  ASSUME LogonInv, NEW s \in Session, GotData(s)
  PROVE  LogonInv'
<1>1. pc[s] = "reading" /\ Answered(s) /\ UNCHANGED <<srp, told, issued>>
  BY DEF GotData, Resumes
<1>2. CASE Ends(s, job[s].id, account[s]) /\ Dismissed(s)
  BY <1>1, <1>2, EndsOK
<1>3. CASE AskData(s, job[s].rest) /\ UNCHANGED <<state, account>>
  <2>1. PICK locals, c :
           /\ Await(s, "reading", locals, c) /\ locals.id \in JobIds("reading")
           /\ c.op = Asked("reading") /\ c.op \in Ops /\ FamilyFits(c)
    BY <1>3, AskDataFacts
  <2>2. "reading" \in Waits /\ "reading" \in Places \ {"idle"} /\ Free(s)
    BY <1>1 DEF Waits, Places, Free, Answered
  <2>3. QueueInv' /\ DbOK(db')
    BY <2>1, <2>2, QueueAwait DEF LogonInv, Await, Send
  <2>4. pc' = With(pc, s, "reading") /\ job' = With(job, s, locals)
    BY <2>1 DEF Await
  <2> QED
    BY <1>1, <1>3, <2>1, <2>2, <2>3, <2>4, BusyFacts, SessGoes, ChallengeSame DEF LogonInv
<1> QED
  BY <1>2, <1>3 DEF GotData

LEMMA HandlersOK ==
  ASSUME LogonInv, NEW s \in Session, Handlers(s)
  PROVE  LogonInv'
<1>1. NoChallenge(s) \/ EnteredChat(s) => LogonInv'
  BY EndsOK DEF NoChallenge, EnteredChat, Resumes
<1> QED
  BY <1>1, LogonCheckedOK, LogonRefusedOK, FinishLogonOK, CreatedOK, ChallengeComputingOK,
     ChallengeSentOK, ProofRefusedOK, TaskFailedOK, GotDataOK
     DEF Handlers

-----------------------------------------------------------------------------
(* The theorems.                                                           *)

LEMMA StaffOK ==
  ASSUME LogonInv, NEW c, Staff(c), c.op \in {"DeleteUser", "ResetPassword"}
  PROVE  LogonInv'
<1>1. UNCHANGED <<own, reply, pc, db>> /\ c.op \in Ops /\ FamilyFits(c)
  BY DEF Staff, Cast, own, Ops, FamilyFits
<1>2. QueueInv'
  BY <1>1, QueueCast DEF LogonInv, Staff, Cast
<1> QED
  BY <1>1, <1>2, SessionsSame DEF LogonInv

LEMMA LogonInvInit == Init => LogonInv
<1> SUFFICES ASSUME Init PROVE LogonInv
  OBVIOUS
<1>1. queue = <<>> /\ reply = [c \in Client |-> NoReply]
  BY DEF Init, InitStorage
<1>2. QueueInv
  BY <1>1, QueueEmpty, LogonAssumption DEF Init, QueueInv, Places
<1>3. DbOK(db)
  <2>1. /\ db.accounts = Accounts /\ db.nextId = Cardinality(DOMAIN Accounts) + 1
        /\ DOMAIN db = {"accounts", "nextId", "attrs", "chars"}
    BY DEF Init, InitStorage, EmptyDb
  <2>2. Cardinality(DOMAIN Accounts) \in Nat
    BY AccountsAssumption, FS_CardinalityType
  <2> QED
    BY <2>1, <2>2, AccountsAssumption DEF DbOK
<1>4. SessInv
  BY NoneAssumption DEF Init, SessInv, SessTypes, SessOK, Exact, Busy, Challenged, ToldSuccess,
     Authenticated, State
<1> QED
  BY <1>2, <1>3, <1>4 DEF LogonInv

LEMMA LogonInvNext == LogonInv /\ [Next]_vars => LogonInv'
<1> SUFFICES ASSUME LogonInv, [Next]_vars PROVE LogonInv'
  OBVIOUS
<1>1. CASE UNCHANGED vars
  <2>1. UNCHANGED own /\ UNCHANGED <<queue, reply, db, pc>>
    BY <1>1 DEF vars, own, storage
  <2>2. QueueInv' /\ DbOK(db')
    BY <2>1 DEF LogonInv, QueueInv, Awaited
  <2> QED
    BY <2>1, <2>2, SessionsSame DEF LogonInv
<1>2. CASE Actor
  <2>1. UNCHANGED own /\ UNCHANGED pc
    BY <1>2 DEF Actor, own
  <2>2. CASE Serve
    BY <2>1, <2>2, QueueServe, SessionsSame DEF LogonInv
  <2>3. CASE Die
    BY <2>1, <2>3, QueueDie, SessionsSame DEF LogonInv, Die
  <2> QED
    BY <1>2, <2>2, <2>3 DEF Actor
<1>3. CASE Panel
  <2>1. PICK id \in DOMAIN db.accounts :
          \/ Staff([op |-> "DeleteUser", id |-> id])
          \/ \E p \in Secret : Staff([op |-> "ResetPassword", id |-> id, secret |-> p])
    BY <1>3 DEF Panel
  <2>2. \E c : Staff(c) /\ c.op \in {"DeleteUser", "ResetPassword"}
    <3>1. [op |-> "DeleteUser", id |-> id].op = "DeleteUser"
      OBVIOUS
    <3>2. \A p \in Secret : [op |-> "ResetPassword", id |-> id, secret |-> p].op = "ResetPassword"
      OBVIOUS
    <3> QED
      BY <2>1, <3>1, <3>2
  <2> QED
    BY <2>2, StaffOK
<1>4. CASE \E s \in Session : Packets(s) \/ Handlers(s)
  BY <1>4, PacketsOK, HandlersOK
<1> QED
  BY <1>1, <1>2, <1>3, <1>4 DEF Next

(* LogonOutcomeExact: whatever flows a client mixes, and whatever the      *)
(* storage actor answers and when, an open session between packets has an  *)
(* account, is in a state behind the log-on and was told of a success,     *)
(* all three or none.                                                      *)
THEOREM LogonExact == Spec => []LogonOutcomeExact
<1>1. LogonInv => LogonOutcomeExact
  BY DEF LogonInv, SessInv, SessOK, Exact, LogonOutcomeExact, Idle
<1> QED
  BY <1>1, LogonInvInit, LogonInvNext, PTL DEF Spec

(* ChallengeIsLast: the SRP challenge a session holds is the one its       *)
(* client was sent last and has not answered.                              *)
THEOREM ChallengesUsedOnce == Spec => []ChallengeIsLast
<1>1. LogonInv => ChallengeIsLast
  BY DEF LogonInv, SessInv, SessOK, Challenged, ChallengeIsLast
<1> QED
  BY <1>1, LogonInvInit, LogonInvNext, PTL DEF Spec

(* RealmNamesAreSrp: no creation, reset or deletion, however they race,    *)
(* makes an account whose credential does not fit its name.                *)
THEOREM RealmAccounts == Spec => []RealmNamesAreSrp
<1>1. LogonInv => RealmNamesAreSrp
  BY DEF LogonInv, DbOK, RealmNamesAreSrp
<1> QED
  BY <1>1, LogonInvInit, LogonInvNext, PTL DEF Spec
=============================================================================
