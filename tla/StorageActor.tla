------------------------------ MODULE StorageActor ------------------------------
(***************************************************************************)
(* The storage actor (crates/bnetccd/src/storage.rs): one thread owns the  *)
(* backend and serves commands from one queue in the order they were sent; *)
(* a task that asks it something awaits the reply.                         *)
(*                                                                         *)
(* A command is an operator from the database to the set of its outcomes,  *)
(* a database and a reply each.  A backend call of the command may fail,   *)
(* and the outcome is then what the calls before it left behind.  The      *)
(* database is SQLite's (crates/bnetcc-storage-sqlite/src/lib.rs): ids are *)
(* never reused, attributes and characters go with their account, a write  *)
(* of attributes for an account that is gone is dropped.                   *)
(***************************************************************************)
EXTENDS Values, Ladder, FiniteSetsExt, TLC

CONSTANTS
  Client,          \* the tasks that use the actor
  InvalidName      \* names validate_account_name refuses

VARIABLES
  db,      \* the backend: accounts, attributes, characters
  queue,   \* commands sent and not served yet, with the task each replies to
  reply,   \* <<what each client's last command was answered>>; <<>> if it awaits one, or none
  alive    \* the actor's thread runs

storage == <<db, queue, reply, alive>>

NoReply == <<>>

(* Attribute keys: Record\<product>\<league>\<leaf>, System\Flags and      *)
(* System\LastLogin.                                                       *)
RecordKey(p, l, leaf) == <<"Record", p, l, leaf>>
FlagsKey == <<"System", "Flags">>
LastLoginKey == <<"System", "LastLogin">>

EmptyDb == [accounts |-> <<>>, nextId |-> 1, attrs |-> <<>>, chars |-> <<>>]

InitStorage(d) ==
  /\ db = d
  /\ queue = <<>>
  /\ reply = [c \in Client |-> NoReply]
  /\ alive = TRUE

-----------------------------------------------------------------------------
(* The backend.  Failure is a possible outcome of every call.              *)

Done(d, r) == [db |-> d, reply |-> r]

Get(d, id, k, default) ==
  IF id \in DOMAIN d.attrs /\ k \in DOMAIN d.attrs[id] THEN d.attrs[id][k] ELSE default

(* A map with one key set, and the map f with m merged in.                 *)
Insert(f, k, v) == [x \in DOMAIN f \cup {k} |-> IF x = k THEN v ELSE f[x]]

Merged(f, m) == [x \in DOMAIN f \cup DOMAIN m |-> IF x \in DOMAIN m THEN m[x] ELSE f[x]]

(* attrs_put: merged in, or dropped by the foreign key.                    *)
PutAttrs(d, id, m) ==
  IF id \in DOMAIN d.accounts THEN [d EXCEPT !.attrs[id] = Merged(@, m)] ELSE d

(* account_by_name, account_by_id; None when there is no such row          *)
ByName(d, n) ==
  LET ids == {id \in DOMAIN d.accounts : d.accounts[id].name = n}
  IN  IF ids = {} THEN None ELSE CHOOSE id \in ids : TRUE

Without(f, S) == [x \in DOMAIN f \ S |-> f[x]]

CharOf(d, n) ==
  LET at == {i \in DOMAIN d.chars : d.chars[i].name = n}
  IN  IF at = {} THEN None ELSE CHOOSE i \in at : TRUE

-----------------------------------------------------------------------------
(* Accounts.                                                               *)

(* What a handler is told of an account.                                   *)
AccountOf(d, id) ==
  LET row == d.accounts[id]
  IN  [id |-> id, name |-> row.name, family |-> row.family, secret |-> row.secret]

(* The reply of a failed look-up is that of an unknown name.               *)
AccountByName(d, c) ==
  LET id == ByName(d, c.name)
  IN  {Done(d, None), Done(d, IF id = None THEN None ELSE AccountOf(d, id))}

(* account_create's transaction                                            *)
WithAccount(d, row) ==
  [accounts |-> Insert(d.accounts, d.nextId, row), nextId |-> d.nextId + 1,
   attrs |-> Insert(d.attrs, d.nextId, <<>>), chars |-> d.chars]

CreateAccount(d, c) ==
  LET new == WithAccount(d, [name |-> c.name, family |-> c.family, secret |-> c.secret])
  IN  {Done(d, Error),
       IF c.name \in InvalidName THEN Done(d, "invalid")
       ELSE IF ByName(d, c.name) # None THEN Done(d, "taken")
       ELSE Done(new, AccountOf(new, d.nextId))}

(* The new credential is derived for the family the account has.           *)
ResetPassword(d, c) ==
  {Done(d, Error),
   IF c.id \in DOMAIN d.accounts
   THEN Done([d EXCEPT !.accounts[c.id].secret = c.secret], "ok")
   ELSE Done(d, Error)}

(* The characters of the accounts in S, oldest first                       *)
CharsOf(d, S) == SelectSeq(d.chars, LAMBDA ch : ch.account \in S)

(* account_delete: attributes and characters go with the row.              *)
WithoutAccount(d, id) ==
  [accounts |-> Without(d.accounts, {id}), nextId |-> d.nextId,
   attrs |-> Without(d.attrs, {id}), chars |-> CharsOf(d, DOMAIN d.accounts \ {id})]

DeleteUser(d, c) == {Done(d, Error), Done(WithoutAccount(d, c.id), "ok")}

UserFlags(d, c) == {Done(d, 0), Done(d, Get(d, c.id, FlagsKey, 0))}

SetUserFlags(d, c) ==
  {Done(d, Error), Done(PutAttrs(d, c.id, [k \in {FlagsKey} |-> c.flags]), "ok")}

(* Fire and forget: nobody awaits it.                                      *)
RecordLogin(d, c) ==
  {Done(d, "ok"), Done(PutAttrs(d, c.id, [k \in {LastLoginKey} |-> c.when]), "ok")}

(* summarize_attrs: the normal-game counters of every product, flags and   *)
(* last logon                                                              *)
Summary(d, id) ==
  LET Total(leaf) ==
        MapThenSumSet(LAMBDA k : d.attrs[id][k],
          {k \in DOMAIN d.attrs[id] : k[1] = "Record" /\ k[3] = 0 /\ k[4] = leaf})
  IN  [id |-> id, wins |-> Total("wins"), losses |-> Total("losses"),
       flags |-> Get(d, id, FlagsKey, 0), last |-> Get(d, id, LastLoginKey, None)]

(* A page of the accounts in the order of their ids.                       *)
ListUsers(d, c) ==
  LET ids == SetToSortSeq(DOMAIN d.accounts, <)
      page == Truncate(SubSeq(ids, c.offset + 1, Len(ids)), c.limit)
  IN  {Done(d, <<>>), Done(d, [i \in DOMAIN page |-> Summary(d, page[i])])}

(* filter_readable for Actor::Other: records and the System keys are       *)
(* readable by all, the credentials by nobody.                             *)
Readable(k) == k[1] \in {"Record", "System", "profile"}

ReadableAttrs(d, id, keys) ==
  [k \in {k \in DOMAIN d.attrs[id] \cap keys : Readable(k)} |-> d.attrs[id][k]]

ReadReadableAttrs(d, c) ==
  LET id == ByName(d, c.name)
  IN  {Done(d, <<>>), Done(d, IF id = None THEN <<>> ELSE ReadableAttrs(d, id, c.keys))}

-----------------------------------------------------------------------------
(* Game records.  The counter is read and written within one command.      *)

RecordGame(d, c) ==
  LET k == RecordKey(c.product, 0, c.outcome)
      next == Get(d, c.id, k, 0) + 1
  IN  {Done(d, Error), Done(PutAttrs(d, c.id, [x \in {k} |-> next]), next)}

LadderKey(c, leaf) == RecordKey(c.product, c.league, leaf)

(* What a ladder game writes: the counter of its outcome and the ratings.  *)
LadderEntry(d, c, rating, high) ==
  [k \in {LadderKey(c, leaf) : leaf \in {c.outcome, "rating", "high rating"}} |->
     CASE k = LadderKey(c, "rating") -> rating
       [] k = LadderKey(c, "high rating") -> high
       [] OTHER -> Get(d, c.id, k, 0) + 1]

\* mutant: the rating, not the higher of the two, becomes the high rating
RecordLadderGameHighIsLast(d, c) ==
  LET rating == Get(d, c.id, LadderKey(c, "rating"), StartRating)
      next == RatingAfter(rating, c.opponent, c.outcome)
  IN  {Done(d, Error),
       Done(PutAttrs(d, c.id, LadderEntry(d, c, next, next)), next)}

(* The last game's time and result word are left out.                      *)
RecordLadderGame(d, c) ==
  LET rating == Get(d, c.id, LadderKey(c, "rating"), StartRating)
      next == RatingAfter(rating, c.opponent, c.outcome)
      high == AtLeast(next, Get(d, c.id, LadderKey(c, "high rating"), StartRating))
  IN  {Done(d, Error),
       Done(PutAttrs(d, c.id, LadderEntry(d, c, next, high)), next)}

LadderRow(d, id, p, l) ==
  LET Of(leaf, default) == Get(d, id, RecordKey(p, l, leaf), default)
  IN  [name |-> d.accounts[id].name,
       wins |-> Of("wins", 0), losses |-> Of("losses", 0),
       disconnects |-> Of("disconnects", 0),
       rating |-> Of("rating", StartRating), high |-> Of("high rating", StartRating)]

(* An account whose attributes cannot be read is skipped; a page that      *)
(* cannot be read ends the list, which leaves the accounts with ids below. *)
LadderRows(d, c) ==
  {Done(d, {r \in {LadderRow(d, id, c.product, c.league) : id \in S} : GamesOf(r) > 0}) :
     S \in SUBSET DOMAIN d.accounts}

-----------------------------------------------------------------------------
(* Characters of the Diablo II realm, oldest first.                        *)

Characters(d, c) ==
  {Done(d, Error), Done(d, CharsOf(d, {c.id}))}

CharacterByName(d, c) ==
  {Done(d, None), Done(d, IF CharOf(d, c.name) = None THEN None ELSE d.chars[CharOf(d, c.name)])}

(* Like LadderRows, any account may be missing from the answer.            *)
AllCharacters(d, c) ==
  {Done(d, CharsOf(d, S)) : S \in SUBSET DOMAIN d.accounts}

CreateCharacter(d, c) ==
  {Done(d, Error),
   IF c.char.account \notin DOMAIN d.accounts THEN Done(d, Error)
   ELSE IF CharOf(d, c.char.name) # None THEN Done(d, "taken")
   ELSE Done([d EXCEPT !.chars = Append(@, c.char)], "ok")}

(* Replaces all but name and owner, if the owner holds such a character.   *)
UpdateCharacter(d, c) ==
  LET i == CharOf(d, c.char.name)
  IN  {Done(d, Error),
       IF i = None \/ d.chars[i].account # c.char.account THEN Done(d, FALSE)
       ELSE Done([d EXCEPT !.chars[i] = c.char], TRUE)}

DeleteCharacter(d, c) ==
  LET mine(ch) == ch.account = c.id /\ ch.name = c.name
  IN  {Done(d, Error),
       Done([d EXCEPT !.chars = SelectSeq(@, LAMBDA ch : ~mine(ch))],
            \E i \in DOMAIN d.chars : mine(d.chars[i]))}

(* The ladder bit in the character's row and in its save, if it has one    *)
(* that parses.                                                            *)
Retired(ch) ==
  [ch EXCEPT !.ladder = FALSE, !.save = IF @ = None THEN @ ELSE [@ EXCEPT !.ladder = FALSE]]

Retire(d, S) == [d EXCEPT !.chars = [i \in DOMAIN @ |-> IF i \in S THEN Retired(@[i]) ELSE @[i]]]

OnLadder(d) == {i \in DOMAIN d.chars : d.chars[i].ladder}

(* The order of the walk: accounts by id, characters oldest first.         *)
WalkedBefore(d, i, j) ==
  \/ d.chars[i].account < d.chars[j].account
  \/ d.chars[i].account = d.chars[j].account /\ i < j

(* A failure leaves the characters walked so far retired.                  *)
EndLadderSeason(d, c) ==
  LET L == OnLadder(d)
      hard == {i \in L : d.chars[i].hardcore}
      Prefix == {S \in SUBSET L : \A j \in S, i \in L : WalkedBefore(d, i, j) => i \in S}
  IN  {Done(Retire(d, S), Error) : S \in Prefix}
      \cup {Done(Retire(d, L), [softcore |-> Cardinality(L \ hard), hardcore |-> Cardinality(hard)])}

-----------------------------------------------------------------------------
(* The queue.                                                              *)

Outcomes(d, c) ==
  CASE c.op = "AccountByName" -> AccountByName(d, c)
    [] c.op = "CreateAccount" -> CreateAccount(d, c)
    [] c.op = "ResetPassword" -> ResetPassword(d, c)
    [] c.op = "DeleteUser" -> DeleteUser(d, c)
    [] c.op = "UserFlags" -> UserFlags(d, c)
    [] c.op = "SetUserFlags" -> SetUserFlags(d, c)
    [] c.op = "RecordLogin" -> RecordLogin(d, c)
    [] c.op = "ListUsers" -> ListUsers(d, c)
    [] c.op = "ReadReadableAttrs" -> ReadReadableAttrs(d, c)
    [] c.op = "RecordGame" -> RecordGame(d, c)
    [] c.op = "RecordLadderGame" -> RecordLadderGame(d, c)
    [] c.op = "LadderRows" -> LadderRows(d, c)
    [] c.op = "Characters" -> Characters(d, c)
    [] c.op = "CharacterByName" -> CharacterByName(d, c)
    [] c.op = "AllCharacters" -> AllCharacters(d, c)
    [] c.op = "CreateCharacter" -> CreateCharacter(d, c)
    [] c.op = "UpdateCharacter" -> UpdateCharacter(d, c)
    [] c.op = "DeleteCharacter" -> DeleteCharacter(d, c)
    [] c.op = "EndLadderSeason" -> EndLadderSeason(d, c)

(* What a handle method returns when the actor is gone.                    *)
Gone(c) ==
  CASE c.op \in {"AccountByName", "CharacterByName"} -> None
    [] c.op = "UserFlags" -> 0
    [] c.op = "LadderRows" -> {}
    [] c.op \in {"ListUsers", "ReadReadableAttrs", "AllCharacters"} -> <<>>
    [] OTHER -> Error

(* A method of StorageHandle: the command is queued and its reply awaited. *)
Send(who, c) ==
  /\ IF alive THEN /\ queue' = Append(queue, [from |-> who, cmd |-> c])
                   /\ reply' = [reply EXCEPT ![who] = NoReply]
     ELSE /\ reply' = [reply EXCEPT ![who] = <<Gone(c)>>]
          /\ UNCHANGED queue
  /\ UNCHANGED <<db, alive>>

(* record_login                                                            *)
Cast(c) ==
  /\ queue' = IF alive THEN Append(queue, [from |-> None, cmd |-> c]) ELSE queue
  /\ UNCHANGED <<db, reply, alive>>

Answered(who) == reply[who] # NoReply

Answer(who) == reply[who][1]

Serve ==
  /\ alive /\ queue # <<>>
  /\ queue' = Tail(queue)
  /\ \E o \in Outcomes(db, Head(queue).cmd) :
       /\ db' = o.db
       /\ reply' = IF Head(queue).from = None THEN reply
                   ELSE [reply EXCEPT ![Head(queue).from] = <<o.reply>>]
  /\ UNCHANGED alive

\* mutant: the waiters of the lost queue are not told
DieSilently ==
  /\ alive
  /\ alive' = FALSE
  /\ queue' = <<>>
  /\ UNCHANGED <<db, reply>>

(* The thread ends, by a panic in the backend: the queue goes with it, and *)
(* whoever awaits a reply gets that of an actor that is gone.              *)
Die ==
  /\ alive
  /\ alive' = FALSE
  /\ queue' = <<>>
  /\ reply' = [w \in Client |->
                 IF \E i \in DOMAIN queue : queue[i].from = w
                 THEN <<Gone(queue[CHOOSE i \in DOMAIN queue : queue[i].from = w].cmd)>>
                 ELSE reply[w]]
  /\ UNCHANGED db
=============================================================================
