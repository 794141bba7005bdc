--------------------------------- MODULE Logon ---------------------------------
(***************************************************************************)
(* Logging on: `handle` and the handlers of the handshake, of account      *)
(* creation and of the three log-on flows (crates/bnetccd/src/session.rs), *)
(* against the storage actor that keeps the accounts.                      *)
(*                                                                         *)
(* An account name is <<name, realm>>: what stands before the `@` and what *)
(* stands behind it, None for a name without one.  Warcraft III's accounts *)
(* live in this node's realm and log on with SRP (0x53, 0x54); the others  *)
(* have no realm and log on with an X-SHA-1 proof (0x29, 0x3A).  A proof   *)
(* is the password it was made with and the challenge it was made for.     *)
(*                                                                         *)
(* A session handles one packet at a time and stops at every reply it      *)
(* awaits.  Tables other sessions see are SessionLife's; packets of the    *)
(* chat, the games and the realm are their modules'.                       *)
(***************************************************************************)
EXTENDS StorageActor

CONSTANTS
  Session,
  Accounts,      \* the accounts to begin with: id -> row
  Typed,         \* names typed by clients, with an `@` or without
  NodeRealm,     \* Node::realm
  Secret,        \* passwords
  MaxEvents      \* bound: connections, requests to storage and staff commands in all

(* do_create_account and realm_bare_name: what is typed has an `@` in it.  *)
HasRealm(typed) == typed[2] # None

ASSUME LogonAssumption ==
  /\ Session \subseteq Client
  /\ MaxEvents \in Nat
  /\ NodeRealm # None
  /\ \A n \in Typed : n = <<n[1], n[2]>>

(* The accounts to begin with are rows this server wrote: numbered, and    *)
(* with a realm in the name if they have an SRP credential.                *)
ASSUME AccountsAssumption ==
  /\ IsFiniteSet(DOMAIN Accounts) /\ DOMAIN Accounts \subseteq Nat
  /\ \A id \in DOMAIN Accounts :
       /\ DOMAIN Accounts[id] = {"name", "family", "secret"}
       /\ HasRealm(Accounts[id].name) <=> Accounts[id].family = "srp"

VARIABLES
  state,     \* Bncs::state
  account,   \* Bncs::account: its id, None before the log-on
  srp,       \* Bncs::srp: the account as read, and the number that stands for `b`; or None
  pc,        \* where the handler is
  job,       \* its packet and its locals
  told,      \* history: the last answer to a log-on, packet and status; or None
  issued,    \* history: the challenge the client was sent last and has not answered; or None
  drawn,     \* challenges drawn so far
  events

own == <<state, account, srp, pc, job, told, issued>>
vars == <<own, drawn, events, storage>>

-----------------------------------------------------------------------------
(* The state machine of a game connection                                  *)
(* (crates/bnetcc-core/src/session.rs) over the packets that               *)
(* crates/bnetcc-proto/src/bncs.rs names.                                  *)

Authenticated(st) == st \in {"loggedIn", "chatting", "inChannel"}

State == {"connected", "versioning", "authenticating", "loggedIn", "chatting", "inChannel",
          "closing"}

(* Accepted in every open state, logged on or not.                         *)
Anywhere ==
  {"NULL", "PING", "STOPADV", "CHECKAD", "CLICKAD", "DISPLAYAD", "QUERYADURL",
   "UDPPINGRESPONSE", "CLIENTID", "CLIENTID2", "LOCALEINFO", "SYSTEMINFO"}

LoggedInPackets ==
  {"ENTERCHAT", "GETICONDATA", "GETFILETIME", "CHECKDATAFILE2", "GETCHANNELLIST",
   "FRIENDSLIST", "READUSERDATA", "WRITEUSERDATA", "NEWS_INFO", "QUERYREALMS2",
   "LOGONREALMEX", "NETGAMEPORT", "WARCRAFTGENERAL", "GETLADDERDATA", "FINDLADDERUSER"}

(* Chat, and the game directory with it, only after SID_ENTERCHAT.         *)
ChatPackets ==
  {"JOINCHANNEL", "LEAVECHAT", "CHATCOMMAND", "GETADVLISTEX", "STARTADVEX3", "GAMERESULT",
   "NOTIFYJOIN", "LEAVEGAME"}

Handshake ==
  [connected |-> {"AUTH_INFO", "STARTVERSIONING"},
   versioning |-> {"AUTH_CHECK", "REPORTVERSION", "CDKEY", "CDKEY2"},
   authenticating |->
     {"LOGONRESPONSE", "LOGONRESPONSE2", "CREATEACCOUNT", "CREATEACCOUNT2",
      "AUTH_ACCOUNTCREATE", "AUTH_ACCOUNTLOGON", "AUTH_ACCOUNTLOGONPROOF", "CDKEY", "CDKEY2",
      "GETICONDATA", "GETFILETIME", "READUSERDATA"}]

Packet ==
  Anywhere \cup LoggedInPackets \cup ChatPackets
  \cup Handshake.connected \cup Handshake.versioning \cup Handshake.authenticating

Accepts(st, id) ==
  CASE st = "closing" -> FALSE
    [] id \in Anywhere -> st # "closing"
    [] st \in DOMAIN Handshake -> id \in Handshake[st]
    [] st = "loggedIn" -> id \in LoggedInPackets
    [] OTHER -> id \in LoggedInPackets \cup ChatPackets

(* The state a packet leads to when its handler did not close the          *)
(* connection; None when it leads to no other.                             *)
NextOnSuccess(st, id) ==
  CASE st = "connected" /\ id \in Handshake.connected -> "versioning"
    [] st = "versioning" /\ id \in {"AUTH_CHECK", "REPORTVERSION"} -> "authenticating"
    [] st = "authenticating"
       /\ id \in {"LOGONRESPONSE", "LOGONRESPONSE2", "AUTH_ACCOUNTLOGONPROOF"} -> "loggedIn"
    [] st = "loggedIn" /\ id = "ENTERCHAT" -> "chatting"
    [] st = "chatting" /\ id = "JOINCHANNEL" -> "inChannel"
    [] OTHER -> None

(* Handlers that only ignore the packet, and so never close.               *)
Ignored ==
  {"NULL", "PING", "UDPPINGRESPONSE", "CLICKAD", "CLIENTID", "CLIENTID2", "LOCALEINFO",
   "SYSTEMINFO", "DISPLAYAD", "QUERYADURL", "WRITEUSERDATA"}

-----------------------------------------------------------------------------
(* No value is none of the values.                                         *)
ASSUME NoneAssumption ==
  /\ None \notin Session /\ None \notin Nat /\ None \notin State
  /\ None \notin [id : Packet, status : Nat]

NoJob == [id |-> None]

(* Status words of the log-on replies.                                     *)
SUCCESS == 0
NO_SUCH_ACCOUNT == 1
WRONG_PASSWORD == 2
PROOF_CUSTOM_ERROR == 15

Init ==
  /\ InitStorage([EmptyDb EXCEPT !.accounts = Accounts,
                                 !.nextId = Cardinality(DOMAIN Accounts) + 1,
                                 !.attrs = [id \in DOMAIN Accounts |-> <<>>]])
  /\ state = [s \in Session |-> "connected"]
  /\ account = [s \in Session |-> None]
  /\ srp = [s \in Session |-> None]
  /\ pc = [s \in Session |-> "idle"]
  /\ job = [s \in Session |-> NoJob]
  /\ told = [s \in Session |-> None]
  /\ issued = [s \in Session |-> None]
  /\ drawn = 0 /\ events = 0

Idle(s) == pc[s] = "idle" /\ state[s] # "closing"

(* The packet's handler starts.                                            *)
Receives(s, id) == Idle(s) /\ Accepts(state[s], id)

Counted == events < MaxEvents /\ events' = events + 1

With(f, s, v) == [f EXCEPT ![s] = v]

Await(s, at, locals, c) ==
  /\ pc' = With(pc, s, at)
  /\ job' = With(job, s, locals)
  /\ Send(s, c)

Resumes(s, at) == pc[s] = at /\ Answered(s)

-----------------------------------------------------------------------------
(* The end of a handler.                                                   *)

\* mutant: the log-on packet leads to LoggedIn whether it set the account or not
AdvanceAnyway(s, id, a) ==
  LET next == NextOnSuccess(state[s], id)
  IN  IF next = None THEN state[s] ELSE next

(* The end of `handle`, for a handler that continues with the account a.   *)
Advance(s, id, a) ==
  LET next == NextOnSuccess(state[s], id)
  IN  IF next = None \/ (next = "loggedIn" /\ a = None) THEN state[s] ELSE next

(* The handler is done.  Its reply is queued, unless the queue is full,    *)
(* which closes the connection.                                            *)
Ends(s, id, a) ==
  /\ state' \in {With(state, s, Advance(s, id, a)), With(state, s, "closing")}
  /\ account' = With(account, s, a)
  /\ pc' = With(pc, s, "idle")
  /\ job' = With(job, s, NoJob)

(* Step::Close without a reply: a body that does not parse, a failed task, *)
(* storage that fails.                                                     *)
Closes(s) ==
  /\ state' = With(state, s, "closing")
  /\ pc' = With(pc, s, "idle")
  /\ job' = With(job, s, NoJob)

Dismissed(s) == reply' = With(reply, s, NoReply) /\ UNCHANGED <<db, queue, alive>>

-----------------------------------------------------------------------------
(* Packets whose handler awaits nothing here.                              *)

Awaiting ==
  {"LOGONRESPONSE", "LOGONRESPONSE2", "AUTH_ACCOUNTCREATE", "AUTH_ACCOUNTLOGON",
   "AUTH_ACCOUNTLOGONPROOF", "CREATEACCOUNT", "CREATEACCOUNT2", "READUSERDATA", "ENTERCHAT"}

(* auth_info, auth_check, start_versioning, report_version, cd_key_reply,  *)
(* get_filetime and the others.  A version or a key that is refused is a   *)
(* reply like any other: the state advances.                               *)
Handled(s) ==
  /\ Idle(s)
  /\ state' \in {With(state, s, Advance(s, id, account[s])) :
                 id \in {id \in Packet \ Awaiting : Accepts(state[s], id)}}
  /\ UNCHANGED <<account, srp, pc, job, told, issued, drawn, events, storage>>

(* No parse, no place in the queue, or the product's connection limit.     *)
Refused(s) ==
  /\ Idle(s) /\ \E id \in Packet \ Ignored : Accepts(state[s], id)
  /\ Closes(s)
  /\ UNCHANGED <<account, srp, told, issued, drawn, events, storage>>

(* Before the log-on a packet out of place closes the connection, later it *)
(* is ignored.                                                             *)
OutOfPlace(s) ==
  /\ Idle(s) /\ \E id \in Packet : ~Accepts(state[s], id)
  /\ state' = IF Authenticated(state[s]) THEN state ELSE With(state, s, "closing")
  /\ UNCHANGED <<account, srp, pc, job, told, issued, drawn, events, storage>>

(* End of stream, a read error, the deadline, or staff.                    *)
Hangup(s) ==
  /\ Idle(s)
  /\ state' = With(state, s, "closing")
  /\ UNCHANGED <<account, srp, pc, job, told, issued, drawn, events, storage>>

(* cleanup, and a new connection in the session's place.                   *)
Reconnect(s) ==
  /\ state[s] = "closing" /\ Counted
  /\ state' = With(state, s, "connected")
  /\ account' = With(account, s, None)
  /\ srp' = With(srp, s, None)
  /\ told' = With(told, s, None) /\ issued' = With(issued, s, None)
  /\ UNCHANGED <<pc, job, drawn, storage>>

-----------------------------------------------------------------------------
(* SID_LOGONRESPONSE, SID_LOGONRESPONSE2.                                  *)

(* The proof was made with `secret`, for the token this session issued or  *)
(* for another; the legacy packet names its token itself.                  *)
Logon(s, id, typed, secret, ours) ==
  /\ Receives(s, id) /\ Counted
  /\ Await(s, "logon",
           [id |-> id, secret |-> secret, fits |-> ours \/ id = "LOGONRESPONSE"],
           [op |-> "AccountByName", name |-> typed])
  /\ UNCHANGED <<state, account, srp, told, issued, drawn>>

(* The legacy reply is 1 for a success and 0 for a failure.                *)
StatusOf(id, status) ==
  IF id = "LOGONRESPONSE" THEN (IF status = SUCCESS THEN 1 ELSE 0) ELSE status

Answers(s, id, status, a) ==
  /\ told' = With(told, s, [id |-> id, status |-> StatusOf(id, status)])
  /\ Ends(s, id, a)

(* An account without an X-SHA-1 credential does not exist for this flow.  *)
Verdict(row, j) ==
  IF row = None \/ (row # None /\ row.family # "xsha1") THEN NO_SUCH_ACCOUNT
  ELSE IF row.secret = j.secret /\ j.fits THEN SUCCESS
  ELSE WRONG_PASSWORD

(* A proof that holds, on a name no tag ban matches, goes on to            *)
(* finish_logon; a banned name is answered as an unknown one.              *)
LogonChecked(s) ==
  /\ Resumes(s, "logon")
  /\ Verdict(Answer(s), job[s]) = SUCCESS
  /\ Await(s, "finishing", [id |-> job[s].id, account |-> Answer(s).id],
           [op |-> "UserFlags", id |-> Answer(s).id])
  /\ UNCHANGED <<state, account, srp, told, issued, drawn, events>>

LogonRefused(s) ==
  /\ Resumes(s, "logon")
  /\ \E status \in {Verdict(Answer(s), job[s]), NO_SUCH_ACCOUNT} \ {SUCCESS} :
       Answers(s, job[s].id, status, account[s])
  /\ Dismissed(s)
  /\ UNCHANGED <<srp, issued, drawn, events>>

(* The stored flags have come; the log-on is recorded, the name claimed    *)
(* and registered, the account set, and the success told.                  *)
FinishLogon(s) ==
  /\ Resumes(s, "finishing")
  /\ Answers(s, job[s].id, SUCCESS, job[s].account)
  /\ queue' = IF alive THEN Append(queue, [from |-> None, cmd |->
                [op |-> "RecordLogin", id |-> job[s].account, when |-> 0]])
              ELSE queue
  /\ reply' = With(reply, s, NoReply)
  /\ UNCHANGED <<srp, issued, drawn, events, db, alive>>

-----------------------------------------------------------------------------
(* SID_CREATEACCOUNT, SID_CREATEACCOUNT2, SID_AUTH_ACCOUNTCREATE.          *)

(* do_create_account: a name with an `@` is refused before storage is      *)
(* asked.  realm_bare_name: neither may a Warcraft III client type one.    *)
Qualified(typed) == <<typed[1], NodeRealm>>

Creation == {"CREATEACCOUNT", "CREATEACCOUNT2", "AUTH_ACCOUNTCREATE"}

CreateRefused(s, typed) ==
  /\ Idle(s) /\ \E id \in Creation : Accepts(state[s], id)
  /\ HasRealm(typed)
  /\ Ends(s, "CREATEACCOUNT", account[s])
  /\ UNCHANGED <<srp, told, issued, drawn, events, storage>>

(* Registers the name as typed.  The two packets differ in their replies.  *)
Registers(s, typed, secret) ==
  Await(s, "creating", [id |-> "CREATEACCOUNT"],
        [op |-> "CreateAccount", name |-> typed, family |-> "xsha1", secret |-> secret])

\* mutant: a name with an `@` goes to storage like any other
CreateAnyAccount(s, typed, secret) ==
  /\ Receives(s, "CREATEACCOUNT") /\ Counted
  /\ Registers(s, typed, secret)
  /\ UNCHANGED <<state, account, srp, told, issued, drawn>>

DoCreateAccount(s, typed, secret) ==
  /\ Receives(s, "CREATEACCOUNT") /\ Counted
  /\ ~HasRealm(typed)
  /\ Registers(s, typed, secret)
  /\ UNCHANGED <<state, account, srp, told, issued, drawn>>

AuthAccountCreate(s, typed, secret) ==
  /\ Receives(s, "AUTH_ACCOUNTCREATE") /\ Counted
  /\ ~HasRealm(typed)
  /\ Await(s, "creating", [id |-> "AUTH_ACCOUNTCREATE"],
           [op |-> "CreateAccount", name |-> Qualified(typed), family |-> "srp",
            secret |-> secret])
  /\ UNCHANGED <<state, account, srp, told, issued, drawn>>

(* Created, taken and invalid differ in the status of the reply.  Storage  *)
(* that fails closes the connection.                                       *)
Created(s) ==
  /\ Resumes(s, "creating")
  /\ IF Answer(s) = Error THEN Closes(s) /\ UNCHANGED account
     ELSE Ends(s, job[s].id, account[s])
  /\ Dismissed(s)
  /\ UNCHANGED <<srp, told, issued, drawn, events>>

-----------------------------------------------------------------------------
(* SID_AUTH_ACCOUNTLOGON, SID_AUTH_ACCOUNTLOGONPROOF.                      *)

\* mutant: the earlier challenge stands until a new one replaces it
ChallengeKept(s, typed) ==
  /\ Receives(s, "AUTH_ACCOUNTLOGON") /\ Counted
  /\ issued' = With(issued, s, None)
  /\ IF HasRealm(typed)
     THEN Ends(s, "AUTH_ACCOUNTLOGON", account[s]) /\ UNCHANGED storage
     ELSE /\ Await(s, "challenge", [id |-> "AUTH_ACCOUNTLOGON"],
                   [op |-> "AccountByName", name |-> Qualified(typed)])
          /\ UNCHANGED <<state, account>>
  /\ UNCHANGED <<srp, told, drawn>>

(* A new request invalidates the challenge before it.                      *)
AuthAccountLogon(s, typed) ==
  /\ Receives(s, "AUTH_ACCOUNTLOGON") /\ Counted
  /\ srp' = With(srp, s, None) /\ issued' = With(issued, s, None)
  /\ IF HasRealm(typed)
     THEN Ends(s, "AUTH_ACCOUNTLOGON", account[s]) /\ UNCHANGED storage
     ELSE /\ Await(s, "challenge", [id |-> "AUTH_ACCOUNTLOGON"],
                   [op |-> "AccountByName", name |-> Qualified(typed)])
          /\ UNCHANGED <<state, account>>
  /\ UNCHANGED <<told, drawn>>

(* No such account, or one with another credential: no challenge.          *)
NoChallenge(s) ==
  /\ Resumes(s, "challenge")
  /\ Answer(s) = None \/ (Answer(s) # None /\ Answer(s).family # "srp")
  /\ Ends(s, job[s].id, account[s])
  /\ Dismissed(s)
  /\ UNCHANGED <<srp, told, issued, drawn, events>>

(* `b` is drawn, and a blocking task computes the public key of it.        *)
ChallengeComputing(s) ==
  /\ Resumes(s, "challenge")
  /\ Answer(s) # None /\ Answer(s).family = "srp"
  /\ drawn' = drawn + 1
  /\ pc' = With(pc, s, "computing")
  /\ job' = With(job, s, [id |-> job[s].id, account |-> Answer(s).id,
                         verifier |-> Answer(s).secret, b |-> drawn + 1])
  /\ Dismissed(s)
  /\ UNCHANGED <<state, account, srp, told, issued, events>>

ChallengeSent(s) ==
  /\ pc[s] = "computing"
  /\ srp' = With(srp, s, [account |-> job[s].account, verifier |-> job[s].verifier,
                         b |-> job[s].b])
  /\ issued' = With(issued, s, job[s].b)
  /\ Ends(s, job[s].id, account[s])
  /\ UNCHANGED <<told, drawn, events, storage>>

(* The proof takes the challenge with it to the blocking task.             *)
Proof(s, secret, b) ==
  /\ Receives(s, "AUTH_ACCOUNTLOGONPROOF") /\ srp[s] # None
  /\ srp' = With(srp, s, None) /\ issued' = With(issued, s, None)
  /\ pc' = With(pc, s, "verifying")
  /\ job' = With(job, s, [id |-> "AUTH_ACCOUNTLOGONPROOF", account |-> srp[s].account,
                         holds |-> secret = srp[s].verifier /\ b = srp[s].b])
  /\ UNCHANGED <<state, account, told, drawn, events, storage>>

(* A proof without a challenge closes the connection.                      *)
ProofUnasked(s) ==
  /\ Receives(s, "AUTH_ACCOUNTLOGONPROOF") /\ srp[s] = None
  /\ Closes(s)
  /\ UNCHANGED <<account, srp, told, issued, drawn, events, storage>>

ProofHolds(s) ==
  /\ pc[s] = "verifying" /\ job[s].holds
  /\ Await(s, "finishing", [id |-> job[s].id, account |-> job[s].account],
           [op |-> "UserFlags", id |-> job[s].account])
  /\ UNCHANGED <<state, account, srp, told, issued, drawn, events>>

(* Wrong password, or a proof that holds on a tag-banned name.             *)
ProofRefused(s) ==
  /\ pc[s] = "verifying"
  /\ Answers(s, job[s].id, IF job[s].holds THEN PROOF_CUSTOM_ERROR ELSE WRONG_PASSWORD,
             account[s])
  /\ UNCHANGED <<srp, issued, drawn, events, storage>>

(* The blocking task panicked.                                             *)
TaskFailed(s) ==
  /\ pc[s] \in {"computing", "verifying"}
  /\ Closes(s)
  /\ UNCHANGED <<account, srp, told, issued, drawn, events, storage>>

-----------------------------------------------------------------------------
(* SID_READUSERDATA: the names of the request one await after the other.   *)

AskData(s, rest) ==
  Await(s, "reading", [id |-> "READUSERDATA", rest |-> Tail(rest)],
        [op |-> "ReadReadableAttrs", name |-> Head(rest), keys |-> {LastLoginKey}])

ReadUserData(s, ns) ==
  /\ Receives(s, "READUSERDATA") /\ Counted
  /\ AskData(s, ns)
  /\ UNCHANGED <<state, account, srp, told, issued, drawn>>

GotData(s) ==
  /\ Resumes(s, "reading")
  /\ IF job[s].rest # <<>> THEN AskData(s, job[s].rest) /\ UNCHANGED <<state, account>>
     ELSE Ends(s, job[s].id, account[s]) /\ Dismissed(s)
  /\ UNCHANGED <<srp, told, issued, drawn, events>>

(* SID_ENTERCHAT reads the account's record or its character first.  The   *)
(* handler also closes a session without an account: LogonOutcomeExact     *)
(* says that there is none in a state that accepts the packet.             *)
EnterChat(s) ==
  /\ Receives(s, "ENTERCHAT") /\ account[s] # None /\ Counted
  /\ Await(s, "entering", [id |-> "ENTERCHAT"],
           [op |-> "CharacterByName", name |-> account[s]])
  /\ UNCHANGED <<state, account, srp, told, issued, drawn>>

EnteredChat(s) ==
  /\ Resumes(s, "entering")
  /\ Ends(s, job[s].id, account[s])
  /\ Dismissed(s)
  /\ UNCHANGED <<srp, told, issued, drawn, events>>

-----------------------------------------------------------------------------
(* Staff: a password reset or an account deleted from the panel.           *)

Staff(c) == Counted /\ Cast(c) /\ UNCHANGED <<own, drawn>>

Actor == (Serve \/ Die) /\ UNCHANGED <<own, drawn, events>>

Packets(s) ==
  \/ Handled(s) \/ Refused(s) \/ OutOfPlace(s)
  \/ \E n \in Typed : CreateRefused(s, n)
  \/ \E n \in Typed, p \in Secret :
       \/ DoCreateAccount(s, n, p)
       \/ \E id \in {"LOGONRESPONSE", "LOGONRESPONSE2"}, ours \in BOOLEAN : Logon(s, id, n, p, ours)
  \/ \E n \in Typed, p \in Secret : AuthAccountCreate(s, n, p)
  \/ \E n \in Typed : AuthAccountLogon(s, n)
  \/ \E p \in Secret, b \in 1 .. drawn : Proof(s, p, b)
  \/ ProofUnasked(s)
  \/ \E n \in Typed : ReadUserData(s, <<n>>) \/ ReadUserData(s, <<n, n>>)
  \/ EnterChat(s)
  \/ Hangup(s) \/ Reconnect(s)

Handlers(s) ==
  \/ LogonChecked(s) \/ LogonRefused(s) \/ FinishLogon(s) \/ Created(s)
  \/ NoChallenge(s) \/ ChallengeComputing(s) \/ ChallengeSent(s)
  \/ ProofHolds(s) \/ ProofRefused(s) \/ TaskFailed(s)
  \/ GotData(s) \/ EnteredChat(s)

Panel ==
  \E id \in DOMAIN db.accounts :
    \/ Staff([op |-> "DeleteUser", id |-> id])
    \/ \E p \in Secret : Staff([op |-> "ResetPassword", id |-> id, secret |-> p])

Next == Actor \/ Panel \/ \E s \in Session : Packets(s) \/ Handlers(s)

Spec == Init /\ [][Next]_vars

-----------------------------------------------------------------------------
(* Properties.                                                             *)

(* What the client reads a log-on reply as.                                *)
ToldSuccess(s) ==
  /\ told[s] # None
  /\ told[s].status = IF told[s].id = "LOGONRESPONSE" THEN 1 ELSE 0

(* Between packets, an open session has an account exactly in the states   *)
(* behind the log-on, and exactly if the last log-on reply it sent reads   *)
(* as a success in that packet's own words: whatever interleaves with the  *)
(* handler's awaits, and whichever of the flows the client mixes.  The     *)
(* handlers behind the log-on, finish_logon's one display name and the     *)
(* client's own screen rest on it.                                         *)
LogonOutcomeExact ==
  \A s \in Session : Idle(s) =>
    /\ Authenticated(state[s]) <=> account[s] # None
    /\ Authenticated(state[s]) <=> ToldSuccess(s)

(* The challenge a session keeps is the one its client was sent last and   *)
(* has not answered: a refused request or a proof leaves none behind.      *)
ChallengeIsLast ==
  \A s \in Session : srp[s] # None => srp[s].b = issued[s]

(* Accounts with a realm are exactly the ones with an SRP credential:      *)
(* auth_account_logon counts on it ("cannot happen by construction").  It  *)
(* survives password resets, and creations of both families that race.     *)
RealmNamesAreSrp ==
  \A id \in DOMAIN db.accounts :
    HasRealm(db.accounts[id].name) <=> db.accounts[id].family = "srp"
=================================================================================
