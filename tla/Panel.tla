---------------------------------- MODULE Panel ----------------------------------
(***************************************************************************)
(* The admin panel (crates/bnetccd/src/status.rs) over its credentials     *)
(* (admin.rs), the configuration file and the storage actor, in a daemon   *)
(* that the launcher (crates/bnetcc-launcher/src/main.rs) starts again.    *)
(*                                                                         *)
(* Requests are served in parallel.  A handler is one step where it holds  *)
(* one lock, and several where it lets others in between: the password     *)
(* check of a logon, the reading, truncating and writing of a file, and    *)
(* every command to the storage actor.                                     *)
(***************************************************************************)
EXTENDS Config, StorageActor

CONSTANTS
  Conn,             \* panel connections, one request each
  Ip, Loopback,     \* peer addresses, and those on this host
  Password,         \* what people type
  Generated,        \* a first-run password
  Form,             \* forms the settings page may send, besides an untouched one
  DefaultFile,      \* the launcher's DEFAULT_CONFIG
  Truncated,        \* an emptied file
  MaxLoginFails, LoginWindow, SessionTtl,
  PanelDb,          \* the database at the first start
  MaxTokens, MaxTime, MaxArrivals   \* bounds

(* A file that is no document: written by two at once, or in part.         *)
Torn == [torn |-> TRUE]

(* What a write cut short leaves behind the emptied file: a text that ends *)
(* amid a line, or a document without the tables that come last, which a   *)
(* start may accept or not; one such cut stands for all.                   *)
Beginnings(doc) ==
  {Torn, [EmptyDoc EXCEPT !.str = doc.str, !.int = doc.int, !.flag = doc.flag]}

(* The limiter's numbers are positive, absent and emptied files are no     *)
(* credentials, and a start accepts the launcher's own file.               *)
ASSUME PanelAssumption ==
  /\ MaxLoginFails \in Nat \ {0} /\ LoginWindow \in Nat \ {0}
  /\ MaxTime \in Nat /\ IsFiniteSet(Conn)
  /\ {None, Truncated} \cap [password : Password \cup {Generated}, must_change : BOOLEAN,
                             remote : BOOLEAN] = {}
  /\ Truncated \notin {None, Torn} /\ DefaultFile # Torn /\ StartAccepts(DefaultFile)

VARIABLES
  phase,      \* "down", "up", or "refused": a start that failed
  file, bak,  \* the configuration file and its .bak; None when absent
  disk,       \* admin.json; None when absent, Truncated when unreadable
  admin,      \* the credentials in memory; None while the panel is not served
  sessions,   \* token to expiry
  rate,       \* address to failed logons and the start of their window
  request,    \* what each connection is doing
  tokens, clock, arrived,
  generated,  \* history: first-run passwords generated
  guesses,    \* history: per address and tick, the failed logons before that tick
              \* since its last good one or the start, which forgets them as the
              \* limiter does
  overlapped, \* history: of the saves under way, or the last, two were so at once
  spoiled     \* history: a save cut short or overlapped left the file as it is

panel == <<phase, file, bak, disk, admin, sessions, rate, request, tokens, clock, arrived,
           generated, guesses, overlapped, spoiled>>
panelVars == <<panel, storage>>
counters == <<tokens, clock, arrived, generated, guesses, overlapped>>
saved == <<file, bak, spoiled>>

Idle == [at |-> "idle"]

NoGuesses == [t \in 0..MaxTime + 1 |-> 0]

PanelInit ==
  /\ phase = "down" /\ file = None /\ bak = None /\ disk = None /\ admin = None
  /\ sessions = <<>> /\ rate = <<>>
  /\ request = [c \in Conn |-> Idle]
  /\ tokens = 0 /\ clock = 0 /\ arrived = 0
  /\ generated = 0 /\ guesses = [i \in Ip |-> NoGuesses] /\ overlapped = FALSE /\ spoiled = FALSE
  /\ InitStorage(PanelDb)

-----------------------------------------------------------------------------
(* Starting and stopping.                                                  *)

\* mutant: an unreadable admin.json counts as a first run
CredentialsForgiving(d) ==
  IF d \in {None, Truncated}
  THEN [password |-> Generated, must_change |-> TRUE, remote |-> FALSE] ELSE d

(* Admin::load_or_init: generated on the first run, refused if unreadable, *)
(* and the panel then is not served.                                       *)
Credentials(d) ==
  IF d = None THEN [password |-> Generated, must_change |-> TRUE, remote |-> FALSE]
  ELSE IF d = Truncated THEN None ELSE d

(* load_config_doc, and Config::load but for a torn file: an empty file is *)
(* an empty document                                                       *)
Document(f) == IF f \in {None, Truncated, Torn} THEN EmptyDoc ELSE f

(* The launcher writes its default file when there is none and runs the    *)
(* daemon,                                                                 *)
Launched(f) == IF f = None THEN DefaultFile ELSE f

(* which loads the file, or ends                                           *)
Loads(config) == config # Torn /\ StartAccepts(Document(config))

(* serves the panel if the file says where, and loads its credentials      *)
(* then.  A database or a port that cannot be opened ends the daemon too:  *)
(* that is no start, or a start that stops at once.                        *)
Serves(config) == Str(Document(config), "status_listen") \notin {"", "nowhere"}

StartDaemon ==
  LET config == Launched(file)
      starts == Loads(config)
      creds == IF starts /\ Serves(config) THEN Credentials(disk) ELSE None
  IN  /\ phase = "down"
      /\ file' = config
      /\ phase' = IF starts THEN "up" ELSE "refused"
      /\ admin' = creds
      /\ disk' = IF creds # None THEN creds ELSE disk
      /\ generated' = generated + (IF creds # None /\ disk # creds THEN 1 ELSE 0)
      /\ UNCHANGED <<bak, sessions, rate, request, tokens, clock, arrived, guesses, overlapped,
                     spoiled, storage>>

(* The process ends, by /restart, a signal or a crash: what was in memory  *)
(* and the requests under way are gone, a write may be cut short.  The     *)
(* launcher starts it again after a restart, an operator otherwise.        *)
StopDaemon ==
  /\ phase = "up"
  /\ phase' = "down" /\ admin' = None /\ sessions' = <<>> /\ rate' = <<>>
  /\ request' = [c \in Conn |-> Idle]
  /\ reply' = [c \in Client |-> NoReply] /\ queue' = <<>> /\ UNCHANGED <<db, alive>>
  /\ guesses' = [i \in Ip |-> NoGuesses]
  /\ \/ UNCHANGED <<file, spoiled>>
     \/ \E c \in Conn : /\ request[c].at = "write"
                        /\ file' \in Beginnings(request[c].doc) /\ spoiled' = TRUE
  /\ UNCHANGED <<bak, disk, tokens, clock, arrived, generated, overlapped>>

(* An operator mends the file by hand, while the daemon is down.           *)
Mend ==
  /\ phase # "up"
  /\ phase' = "down" /\ file' = DefaultFile /\ spoiled' = FALSE
  /\ UNCHANGED <<bak, disk, admin, sessions, rate, request, counters, storage>>

ClockTick ==
  /\ clock < MaxTime
  /\ clock' = clock + 1
  /\ UNCHANGED <<phase, saved, disk, admin, sessions, rate, request, tokens, arrived,
                 generated, guesses, overlapped, storage>>

-----------------------------------------------------------------------------
(* A request arrives.                                                      *)

Arrives(c) ==
  /\ phase = "up" /\ admin # None /\ request[c] = Idle
  /\ arrived < MaxArrivals /\ arrived' = arrived + 1

Goes(c, to) == request' = [request EXCEPT ![c] = to]

(* handle_conn: a peer from elsewhere gets nowhere while remote is off.    *)
Reaches(ip) == ip \in Loopback \/ admin.remote

(* is_rate_limited: an entry whose window has passed is dropped.           *)
Recent(ip) == ip \in DOMAIN rate /\ clock - rate[ip].start < LoginWindow
Limited(ip) == Recent(ip) /\ rate[ip].fails >= MaxLoginFails

(* POST /login: the limiter is asked before the password is checked        *)
Login(c, ip, password) ==
  /\ Arrives(c) /\ Reaches(ip)
  /\ ~Limited(ip)
  /\ rate' = IF Recent(ip) THEN rate ELSE Without(rate, {ip})
  /\ Goes(c, [at |-> "verify", ip |-> ip, password |-> password])
  /\ UNCHANGED <<phase, saved, disk, admin, sessions, tokens, clock, generated, guesses,
                 overlapped, storage>>

(* The rest of do_login, after the slow verification of the password.      *)
LoggedIn(c) ==
  LET ip == request[c].ip IN
  /\ request[c].at = "verify" /\ request[c].password = admin.password
  /\ tokens < MaxTokens
  /\ tokens' = tokens + 1
  /\ sessions' = Insert(sessions, tokens + 1, clock + SessionTtl)
  /\ rate' = Without(rate, {ip})
  /\ guesses' = [guesses EXCEPT ![ip] = NoGuesses]
  /\ Goes(c, Idle)
  /\ UNCHANGED <<phase, saved, disk, admin, clock, arrived, generated, overlapped, storage>>

\* mutant: the entry is made and its count forgotten
FailedUncounted(ip) == IF Recent(ip) THEN rate[ip] ELSE [fails |-> 0, start |-> clock]

(* record_fail *)
Failed(ip) ==
  IF Recent(ip) THEN [rate[ip] EXCEPT !.fails = @ + 1] ELSE [fails |-> 1, start |-> clock]

LoginFails(c) ==
  LET ip == request[c].ip IN
  /\ request[c].at = "verify" /\ request[c].password # admin.password
  /\ rate' = Insert(rate, ip, Failed(ip))
  /\ guesses' = [guesses EXCEPT ![ip] = [t \in 0..MaxTime + 1 |-> @[t] + IF t > clock THEN 1 ELSE 0]]
  /\ Goes(c, Idle)
  /\ UNCHANGED <<phase, saved, disk, admin, sessions, tokens, clock, arrived, generated,
                 overlapped, storage>>

Logout(c, ip, token) ==
  /\ Arrives(c) /\ Reaches(ip) /\ token \in DOMAIN sessions
  /\ sessions' = Without(sessions, {token})
  /\ UNCHANGED <<phase, saved, disk, admin, rate, request, tokens, clock, generated, guesses,
                 overlapped, storage>>

(* is_authed drops a token that has expired.                               *)
Authed(token) == token \in DOMAIN sessions /\ sessions[token] > clock

Expired(c, ip, token) ==
  /\ Arrives(c) /\ Reaches(ip) /\ token \in DOMAIN sessions /\ ~Authed(token)
  /\ sessions' = Without(sessions, {token})
  /\ UNCHANGED <<phase, saved, disk, admin, rate, request, tokens, clock, generated, guesses,
                 overlapped, storage>>

(* Every other route needs a session, and nothing but the password may be  *)
(* changed while the first-run password stands.                            *)
Admitted(c, ip, token) == Arrives(c) /\ Reaches(ip) /\ Authed(token)
MayAct(c, ip, token) == Admitted(c, ip, token) /\ ~admin.must_change

-----------------------------------------------------------------------------
(* Credentials.  set_password and set_remote_enabled hold the lock while   *)
(* they write admin.json, which is emptied first.                          *)

Unlocked == \A c \in Conn : request[c].at # "persist"

Persist(c, state) ==
  /\ Unlocked
  /\ admin' = state
  /\ disk' \in {disk, Truncated}
  /\ Goes(c, [at |-> "persist"])
  /\ UNCHANGED <<phase, saved, sessions, rate, tokens, clock, generated, guesses, overlapped,
                 storage>>

(* do_change_pw, for a password that is neither empty nor too long and     *)
(* typed twice alike: the other sessions stay                              *)
ChangePassword(c, ip, token, password) ==
  /\ Admitted(c, ip, token)
  /\ Persist(c, [admin EXCEPT !.password = password, !.must_change = FALSE])

SetRemote(c, ip, token, on) ==
  /\ MayAct(c, ip, token)
  /\ Persist(c, [admin EXCEPT !.remote = on])

(* A failed write is logged and the answer is the same.                    *)
Persisted(c, ok) ==
  /\ request[c].at = "persist"
  /\ disk' = IF ok THEN admin ELSE disk
  /\ Goes(c, Idle)
  /\ UNCHANGED <<phase, saved, admin, sessions, rate, counters, storage>>

-----------------------------------------------------------------------------
(* Settings: do_settings_config.                                           *)

Saving == {c \in Conn : request[c].at \in {"save", "write"}}

\* mutant: the form is not validated before it is written
SaveAnything(f, form) == SaveUnchecked(Document(f), form)

(* The document a save would write, from the file as it is now; None if it *)
(* is refused.                                                             *)
Submitted(f, form) == Save(Document(f), form)

SaveSettings(c, ip, token, form) ==
  /\ MayAct(c, ip, token)
  /\ Submitted(file, form) # None
  /\ Goes(c, [at |-> "save", doc |-> Submitted(file, form)])
  /\ overlapped' = (Saving # {})
  /\ UNCHANGED <<phase, saved, disk, admin, sessions, rate, tokens, clock, generated, guesses,
                 storage>>

(* The backup is taken, and the file opened for writing, which empties it. *)
OpenForWriting(c) ==
  /\ request[c].at = "save"
  /\ bak' = file
  /\ file' = Truncated /\ spoiled' = FALSE
  /\ Goes(c, [request[c] EXCEPT !.at = "write"])
  /\ UNCHANGED <<phase, disk, admin, sessions, rate, counters, storage>>

(* The bytes go over what is there: a longer text another save has written *)
(* since shows its end behind a shorter one.  The write may fail, before   *)
(* the first byte or after some.                                           *)
Write(c) ==
  /\ request[c].at = "write"
  /\ \/ file' = request[c].doc /\ spoiled' = overlapped
     \/ UNCHANGED file /\ spoiled' = overlapped
     \/ file' \in Beginnings(request[c].doc) /\ spoiled' = TRUE
  /\ Goes(c, Idle)
  /\ UNCHANGED <<phase, bak, disk, admin, sessions, rate, counters, storage>>

-----------------------------------------------------------------------------
(* Accounts: do_user_flags, do_user_reset, do_user_delete send the storage *)
(* actor one command and then list a page of users, one more than it shows *)
(* to learn whether there is another.                                      *)

UserCommand(id) ==
  {[op |-> "SetUserFlags", id |-> id, flags |-> 1],
   [op |-> "ResetPassword", id |-> id, secret |-> 2],
   [op |-> "DeleteUser", id |-> id]}

EditUser(c, ip, token, command) ==
  /\ MayAct(c, ip, token)
  /\ Goes(c, [at |-> "edit"])
  /\ Send(c, command)
  /\ UNCHANGED <<phase, saved, disk, admin, sessions, rate, tokens, clock, generated, guesses,
                 overlapped>>

UserEdited(c) ==
  /\ request[c].at = "edit" /\ Answered(c)
  /\ Goes(c, [at |-> "list"])
  /\ Send(c, [op |-> "ListUsers", offset |-> 0, limit |-> 2])
  /\ UNCHANGED <<phase, saved, disk, admin, sessions, rate, counters>>

UsersListed(c) ==
  /\ request[c].at = "list" /\ Answered(c)
  /\ Goes(c, Idle)
  /\ reply' = [reply EXCEPT ![c] = NoReply]
  /\ UNCHANGED <<phase, saved, disk, admin, sessions, rate, counters, db, queue, alive>>

-----------------------------------------------------------------------------
Token == 1..MaxTokens

Public(c) ==
  \E ip \in Ip : \/ \E p \in Password \cup {Generated} : Login(c, ip, p)
                 \/ \E t \in Token : Logout(c, ip, t) \/ Expired(c, ip, t)

Private(c) ==
  \E ip \in Ip, t \in Token :
    \/ \E p \in Password : ChangePassword(c, ip, t, p)
    \/ \E on \in BOOLEAN : SetRemote(c, ip, t, on)
    \/ \E form \in Form \cup {SettingsPage(Document(file))} : SaveSettings(c, ip, t, form)
    \/ \E command \in UNION {UserCommand(id) : id \in DOMAIN db.accounts} : EditUser(c, ip, t, command)

Continues(c) ==
  \/ LoggedIn(c) \/ LoginFails(c)
  \/ \E ok \in BOOLEAN : Persisted(c, ok)
  \/ OpenForWriting(c) \/ Write(c)
  \/ UserEdited(c) \/ UsersListed(c)

Actor == Serve /\ UNCHANGED panel

PanelNext ==
  \/ StartDaemon \/ StopDaemon \/ Mend \/ ClockTick \/ Actor
  \/ \E c \in Conn : Public(c) \/ Private(c) \/ Continues(c)

PanelSpec == PanelInit /\ [][PanelNext]_panelVars

-----------------------------------------------------------------------------
(* A start refuses only a file that a save left behind which was cut       *)
(* short, by a failed write or the end of the process, or under way with   *)
(* another: the file is emptied and written in place and without a lock.   *)
(* What a save writes whole and alone a start accepts, whatever was on     *)
(* disk before (status.rs:1774-1790).                                      *)
OnlySpoiledRefused == phase = "refused" => spoiled

(* One first-run password in the life of the data directory: credentials   *)
(* cut short by a crash disable the panel, and never bring back a password *)
(* from the log, nor one nobody chose (admin.rs:56-77).                    *)
FirstRunOnce == generated <= 1

(* The failed logons of one address between two good ones, in one life of  *)
(* the daemon (status.rs:762-788: the counts are in memory), in as many  *)
(* ticks as the limiter's window: at most two windows' worth, and in each  *)
(* the limit is overrun only by requests already past it.                  *)
GuessesBounded ==
  \A ip \in Ip, a, b \in 0..MaxTime + 1 :
    a < b /\ b - a <= LoginWindow
      => guesses[ip][b] - guesses[ip][a] <= 2 * (MaxLoginFails - 1 + Cardinality(Conn))
==================================================================================
