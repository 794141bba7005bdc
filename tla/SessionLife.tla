------------------------------ MODULE SessionLife ------------------------------
(***************************************************************************)
(* The life of a connection to bnetccd, from the accept loop               *)
(* (crates/bnetccd/src/main.rs) through `handle` and `bncs_session`        *)
(* (crates/bnetccd/src/session.rs) to its cleanup, and the shared tables   *)
(* it registers in on the way (crates/bnetccd/src/node.rs,                 *)
(* crates/bnetcc-core/src/limits.rs, crates/bnetccd/src/moderation.rs):    *)
(* admission counts, CD keys, display names, the moderation directory.     *)
(*                                                                         *)
(* Each table has a mutex of its own and every connection is a task, so    *)
(* one action is one critical section together with the code of the task   *)
(* that touches nothing shared.  Packets are left out except the ones that *)
(* change one of these tables or the session's state; channels are the     *)
(* subject of ChatFanout.                                                  *)
(***************************************************************************)
EXTENDS Integers, Sequences, FiniteSets

CONSTANTS
  Conn,           \* connections that may exist at one time
  IP,             \* addresses they come from; staff sit at another address
  Product,        \* game products a client may announce
  Key,            \* CD keys
  KeyLists,       \* the key lists a SID_AUTH_CHECK may carry: at most two keys
  Account,        \* account names
  Character,      \* Character[a]: the `Character*Account` name of a's character
  RealmProduct,   \* the products of the Diablo II realm
  Global, PerIp,  \* ConnLimits of each client class
  Allowlist,      \* addresses exempt from the per-address ceilings
  MaxConnections, \* limits.max_connections
  None            \* no address, class, product or name

(* ClientClass: before SID_AUTH_INFO names the product, a game client is   *)
(* accounted under GamePending.                                            *)
Class == {"GamePending", "Gateway", "Bnftp"} \cup Product

(* A display name is a base and the suffix `#n`; n = 1 stands for none.    *)
Base == Account \cup {Character[a] : a \in Account}
Name == Base \X (1 .. Cardinality(Conn))

ASSUME SessionLifeAssumption ==
  /\ IsFiniteSet(Conn)
  /\ KeyLists \subseteq Seq(Key)
  /\ Global \in [Class -> Nat] /\ PerIp \in [Class -> Nat]
  /\ MaxConnections \in Nat
  /\ Allowlist \subseteq IP /\ RealmProduct \subseteq Product
  /\ None \notin IP \cup Class \cup Account \cup Name

VARIABLES
  pc,        \* where each connection's task is
  ip,        \* the peer's address
  cls,       \* Bncs::class, or the class `handle` admitted it under
  product,   \* Bncs::product
  perIp, perClass, total,  \* AdmissionTable, and Node::connections
  active, cooling,         \* KeyRegistry
  want,      \* the keys the client listed at SID_AUTH_CHECK
  held,      \* of these, the ones this session has claimed
  names,     \* Node::active_names
  name,      \* Bncs::display_name
  account,   \* Bncs::account, from the moment its proof is accepted
  directory, \* Node::sessions: <<name, connection>> pairs, one per name
  kill,      \* connections whose kill Notify holds a permit
  ipBans, tagBans,  \* BanStore: addresses, and accounts a banned tag matches
  staff,     \* the staff command under way, <<>> between commands
  told       \* history: connections that were in the directory when staff
             \* disconnected their address or name

admission == <<perIp, perClass, total>>
keys == <<active, cooling, want, held>>
naming == <<names, name, account, directory>>
moderation == <<kill, ipBans, tagBans, staff, told>>
vars == <<pc, ip, cls, product, admission, keys, naming, moderation>>

(* The session waits in `select!` between packets in the states Connected, *)
(* Versioning, Authenticating and, once logged in, online (LoggedIn,       *)
(* Chatting, InChannel).                                                   *)
Idle == {"connected", "versioning", "authenticating", "online"}

PC == {"free", "accepted", "aux"} \cup Idle
      \cup {"claiming", "refusing", "naming", "registering",   \* in a handler
            "entering", "unnaming",
            "closing", "unnamed", "draining"}                  \* cleanup

Init ==
  /\ pc = [c \in Conn |-> "free"]
  /\ ip = [c \in Conn |-> None]
  /\ cls = [c \in Conn |-> None]
  /\ product = [c \in Conn |-> None]
  /\ perIp = [x \in Class \X IP |-> 0]
  /\ perClass = [x \in Class |-> 0]
  /\ total = 0
  /\ active = {} /\ cooling = {}
  /\ want = [c \in Conn |-> <<>>]
  /\ held = [c \in Conn |-> <<>>]
  /\ names = {}
  /\ name = [c \in Conn |-> None]
  /\ account = [c \in Conn |-> None]
  /\ directory = {}
  /\ kill = {}
  /\ ipBans = {} /\ tagBans = {}
  /\ staff = <<>>
  /\ told = {}

Goto(c, from, to) == pc[c] = from /\ pc' = [pc EXCEPT ![c] = to]

-----------------------------------------------------------------------------
(* AdmissionTable.                                                         *)

WouldAdmit(k, i) ==
  /\ perClass[k] < Global[k]
  /\ i \in Allowlist \/ perIp[<<k, i>>] < PerIp[k]

Less(n) == IF n = 0 THEN 0 ELSE n - 1

Add(k, i) ==
  /\ perIp' = [perIp EXCEPT ![<<k, i>>] = @ + 1]
  /\ perClass' = [perClass EXCEPT ![k] = @ + 1]
  /\ total' = total + 1

Remove(k, i) ==
  /\ perIp' = [perIp EXCEPT ![<<k, i>>] = Less(@)]
  /\ perClass' = [perClass EXCEPT ![k] = Less(@)]
  /\ total' = Less(total)

\* mutant: moves the connection before it checks the target's ceilings
ReclassifyFirst(c, to) ==
  /\ IF to = cls[c] THEN UNCHANGED admission
     ELSE /\ perIp' = [perIp EXCEPT ![<<cls[c], ip[c]>>] = Less(@), ![<<to, ip[c]>>] = @ + 1]
          /\ perClass' = [perClass EXCEPT ![cls[c]] = Less(@), ![to] = @ + 1]
          /\ UNCHANGED total
  /\ cls' = [cls EXCEPT ![c] = IF to = @ \/ WouldAdmit(to, ip[c]) THEN to ELSE @]

(* reclassify, and auth_info's use of it: on refusal counts and class stay *)
Reclassify(c, to) ==
  IF to = cls[c] \/ ~WouldAdmit(to, ip[c])
  THEN UNCHANGED <<admission, cls>>
  ELSE /\ perIp' = [perIp EXCEPT ![<<cls[c], ip[c]>>] = Less(@), ![<<to, ip[c]>>] = @ + 1]
       /\ perClass' = [perClass EXCEPT ![cls[c]] = Less(@), ![to] = @ + 1]
       /\ UNCHANGED total
       /\ cls' = [cls EXCEPT ![c] = to]

-----------------------------------------------------------------------------
(* The accept loop and `handle`.                                           *)

(* The ceiling is compared with the connections admitted so far; the one   *)
(* accepted here is counted only once its selector byte has arrived.       *)
Accept(c, i) ==
  /\ i \notin ipBans
  /\ total < MaxConnections
  /\ Goto(c, "free", "accepted")
  /\ ip' = [ip EXCEPT ![c] = i]
  /\ UNCHANGED <<cls, product, admission, keys, naming, moderation>>

(* The selector byte chooses the class to admit under.  A game connection  *)
(* may turn out to be a realm (MCP) one, which stays GamePending.          *)
Admit(c, k) ==
  /\ pc[c] = "accepted"
  /\ WouldAdmit(k, ip[c])
  /\ Add(k, ip[c])
  /\ cls' = [cls EXCEPT ![c] = k]
  /\ \/ k = "GamePending" /\ Goto(c, "accepted", "connected")
     \/ Goto(c, "accepted", "aux")
  /\ UNCHANGED <<ip, product, keys, naming, moderation>>

Refuse(c) ==
  /\ Goto(c, "accepted", "free")
  /\ ip' = [ip EXCEPT ![c] = None]
  /\ UNCHANGED <<cls, product, admission, keys, naming, moderation>>

(* A gateway, BNFTP or realm session ends.                                 *)
AuxEnds(c) ==
  /\ Goto(c, "aux", "draining")
  /\ UNCHANGED <<ip, cls, product, admission, keys, naming, moderation>>

(* The writer has drained its queue: `handle` gives back the admission of  *)
(* the class the session ended with, and the connection is gone.           *)
Release(c) ==
  /\ Goto(c, "draining", "free")
  /\ Remove(cls[c], ip[c])
  /\ ip' = [ip EXCEPT ![c] = None]
  /\ cls' = [cls EXCEPT ![c] = None]
  /\ product' = [product EXCEPT ![c] = None]
  /\ want' = [want EXCEPT ![c] = <<>>]
  /\ name' = [name EXCEPT ![c] = None]
  /\ account' = [account EXCEPT ![c] = None]
  /\ kill' = kill \ {c} /\ told' = told \ {c}
  /\ UNCHANGED <<active, cooling, held, names, directory, ipBans, tagBans, staff>>

-----------------------------------------------------------------------------
(* The version check and the CD keys.                                      *)

(* SID_AUTH_INFO: the connection moves to its product's class or is closed *)
AuthInfo(c, p) ==
  /\ pc[c] = "connected"
  /\ product' = [product EXCEPT ![c] = p]
  /\ Reclassify(c, p)
  /\ pc' = [pc EXCEPT ![c] = IF WouldAdmit(p, ip[c]) THEN "versioning" ELSE "closing"]
  /\ UNCHANGED <<ip, keys, naming, moderation>>

(* SID_STARTVERSIONING: the product is noted, the class is not changed.    *)
StartVersioning(c, p) ==
  /\ Goto(c, "connected", "versioning")
  /\ product' = [product EXCEPT ![c] = p]
  /\ UNCHANGED <<ip, cls, admission, keys, naming, moderation>>

(* SID_REPORTVERSION, and a SID_AUTH_CHECK that claims no key: the version *)
(* is refused, the frame does not parse, or uniqueness is configured off.  *)
(* Each of them sends a reply and so moves on to Authenticating.           *)
VersionWithoutKeys(c) ==
  /\ Goto(c, "versioning", "authenticating")
  /\ UNCHANGED <<ip, cls, product, admission, keys, naming, moderation>>

AuthCheck(c, ks) ==
  /\ Goto(c, "versioning", "claiming")
  /\ want' = [want EXCEPT ![c] = ks]
  /\ UNCHANGED <<ip, cls, product, admission, active, cooling, held, naming, moderation>>

NextKey(c) == want[c][Len(held[c]) + 1]

ClaimKey(c) ==
  /\ pc[c] = "claiming"
  /\ IF held[c] = want[c]
     THEN /\ pc' = [pc EXCEPT ![c] = "authenticating"]
          /\ UNCHANGED <<active, held>>
     ELSE IF NextKey(c) \in active \cup cooling
     THEN /\ pc' = [pc EXCEPT ![c] = "refusing"]
          /\ UNCHANGED <<active, held>>
     ELSE /\ active' = active \cup {NextKey(c)}
          /\ held' = [held EXCEPT ![c] = Append(@, NextKey(c))]
          /\ UNCHANGED pc
  /\ UNCHANGED <<ip, cls, product, admission, cooling, want, naming, moderation>>

ReleaseKey(c) ==
  /\ active' = active \ {Head(held[c])}
  /\ cooling' = IF Head(held[c]) \in active THEN cooling \cup {Head(held[c])} ELSE cooling
  /\ held' = [held EXCEPT ![c] = Tail(@)]

\* mutant: forgets to give back the keys claimed before the one in use
RefuseKeysForgets(c) ==
  /\ Goto(c, "refusing", "authenticating")
  /\ held' = [held EXCEPT ![c] = <<>>]
  /\ UNCHANGED <<ip, cls, product, admission, active, cooling, want, naming, moderation>>

(* A key was in use: the ones claimed before it are released one by one    *)
(* and the refusal is sent, which leaves the session at Authenticating.    *)
RefuseKeys(c) ==
  /\ pc[c] = "refusing"
  /\ IF held[c] = <<>>
     THEN pc' = [pc EXCEPT ![c] = "authenticating"] /\ UNCHANGED keys
     ELSE ReleaseKey(c) /\ UNCHANGED <<pc, want>>
  /\ UNCHANGED <<ip, cls, product, admission, naming, moderation>>

(* The cooldown of a released key runs out.                                *)
CooldownPasses(k) ==
  /\ k \in cooling
  /\ cooling' = cooling \ {k}
  /\ UNCHANGED <<pc, ip, cls, product, admission, active, want, held, naming, moderation>>

-----------------------------------------------------------------------------
(* Logging on, and entering chat as a realm character.                     *)

(* A proof of a's password is checked; finish_logon goes on after awaiting *)
(* the account's stored flags.  A wrong proof, an unknown account or a tag *)
(* ban sends a failure and changes nothing.                                *)
Logon(c, a) ==
  /\ a \notin tagBans
  /\ Goto(c, "authenticating", "naming")
  /\ account' = [account EXCEPT ![c] = a]
  /\ UNCHANGED <<ip, cls, product, admission, keys, names, name, directory, moderation>>

LowestFree(b) ==
  CHOOSE x \in {b} \X (1 .. Cardinality(Conn)) :
    x \notin names /\ \A m \in 1 .. x[2] - 1 : <<b, m>> \in names

ClaimName(c) ==
  LET b == IF name[c] = None THEN account[c] ELSE Character[account[c]]
  IN  /\ Goto(c, "naming", "registering")
      /\ names' = names \cup {LowestFree(b)}
      /\ name' = [name EXCEPT ![c] = LowestFree(b)]
      /\ UNCHANGED <<ip, cls, product, admission, keys, account, directory, moderation>>

(* HashMap::insert: an entry under the same name would be replaced.        *)
Register(c) ==
  /\ Goto(c, "registering", "online")
  /\ directory' = {e \in directory : e[1] # name[c]} \cup {<<name[c], c>>}
  /\ UNCHANGED <<ip, cls, product, admission, keys, names, name, account, moderation>>

(* HashMap::remove: whoever is registered under the name.                  *)
Unregister(c) == directory' = {e \in directory : e[1] # name[c]}

(* SID_ENTERCHAT: adopt_realm_character awaits the character's row.        *)
EnterChat(c) ==
  /\ Goto(c, "online", "entering")
  /\ UNCHANGED <<ip, cls, product, admission, keys, naming, moderation>>

(* No realm character of this account was named, or it is in use already.  *)
EnteredAsBefore(c) ==
  /\ Goto(c, "entering", "online")
  /\ UNCHANGED <<ip, cls, product, admission, keys, naming, moderation>>

AdoptRealmCharacter(c) ==
  /\ Goto(c, "entering", "unnaming")
  /\ product[c] \in RealmProduct
  /\ name[c][1] # Character[account[c]]
  /\ Unregister(c)
  /\ UNCHANGED <<ip, cls, product, admission, keys, names, name, account, moderation>>

ReleaseOldName(c) ==
  /\ Goto(c, "unnaming", "naming")
  /\ names' = names \ {name[c]}
  /\ UNCHANGED <<ip, cls, product, admission, keys, name, account, directory, moderation>>

-----------------------------------------------------------------------------
(* The end of a session.                                                   *)

(* The client hangs up, a deadline passes, or the server closes it over a  *)
(* malformed or unacceptable packet or a full queue.                       *)
Close(c) ==
  /\ pc[c] \in Idle
  /\ Goto(c, pc[c], "closing")
  /\ UNCHANGED <<ip, cls, product, admission, keys, naming, moderation>>

(* `select!` takes the kill branch.                                        *)
Killed(c) ==
  /\ c \in kill
  /\ Close(c)

CleanupKeys(c) ==
  /\ pc[c] = "closing" /\ held[c] # <<>>
  /\ ReleaseKey(c)
  /\ UNCHANGED <<pc, ip, cls, product, admission, want, naming, moderation>>

\* mutant: the name is freed before the directory entry under it is removed
CleanupDirectoryLast(c) ==
  /\ held[c] = <<>>
  /\ \/ /\ Goto(c, "closing", IF name[c] = None THEN "draining" ELSE "unnamed")
        /\ names' = names \ {name[c]}
        /\ UNCHANGED directory
     \/ /\ Goto(c, "unnamed", "draining")
        /\ Unregister(c)
        /\ UNCHANGED names
  /\ UNCHANGED <<ip, cls, product, admission, keys, name, account, moderation>>

(* With the keys released, the directory entry goes and then the name.     *)
CleanupDirectory(c) ==
  /\ held[c] = <<>>
  /\ \/ /\ Goto(c, "closing", IF name[c] = None THEN "draining" ELSE "unnamed")
        /\ Unregister(c)
        /\ UNCHANGED names
     \/ /\ Goto(c, "unnamed", "draining")
        /\ names' = names \ {name[c]}
        /\ UNCHANGED directory
  /\ UNCHANGED <<ip, cls, product, admission, keys, name, account, moderation>>

-----------------------------------------------------------------------------
(* Staff commands, one at a time, each a chat command of a staff session.  *)

StaffStep(s) ==
  /\ staff' = s
  /\ UNCHANGED <<pc, ip, cls, product, admission, keys, naming>>

(* /ipban <user>: the address is looked up, banned, then disconnected.     *)
StaffIpBan ==
  /\ staff = <<>>
  /\ \E e \in directory : StaffStep(<<"ban", ip[e[2]]>>)
  /\ UNCHANGED <<kill, ipBans, tagBans, told>>

BanIp ==
  /\ staff # <<>> /\ staff[1] = "ban"
  /\ ipBans' = ipBans \cup {staff[2]}
  /\ StaffStep(<<"ip", staff[2]>>)
  /\ UNCHANGED <<kill, tagBans, told>>

(* /tagban <text>: refused if it is banned already.                        *)
StaffTagBan(a) ==
  /\ staff = <<>> /\ a \notin tagBans
  /\ tagBans' = tagBans \cup {a}
  /\ StaffStep(<<"tag", a>>)
  /\ UNCHANGED <<kill, ipBans, told>>

(* The sessions in the directory on an address, or under a matching name.  *)
Matching(what, x) ==
  {e[2] : e \in {d \in directory : IF what = "ip" THEN ip[d[2]] = x
                                   ELSE d[1][1] \in {x, Character[x]}}}

\* mutant: notify_waiters, which wakes only a session already waiting
NotifyWaiters(S) == kill \cup {c \in S : pc[c] \in Idle}

(* Notify::notify_one leaves a permit for a session that is in a handler.  *)
Notify(S) == kill \cup S

(* disconnect_ip, disconnect_name_matches                                  *)
Disconnect ==
  /\ staff # <<>> /\ staff[1] \in {"ip", "tag"}
  /\ kill' = Notify(Matching(staff[1], staff[2]))
  /\ told' = told \cup Matching(staff[1], staff[2])
  /\ StaffStep(<<>>)
  /\ UNCHANGED <<ipBans, tagBans>>

(* /ipunban, or the ban expires; /tagunban.                                *)
Lift ==
  /\ staff = <<>>
  /\ \/ \E i \in ipBans : ipBans' = ipBans \ {i} /\ UNCHANGED tagBans
     \/ \E a \in tagBans : tagBans' = tagBans \ {a} /\ UNCHANGED ipBans
  /\ StaffStep(<<>>)
  /\ UNCHANGED <<kill, told>>

-----------------------------------------------------------------------------
(* The steps a connection's task takes without waiting for its client.     *)
Handler(c) ==
  \/ ClaimKey(c) \/ RefuseKeys(c)
  \/ ClaimName(c) \/ Register(c)
  \/ EnteredAsBefore(c) \/ AdoptRealmCharacter(c) \/ ReleaseOldName(c)
  \/ CleanupKeys(c) \/ CleanupDirectory(c)

Next ==
  \/ \E c \in Conn :
       \/ \E i \in IP : Accept(c, i)
       \/ \E k \in Class \ Product : Admit(c, k)
       \/ Refuse(c) \/ AuxEnds(c) \/ Release(c)
       \/ \E p \in Product : AuthInfo(c, p)
       \/ \E p \in Product \cup {None} : StartVersioning(c, p)
       \/ VersionWithoutKeys(c)
       \/ \E ks \in KeyLists : AuthCheck(c, ks)
       \/ \E a \in Account : Logon(c, a)
       \/ EnterChat(c) \/ Close(c) \/ Killed(c) \/ Handler(c)
  \/ \E k \in Key : CooldownPasses(k)
  \/ StaffIpBan \/ BanIp \/ Disconnect \/ Lift
  \/ \E a \in Account : StaffTagBan(a)

(* The runtime keeps polling a task that can run, and `select!` polls its  *)
(* branches in random order, so a permit that stays is taken in the end.   *)
(* Nothing is assumed of clients, of staff or of the socket a writer waits *)
(* for.                                                                    *)
Fairness == \A c \in Conn : WF_vars(Handler(c)) /\ SF_vars(Killed(c))

Spec == Init /\ [][Next]_vars /\ Fairness

-----------------------------------------------------------------------------
(* Properties.                                                             *)

(* Every variable has its type; in particular a display name's suffix      *)
(* stays within the number of connections.                                 *)
TypeOK ==
  /\ pc \in [Conn -> PC]
  /\ ip \in [Conn -> IP \cup {None}]
  /\ cls \in [Conn -> Class \cup {None}]
  /\ product \in [Conn -> Product \cup {None}]
  /\ perIp \in [Class \X IP -> Nat]
  /\ perClass \in [Class -> Nat]
  /\ total \in Nat
  /\ active \subseteq Key /\ cooling \subseteq Key
  /\ want \in [Conn -> Seq(Key)] /\ held \in [Conn -> Seq(Key)]
  /\ names \subseteq Name
  /\ name \in [Conn -> Name \cup {None}]
  /\ account \in [Conn -> Account \cup {None}]
  /\ directory \subseteq Name \X Conn
  /\ kill \subseteq Conn /\ told \subseteq Conn
  /\ ipBans \subseteq IP /\ tagBans \subseteq Account
  /\ staff \in {<<>>} \cup ({"ban", "ip"} \X IP) \cup ({"tag"} \X Account)

Live(k, i) == {c \in Conn : cls[c] = k /\ ip[c] = i}
LiveIn(k) == {c \in Conn : cls[c] = k}

(* AdmissionTable counts exactly the admitted connections, whatever they   *)
(* were promoted to and however they ended, so no slot leaks and none is   *)
(* given back twice; and no class exceeds its ceilings.                    *)
AdmissionExact ==
  /\ \A k \in Class, i \in IP :
       /\ perIp[<<k, i>>] = Cardinality(Live(k, i))
       /\ i \notin Allowlist => perIp[<<k, i>>] <= PerIp[k]
  /\ \A k \in Class : perClass[k] = Cardinality(LiveIn(k)) /\ perClass[k] <= Global[k]
  /\ total = Cardinality({c \in Conn : cls[c] # None})

Holds(c, k) == \E j \in 1 .. Len(held[c]) : held[c][j] = k

(* KeyRegistry: a key is active exactly while one session holds it - in    *)
(* the middle of SID_AUTH_CHECK, of its refusal and of cleanup too - so a  *)
(* claim is never leaked and never released by a session that lost it.     *)
KeysExact ==
  /\ active = {k \in Key : \E c \in Conn : Holds(c, k)}
  /\ \A c, d \in Conn, k \in Key : Holds(c, k) /\ Holds(d, k) => c = d
  /\ active \cap cooling = {}

Named == {c \in Conn : name[c] # None /\ pc[c] \notin {"naming", "draining"}}

(* claim_name, register_session and their counterparts: sessions have      *)
(* different display names, and every session that is logged in and        *)
(* between packets, or handling one, is in the moderation directory under  *)
(* its own name, where staff can find it.                                  *)
DirectoryExact ==
  /\ \A c, d \in Named : name[c] = name[d] => c = d
  /\ names = {name[c] : c \in Named}
  /\ directory = {<<name[c], c>> :
                    c \in {d \in Named : pc[d] \in {"online", "entering", "closing"}}}

(* disconnect_ip and disconnect_name_matches: every session they found in  *)
(* the directory, also one in the middle of a handler, ends up cleaned up: *)
(* keys, directory entry and name given back.                              *)
KickedLeaves == \A c \in Conn : c \in told ~> pc[c] \in {"draining", "free"}
=============================================================================
