------------------------------- MODULE Channel -------------------------------
(***************************************************************************)
(* The channel roster and its operator rules                               *)
(* (crates/bnetcc-core/src/channel.rs): pure operators on a channel value, *)
(* one per method of `Channel`.  The modules that own a channel variable   *)
(* (ChannelRules, ChatFanout) call them under the node's lock.             *)
(*                                                                         *)
(* A session is identified with its server-wide unique display name        *)
(* (`Fish`, `Fish#2`, ...); several sessions may share one account.  A     *)
(* member's only flag that the rules read is the operator bit, so a roster *)
(* is the sequence of sessions in join order plus the set of those shown   *)
(* with the bit.                                                           *)
(***************************************************************************)
EXTENDS Naturals, Sequences, FiniteSets, SequencesExt

CONSTANTS
  Session,    \* display names
  Account,    \* account ids
  AccountOf,  \* the account a display name was claimed for
  None,       \* Option::None of an account
  NoChannel,  \* the key is absent from the node's channel map
  SeqWidth      \* width of the event counter (2^64 in the code)

ASSUME ChannelAssumption ==
  /\ AccountOf \in [Session -> Account]
  /\ None \notin Account
  /\ SeqWidth \in Nat /\ SeqWidth > 1

(* How operator is granted on a join.  `NameMatch` carries the sessions    *)
(* whose base name is the one in the channel's name ("Op Fish").           *)
OpGrant ==
  [kind : {"None", "FirstArrival"}, names : {{}}]
    \cup [kind : {"NameMatch"}, names : SUBSET Session]

ChannelClass == {"Local", "Federated", "Official"}

(* What is fixed for a channel when it is created: the node derives it     *)
(* from the configuration and from the channel's name.  `allowed` are the  *)
(* sessions that pass the rule's required flag and product list.           *)
Policy ==
  [grant : OpGrant, max_users : Nat, class : ChannelClass,
   persist : BOOLEAN, allowed : SUBSET Session]

ChannelType ==
  [members  : Seq(Session),
   ops      : SUBSET Session,
   operator : Account \cup {None},
   heirs    : Seq(Account),
   bans     : SUBSET Account,
   seq      : 0 .. SeqWidth - 1]

(* Channel::new, with set_op_grant and set_persist folded into Policy.     *)
New ==
  [members |-> <<>>, ops |-> {}, operator |-> None, heirs |-> <<>>,
   bans |-> {}, seq |-> 0]

-----------------------------------------------------------------------------

IsMember(ch, s) == \E i \in DOMAIN ch.members : ch.members[i] = s

(* position_by_account(a).is_some()                                        *)
HasAccount(members, a) == \E i \in DOMAIN members : AccountOf[members[i]] = a

(* The least index in a non-empty set of indices: `iter().position`.       *)
First(I) == CHOOSE i \in I : \A j \in I : i <= j

(* position_by_account(a), for an account that is present.                 *)
FirstSession(members, a) ==
  members[First({i \in DOMAIN members : AccountOf[members[i]] = a})]

(* Vec::remove(idx), and Vec::retain on a vector without repetitions.      *)
Without(q, x) ==
  IF \E i \in DOMAIN q : q[i] = x
  THEN RemoveAt(q, CHOOSE i \in DOMAIN q : q[i] = x)
  ELSE q

Bump(n) == (n + 1) % SeqWidth

-----------------------------------------------------------------------------

(* Why `join` refuses, in the order the code tests.                        *)
Banned(ch, s) == AccountOf[s] \in ch.bans

Full(ch, pol) == pol.max_users # 0 /\ Len(ch.members) >= pol.max_users

MayJoin(ch, pol, s) ==
  ~Banned(ch, s) /\ ~IsMember(ch, s) /\ ~Full(ch, pol)

GrantsOperator(ch, pol, s) ==
  /\ ch.operator = None
  /\ \/ pol.grant.kind = "FirstArrival" /\ ch.members = <<>>
     \/ pol.grant.kind = "NameMatch" /\ s \in pol.grant.names

(* The flags a joiner is shown with.  `base` are the session's own flags,  *)
(* which may still carry the operator bit of the channel it was in before: *)
(* the bit is masked unless operator is granted here.                      *)
JoinFlags(base, granted) ==
  IF granted THEN base \cup {"operator"} ELSE base \ {"operator"}

(* Channel::join, for a session that may join.                             *)
Join(ch, pol, s, base) ==
  LET granted == GrantsOperator(ch, pol, s)
  IN  [ch EXCEPT
         !.members  = Append(@, s),
         !.ops      = IF "operator" \in JoinFlags(base, granted)
                      THEN @ \cup {s} ELSE @,
         !.operator = IF granted THEN AccountOf[s] ELSE @,
         !.seq      = Bump(@)]

(* heirs.retain(..): a designation lapses with the heir's last session.    *)
KeptHeirs(heirs, rest, a) ==
  IF HasAccount(rest, a) THEN heirs ELSE Without(heirs, a)

\* mutant: operator vacates only with the session that shows the bit
VacatesIfShown(ch, rest, s) ==
  /\ ch.operator = AccountOf[s] /\ ~HasAccount(rest, AccountOf[s])
  /\ s \in ch.ops

(* Operator is an account's role, so it only vacates with the account's    *)
(* last session.                                                           *)
Vacates(ch, rest, s) ==
  ch.operator = AccountOf[s] /\ ~HasAccount(rest, AccountOf[s])

\* mutant: without an heir operator drifts to the longest-present user
SuccessorDrifts(heirs, rest) ==
  LET present == {i \in DOMAIN heirs : HasAccount(rest, heirs[i])}
  IN  IF present # {} THEN heirs[First(present)]
      ELSE IF rest # <<>> THEN AccountOf[rest[1]] ELSE None

(* The first designated heir who is still present, if any.                 *)
Successor(heirs, rest) ==
  LET present == {i \in DOMAIN heirs : HasAccount(rest, heirs[i])}
  IN  IF present = {} THEN None ELSE heirs[First(present)]

(* Channel::remove_at: drop the session and handle operator succession;    *)
(* the successor's first session is shown with the operator bit.           *)
RemoveMember(ch, s) ==
  LET rest == Without(ch.members, s)
      kept == KeptHeirs(ch.heirs, rest, AccountOf[s])
      heir == Successor(kept, rest)
      base == [ch EXCEPT !.members = rest, !.ops = @ \ {s},
                         !.heirs = kept, !.seq = Bump(@)]
  IN  IF ~Vacates(ch, rest, s) THEN base
      ELSE IF heir = None THEN [base EXCEPT !.operator = None]
      ELSE [base EXCEPT !.operator = heir,
                        !.ops = @ \cup {FirstSession(rest, heir)},
                        !.heirs = Without(@, heir)]

(* LeaveOutcome::should_destroy of a departure that leaves `ch`.           *)
ShouldDestroy(ch, pol) ==
  ch.members = <<>> /\ pol.class # "Official" /\ ~pol.persist

(* Channel::leave: a name that is not present changes nothing.             *)
Leave(ch, s) == IF IsMember(ch, s) THEN RemoveMember(ch, s) ELSE ch

-----------------------------------------------------------------------------

IsOperator(ch, a) == ch.operator = a

(* The guard shared by kick_by_name, ban_by_name and designate_by_name.    *)
MayTarget(ch, by, s) ==
  IsOperator(ch, by) /\ IsMember(ch, s) /\ AccountOf[s] # by

KickByName(ch, s) == RemoveMember(ch, s)

(* The account is banned but only the named session is removed.            *)
BanByName(ch, s) == RemoveMember([ch EXCEPT !.bans = @ \cup {AccountOf[s]}], s)

DesignateByName(ch, s) ==
  LET heir == AccountOf[s]
  IN  IF \E i \in DOMAIN ch.heirs : ch.heirs[i] = heir THEN ch
      ELSE [ch EXCEPT !.heirs = Append(@, heir), !.seq = Bump(@)]

(* unban does not advance the sequence number.                             *)
Unban(ch, a) == [ch EXCEPT !.bans = @ \ {a}]

(* The account-level forms: they act on the account's first session.       *)
LeaveAccount(ch, a) ==
  IF HasAccount(ch.members, a) THEN RemoveMember(ch, FirstSession(ch.members, a)) ELSE ch

BanAccount(ch, a) == LeaveAccount([ch EXCEPT !.bans = @ \cup {a}], a)

(* A repeated designation moves the heir to the back of the line.          *)
DesignateAccount(ch, a) ==
  [ch EXCEPT !.heirs = Append(Without(@, a), a), !.seq = Bump(@)]
=============================================================================
