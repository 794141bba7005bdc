------------------------------- MODULE Moderation -------------------------------
(***************************************************************************)
(* Moderation: the ban store (crates/bnetccd/src/moderation.rs) and its    *)
(* file, the flood budget (FloodTracker), personal ignores (IgnoreSet) and *)
(* the chat commands that use them (session.rs), with restarts.            *)
(*                                                                         *)
(* A name is a record of a realm character, None for other clients, and an *)
(* account; base_name has already cut the "#2" of a second session.  A tag *)
(* stands for the part of a name it is found in.  Time is in ticks of      *)
(* TickMs; the clock is the system's, which may be set back.               *)
(***************************************************************************)
EXTENDS Values, Integers

CONSTANTS
  Session, AccountOf, CharacterOf, IpOf,  \* connections, each made once
  Staff,           \* sessions with the administrator flag
  Duration,        \* what staff may give as hours; Never is permanent
  Never,           \* u64::MAX
  Truncated,       \* a ban file that is empty or cut short
  Burst, Per10s,   \* FloodPolicy
  Penalty,         \* its penalty: "drop", "mute" or "disconnect"
  MuteTicks, TickMs,
  MaxClock, MaxBack, MaxEvents, MaxStarts  \* bounds

ASSUME ModerationAssumption ==
  /\ Burst \in Nat /\ Per10s \in Nat /\ TickMs \in Nat /\ MaxClock \in Nat
  /\ Duration \subseteq Nat /\ Never \in Nat /\ Never > MaxClock

VARIABLES
  bans,      \* in memory: tags, and expiries by address and by muted name
  has,       \* the fast-path flags
  disk,      \* the ban file; Truncated while it is written or after a failed write
  writing,   \* a command holds the store's lock and writes the file
  stage,     \* per session: "off", "connected", "online", "gone"
  channel,   \* per session: it believes it is in a channel
  member,    \* sessions on the channel's roster
  flood,     \* per session: its FloodTracker
  until,     \* per session: muted for flooding until then
  ignores,   \* per session: its IgnoreSet
  clock, back, events, starts,
  real,      \* ticks that have really passed
  spent,     \* history: per session and tick, the chat lines let through before it
  said,      \* history: per session, parity of the lines that reached the channel
  orders,    \* history: name to the expiry of the mute staff last gave it
  intact     \* history: no write of the ban file has failed or been cut short

store == <<bans, has, disk, writing>>
session == <<stage, channel, member, flood, until, ignores>>
time == <<clock, back, real>>
history == <<spent, said, orders, intact>>
vars == <<store, session, time, events, starts, history>>

NoBans == [tags |-> {}, ips |-> <<>>, mutes |-> <<>>]

AccountName(s) == [character |-> None, account |-> AccountOf[s]]
DisplayName(s) == [character |-> CharacterOf[s], account |-> AccountOf[s]]
Tags(name) == {name.account, name.character} \ {None}
Names == UNION {{AccountName(s), DisplayName(s)} : s \in Session}

Put(f, key, value) == [x \in DOMAIN f \cup {key} |-> IF x = key THEN value ELSE f[x]]
Drop(f, keys) == [x \in DOMAIN f \ keys |-> f[x]]

(* The data behind BanStore's lock; a file cut short is not one.           *)
Expiries(keys) == UNION {[K -> Nat] : K \in SUBSET keys}
Bans ==
  [tags : SUBSET UNION {Tags(name) : name \in Names},
   ips : Expiries({IpOf[s] : s \in Session}), mutes : Expiries(Names)]

ASSUME TruncatedAssumption == Truncated \notin Bans

-----------------------------------------------------------------------------
(* BanStore.                                                               *)

(* A malformed file is an empty store.                                     *)
Load(d) == IF d = Truncated THEN NoBans ELSE d

FlagsOf(b) == [tags |-> b.tags # {}, ips |-> DOMAIN b.ips # {}, mutes |-> DOMAIN b.mutes # {}]

\* mutant: what ends with the next tick is pruned already
LiveOneEarly(f) == [x \in {y \in DOMAIN f : f[y] > clock + 1} |-> f[x]]

Live(f) == [x \in {y \in DOMAIN f : f[y] > clock} |-> f[x]]

Prune(b) == [b EXCEPT !.ips = Live(@), !.mutes = Live(@)]

\* mutant: the flags are refreshed only for what is added to
RefreshFlagsOfTags(b) == [has EXCEPT !.tags = b.tags # {}]

RefreshFlags(b) == FlagsOf(b)

(* A change under the lock; fs::write empties the file first.              *)
Set(b) ==
  /\ ~writing
  /\ bans' = b
  /\ has' = RefreshFlags(b)
  /\ writing' = TRUE
  /\ disk' = Truncated

(* A failed write is logged, whatever it left.                             *)
WriteEnds(ok) ==
  /\ writing
  /\ writing' = FALSE
  /\ disk' = IF ok THEN bans ELSE disk
  /\ intact' = (intact /\ ok)
  /\ UNCHANGED <<bans, has, session, time, events, starts, spent, said, orders>>

(* The tests look at the flag first and take the lock only if it is up.    *)
TagBanned(name) == has.tags /\ Tags(name) \cap bans.tags # {}
IpBanned(ip) == has.ips /\ ip \in DOMAIN bans.ips /\ bans.ips[ip] > clock
Muted(name) == has.mutes /\ name \in DOMAIN bans.mutes /\ bans.mutes[name] > clock

Unlocked(flag) == flag => ~writing

(* snapshot, for /bans                                                     *)
Snapshot == [bans EXCEPT !.ips = Live(@), !.mutes = Live(@)]

-----------------------------------------------------------------------------
(* FloodTracker, in thousandths of a token.                                *)

Capacity == Burst * 1000

NewTracker == [tokens |-> Capacity, last |-> clock]

\* mutant: the time since the last line is taken without its sign
RefillEitherWay(f) ==
  LET gained == ((IF clock > f.last THEN clock - f.last ELSE f.last - clock) * TickMs * Per10s) \div 10
  IN  [tokens |-> IF f.tokens + gained > Capacity THEN Capacity ELSE f.tokens + gained,
       last |-> clock]

Refill(f) ==
  LET gained == ((clock - f.last) * TickMs * Per10s) \div 10
  IN  IF clock <= f.last THEN f
      ELSE [tokens |-> IF f.tokens + gained > Capacity THEN Capacity ELSE f.tokens + gained,
            last |-> clock]

Enough(f) == Refill(f).tokens >= 1000

Spend(f) == LET r == Refill(f) IN [r EXCEPT !.tokens = @ - 1000]

-----------------------------------------------------------------------------
(* Sessions.                                                               *)

Init ==
  /\ clock = 0 /\ back = 0 /\ real = 0 /\ events = 0 /\ starts = 0
  /\ bans = NoBans /\ has = FlagsOf(NoBans) /\ disk = NoBans /\ writing = FALSE
  /\ stage = [s \in Session |-> "off"]
  /\ channel = [s \in Session |-> FALSE] /\ member = {}
  /\ flood = [s \in Session |-> NewTracker]
  /\ until = [s \in Session |-> 0]
  /\ ignores = [s \in Session |-> [any |-> FALSE, names |-> {}]]
  /\ spent = [s \in Session |-> [t \in 0..MaxClock + 1 |-> 0]]
  /\ said = [s \in Session |-> 0]
  /\ orders = <<>> /\ intact = TRUE

Event == events < MaxEvents /\ events' = events + 1

(* accept_loop refuses a banned address; the session starts its tracker.   *)
Connect(s) ==
  /\ stage[s] = "off" /\ Unlocked(has.ips) /\ ~IpBanned(IpOf[s])
  /\ stage' = [stage EXCEPT ![s] = "connected"]
  /\ flood' = [flood EXCEPT ![s] = NewTracker]
  /\ UNCHANGED <<store, channel, member, until, ignores, time, events, starts, history>>

(* The logon refuses a banned name; the client then joins a channel.       *)
Logon(s) ==
  /\ stage[s] = "connected" /\ Unlocked(has.tags) /\ ~TagBanned(AccountName(s))
  /\ stage' = [stage EXCEPT ![s] = "online"]
  /\ channel' = [channel EXCEPT ![s] = TRUE]
  /\ member' = member \cup {s}
  /\ UNCHANGED <<store, flood, until, ignores, time, events, starts, history>>

(* An operator's kick: the session is not told to the core of its state.   *)
Kicked(s) ==
  /\ s \in member /\ Event
  /\ member' = member \ {s}
  /\ UNCHANGED <<store, stage, channel, flood, until, ignores, time, starts, history>>

Over(s) ==
  /\ stage' = [stage EXCEPT ![s] = "gone"]
  /\ member' = member \ {s}
  /\ channel' = [channel EXCEPT ![s] = FALSE]

(* A session that staff signalled, or whose peer is gone, ends, or later.  *)
End(s) ==
  /\ stage[s] \in {"connected", "online"}
  /\ Over(s) /\ Event
  /\ UNCHANGED <<store, flood, until, ignores, time, starts, history>>

-----------------------------------------------------------------------------
(* A chat line.  Every line, commands too, is first charged to the budget; *)
(* while muted for flooding it is dropped before that.                     *)

Sends(s) ==
  /\ stage[s] = "online" /\ channel[s] /\ clock >= until[s]
  /\ Event

Exceeded(s) ==
  /\ Sends(s) /\ ~Enough(flood[s])
  /\ flood' = [flood EXCEPT ![s] = Refill(@)]
  /\ until' = IF Penalty = "mute" THEN [until EXCEPT ![s] = clock + MuteTicks] ELSE until
  /\ IF Penalty = "disconnect" THEN Over(s) ELSE UNCHANGED <<stage, channel, member>>
  /\ UNCHANGED <<store, ignores, time, starts, history>>

Charged(s) ==
  /\ Sends(s) /\ Enough(flood[s])
  /\ flood' = [flood EXCEPT ![s] = Spend(@)]
  /\ spent' = [spent EXCEPT ![s] = [t \in DOMAIN @ |-> IF t > real THEN @[t] + 1 ELSE @[t]]]
  /\ UNCHANGED <<stage, member, until, time, starts>>

Ignored(s, by) == ignores[by].any /\ AccountName(s) \in ignores[by].names

(* Talk and /me: a session that was kicked learns of it now; a muted one's *)
(* line is dropped; the others get it unless they ignore the account.      *)
Talk(s) ==
  /\ Charged(s) /\ Unlocked(has.mutes)
  /\ channel' = [channel EXCEPT ![s] = s \in member]
  /\ said' = IF s \in member /\ ~Muted(AccountName(s))
                /\ \E r \in member \ {s} : ~Ignored(s, r)
             THEN [said EXCEPT ![s] = 1 - @] ELSE said
  /\ UNCHANGED <<store, ignores, orders, intact>>

Ignoring(s, names) == ignores' = [ignores EXCEPT ![s] = [any |-> names # {}, names |-> names]]

(* /squelch: not oneself                                                   *)
Squelch(s, name) ==
  /\ Charged(s) /\ name # DisplayName(s)
  /\ Ignoring(s, ignores[s].names \cup {name})
  /\ UNCHANGED <<store, channel, said, orders, intact>>

Unsquelch(s, name) ==
  /\ Charged(s)
  /\ Ignoring(s, ignores[s].names \ {name})
  /\ UNCHANGED <<store, channel, said, orders, intact>>

(* parse_ban_duration makes Never of 0, "perm" and a mute without hours.   *)
Expiry(d) == IF d = Never THEN Never ELSE clock + d

Command(s) == s \in Staff /\ Charged(s) /\ UNCHANGED <<channel, ignores, said, intact>>

(* /mute takes any name, of somebody online or not, as it is typed.        *)
Mute(s, name, d) ==
  /\ Command(s)
  /\ Set([Prune(bans) EXCEPT !.mutes = Put(@, name, Expiry(d))])
  /\ orders' = Put(orders, name, Expiry(d))

(* Written even when there was nothing to lift.                            *)
Unmute(s, name) ==
  /\ Command(s)
  /\ Set([Prune(bans) EXCEPT !.mutes = Drop(@, {name})])
  /\ orders' = Drop(orders, {name})

(* /ipban names somebody online, elsewhere.  The sessions there are then    *)
(* signalled to end, as tagban's are: SessionLife's Notify, here End.      *)
IpBan(s, target, d) ==
  /\ Command(s)
  /\ stage[target] = "online" /\ IpOf[target] # IpOf[s]
  /\ Set([Prune(bans) EXCEPT !.ips = Put(@, IpOf[target], Expiry(d))])
  /\ UNCHANGED orders

IpUnban(s, ip) ==
  /\ Command(s)
  /\ Set([Prune(bans) EXCEPT !.ips = Drop(@, {ip})])
  /\ UNCHANGED orders

TagBan(s, tag) ==
  /\ Command(s)
  /\ tag \notin bans.tags
  /\ Set([bans EXCEPT !.tags = @ \cup {tag}])
  /\ UNCHANGED orders

(* Nothing is written when the tag was not banned.                         *)
TagUnban(s, tag) ==
  /\ Command(s)
  /\ tag \in bans.tags
  /\ Set([bans EXCEPT !.tags = @ \ {tag}])
  /\ UNCHANGED orders

-----------------------------------------------------------------------------
(* Time, and the end of the process, which BanStore::load follows.         *)

Tick ==
  /\ real < MaxClock
  /\ clock' = clock + 1 /\ real' = real + 1
  /\ UNCHANGED <<store, session, back, events, starts, history>>

SetBack ==
  /\ back < MaxBack /\ clock > 0
  /\ clock' = clock - 1 /\ back' = back + 1
  /\ UNCHANGED <<store, session, real, events, starts, history>>

Restart ==
  /\ starts < MaxStarts
  /\ starts' = starts + 1
  /\ bans' = Load(disk) /\ has' = FlagsOf(Load(disk)) /\ writing' = FALSE
  /\ intact' = (intact /\ ~writing)
  /\ stage' = [s \in Session |-> IF stage[s] = "off" THEN "off" ELSE "gone"]
  /\ channel' = [s \in Session |-> FALSE] /\ member' = {}
  /\ UNCHANGED <<disk, flood, until, ignores, time, events, spent, said, orders>>

Next ==
  \/ \E ok \in BOOLEAN : WriteEnds(ok)
  \/ \E s \in Session :
       \/ Connect(s) \/ Logon(s) \/ Kicked(s) \/ End(s)
       \/ Exceeded(s) \/ Talk(s)
       \/ \E name \in Names :
            \/ Squelch(s, name) \/ Unsquelch(s, name) \/ Unmute(s, name)
            \/ \E d \in Duration : Mute(s, name, d)
            \/ \E tag \in Tags(name) : TagBan(s, tag) \/ TagUnban(s, tag)
       \/ \E target \in Session : IpUnban(s, IpOf[target]) \/ \E d \in Duration : IpBan(s, target, d)
  \/ Tick \/ SetBack \/ Restart

Spec == Init /\ [][Next]_vars

-----------------------------------------------------------------------------
(* Properties.                                                             *)

(* A mute that staff gave and nobody lifted.                               *)
Ordered(name) == name \in DOMAIN orders /\ orders[name] > real

Speaks(s) == said'[s] # said[s]

(* No line of an account muted by its name reaches a channel while the     *)
(* mute stands, from any of its sessions, before or after a restart, as    *)
(* long as the ban file was written whole: neither the fast-path flag, nor *)
(* pruning, nor a clock set back lets one through.                         *)
MutedStaySilent ==
  [][\A s \in Session : Speaks(s) => ~(intact /\ Ordered(AccountName(s)))]_vars

(* The fast-path flags, read without the lock, never hide a ban nor keep   *)
(* the tests from the fast path when the store is empty.                   *)
FlagsExact == has = FlagsOf(bans)

(* Over any span of real time one session gets no more lines through than  *)
(* the burst and what the span refills, though the clock be set back.      *)
FloodBudget ==
  \A s \in Session, a, b \in 0..MaxClock + 1 :
    a < b => 1000 * (spent[s][b] - spent[s][a])
               <= Capacity + ((b - a - 1) * TickMs * Per10s) \div 10
=============================================================================
