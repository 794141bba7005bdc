----------------------------- MODULE ChannelRules -----------------------------
(***************************************************************************)
(* One channel of the node's channel map (`Inner::channels`), driven by    *)
(* the operations the node performs on it under its lock                   *)
(* (crates/bnetccd/src/node.rs) and by the account-level methods the core  *)
(* crate also exports.  A refused operation changes nothing, so only the   *)
(* accepted ones are steps.                                                *)
(*                                                                         *)
(* This is the abstract specification of the channel: ChatFanout extends   *)
(* it with queues and sessions, splits the same operations at the lock     *)
(* boundaries, and is shown to implement it.                               *)
(***************************************************************************)
EXTENDS Channel

CONSTANT Policies   \* the channel policies a configuration may produce

ASSUME PoliciesAssumption == Policies \subseteq Policy

VARIABLES
  policy,  \* fixed by the configuration and the channel's name
  chan     \* the channel, or NoChannel when the map has no entry

channelVars == <<policy, chan>>

RulesInit == policy \in Policies /\ chan = NoChannel

Exists == chan # NoChannel

(* What the node keeps of a channel after a departure.                     *)
AfterDeparture(ch) == IF ShouldDestroy(ch, policy) THEN NoChannel ELSE ch

-----------------------------------------------------------------------------

(* Node::join_channel: the channel is created when it does not exist.      *)
JoinChannel(s, base) ==
  LET ch == IF Exists THEN chan ELSE New
  IN  /\ s \in policy.allowed
      /\ MayJoin(ch, policy, s)
      /\ chan' = Join(ch, policy, s, base)
      /\ UNCHANGED policy

(* Node::leave_channel.                                                    *)
LeaveChannel(s) ==
  /\ Exists
  /\ IsMember(chan, s)
  /\ chan' = AfterDeparture(Leave(chan, s))
  /\ UNCHANGED policy

(* Node::channel_kick, channel_ban, channel_designate, channel_unban.      *)
ChannelKick(by, s) ==
  /\ Exists
  /\ MayTarget(chan, by, s)
  /\ chan' = AfterDeparture(KickByName(chan, s))
  /\ UNCHANGED policy

ChannelBan(by, s) ==
  /\ Exists
  /\ MayTarget(chan, by, s)
  /\ chan' = AfterDeparture(BanByName(chan, s))
  /\ UNCHANGED policy

ChannelDesignate(by, s) ==
  /\ Exists
  /\ MayTarget(chan, by, s)
  /\ chan' = DesignateByName(chan, s)
  /\ UNCHANGED policy

ChannelUnban(by, a) ==
  /\ Exists
  /\ IsOperator(chan, by)
  /\ chan' = Unban(chan, a)
  /\ UNCHANGED policy

(* Channel::kick, ban and designate by account.  The embedder drops the    *)
(* channel when the outcome says so, as the node does.                     *)
Kick(by, a) ==
  /\ Exists
  /\ IsOperator(chan, by) /\ by # a /\ HasAccount(chan.members, a)
  /\ chan' = AfterDeparture(LeaveAccount(chan, a))
  /\ UNCHANGED policy

Ban(by, a) ==
  /\ Exists
  /\ IsOperator(chan, by) /\ by # a
  /\ chan' = AfterDeparture(BanAccount(chan, a))
  /\ UNCHANGED policy

Designate(by, a) ==
  /\ Exists
  /\ IsOperator(chan, by) /\ by # a /\ HasAccount(chan.members, a)
  /\ chan' = DesignateAccount(chan, a)
  /\ UNCHANGED policy

RulesNext ==
  \/ \E s \in Session, base \in SUBSET {"operator"} : JoinChannel(s, base)
  \/ \E s \in Session : LeaveChannel(s)
  \/ \E by \in Account, s \in Session :
       \/ ChannelKick(by, s)
       \/ ChannelBan(by, s)
       \/ ChannelDesignate(by, s)
  \/ \E by, a \in Account :
       \/ ChannelUnban(by, a)
       \/ Kick(by, a)
       \/ Ban(by, a)
       \/ Designate(by, a)

RulesSpec == RulesInit /\ [][RulesNext]_channelVars

-----------------------------------------------------------------------------

(* The channel is a well-typed roster without repeated display names and   *)
(* its policy never changes kind: join refuses a name already present.     *)
RosterTypeOK ==
  /\ policy \in Policies
  /\ Exists => /\ chan \in ChannelType
               /\ IsInjective(chan.members)

(* remove_at vacates operator exactly when the operator's last session     *)
(* goes: a channel never has an operator nobody present can act for, which *)
(* would leave it without an operator for good.                            *)
OperatorPresent ==
  Exists /\ chan.operator # None => HasAccount(chan.members, chan.operator)

(* A designation lapses with the heir's last session and is consumed when  *)
(* it is honoured: every designated heir is present, appears once, and is  *)
(* not the operator.                                                       *)
HeirsPresent ==
  Exists =>
    /\ IsInjective(chan.heirs)
    /\ \A i \in DOMAIN chan.heirs :
         /\ HasAccount(chan.members, chan.heirs[i])
         /\ chan.heirs[i] # chan.operator

(* Nobody is shown with the operator bit who does not hold operator here:  *)
(* join masks the bit a session carries over from another channel, and     *)
(* succession moves it.                                                    *)
FlagsMatchOperator ==
  Exists => \A s \in chan.ops : IsMember(chan, s) /\ AccountOf[s] = chan.operator

(* The roster never exceeds a non-zero max_users.                          *)
CapacityRespected ==
  Exists /\ policy.max_users # 0 => Len(chan.members) <= policy.max_users

(* What channel.rs keeps true of a channel through every sequence of       *)
(* joins, departures, kicks, bans and designations: operator, heirs and    *)
(* the operator bit belong to accounts that are present, and the channel   *)
(* is never over its capacity.                                             *)
RosterSound == OperatorPresent /\ HeirsPresent /\ FlagsMatchOperator /\ CapacityRespected

(* docs/WARNET.md section 3: operator never drifts.  While an operator has *)
(* a session present nobody deposes them; when the last one goes operator  *)
(* passes to an heir designated before, or to nobody; and an occupied      *)
(* channel without operator gets one only by a name match.                 *)
SuccessionStep ==
  Exists /\ Exists' =>
    /\ chan.operator # None =>
         \/ chan'.operator = chan.operator
         \/ /\ ~HasAccount(chan'.members, chan.operator)
            /\ \/ chan'.operator = None
               \/ \E i \in DOMAIN chan.heirs : chan'.operator = chan.heirs[i]
    /\ chan.operator = None /\ chan.members # <<>>
         /\ policy.grant.kind # "NameMatch" => chan'.operator = None

OperatorSuccession == [][SuccessionStep]_channelVars
=============================================================================
