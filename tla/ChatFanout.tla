------------------------------ MODULE ChatFanout ------------------------------
(***************************************************************************)
(* Chat in one channel: the sessions' handlers                             *)
(* (crates/bnetccd/src/session.rs) over the node's shared state            *)
(* (`Inner` in crates/bnetccd/src/node.rs).                                *)
(*                                                                         *)
(* Every session is a task of its own and `Inner` is behind one mutex, so  *)
(* one action is one critical section, or one step a handler takes between *)
(* two of them.  The channel value obeys the operators of Channel, and the *)
(* whole implements ChannelRules.                                          *)
(*                                                                         *)
(* The server never looks at what it has queued, so a connection's         *)
(* outbound queue is the number of buffers in it: a join snapshot, a batch *)
(* of EID_LEAVEs, an EID_JOIN or an EID_TALK takes one slot each.  Replies *)
(* and notices a session is also sent are left out: they only take slots,  *)
(* as a slower reader does.  What the properties say about the contents is *)
(* kept in a history variable, which the code does not have.               *)
(***************************************************************************)
EXTENDS ChannelRules

CONSTANT QueueDepth   \* capacity of a session's outbound queue

ASSUME FanoutAssumption ==
  /\ QueueDepth \in Nat \ {0}
  /\ NoChannel \notin ChannelType /\ NoChannel \notin Seq(Session)

VARIABLES
  subs,     \* Inner::subscribers[key], in subscription order
  pending,  \* Inner::pending_leaves[key]: the names whose EID_LEAVE is queued
  queue,    \* how many buffers wait in each connection's outbound queue
  pc,       \* where each session's task is
  inside,   \* Bncs::channel is Some(key)
  target,   \* whom an operator's task is removing
  owed      \* history: <<x, n>>: x was subscribed when n left, and has not
            \* been sent n's EID_LEAVE yet

node == <<chan, subs, pending>>
vars == <<policy, node, queue, pc, inside, target, owed>>

(* offline: no connection holds the name.  idle: between packets.  The     *)
(* others are inside do_join, leave_current, chat_command, after_removal   *)
(* and cleanup.                                                            *)
PC == {"offline", "idle", "joined", "announcing", "leaving", "talking",
       "removing", "closing", "cleanup", "releasing"}

Init ==
  /\ policy \in Policies
  /\ chan = NoChannel
  /\ subs = NoChannel
  /\ pending = <<>>
  /\ queue = [s \in Session |-> 0]
  /\ pc = [s \in Session |-> "offline"]
  /\ inside = [s \in Session |-> FALSE]
  /\ target = [s \in Session |-> s]
  /\ owed = {}

-----------------------------------------------------------------------------
(* Outbound::send is try_send: a full queue refuses the frame.             *)

Room(n) == n < QueueDepth

(* One frame handed to each session in S: it is queued where there is room *)
(* and lost where there is none.                                           *)
Sent(q, S) == [s \in Session |-> IF s \in S /\ Room(q[s]) THEN q[s] + 1 ELSE q[s]]

Subscribers == IF subs = NoChannel THEN {} ELSE Range(subs)

(* flush_leaves_locked: the queued EID_LEAVEs of the channel as one batch  *)
(* to every subscriber.                                                    *)
FlushTo == IF pending = <<>> THEN {} ELSE Subscribers

Flushed == Sent(queue, FlushTo)

(* Everyone subscribed has now been sent (or has lost) the pending leaves. *)
Settled == {p \in owed : p[2] \notin Range(pending)}

(* Node::broadcast(key, wire, exclude = s): flush, then the frame to every *)
(* subscriber but s.  The stalled sessions it returns are not dropped from *)
(* the fanout: the callers log or ignore them.                             *)
Broadcast(s) ==
  LET to == Subscribers \ {s}
  IN  /\ pending' = <<>>
      /\ queue' = Sent(Flushed, to)
      /\ owed' = Settled
      /\ UNCHANGED <<chan, subs>>

\* mutant: the timer waits for a batch, so a lone departure stays queued
FlushPendingBatches ==
  /\ Len(pending) > 1
  /\ pending' = <<>>
  /\ queue' = Flushed
  /\ owed' = Settled
  /\ UNCHANGED <<policy, chan, subs, pc, inside, target>>

(* Node::flush_pending, on a short timer.                                  *)
FlushPending ==
  /\ pending # <<>>
  /\ pending' = <<>>
  /\ queue' = Flushed
  /\ owed' = Settled
  /\ UNCHANGED <<policy, chan, subs, pc, inside, target>>

-----------------------------------------------------------------------------
(* What a departure does under the lock, shared by leave_channel,          *)
(* channel_kick and channel_ban: the roster, the subscriber list and, if   *)
(* the channel is destroyed, everything kept for it.                       *)

Pulled(s) == Without(subs, s)

Depart(ch, s) ==
  LET destroyed == IsMember(chan, s) /\ ShouldDestroy(ch, policy)
      left      == Pulled(s)
  IN  /\ chan' = IF destroyed THEN NoChannel ELSE ch
      /\ subs' = IF destroyed THEN NoChannel ELSE left
      /\ pending' = IF destroyed THEN <<>> ELSE pending
      /\ owed' = {p \in owed : p[1] # s}
                   \cup IF destroyed \/ ~IsMember(chan, s) THEN {}
                        ELSE Range(left) \X {s}

(* Node::leave_channel: a no-op on the node when the channel is gone.      *)
NodeLeave(s) ==
  IF chan = NoChannel THEN UNCHANGED <<node, owed>> ELSE Depart(Leave(chan, s), s)

\* mutant: a departure is queued only while nothing else is
EnqueueLeaveFirst(n) ==
  pending' = IF subs = NoChannel \/ pending # <<>> THEN pending ELSE Append(pending, n)

(* Node::enqueue_leave: a no-op when nobody is subscribed.                 *)
EnqueueLeave(n) ==
  pending' = IF subs = NoChannel THEN pending ELSE Append(pending, n)

Goto(s, l) == pc' = [pc EXCEPT ![s] = l]

-----------------------------------------------------------------------------
(* Connection lifetime.                                                    *)

(* A logged-on connection claims the display name and reaches chat.        *)
Connect(s) ==
  /\ pc[s] = "offline"
  /\ Goto(s, "idle")
  /\ UNCHANGED <<policy, node, queue, inside, target, owed>>

(* The writer task hands the next queued buffer to the socket.             *)
Deliver(s) ==
  /\ queue[s] > 0
  /\ queue' = [queue EXCEPT ![s] = @ - 1]
  /\ UNCHANGED <<policy, node, pc, inside, target, owed>>

(* bncs_session ends (peer gone, timeout, Step::Close): cleanup leaves the *)
(* channel, queues the EID_LEAVE and only then releases the display name.  *)
Cleanup(s) ==
  /\ pc[s] \in {"idle", "closing"}
  /\ IF inside[s]
     THEN NodeLeave(s) /\ Goto(s, "cleanup")
     ELSE UNCHANGED <<node, owed>> /\ Goto(s, "releasing")
  /\ inside' = [inside EXCEPT ![s] = FALSE]
  /\ UNCHANGED <<policy, queue, target>>

CleanupEnqueue(s) ==
  /\ pc[s] = "cleanup"
  /\ EnqueueLeave(s)
  /\ Goto(s, "releasing")
  /\ UNCHANGED <<policy, chan, subs, queue, inside, target, owed>>

ReleaseName(s) ==
  /\ pc[s] = "releasing"
  /\ Goto(s, "offline")
  /\ queue' = [queue EXCEPT ![s] = 0]
  /\ UNCHANGED <<policy, node, inside, target, owed>>

-----------------------------------------------------------------------------
(* do_join.                                                                *)

(* Node::join_channel under the lock.  A session that believes it is in    *)
(* the channel already returns without a call.                             *)
DoJoin(s, base) ==
  LET ch == IF chan = NoChannel THEN New ELSE chan
  IN  /\ pc[s] = "idle" /\ ~inside[s]
      /\ s \in policy.allowed
      /\ MayJoin(ch, policy, s)
      /\ chan' = Join(ch, policy, s, base)
      /\ subs' = Append(IF subs = NoChannel THEN <<>> ELSE subs, s)
      /\ inside' = [inside EXCEPT ![s] = TRUE]
      /\ Goto(s, "joined")
      /\ UNCHANGED <<policy, pending, queue, target, owed>>

\* mutant: closing on a full queue skips the channel part of cleanup
SendSnapshotAbandon(s) ==
  /\ pc[s] = "joined"
  /\ IF Room(queue[s])
     THEN /\ queue' = [queue EXCEPT ![s] = @ + 1]
          /\ Goto(s, "announcing")
     ELSE UNCHANGED queue /\ Goto(s, "releasing")
  /\ UNCHANGED <<policy, node, inside, target, owed>>

(* The roster snapshot to the joiner, one queue slot; a joiner whose queue *)
(* is full is closed.                                                      *)
SendSnapshot(s) ==
  /\ pc[s] = "joined"
  /\ IF Room(queue[s])
     THEN /\ queue' = [queue EXCEPT ![s] = @ + 1]
          /\ Goto(s, "announcing")
     ELSE UNCHANGED queue /\ Goto(s, "closing")
  /\ UNCHANGED <<policy, node, inside, target, owed>>

AnnounceJoin(s) ==
  /\ pc[s] = "announcing"
  /\ Broadcast(s)
  /\ Goto(s, "idle")
  /\ UNCHANGED <<policy, inside, target>>

-----------------------------------------------------------------------------
(* leave_current: SID_LEAVECHAT, or a join of another channel.             *)

LeaveCurrent(s) ==
  /\ pc[s] = "idle" /\ inside[s]
  /\ NodeLeave(s)
  /\ inside' = [inside EXCEPT ![s] = FALSE]
  /\ Goto(s, "leaving")
  /\ UNCHANGED <<policy, queue, target>>

LeaveEnqueue(s) ==
  /\ pc[s] = "leaving"
  /\ EnqueueLeave(s)
  /\ Goto(s, "idle")
  /\ UNCHANGED <<policy, chan, subs, queue, inside, target, owed>>

-----------------------------------------------------------------------------
(* chat_command: membership is checked in one critical section and the     *)
(* talk is broadcast in another.                                           *)

EnsureMember(s) ==
  /\ pc[s] = "idle" /\ inside[s]
  /\ IF chan # NoChannel /\ IsMember(chan, s)
     THEN Goto(s, "talking") /\ UNCHANGED inside
     ELSE inside' = [inside EXCEPT ![s] = FALSE] /\ UNCHANGED pc
  /\ UNCHANGED <<policy, node, queue, target, owed>>

Talk(s) ==
  /\ pc[s] = "talking"
  /\ Broadcast(s)
  /\ Goto(s, "idle")
  /\ UNCHANGED <<policy, inside, target>>

-----------------------------------------------------------------------------
(* Operator commands, issued by a session that is (or was) in the channel. *)

Commands(s) == pc[s] = "idle" /\ inside[s] /\ chan # NoChannel

\* mutant: operator status is taken from when the session joined
MayActWasOperator(s, t) == IsMember(chan, t) /\ AccountOf[t] # AccountOf[s]

MayAct(s, t) == MayTarget(chan, AccountOf[s], t)

(* op_kick and op_ban up to the unlock; after_removal queues the target's  *)
(* EID_LEAVE in a critical section of its own.                             *)
OpKick(s, t) ==
  /\ Commands(s) /\ MayAct(s, t)
  /\ Depart(KickByName(chan, t), t)
  /\ target' = [target EXCEPT ![s] = t]
  /\ Goto(s, "removing")
  /\ UNCHANGED <<policy, queue, inside>>

OpBan(s, t) ==
  /\ Commands(s) /\ MayAct(s, t)
  /\ Depart(BanByName(chan, t), t)
  /\ target' = [target EXCEPT ![s] = t]
  /\ Goto(s, "removing")
  /\ UNCHANGED <<policy, queue, inside>>

AfterRemoval(s) ==
  /\ pc[s] = "removing"
  /\ EnqueueLeave(target[s])
  /\ target' = [target EXCEPT ![s] = s]
  /\ Goto(s, "idle")
  /\ UNCHANGED <<policy, chan, subs, queue, inside, owed>>

OpDesignate(s, t) ==
  /\ Commands(s) /\ MayAct(s, t)
  /\ chan' = DesignateByName(chan, t)
  /\ UNCHANGED <<policy, subs, pending, queue, pc, inside, target, owed>>

OpUnban(s, a) ==
  /\ Commands(s) /\ IsOperator(chan, AccountOf[s])
  /\ chan' = Unban(chan, a)
  /\ UNCHANGED <<policy, subs, pending, queue, pc, inside, target, owed>>

-----------------------------------------------------------------------------

Join_(s) == \E base \in SUBSET {"operator"} : DoJoin(s, base)

(* The steps a task takes once it has started on a packet or on cleanup.   *)
Continue(s) ==
  \/ SendSnapshot(s)
  \/ AnnounceJoin(s)
  \/ LeaveEnqueue(s)
  \/ Talk(s)
  \/ AfterRemoval(s)
  \/ pc[s] = "closing" /\ Cleanup(s)
  \/ CleanupEnqueue(s)
  \/ ReleaseName(s)

Next ==
  \/ FlushPending
  \/ \E s \in Session :
       \/ Connect(s)
       \/ Deliver(s)
       \/ Cleanup(s)
       \/ Join_(s)
       \/ Continue(s)
       \/ LeaveCurrent(s)
       \/ EnsureMember(s)
  \/ \E s, t \in Session : OpKick(s, t) \/ OpBan(s, t) \/ OpDesignate(s, t)
  \/ \E s \in Session, a \in Account : OpUnban(s, a)

(* The timer fires and a task that holds no lock is scheduled again; no    *)
(* peer need ever read its socket, and nobody need ever talk or leave.     *)
Fairness == WF_vars(FlushPending) /\ \A s \in Session : WF_vars(Continue(s))

Spec == Init /\ [][Next]_vars /\ Fairness

-----------------------------------------------------------------------------

(* Every part of the state has its type; an outbound queue never exceeds   *)
(* its capacity.                                                           *)
TypeOK ==
  /\ policy \in Policies
  /\ chan # NoChannel => chan \in ChannelType
  /\ subs # NoChannel => subs \in Seq(Session)
  /\ pending \in Seq(Session)
  /\ queue \in [Session -> 0 .. QueueDepth]
  /\ pc \in [Session -> PC]
  /\ inside \in [Session -> BOOLEAN]
  /\ target \in [Session -> Session]
  /\ owed \subseteq Session \X Session

(* The two maps the node keeps for a channel agree after every operation:  *)
(* exactly the members receive its traffic, each once.                     *)
SubscribersMatchRoster ==
  IF chan = NoChannel THEN subs = NoChannel ELSE subs = chan.members

(* A roster entry always belongs to a live session that knows it is in the *)
(* channel and will leave it: nobody stays in a channel after their        *)
(* connection is gone, and the next holder of a display name never finds   *)
(* itself "already present".                                               *)
NoOrphanMembers ==
  \A s \in Session :
    chan # NoChannel /\ IsMember(chan, s) =>
      inside[s] /\ pc[s] \in {"idle", "joined", "announcing", "talking", "removing", "closing"}

(* The roster, the fanout and the sessions tell the same story between any *)
(* two critical sections of join_channel, leave_channel, channel_kick,     *)
(* channel_ban and cleanup (node.rs, session.rs).                          *)
RosterTrue == SubscribersMatchRoster /\ NoOrphanMembers

(* The frame announcing n's departure is queued, or about to be.           *)
LeaveInFlight(n) ==
  \/ n \in Range(pending)
  \/ pc[n] \in {"leaving", "cleanup"}
  \/ \E s \in Session : pc[s] = "removing" /\ target[s] = n

(* Deferring the EID_LEAVEs loses none: whoever was subscribed when n left *)
(* has been sent the departure, or it is on its way.                       *)
NoDepartureForgotten == \A p \in owed : LeaveInFlight(p[2])

(* ... and it does get sent.                                               *)
DeparturesAnnounced ==
  \A x \in Session : \A n \in Session \ {x} :
    <<x, n>> \in owed ~> <<x, n>> \notin owed

(* The roster changes only as ChannelRules allows.                         *)
ImplementsChannelRules == RulesSpec
=============================================================================
