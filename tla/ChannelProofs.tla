---------------------------- MODULE ChannelProofs ----------------------------
(***************************************************************************)
(* The channel, for every set of sessions and accounts, every capacity,    *)
(* every policy and every queue depth.                                     *)
(*                                                                         *)
(* First what the methods of `Channel` (channel.rs) keep true of a channel;*)
(* then the invariants of ChannelRules; then the handlers of ChatFanout,   *)
(* split at their lock boundaries: the node's maps and the sessions agree  *)
(* about who is in the channel, no departure is forgotten, and the whole   *)
(* implements ChannelRules.                                                *)
(***************************************************************************)
EXTENDS ChatFanout, TLAPS, WellFoundedInduction, SequenceTheorems

-----------------------------------------------------------------------------
(* Facts about the sequence helpers.                                       *)

(* `iter().position` finds an index whenever there is one.                 *)
LEMMA FirstIn ==
  ASSUME NEW I \in SUBSET Nat, I # {}
  PROVE  First(I) \in I
<1>1. PICK x \in I : \A y \in I : ~ (<<y, x>> \in OpToRel(<, Nat))
  BY NatLessThanWellFounded, WFMin
<1>2. ASSUME NEW y \in I
      PROVE  x <= y
  <2>1. ~ (<<y, x>> \in {ss \in Nat \X Nat : ss[1] < ss[2]})
    BY <1>1 DEF OpToRel
  <2> QED
    BY <2>1
<1> QED
  BY <1>2 DEF First

(* Membership in a vector, in the forms the provers use.                   *)
LEMMA RangeFacts ==
  ASSUME NEW S, NEW q \in Seq(S)
  PROVE  /\ DOMAIN q = 1 .. Len(q) /\ DOMAIN q \in SUBSET Nat
         /\ \A i \in DOMAIN q : q[i] \in Range(q) /\ q[i] \in S
         /\ \A x \in Range(q) : x \in S
  BY DEF Range

(* Dropping an element of a vector without repetitions removes exactly it. *)
LEMMA RemoveAtFacts ==
  ASSUME NEW S, NEW q \in Seq(S), NEW k \in 1 .. Len(q)
  PROVE  /\ RemoveAt(q, k) \in Seq(S)
         /\ Len(RemoveAt(q, k)) = Len(q) - 1
         /\ \A i \in 1 .. Len(q) - 1 :
              RemoveAt(q, k)[i] = IF i < k THEN q[i] ELSE q[i + 1]
<1> DEFINE u == SubSeq(q, 1, k - 1)
           v == SubSeq(q, k + 1, Len(q))
<1>1. /\ u \in Seq(S) /\ Len(u) = k - 1
      /\ \A i \in 1 .. k - 1 : u[i] = q[i]
  BY SubSeqProperties
<1>2. /\ v \in Seq(S) /\ Len(v) = Len(q) - k
      /\ \A i \in 1 .. Len(q) - k : v[i] = q[k + i]
  BY SubSeqProperties
<1> HIDE DEF u, v
<1>3. /\ u \o v \in Seq(S) /\ Len(u \o v) = Len(u) + Len(v)
      /\ \A i \in 1 .. Len(u) + Len(v) :
           (u \o v)[i] = IF i <= Len(u) THEN u[i] ELSE v[i - Len(u)]
  BY <1>1, <1>2, ConcatProperties
<1>4. Len(u) + Len(v) = Len(q) - 1
  BY <1>1, <1>2
<1>5. ASSUME NEW i \in 1 .. Len(q) - 1
      PROVE  (u \o v)[i] = IF i < k THEN q[i] ELSE q[i + 1]
  <2>1. CASE i < k
    BY <2>1, <1>1, <1>3, <1>4
  <2>2. CASE ~ (i < k)
    <3>1. i - Len(u) \in 1 .. Len(q) - k /\ k + (i - Len(u)) = i + 1
      BY <2>2, <1>1
    <3>2. (u \o v)[i] = v[i - Len(u)]
      BY <2>2, <1>1, <1>3, <1>4
    <3> QED
      BY <3>1, <3>2, <2>2, <1>2
  <2> QED
    BY <2>1, <2>2
<1> QED
  BY <1>3, <1>4, <1>5 DEF RemoveAt, u, v

(* Vec::retain on a vector without repetitions drops exactly the element.  *)
LEMMA WithoutFacts ==
  ASSUME NEW S, NEW q \in Seq(S), IsInjective(q), NEW x
  PROVE  /\ Without(q, x) \in Seq(S)
         /\ IsInjective(Without(q, x))
         /\ Len(Without(q, x)) <= Len(q)
         /\ Range(Without(q, x)) = Range(q) \ {x}
<1>1. CASE ~ \E i \in DOMAIN q : q[i] = x
  BY <1>1 DEF Without, Range
<1>2. CASE \E i \in DOMAIN q : q[i] = x
  <2> DEFINE k == CHOOSE i \in DOMAIN q : q[i] = x
             w == RemoveAt(q, k)
  <2>1. k \in 1 .. Len(q) /\ q[k] = x
    BY <1>2
  <2>2. Without(q, x) = w
    BY <1>2 DEF Without
  <2> HIDE DEF k
  <2>3. /\ w \in Seq(S)
        /\ Len(w) = Len(q) - 1
        /\ \A i \in 1 .. Len(q) - 1 : w[i] = IF i < k THEN q[i] ELSE q[i + 1]
    BY <2>1, RemoveAtFacts
  <2>4. DOMAIN w = 1 .. Len(q) - 1 /\ DOMAIN q = 1 .. Len(q) /\ Len(q) \in Nat
    BY <2>3
  <2> HIDE DEF w
  <2>5. IsInjective(w)
    BY <2>1, <2>3, <2>4 DEF IsInjective
  <2>6. ASSUME NEW y, NEW i \in DOMAIN w, w[i] = y
        PROVE  (\E j \in DOMAIN q : q[j] = y) /\ y # x
    BY <2>1, <2>3, <2>4, <2>6 DEF IsInjective
  <2>7. ASSUME NEW y, y # x, NEW j \in DOMAIN q, q[j] = y
        PROVE  \E i \in DOMAIN w : w[i] = y
    <3>1. CASE j < k
      BY <3>1, <2>1, <2>3, <2>4, <2>7
    <3>2. CASE j > k
      <4>1. j - 1 \in DOMAIN w /\ w[j - 1] = y
        BY <3>2, <2>1, <2>3, <2>4, <2>7
      <4> QED BY <4>1
    <3> QED BY <3>1, <3>2, <2>1, <2>4, <2>7
  <2>8. Range(w) = Range(q) \ {x}
    BY <2>6, <2>7 DEF Range
  <2>9. Len(w) <= Len(q)
    BY <2>3, <2>4
  <2> QED
    BY <2>2, <2>3, <2>5, <2>8, <2>9
<1> QED
  BY <1>1, <1>2

(* Vec::push of an element that is not there keeps a vector free of        *)
(* repetitions.                                                            *)
LEMMA AppendFacts ==
  ASSUME NEW S, NEW q \in Seq(S), NEW x \in S
  PROVE  /\ Append(q, x) \in Seq(S)
         /\ Len(Append(q, x)) = Len(q) + 1
         /\ Range(Append(q, x)) = Range(q) \cup {x}
         /\ IsInjective(q) /\ x \notin Range(q) => IsInjective(Append(q, x))
<1>1. /\ Append(q, x) \in Seq(S)
      /\ Len(Append(q, x)) = Len(q) + 1
      /\ DOMAIN Append(q, x) = 1 .. Len(q) + 1
      /\ DOMAIN q = 1 .. Len(q)
      /\ Len(q) \in Nat
      /\ \A i \in 1 .. Len(q) : Append(q, x)[i] = q[i]
      /\ Append(q, x)[Len(q) + 1] = x
  OBVIOUS
<1> DEFINE p == Append(q, x)
<1> HIDE DEF p
<1>2. Range(p) = Range(q) \cup {x}
  <2>1. ASSUME NEW y \in Range(p) PROVE y \in Range(q) \cup {x}
    BY <1>1, <2>1 DEF Range, p
  <2>2. ASSUME NEW y \in Range(q) PROVE y \in Range(p)
    <3>1. PICK i \in DOMAIN q : q[i] = y
      BY <2>2 DEF Range
    <3>2. i \in DOMAIN p /\ p[i] = y
      BY <1>1, <3>1 DEF p
    <3> QED BY <3>2 DEF Range
  <2>3. x \in Range(p)
    <3>1. Len(q) + 1 \in DOMAIN p /\ p[Len(q) + 1] = x
      BY <1>1 DEF p
    <3> QED BY <3>1 DEF Range
  <2> QED BY <2>1, <2>2, <2>3
<1>3. ASSUME IsInjective(q), x \notin Range(q)
      PROVE  IsInjective(p)
  <2> SUFFICES ASSUME NEW i \in DOMAIN p, NEW j \in DOMAIN p, p[i] = p[j]
               PROVE  i = j
    BY DEF IsInjective
  <2>1. ASSUME NEW m \in 1 .. Len(q) PROVE p[m] = q[m] /\ q[m] # x
    BY <1>1, <1>3 DEF Range, p
  <2>2. CASE i \in 1 .. Len(q) /\ j \in 1 .. Len(q)
    BY <1>1, <1>3, <2>1, <2>2 DEF IsInjective
  <2>3. CASE i = Len(q) + 1 \/ j = Len(q) + 1
    BY <1>1, <2>1, <2>3 DEF p
  <2> QED BY <1>1, <2>2, <2>3 DEF p
<1> QED
  BY <1>1, <1>2, <1>3 DEF p

-----------------------------------------------------------------------------
(* The invariant of one channel value, and what preserves it.  Beyond the  *)
(* properties to be proved it says that a channel without operator has no  *)
(* heirs: every heir is present, so one of them would have inherited.      *)

Sound(ch, pol) ==
  /\ ch \in ChannelType
  /\ IsInjective(ch.members)
  /\ ch.operator # None => HasAccount(ch.members, ch.operator)
  /\ IsInjective(ch.heirs)
  /\ \A h \in Range(ch.heirs) : HasAccount(ch.members, h) /\ h # ch.operator
  /\ ch.operator = None => Range(ch.heirs) = {}
  /\ \A s \in ch.ops : s \in Range(ch.members) /\ AccountOf[s] = ch.operator
  /\ pol.max_users # 0 => Len(ch.members) <= pol.max_users

(* position_by_account succeeds exactly when some member has the account.  *)
LEMMA AccountInRange ==
  \A q, a : HasAccount(q, a) <=> \E s \in Range(q) : AccountOf[s] = a
  BY DEF HasAccount, Range

(* The event counter stays within its width.                               *)
LEMMA BumpType ==
  ASSUME NEW n \in 0 .. SeqWidth - 1
  PROVE  Bump(n) \in 0 .. SeqWidth - 1
  BY ChannelAssumption DEF Bump

(* position_by_account returns a session of the account.                   *)
LEMMA FirstSessionOf ==
  ASSUME NEW q \in Seq(Session), NEW a, HasAccount(q, a)
  PROVE  /\ FirstSession(q, a) \in Range(q)
         /\ FirstSession(q, a) \in Session
         /\ AccountOf[FirstSession(q, a)] = a
<1> DEFINE I == {i \in DOMAIN q : AccountOf[q[i]] = a}
<1>1. I \in SUBSET Nat /\ I # {}
  BY RangeFacts DEF HasAccount
<1>2. First(I) \in I
  BY <1>1, FirstIn
<1>3. FirstSession(q, a) = q[First(I)]
  BY DEF FirstSession
<1> DEFINE k == First(I)
<1>4. k \in DOMAIN q /\ AccountOf[q[k]] = a
  BY <1>2
<1> HIDE DEF k
<1>5. q[k] \in Range(q) /\ q[k] \in Session
  BY <1>4, RangeFacts
<1> QED
  BY <1>3, <1>4, <1>5 DEF k

(* A successor is a designated heir, and there is one whenever some heir   *)
(* is present.                                                             *)
LEMMA SuccessorIsHeir ==
  ASSUME NEW q \in Seq(Account), NEW rest,
         \A h \in Range(q) : HasAccount(rest, h)
  PROVE  /\ Successor(q, rest) = None => Range(q) = {}
         /\ Successor(q, rest) # None => Successor(q, rest) \in Range(q)
<1> DEFINE I == {i \in DOMAIN q : HasAccount(rest, q[i])}
<1>1. DOMAIN q \in SUBSET Nat /\ \A i \in DOMAIN q : q[i] \in Range(q) /\ q[i] \in Account
  BY RangeFacts
<1>2. CASE I = {}
  <2>1. Range(q) = {}
    BY <1>1, <1>2 DEF Range
  <2> QED
    BY <1>2, <2>1 DEF Successor
<1>3. CASE I # {}
  <2>1. First(I) \in I
    BY <1>1, <1>3, FirstIn
  <2>2. Successor(q, rest) = q[First(I)]
    BY <1>3 DEF Successor
  <2>3. q[First(I)] \in Range(q) /\ q[First(I)] \in Account
    <3> DEFINE k == First(I)
    <3>1. k \in DOMAIN q
      BY <2>1
    <3> HIDE DEF k
    <3>2. q[k] \in Range(q) /\ q[k] \in Account
      BY <3>1, <1>1
    <3> QED BY <3>2 DEF k
  <2> QED
    BY <2>2, <2>3, ChannelAssumption
<1> QED
  BY <1>2, <1>3

(* A new channel is sound; in particular the capacity bounds hold of it.   *)
LEMMA NewSound ==
  ASSUME NEW pol \in Policy
  PROVE  Sound(New, pol)
  BY ChannelAssumption DEF Sound, New, ChannelType, IsInjective, Range, Policy

(* Channel::join keeps a channel sound, whoever it grants operator to.     *)
LEMMA JoinSound ==
  ASSUME NEW ch, NEW pol \in Policy, Sound(ch, pol), NEW s \in Session,
         NEW base \in SUBSET {"operator"}, MayJoin(ch, pol, s)
  PROVE  Sound(Join(ch, pol, s, base), pol)
<1> DEFINE new == Join(ch, pol, s, base)
           granted == GrantsOperator(ch, pol, s)
<1>1. /\ ch.members \in Seq(Session) /\ IsInjective(ch.members)
      /\ s \notin Range(ch.members)
      /\ ch \in ChannelType
  BY DEF Sound, ChannelType, MayJoin, IsMember, Range
<1>2. /\ Append(ch.members, s) \in Seq(Session)
      /\ IsInjective(Append(ch.members, s))
      /\ Range(Append(ch.members, s)) = Range(ch.members) \cup {s}
      /\ Len(Append(ch.members, s)) = Len(ch.members) + 1
  BY <1>1, AppendFacts
<1>3. ("operator" \in JoinFlags(base, granted)) <=> granted
  BY DEF JoinFlags
<1>4. AccountOf[s] \in Account /\ AccountOf[s] # None
  BY ChannelAssumption
<1>5. /\ new.members = Append(ch.members, s)
      /\ new.ops = IF granted THEN ch.ops \cup {s} ELSE ch.ops
      /\ new.operator = IF granted THEN AccountOf[s] ELSE ch.operator
      /\ new.heirs = ch.heirs
  BY <1>1, <1>3 DEF Join, ChannelType
<1>6. new \in ChannelType
  <2>1. Bump(ch.seq) \in 0 .. SeqWidth - 1
    BY <1>1, BumpType DEF ChannelType
  <2> QED
    BY <1>1, <1>2, <1>4, <2>1 DEF Join, ChannelType
<1> HIDE DEF new, granted
<1>7. granted => ch.operator = None
  BY DEF GrantsOperator, granted
<1>8. new.operator # None => HasAccount(new.members, new.operator)
  BY <1>2, <1>5, AccountInRange DEF Sound
<1>9. /\ \A h \in Range(new.heirs) :
           HasAccount(new.members, h) /\ h # new.operator
      /\ new.operator = None => Range(new.heirs) = {}
  BY <1>2, <1>4, <1>5, <1>7, AccountInRange DEF Sound
<1>10. \A x \in new.ops : x \in Range(new.members) /\ AccountOf[x] = new.operator
  <2> SUFFICES ASSUME NEW x \in new.ops
               PROVE  x \in Range(new.members) /\ AccountOf[x] = new.operator
    OBVIOUS
  <2>1. x \in ch.ops => HasAccount(ch.members, AccountOf[x]) /\ AccountOf[x] \in Account
    BY AccountInRange, ChannelAssumption DEF Sound, ChannelType
  <2>2. x \in ch.ops => ~granted
    BY <1>7, <2>1, ChannelAssumption DEF Sound
  <2> QED
    BY <1>2, <1>5, <2>2 DEF Sound
<1>11. pol.max_users # 0 => Len(new.members) <= pol.max_users
  BY <1>1, <1>2, <1>5 DEF MayJoin, Full, Policy
<1> QED
  BY <1>2, <1>5, <1>6, <1>8, <1>9, <1>10, <1>11 DEF Sound, new

(* The heart of the matter: a departure, with the succession it triggers.  *)
LEMMA RemoveSound ==
  ASSUME NEW ch, NEW pol \in Policy, Sound(ch, pol), NEW s \in Range(ch.members)
  PROVE  Sound(RemoveMember(ch, s), pol)
<1> DEFINE new  == RemoveMember(ch, s)
           a    == AccountOf[s]
           rest == Without(ch.members, s)
           kept == KeptHeirs(ch.heirs, rest, a)
           heir == Successor(kept, rest)
<1>1. /\ ch \in ChannelType
      /\ ch.members \in Seq(Session) /\ IsInjective(ch.members)
      /\ ch.heirs \in Seq(Account) /\ IsInjective(ch.heirs)
      /\ s \in Session /\ a \in Account
  BY ChannelAssumption DEF Sound, ChannelType, Range
<1>2. /\ rest \in Seq(Session) /\ IsInjective(rest)
      /\ Len(rest) <= Len(ch.members)
      /\ Range(rest) = Range(ch.members) \ {s}
  BY <1>1, WithoutFacts
<1>3. /\ Without(ch.heirs, a) \in Seq(Account)
      /\ IsInjective(Without(ch.heirs, a))
      /\ Range(Without(ch.heirs, a)) = Range(ch.heirs) \ {a}
  BY <1>1, WithoutFacts
<1> HIDE DEF rest
<1>4. /\ kept \in Seq(Account) /\ IsInjective(kept)
      /\ Range(kept) = IF HasAccount(rest, a) THEN Range(ch.heirs)
                       ELSE Range(ch.heirs) \ {a}
  BY <1>1, <1>3 DEF KeptHeirs
<1>5. \A b : b # a => (HasAccount(rest, b) <=> HasAccount(ch.members, b))
  BY <1>2, AccountInRange
<1>6. \A h \in Range(kept) : HasAccount(rest, h) /\ h # ch.operator /\ h \in Account
  <2> HIDE DEF kept
  <2> SUFFICES ASSUME NEW h \in Range(kept)
               PROVE  HasAccount(rest, h) /\ h # ch.operator /\ h \in Account
    OBVIOUS
  <2>1. h \in Range(ch.heirs) /\ (h = a => HasAccount(rest, a))
    BY <1>4
  <2>2. h \in Account
    BY <2>1, <1>1, RangeFacts
  <2> QED
    BY <2>1, <2>2, <1>5 DEF Sound
<1> HIDE DEF kept
<1> DEFINE kops == ch.ops \ {s}
           nseq == Bump(ch.seq)
<1>7. nseq \in 0 .. SeqWidth - 1
  BY <1>1, BumpType DEF ChannelType
<1>8. \A x \in kops : x \in Range(rest) /\ x \in Session /\ AccountOf[x] = ch.operator
                      /\ HasAccount(rest, ch.operator)
  BY <1>1, <1>2, AccountInRange DEF Sound, ChannelType
<1>9. pol.max_users # 0 => Len(rest) <= pol.max_users
  BY <1>1, <1>2 DEF Sound, Policy
<1>10. CASE ~ Vacates(ch, rest, s)
  <2>1. /\ new = [ch EXCEPT !.members = rest, !.ops = kops, !.heirs = kept, !.seq = nseq]
    BY <1>10 DEF RemoveMember, rest, kept
  <2>2. /\ new.members = rest /\ new.ops = kops /\ new.heirs = kept
        /\ new.operator = ch.operator
        /\ new \in ChannelType
    BY <2>1, <1>1, <1>2, <1>4, <1>7 DEF ChannelType
  <2>3. ch.operator # None => HasAccount(rest, ch.operator)
    BY <1>10, <1>5 DEF Vacates, Sound
  <2>4. ch.operator = None => Range(kept) = {}
    BY <1>4 DEF Sound
  <2> QED
    BY <1>2, <1>4, <1>6, <1>8, <1>9, <2>2, <2>3, <2>4 DEF Sound, new
<1>11. CASE Vacates(ch, rest, s)
  <2>1. kops = {} /\ ~HasAccount(rest, a) /\ ch.operator = a
    BY <1>11, <1>8 DEF Vacates
  <2>2. CASE heir = None
    <3>1. Range(kept) = {}
      BY <2>2, <1>4, <1>6, SuccessorIsHeir DEF heir
    <3>2. new = [ch EXCEPT !.members = rest, !.ops = kops, !.heirs = kept,
                           !.seq = nseq, !.operator = None]
      BY <1>11, <2>2, <1>1 DEF RemoveMember, rest, kept, ChannelType
    <3>3. /\ new.members = rest /\ new.ops = kops /\ new.heirs = kept
          /\ new.operator = None
          /\ new \in ChannelType
      BY <3>2, <1>1, <1>2, <1>4, <1>7 DEF ChannelType
    <3> QED
      BY <1>2, <1>4, <1>9, <2>1, <3>1, <3>3 DEF Sound, new
  <2>3. CASE heir # None
    <3>1. heir \in Range(kept) /\ HasAccount(rest, heir) /\ heir \in Account
      BY <2>3, <1>4, <1>6, SuccessorIsHeir DEF heir
    <3> DEFINE f == FirstSession(rest, heir)
               left == Without(kept, heir)
    <3>2. f \in Range(rest) /\ AccountOf[f] = heir /\ f \in Session
      BY <3>1, <1>2, FirstSessionOf
    <3>3. /\ left \in Seq(Account) /\ IsInjective(left)
          /\ Range(left) = Range(kept) \ {heir}
      BY <1>4, WithoutFacts
    <3>4. new = [ch EXCEPT !.members = rest, !.ops = kops \cup {f}, !.heirs = left,
                           !.seq = nseq, !.operator = heir]
      BY <1>11, <2>3, <1>1 DEF RemoveMember, rest, kept, ChannelType
    <3> HIDE DEF f, left, heir
    <3>5. /\ new.members = rest /\ new.ops = kops \cup {f} /\ new.heirs = left
          /\ new.operator = heir
      BY <3>4, <1>1 DEF ChannelType
    <3>6. kops \cup {f} \in SUBSET Session
      BY <1>1, <3>2 DEF ChannelType
    <3> HIDE DEF kops, nseq, new
    <3>7. new \in ChannelType
      BY <3>1, <3>3, <3>4, <3>6, <1>1, <1>2, <1>7 DEF ChannelType
    <3> QED
      BY <1>2, <1>6, <1>9, <2>1, <2>3, <3>1, <3>2, <3>3, <3>5, <3>7 DEF Sound, new
  <2> QED
    BY <2>2, <2>3
<1> QED
  BY <1>10, <1>11

(* Changing the ban list disturbs nothing else.                            *)
LEMMA BansSound ==
  ASSUME NEW ch, NEW pol \in Policy, Sound(ch, pol), NEW B \in SUBSET Account
  PROVE  LET new == [ch EXCEPT !.bans = B]
         IN  Sound(new, pol) /\ new.members = ch.members
<1> DEFINE new == [ch EXCEPT !.bans = B]
<1>1. ch \in ChannelType
  BY DEF Sound
<1>2. /\ new \in ChannelType
      /\ new.members = ch.members /\ new.ops = ch.ops
      /\ new.operator = ch.operator /\ new.heirs = ch.heirs
  BY <1>1 DEF ChannelType
<1> HIDE DEF new
<1>3. Sound(new, pol)
  BY <1>2 DEF Sound
<1> QED
  BY <1>2, <1>3 DEF new

(* Appending a present account, other than the operator, to the heirs.     *)
LEMMA HeirAdded ==
  ASSUME NEW ch, NEW pol \in Policy, Sound(ch, pol),
         NEW q \in Seq(Account), IsInjective(q), Range(q) \subseteq Range(ch.heirs),
         NEW a \in Account, a \notin Range(q), HasAccount(ch.members, a),
         ch.operator # None, a # ch.operator
  PROVE  Sound([ch EXCEPT !.heirs = Append(q, a), !.seq = Bump(@)], pol)
<1> DEFINE hs == Append(q, a)
           new == [ch EXCEPT !.heirs = hs, !.seq = Bump(@)]
<1>1. ch \in ChannelType
  BY DEF Sound
<1>2. hs \in Seq(Account) /\ IsInjective(hs) /\ Range(hs) = Range(q) \cup {a}
  BY AppendFacts
<1> HIDE DEF hs
<1>3. Bump(ch.seq) \in 0 .. SeqWidth - 1
  BY <1>1, BumpType DEF ChannelType
<1>4. /\ new \in ChannelType
      /\ new.members = ch.members /\ new.ops = ch.ops
      /\ new.operator = ch.operator /\ new.heirs = hs
  BY <1>1, <1>2, <1>3 DEF ChannelType
<1> HIDE DEF new
<1>5. Sound(new, pol)
  BY <1>2, <1>4 DEF Sound
<1> QED
  BY <1>5 DEF new, hs

(* designate_by_name keeps a channel sound.                                *)
LEMMA DesignateByNameSound ==
  ASSUME NEW ch, NEW pol \in Policy, Sound(ch, pol), NEW by \in Account,
         NEW s \in Session, MayTarget(ch, by, s)
  PROVE  Sound(DesignateByName(ch, s), pol)
<1>1. /\ ch.heirs \in Seq(Account) /\ IsInjective(ch.heirs)
      /\ AccountOf[s] \in Account /\ HasAccount(ch.members, AccountOf[s])
      /\ ch.operator # None /\ AccountOf[s] # ch.operator
  BY ChannelAssumption
     DEF Sound, ChannelType, MayTarget, IsOperator, IsMember, HasAccount
<1>2. CASE \E i \in DOMAIN ch.heirs : ch.heirs[i] = AccountOf[s]
  BY <1>2 DEF DesignateByName
<1>3. CASE ~ \E i \in DOMAIN ch.heirs : ch.heirs[i] = AccountOf[s]
  <2>1. AccountOf[s] \notin Range(ch.heirs)
    BY <1>3 DEF Range
  <2>2. Sound([ch EXCEPT !.heirs = Append(ch.heirs, AccountOf[s]), !.seq = Bump(@)], pol)
    BY <1>1, <2>1, HeirAdded
  <2> QED
    BY <1>3, <2>2 DEF DesignateByName
<1> QED
  BY <1>2, <1>3

(* designate keeps a channel sound.                                        *)
LEMMA DesignateAccountSound ==
  ASSUME NEW ch, NEW pol \in Policy, Sound(ch, pol), NEW by \in Account,
         NEW a \in Account, IsOperator(ch, by), by # a, HasAccount(ch.members, a)
  PROVE  Sound(DesignateAccount(ch, a), pol)
<1> DEFINE q == Without(ch.heirs, a)
<1>1. /\ ch.heirs \in Seq(Account) /\ IsInjective(ch.heirs)
      /\ ch.operator # None /\ a # ch.operator
  BY ChannelAssumption DEF Sound, ChannelType, IsOperator
<1>2. /\ q \in Seq(Account) /\ IsInjective(q)
      /\ Range(q) = Range(ch.heirs) \ {a}
  BY <1>1, WithoutFacts
<1> HIDE DEF q
<1>3. Sound([ch EXCEPT !.heirs = Append(q, a), !.seq = Bump(@)], pol)
  BY <1>1, <1>2, HeirAdded
<1> QED
  BY <1>3 DEF DesignateAccount, q

(* leave_account keeps a channel sound.                                    *)
LEMMA LeaveAccountSound ==
  ASSUME NEW ch, NEW pol \in Policy, Sound(ch, pol), NEW a \in Account
  PROVE  Sound(LeaveAccount(ch, a), pol)
<1>1. CASE ~HasAccount(ch.members, a)
  BY <1>1 DEF LeaveAccount
<1>2. CASE HasAccount(ch.members, a)
  <2>1. FirstSession(ch.members, a) \in Range(ch.members)
    BY <1>2, FirstSessionOf DEF Sound, ChannelType
  <2> QED
    BY <1>2, <2>1, RemoveSound DEF LeaveAccount
<1> QED
  BY <1>1, <1>2

-----------------------------------------------------------------------------
(* The specification.                                                      *)

RulesInv == policy \in Policies /\ (Exists => Sound(chan, policy))

(* The inductive invariant gives each of the checked invariants.           *)
LEMMA RulesInvImplies ==
  RulesInv => /\ RosterTypeOK /\ OperatorPresent /\ HeirsPresent
         /\ FlagsMatchOperator /\ CapacityRespected
  BY DEF RulesInv, Sound, RosterTypeOK, OperatorPresent, HeirsPresent, FlagsMatchOperator,
         CapacityRespected, IsMember, Range, Exists

(* A sound channel has the type of a channel.                              *)
LEMMA NewIsChannel == \A ch, pol : Sound(ch, pol) => ch \in ChannelType
  BY DEF Sound

(* Every operation of the node keeps the channel sound.                    *)
LEMMA RulesInvInductive == RulesInv /\ [RulesNext]_channelVars => RulesInv'
<1> SUFFICES ASSUME RulesInv, [RulesNext]_channelVars PROVE RulesInv'
  OBVIOUS
<1> USE DEF RulesInv, Exists
<1>0. policy \in Policy
  BY PoliciesAssumption
<1>1. ASSUME NEW s \in Session, NEW base \in SUBSET {"operator"}, JoinChannel(s, base)
      PROVE  RulesInv'
  <2> DEFINE ch == IF Exists THEN chan ELSE New
  <2>1. Sound(ch, policy)
    BY <1>0, NewSound
  <2>2. MayJoin(ch, policy, s) /\ chan' = Join(ch, policy, s, base) /\ policy' = policy
    BY <1>1 DEF JoinChannel
  <2> HIDE DEF ch
  <2>3. Sound(Join(ch, policy, s, base), policy)
    BY <1>0, <2>1, <2>2, JoinSound
  <2> QED
    BY <2>2, <2>3
<1>2. ASSUME NEW s \in Session, LeaveChannel(s)
      PROVE  RulesInv'
  <2>1. s \in Range(chan.members) /\ Leave(chan, s) = RemoveMember(chan, s)
    BY <1>2 DEF LeaveChannel, IsMember, Range, Leave
  <2>2. Sound(RemoveMember(chan, s), policy)
    BY <1>0, <1>2, <2>1, RemoveSound DEF LeaveChannel
  <2> QED
    BY <1>2, <2>1, <2>2 DEF LeaveChannel, AfterDeparture
<1>3. ASSUME NEW by \in Account, NEW s \in Session, ChannelKick(by, s)
      PROVE  RulesInv'
  <2>1. s \in Range(chan.members)
    BY <1>3 DEF ChannelKick, MayTarget, IsMember, Range
  <2>2. Sound(RemoveMember(chan, s), policy)
    BY <1>0, <1>3, <2>1, RemoveSound DEF ChannelKick
  <2> QED
    BY <1>3, <2>2 DEF ChannelKick, KickByName, AfterDeparture
<1>4. ASSUME NEW by \in Account, NEW s \in Session, ChannelBan(by, s)
      PROVE  RulesInv'
  <2> DEFINE B == chan.bans \cup {AccountOf[s]}
             ch == [chan EXCEPT !.bans = B]
  <2>1. s \in Range(chan.members) /\ B \in SUBSET Account /\ Sound(chan, policy)
    BY <1>4, ChannelAssumption, NewIsChannel
       DEF ChannelBan, MayTarget, IsMember, Range, ChannelType
  <2> HIDE DEF B
  <2>2. Sound(ch, policy) /\ s \in Range(ch.members)
    BY <1>0, <2>1, BansSound
  <2> HIDE DEF ch
  <2>3. Sound(RemoveMember(ch, s), policy)
    BY <1>0, <2>2, RemoveSound
  <2>4. BanByName(chan, s) = RemoveMember(ch, s)
    BY DEF BanByName, ch, B
  <2> QED
    BY <1>4, <2>3, <2>4 DEF ChannelBan, AfterDeparture
<1>5. ASSUME NEW by \in Account, NEW s \in Session, ChannelDesignate(by, s)
      PROVE  RulesInv'
  <2>1. Sound(DesignateByName(chan, s), policy)
    BY <1>0, <1>5, DesignateByNameSound DEF ChannelDesignate
  <2> QED
    BY <1>5, <2>1 DEF ChannelDesignate
<1>6. ASSUME NEW by \in Account, NEW a \in Account, ChannelUnban(by, a)
      PROVE  RulesInv'
  <2> DEFINE B == chan.bans \ {a}
  <2>1. B \in SUBSET Account /\ Sound(chan, policy)
    BY <1>6, NewIsChannel DEF ChannelUnban, ChannelType
  <2> HIDE DEF B
  <2>2. Sound([chan EXCEPT !.bans = B], policy)
    BY <1>0, <2>1, BansSound
  <2> QED
    BY <1>6, <2>2 DEF ChannelUnban, Unban, B
<1>7. ASSUME NEW by \in Account, NEW a \in Account, Kick(by, a)
      PROVE  RulesInv'
  <2>1. Sound(LeaveAccount(chan, a), policy)
    BY <1>0, <1>7, LeaveAccountSound DEF Kick
  <2> QED
    BY <1>7, <2>1 DEF Kick, AfterDeparture
<1>8. ASSUME NEW by \in Account, NEW a \in Account, Ban(by, a)
      PROVE  RulesInv'
  <2> DEFINE B == chan.bans \cup {a}
  <2>1. B \in SUBSET Account /\ Sound(chan, policy)
    BY <1>8, NewIsChannel DEF Ban, ChannelType
  <2> HIDE DEF B
  <2>2. Sound([chan EXCEPT !.bans = B], policy)
    BY <1>0, <2>1, BansSound
  <2>3. Sound(BanAccount(chan, a), policy)
    BY <1>0, <2>2, LeaveAccountSound DEF BanAccount, B
  <2> QED
    BY <1>8, <2>3 DEF Ban, AfterDeparture
<1>9. ASSUME NEW by \in Account, NEW a \in Account, Designate(by, a)
      PROVE  RulesInv'
  <2>1. Sound(DesignateAccount(chan, a), policy)
    BY <1>0, <1>9, DesignateAccountSound DEF Designate
  <2> QED
    BY <1>9, <2>1 DEF Designate
<1>10. CASE UNCHANGED channelVars
  BY <1>10 DEF channelVars
<1> QED
  BY <1>1, <1>2, <1>3, <1>4, <1>5, <1>6, <1>7, <1>8, <1>9, <1>10 DEF RulesNext

(* The roster and the operator rules hold of every channel, whatever the   *)
(* accounts, sessions, capacity and grant policy: the type invariant ...   *)
THEOREM TypeCorrect == RulesSpec => []RosterTypeOK
<1>1. RulesInit => RulesInv
  BY DEF RulesInit, RulesInv, Exists
<1> QED
  BY <1>1, RulesInvInductive, RulesInvImplies, PTL DEF RulesSpec

(* ... and the safety invariants of the operator rules.                    *)
THEOREM OperatorRules == RulesSpec => []RosterSound
<1>1. RulesInit => RulesInv
  BY DEF RulesInit, RulesInv, Exists
<1>2. RulesInv => RosterSound
  BY RulesInvImplies DEF RosterSound
<1> QED
  BY <1>1, <1>2, RulesInvInductive, PTL DEF RulesSpec

-----------------------------------------------------------------------------
(* Operator succession.                                                    *)

(* What a step from `ch` to `new` does with operator.                      *)
Succeeds(ch, new) ==
  \/ new.operator = ch.operator
  \/ /\ ch.operator # None
     /\ ~HasAccount(new.members, ch.operator)
     /\ new.operator = None \/ new.operator \in Range(ch.heirs)

(* A departure never deposes a present operator, and only an heir follows. *)
LEMMA RemoveSucceeds ==
  ASSUME NEW ch, NEW pol \in Policy, Sound(ch, pol), NEW s \in Range(ch.members)
  PROVE  Succeeds(ch, RemoveMember(ch, s))
<1> DEFINE new  == RemoveMember(ch, s)
           a    == AccountOf[s]
           rest == Without(ch.members, s)
           kept == KeptHeirs(ch.heirs, rest, a)
           heir == Successor(kept, rest)
<1>1. /\ ch \in ChannelType
      /\ ch.members \in Seq(Session) /\ IsInjective(ch.members)
      /\ ch.heirs \in Seq(Account) /\ IsInjective(ch.heirs)
      /\ s \in Session /\ a \in Account /\ a # None
  BY ChannelAssumption DEF Sound, ChannelType, Range
<1>2. Range(rest) = Range(ch.members) \ {s}
  BY <1>1, WithoutFacts
<1>3. /\ Without(ch.heirs, a) \in Seq(Account)
      /\ Range(Without(ch.heirs, a)) = Range(ch.heirs) \ {a}
  BY <1>1, WithoutFacts
<1> HIDE DEF rest
<1>4. /\ kept \in Seq(Account)
      /\ Range(kept) \subseteq Range(ch.heirs)
      /\ ~HasAccount(rest, a) => a \notin Range(kept)
  BY <1>1, <1>3 DEF KeptHeirs
<1> HIDE DEF kept
<1>5. CASE ~ Vacates(ch, rest, s)
  <2>1. new.operator = ch.operator
    BY <1>1, <1>5 DEF RemoveMember, rest, kept, ChannelType
  <2> QED
    BY <2>1 DEF Succeeds
<1>6. CASE Vacates(ch, rest, s)
  <2>1. new.members = rest /\ new.operator = heir
    BY <1>1, <1>6 DEF RemoveMember, rest, kept, ChannelType
  <2>2. ~HasAccount(rest, a) /\ ch.operator = a
    BY <1>6 DEF Vacates
  <2>3. \A h \in Range(kept) : HasAccount(rest, h)
    <3> SUFFICES ASSUME NEW h \in Range(kept) PROVE HasAccount(rest, h)
      OBVIOUS
    <3>1. h # a /\ HasAccount(ch.members, h)
      BY <1>4, <2>2 DEF Sound
    <3> QED
      BY <3>1, <1>2, AccountInRange
  <2>4. heir = None \/ heir \in Range(ch.heirs)
    BY <1>4, <2>3, SuccessorIsHeir
  <2> HIDE DEF heir, new
  <2> QED
    BY <1>1, <2>1, <2>2, <2>4 DEF Succeeds, new
<1> QED
  BY <1>5, <1>6

(* The same for the account-level form.                                    *)
LEMMA LeaveAccountSucceeds ==
  ASSUME NEW ch, NEW pol \in Policy, Sound(ch, pol), NEW a \in Account
  PROVE  Succeeds(ch, LeaveAccount(ch, a))
<1>1. CASE ~HasAccount(ch.members, a)
  BY <1>1 DEF LeaveAccount, Succeeds
<1>2. CASE HasAccount(ch.members, a)
  <2>1. FirstSession(ch.members, a) \in Range(ch.members)
    BY <1>2, FirstSessionOf DEF Sound, ChannelType
  <2> QED
    BY <1>2, <2>1, RemoveSucceeds DEF LeaveAccount
<1> QED
  BY <1>1, <1>2

(* The ban list plays no part in succession.                               *)
LEMMA BansSucceed ==
  ASSUME NEW ch \in ChannelType, NEW B, NEW new, Succeeds([ch EXCEPT !.bans = B], new)
  PROVE  Succeeds(ch, new)
  BY DEF Succeeds, ChannelType

(* Every operation obeys the succession rule.                              *)
LEMMA SuccessionInductive == RulesInv /\ [RulesNext]_channelVars => [SuccessionStep]_channelVars
<1> SUFFICES ASSUME RulesInv, RulesNext, Exists, Exists' PROVE SuccessionStep
  BY DEF SuccessionStep
<1>0. policy \in Policy /\ Sound(chan, policy) /\ chan \in ChannelType
  BY PoliciesAssumption, NewIsChannel DEF RulesInv
<1>a. Succeeds(chan, chan') => SuccessionStep
  BY DEF SuccessionStep, Succeeds, Range
<1>1. ASSUME NEW s \in Session, NEW base \in SUBSET {"operator"}, JoinChannel(s, base)
      PROVE  SuccessionStep
  <2>1. chan' = Join(chan, policy, s, base)
    BY <1>1 DEF JoinChannel
  <2>2. chan'.operator =
          IF GrantsOperator(chan, policy, s) THEN AccountOf[s] ELSE chan.operator
    BY <2>1, <1>0 DEF Join, ChannelType
  <2>3. CASE ~GrantsOperator(chan, policy, s)
    BY <2>2, <2>3, <1>a DEF Succeeds
  <2>4. CASE GrantsOperator(chan, policy, s)
    BY <2>4 DEF GrantsOperator, SuccessionStep
  <2> QED
    BY <2>3, <2>4
<1>2. ASSUME NEW s \in Session, LeaveChannel(s)
      PROVE  SuccessionStep
  <2>1. s \in Range(chan.members) /\ chan' = RemoveMember(chan, s)
    BY <1>2 DEF LeaveChannel, IsMember, Range, Leave, AfterDeparture, Exists
  <2> QED
    BY <1>0, <1>a, <2>1, RemoveSucceeds
<1>3. ASSUME NEW by \in Account, NEW s \in Session, ChannelKick(by, s)
      PROVE  SuccessionStep
  <2>1. s \in Range(chan.members) /\ chan' = RemoveMember(chan, s)
    BY <1>3 DEF ChannelKick, MayTarget, IsMember, Range, KickByName, AfterDeparture, Exists
  <2> QED
    BY <1>0, <1>a, <2>1, RemoveSucceeds
<1>4. ASSUME NEW by \in Account, NEW s \in Session, ChannelBan(by, s)
      PROVE  SuccessionStep
  <2> DEFINE B == chan.bans \cup {AccountOf[s]}
             ch == [chan EXCEPT !.bans = B]
  <2>1. s \in Range(chan.members) /\ B \in SUBSET Account
    BY <1>0, <1>4, ChannelAssumption DEF ChannelBan, MayTarget, IsMember, Range, ChannelType
  <2>2. chan' = RemoveMember(ch, s)
    BY <1>4 DEF ChannelBan, BanByName, AfterDeparture, Exists
  <2> HIDE DEF B
  <2>3. Sound(ch, policy) /\ s \in Range(ch.members)
    BY <1>0, <2>1, BansSound
  <2>4. Succeeds(ch, chan')
    <3> HIDE DEF ch
    <3> QED BY <1>0, <2>2, <2>3, RemoveSucceeds
  <2>5. Succeeds(chan, chan')
    BY <1>0, <2>4, BansSucceed
  <2> QED
    BY <1>a, <2>5
<1>5. ASSUME NEW by \in Account, NEW s \in Session, ChannelDesignate(by, s)
      PROVE  SuccessionStep
  <2>1. chan'.operator = chan.operator
    BY <1>0, <1>5 DEF ChannelDesignate, DesignateByName, ChannelType
  <2> QED
    BY <1>a, <2>1 DEF Succeeds
<1>6. ASSUME NEW by \in Account, NEW a \in Account, ChannelUnban(by, a)
      PROVE  SuccessionStep
  <2>1. chan'.operator = chan.operator
    BY <1>0, <1>6 DEF ChannelUnban, Unban, ChannelType
  <2> QED
    BY <1>a, <2>1 DEF Succeeds
<1>7. ASSUME NEW by \in Account, NEW a \in Account, Kick(by, a)
      PROVE  SuccessionStep
  <2>1. chan' = LeaveAccount(chan, a)
    BY <1>7 DEF Kick, AfterDeparture, Exists
  <2> QED
    BY <1>0, <1>a, <2>1, LeaveAccountSucceeds
<1>8. ASSUME NEW by \in Account, NEW a \in Account, Ban(by, a)
      PROVE  SuccessionStep
  <2> DEFINE B == chan.bans \cup {a}
             ch == [chan EXCEPT !.bans = B]
  <2>1. B \in SUBSET Account
    BY <1>0 DEF ChannelType
  <2>2. chan' = LeaveAccount(ch, a)
    BY <1>8 DEF Ban, BanAccount, AfterDeparture, Exists
  <2> HIDE DEF B
  <2>3. Sound(ch, policy)
    BY <1>0, <2>1, BansSound
  <2>4. Succeeds(ch, chan')
    <3> HIDE DEF ch
    <3> QED BY <1>0, <2>2, <2>3, LeaveAccountSucceeds
  <2>5. Succeeds(chan, chan')
    BY <1>0, <2>4, BansSucceed
  <2> QED
    BY <1>a, <2>5
<1>9. ASSUME NEW by \in Account, NEW a \in Account, Designate(by, a)
      PROVE  SuccessionStep
  <2>1. chan'.operator = chan.operator
    BY <1>0, <1>9 DEF Designate, DesignateAccount, ChannelType
  <2> QED
    BY <1>a, <2>1 DEF Succeeds
<1> QED
  BY <1>1, <1>2, <1>3, <1>4, <1>5, <1>6, <1>7, <1>8, <1>9 DEF RulesNext

(* Operator never drifts (docs/WARNET.md section 3): nobody deposes an     *)
(* operator who is present, and only a designated heir inherits.           *)
THEOREM OperatorNeverDrifts == RulesSpec => OperatorSuccession
<1>1. RulesInit => RulesInv
  BY DEF RulesInit, RulesInv, Exists
<1>2. RulesSpec => []RulesInv
  BY <1>1, RulesInvInductive, PTL DEF RulesSpec
<1> QED
  BY <1>2, SuccessionInductive, PTL DEF RulesSpec, OperatorSuccession

-----------------------------------------------------------------------------
(* The handlers of ChatFanout.                                             *)

Present == {"idle", "joined", "announcing", "talking", "removing", "closing"}

(* The sessions that are on the roster.                                    *)
Members == IF chan = NoChannel THEN {} ELSE Range(chan.members)

(* The inductive invariant: the channel is sound, its subscribers are its  *)
(* members, and every member's task is one that will leave.                *)
Inv ==
  /\ policy \in Policies
  /\ chan # NoChannel => Sound(chan, policy)
  /\ pc \in [Session -> PC] /\ inside \in [Session -> BOOLEAN]
  /\ SubscribersMatchRoster
  /\ \A s \in Members : inside[s] /\ pc[s] \in Present

(* The invariant says what RosterTrue says.                                *)
LEMMA InvImplies == Inv => RosterTrue
  BY DEF Inv, RosterTrue, NoOrphanMembers, Members, Present, IsMember, Range

(* Members are sessions.                                                   *)
LEMMA MembersType ==
  ASSUME Inv
  PROVE  /\ Members \subseteq Session /\ policy \in Policy
         /\ chan # NoChannel => /\ chan \in ChannelType /\ chan.members \in Seq(Session)
                                /\ IsInjective(chan.members)
<1>1. policy \in Policy
  BY PoliciesAssumption DEF Inv
<1>2. chan # NoChannel => /\ chan \in ChannelType /\ chan.members \in Seq(Session)
                          /\ IsInjective(chan.members)
  BY DEF Inv, Sound, ChannelType
<1>3. Members \subseteq Session
  <2>1. CASE chan = NoChannel
    BY <2>1 DEF Members
  <2>2. CASE chan # NoChannel
    BY <1>2, <2>2, RangeFacts DEF Members
  <2> QED
    BY <2>1, <2>2
<1> QED
  BY <1>1, <1>2, <1>3

LEMMA InitInv == Init => Inv
<1> SUFFICES ASSUME Init PROVE Inv
  OBVIOUS
<1>1. pc \in [Session -> PC] /\ inside \in [Session -> BOOLEAN]
  BY DEF Init, PC
<1> QED
  BY <1>1 DEF Init, Inv, SubscribersMatchRoster, Members

-----------------------------------------------------------------------------
(* Steps that leave the roster alone.                                      *)

(* A task goes on to where members may be, or was not a member's.          *)
LEMMA SameRoster ==
  ASSUME Inv, UNCHANGED <<policy, chan, subs>>,
         pc' \in [Session -> PC], inside' \in [Session -> BOOLEAN],
         \A x \in Members : inside'[x] /\ pc'[x] \in Present
  PROVE  Inv'
<1>1. Members' = Members
  BY DEF Members
<1>2. SubscribersMatchRoster'
  BY DEF Inv, SubscribersMatchRoster
<1>3. (chan # NoChannel => Sound(chan, policy))'
  BY DEF Inv, Sound, ChannelType
<1> QED
  BY <1>1, <1>2, <1>3 DEF Inv

(* ... in particular the step of one task between two of its own places.   *)
LEMMA SameRosterStep ==
  ASSUME Inv, NEW s \in Session, NEW to \in PC, Goto(s, to),
         UNCHANGED <<policy, chan, subs, inside>>,
         to \in Present \/ pc[s] \notin Present
  PROVE  Inv'
<1>1. pc' \in [Session -> PC] /\ pc'[s] = to /\ \A x \in Session \ {s} : pc'[x] = pc[x]
  BY DEF Inv, Goto
<1>2. Members \subseteq Session
  BY MembersType
<1>3. \A x \in Members : inside'[x] /\ pc'[x] \in Present
  BY <1>1, <1>2 DEF Inv
<1>4. inside' \in [Session -> BOOLEAN]
  BY DEF Inv
<1> QED
  BY <1>1, <1>3, <1>4, SameRoster

(* Every step of a task that has started on a packet, but for cleanup.     *)
LEMMA ContinueInv ==
  ASSUME Inv, NEW s \in Session,
         \/ SendSnapshot(s) \/ AnnounceJoin(s) \/ LeaveEnqueue(s) \/ Talk(s)
         \/ AfterRemoval(s) \/ CleanupEnqueue(s) \/ ReleaseName(s) \/ Connect(s)
  PROVE  Inv'
<1>1. UNCHANGED <<policy, chan, subs, inside>>
  BY DEF SendSnapshot, AnnounceJoin, LeaveEnqueue, Talk, AfterRemoval, CleanupEnqueue,
         ReleaseName, Connect, Broadcast, node
<1>2. \E to \in PC : Goto(s, to) /\ (to \in Present \/ pc[s] \notin Present)
  BY DEF SendSnapshot, AnnounceJoin, LeaveEnqueue, Talk, AfterRemoval, CleanupEnqueue,
         ReleaseName, Connect, PC, Present
<1> QED
  BY <1>1, <1>2, SameRosterStep

LEMMA EnsureMemberInv ==
  ASSUME Inv, NEW s \in Session, EnsureMember(s)
  PROVE  Inv'
<1>1. UNCHANGED <<policy, chan, subs>>
  BY DEF EnsureMember, node
<1>2. CASE chan # NoChannel /\ IsMember(chan, s)
  <2>1. Goto(s, "talking") /\ UNCHANGED inside
    BY <1>2 DEF EnsureMember
  <2>2. "talking" \in PC /\ "talking" \in Present
    BY DEF PC, Present
  <2> QED
    BY <1>1, <2>1, <2>2, SameRosterStep
<1>3. CASE ~(chan # NoChannel /\ IsMember(chan, s))
  <2>1. s \notin Members
    BY <1>3 DEF Members, IsMember, Range
  <2>2. inside' = [inside EXCEPT ![s] = FALSE] /\ UNCHANGED pc
    BY <1>3 DEF EnsureMember
  <2>3. Members \subseteq Session
    BY MembersType
  <2>4. /\ inside' \in [Session -> BOOLEAN] /\ pc' \in [Session -> PC]
        /\ \A x \in Session \ {s} : inside'[x] = inside[x]
    BY <2>2 DEF Inv
  <2>5. \A x \in Members : inside'[x] /\ pc'[x] \in Present
    BY <2>1, <2>2, <2>3, <2>4 DEF Inv
  <2> QED
    BY <1>1, <2>4, <2>5, SameRoster
<1> QED
  BY <1>2, <1>3

-----------------------------------------------------------------------------
(* Steps that change the roster.                                           *)

(* A step after which the roster is that of a sound channel.               *)
LEMMA NewRoster ==
  ASSUME Inv, NEW ch, Sound(ch, policy), chan' = ch, subs' = ch.members,
         UNCHANGED policy, pc' \in [Session -> PC], inside' \in [Session -> BOOLEAN],
         \A x \in Range(ch.members) : inside'[x] /\ pc'[x] \in Present
  PROVE  Inv'
<1>1. ch # NoChannel
  BY FanoutAssumption DEF Sound
<1>2. SubscribersMatchRoster'
  BY <1>1 DEF SubscribersMatchRoster
<1>3. Members' = Range(ch.members)
  BY <1>1 DEF Members
<1>4. (chan # NoChannel => Sound(chan, policy))'
  BY DEF Sound, ChannelType
<1> QED
  BY <1>2, <1>3, <1>4 DEF Inv

(* ... or there is no channel any more.                                    *)
LEMMA NoRoster ==
  ASSUME Inv, chan' = NoChannel, subs' = NoChannel, UNCHANGED policy,
         pc' \in [Session -> PC], inside' \in [Session -> BOOLEAN]
  PROVE  Inv'
  BY DEF Inv, SubscribersMatchRoster, Members

LEMMA JoinInv ==
  ASSUME Inv, NEW s \in Session, NEW base \in SUBSET {"operator"}, DoJoin(s, base)
  PROVE  Inv'
<1> DEFINE ch == IF chan = NoChannel THEN New ELSE chan
           new == Join(ch, policy, s, base)
<1>1. policy \in Policy
  BY MembersType
<1>2. Sound(ch, policy) /\ ch \in ChannelType
  BY <1>1, NewSound DEF Inv, Sound
<1>3. MayJoin(ch, policy, s) /\ chan' = new
  BY DEF DoJoin
<1>4. subs' = Append(ch.members, s)
  <2>1. CASE chan = NoChannel
    BY <2>1 DEF DoJoin, Inv, SubscribersMatchRoster, New
  <2>2. CASE chan # NoChannel
    <3>1. subs = chan.members /\ subs # NoChannel
      BY <2>2, MembersType, FanoutAssumption DEF Inv, SubscribersMatchRoster
    <3> QED
      BY <2>2, <3>1 DEF DoJoin
  <2> QED
    BY <2>1, <2>2
<1>5. Range(ch.members) = Members
  BY DEF Members, New, Range
<1> HIDE DEF ch
<1>6. new.members = Append(ch.members, s)
  BY <1>2 DEF Join, ChannelType
<1>7. Sound(new, policy)
  BY <1>1, <1>2, <1>3, JoinSound
<1>8. Range(new.members) = Members \cup {s}
  BY <1>2, <1>5, <1>6, AppendFacts DEF ChannelType
<1> HIDE DEF new
<1>9. /\ pc' \in [Session -> PC] /\ inside' \in [Session -> BOOLEAN]
      /\ pc'[s] = "joined" /\ inside'[s]
      /\ \A x \in Session \ {s} : pc'[x] = pc[x] /\ inside'[x] = inside[x]
  BY DEF DoJoin, Goto, Inv, PC
<1>10. \A x \in Range(new.members) : inside'[x] /\ pc'[x] \in Present
  BY <1>8, <1>9, MembersType DEF Inv, Present
<1>11. UNCHANGED policy
  BY DEF DoJoin
<1> QED
  BY <1>3, <1>4, <1>6, <1>7, <1>9, <1>10, <1>11, NewRoster

(* A departure takes the session off both maps, or both maps away.         *)
LEMMA DepartInv ==
  ASSUME Inv, NEW s \in Session, NEW ch, chan # NoChannel, Depart(ch, s),
         Sound(ch, policy), ch.members = Without(chan.members, s), UNCHANGED policy,
         pc' \in [Session -> PC], inside' \in [Session -> BOOLEAN],
         \A x \in Members \ {s} : inside'[x] /\ pc'[x] \in Present
  PROVE  Inv'
<1>1. subs = chan.members
  BY DEF Inv, SubscribersMatchRoster
<1>2. Range(ch.members) = Members \ {s}
  BY MembersType, WithoutFacts DEF Members
<1>3. CASE IsMember(chan, s) /\ ShouldDestroy(ch, policy)
  <2>1. chan' = NoChannel /\ subs' = NoChannel
    BY <1>3 DEF Depart
  <2> QED
    BY <2>1, NoRoster
<1>4. CASE ~(IsMember(chan, s) /\ ShouldDestroy(ch, policy))
  <2>1. chan' = ch /\ subs' = ch.members
    BY <1>1, <1>4 DEF Depart, Pulled
  <2> QED
    BY <1>2, <2>1, NewRoster
<1> QED
  BY <1>3, <1>4

(* remove_at drops the session and nobody else.                            *)
LEMMA RemovedMembers ==
  ASSUME NEW ch \in ChannelType, NEW s
  PROVE  RemoveMember(ch, s).members = Without(ch.members, s)
  BY DEF RemoveMember, ChannelType

(* leave_channel, by leave_current or by cleanup.                          *)
LEMMA LeaveInv ==
  ASSUME Inv, NEW s \in Session, NEW to \in PC, NodeLeave(s), Goto(s, to),
         inside' = [inside EXCEPT ![s] = FALSE], UNCHANGED policy
  PROVE  Inv'
<1>1. /\ pc' \in [Session -> PC] /\ inside' \in [Session -> BOOLEAN]
      /\ \A x \in Session \ {s} : pc'[x] = pc[x] /\ inside'[x] = inside[x]
  BY DEF Goto, Inv
<1>2. \A x \in Members \ {s} : inside'[x] /\ pc'[x] \in Present
  BY <1>1, MembersType DEF Inv
<1>3. CASE chan = NoChannel
  <2>1. UNCHANGED <<chan, subs>>
    BY <1>3 DEF NodeLeave, node
  <2>2. Members = {}
    BY <1>3 DEF Members
  <2> QED
    BY <1>1, <2>1, <2>2, SameRoster
<1>4. CASE chan # NoChannel
  <2> DEFINE ch == Leave(chan, s)
  <2>1. chan \in ChannelType /\ Sound(chan, policy) /\ policy \in Policy
    BY <1>4, MembersType DEF Inv
  <2>2. Sound(ch, policy) /\ ch.members = Without(chan.members, s)
    <3>1. CASE IsMember(chan, s)
      <4>1. s \in Range(chan.members) /\ ch = RemoveMember(chan, s)
        BY <3>1 DEF IsMember, Range, Leave
      <4>2. Sound(ch, policy)
        BY <2>1, <4>1, RemoveSound
      <4>3. ch.members = Without(chan.members, s)
        BY <2>1, <4>1, RemovedMembers
      <4> QED
        BY <4>2, <4>3
    <3>2. CASE ~IsMember(chan, s)
      BY <2>1, <3>2 DEF Leave, Without, IsMember
    <3> QED
      BY <3>1, <3>2
  <2>3. Depart(ch, s)
    BY <1>4 DEF NodeLeave
  <2> HIDE DEF ch
  <2> QED
    BY <1>1, <1>2, <1>4, <2>2, <2>3, DepartInv
<1> QED
  BY <1>3, <1>4

(* channel_kick and channel_ban: the operator's task goes on, the target's *)
(* does not know yet.                                                      *)
LEMMA RemovalInv ==
  ASSUME Inv, NEW s \in Session, NEW t \in Session, OpKick(s, t) \/ OpBan(s, t)
  PROVE  Inv'
<1>1. chan # NoChannel /\ IsMember(chan, t)
  BY DEF OpKick, OpBan, Commands, MayAct, MayTarget
<1>2. chan \in ChannelType /\ Sound(chan, policy) /\ policy \in Policy
  BY <1>1, MembersType DEF Inv
<1> DEFINE banned == [chan EXCEPT !.bans = @ \cup {AccountOf[t]}]
<1>3. Sound(banned, policy) /\ banned \in ChannelType /\ banned.members = chan.members
  <2>1. chan.bans \cup {AccountOf[t]} \in SUBSET Account
    BY <1>2, ChannelAssumption DEF ChannelType
  <2>2. banned \in ChannelType /\ banned.members = chan.members
    BY <1>2, <2>1 DEF ChannelType
  <2>3. Sound(banned, policy)
    BY <1>2, <2>1, BansSound
  <2> QED
    BY <2>2, <2>3
<1>4. t \in Range(chan.members)
  BY <1>1 DEF IsMember, Range
<1>5. \E ch : Depart(ch, t) /\ Sound(ch, policy) /\ ch.members = Without(chan.members, t)
  <2>1. CASE OpKick(s, t)
    <3>1. Depart(RemoveMember(chan, t), t)
      BY <2>1 DEF OpKick, KickByName
    <3> QED
      BY <1>2, <1>4, <3>1, RemoveSound, RemovedMembers
  <2>2. CASE OpBan(s, t)
    <3>1. Depart(RemoveMember(banned, t), t)
      BY <2>2 DEF OpBan, BanByName
    <3> HIDE DEF banned
    <3> QED
      BY <1>2, <1>3, <1>4, <3>1, RemoveSound, RemovedMembers
  <2> QED
    BY <2>1, <2>2
<1>6. /\ pc' \in [Session -> PC] /\ inside' = inside
      /\ pc'[s] = "removing" /\ \A x \in Session \ {s} : pc'[x] = pc[x]
  BY DEF OpKick, OpBan, Goto, Inv, PC
<1>7. \A x \in Members \ {t} : inside'[x] /\ pc'[x] \in Present
  BY <1>6, MembersType DEF Inv, Present
<1>8. inside' \in [Session -> BOOLEAN] /\ UNCHANGED policy
  BY <1>6 DEF Inv, OpKick, OpBan
<1> QED
  BY <1>1, <1>5, <1>6, <1>7, <1>8, DepartInv

(* Designations and unbans leave the members alone.                        *)
LEMMA RightsInv ==
  ASSUME Inv, NEW s \in Session,
         \/ \E t \in Session : OpDesignate(s, t)
         \/ \E a \in Account : OpUnban(s, a)
  PROVE  Inv'
<1>1. chan # NoChannel
  BY DEF OpDesignate, OpUnban, Commands
<1>2. chan \in ChannelType /\ Sound(chan, policy) /\ policy \in Policy /\ Members = Range(chan.members)
  BY <1>1, MembersType DEF Inv, Members
<1>3. UNCHANGED <<policy, subs, pc, inside>>
  BY DEF OpDesignate, OpUnban
<1>4. Sound(chan', policy) /\ chan'.members = chan.members
  <2>1. ASSUME NEW t \in Session, OpDesignate(s, t)
        PROVE  Sound(chan', policy) /\ chan'.members = chan.members
    <3>1. MayTarget(chan, AccountOf[s], t) /\ chan' = DesignateByName(chan, t)
      BY <2>1 DEF OpDesignate, MayAct
    <3>2. DesignateByName(chan, t).members = chan.members
      BY <1>2 DEF DesignateByName, ChannelType
    <3>3. Sound(DesignateByName(chan, t), policy)
      BY <1>2, <3>1, DesignateByNameSound, ChannelAssumption
    <3> QED
      BY <3>1, <3>2, <3>3
  <2>2. ASSUME NEW a \in Account, OpUnban(s, a)
        PROVE  Sound(chan', policy) /\ chan'.members = chan.members
    <3>1. chan' = [chan EXCEPT !.bans = chan.bans \ {a}]
      BY <2>2 DEF OpUnban, Unban
    <3>2. chan.bans \ {a} \in SUBSET Account
      BY <1>2 DEF ChannelType
    <3>3. Sound([chan EXCEPT !.bans = chan.bans \ {a}], policy)
      BY <1>2, <3>2, BansSound
    <3> QED
      BY <1>2, <3>1, <3>3 DEF ChannelType
  <2> QED
    BY <2>1, <2>2
<1>5. subs' = chan'.members
  BY <1>1, <1>3, <1>4 DEF Inv, SubscribersMatchRoster
<1>6. /\ pc' \in [Session -> PC] /\ inside' \in [Session -> BOOLEAN]
      /\ \A x \in Range(chan'.members) : inside'[x] /\ pc'[x] \in Present
  BY <1>2, <1>3, <1>4 DEF Inv
<1> QED
  BY <1>3, <1>4, <1>5, <1>6, NewRoster

LEMMA CleanupInv ==
  ASSUME Inv, NEW s \in Session, Cleanup(s)
  PROVE  Inv'
<1>1. UNCHANGED policy /\ inside' = [inside EXCEPT ![s] = FALSE]
  BY DEF Cleanup
<1>2. CASE inside[s]
  BY <1>1, <1>2, LeaveInv DEF Cleanup, PC
<1>3. CASE ~inside[s]
  <2>1. Goto(s, "releasing") /\ UNCHANGED <<chan, subs>>
    BY <1>3 DEF Cleanup, node
  <2>2. s \notin Members
    BY <1>3 DEF Inv
  <2>3. /\ pc' \in [Session -> PC] /\ inside' \in [Session -> BOOLEAN]
        /\ \A x \in Session \ {s} : pc'[x] = pc[x] /\ inside'[x] = inside[x]
    BY <1>1, <2>1 DEF Goto, Inv, PC
  <2>4. \A x \in Members : inside'[x] /\ pc'[x] \in Present
    BY <2>2, <2>3, MembersType DEF Inv
  <2> QED
    BY <1>1, <2>1, <2>3, <2>4, SameRoster
<1> QED
  BY <1>2, <1>3

LEMMA InvInductive == Inv /\ [Next]_vars => Inv'
<1> SUFFICES ASSUME Inv, [Next]_vars PROVE Inv'
  OBVIOUS
<1>1. CASE UNCHANGED <<policy, chan, subs, pc, inside>>
  BY <1>1, SameRoster DEF Inv
<1>2. CASE FlushPending
  BY <1>1, <1>2 DEF FlushPending
<1>3. ASSUME NEW s \in Session, Deliver(s) PROVE Inv'
  BY <1>1, <1>3 DEF Deliver, node
<1>4. ASSUME NEW s \in Session, Cleanup(s) PROVE Inv'
  BY <1>4, CleanupInv
<1>5. ASSUME NEW s \in Session, Join_(s) PROVE Inv'
  BY <1>5, JoinInv DEF Join_
<1>6. ASSUME NEW s \in Session, Connect(s) \/ Continue(s) PROVE Inv'
  BY <1>4, <1>6, ContinueInv DEF Continue
<1>7. ASSUME NEW s \in Session, LeaveCurrent(s) PROVE Inv'
  BY <1>7, LeaveInv DEF LeaveCurrent, PC
<1>8. ASSUME NEW s \in Session, EnsureMember(s) PROVE Inv'
  BY <1>8, EnsureMemberInv
<1>9. ASSUME NEW s \in Session, NEW t \in Session, OpKick(s, t) \/ OpBan(s, t) PROVE Inv'
  BY <1>9, RemovalInv
<1>10. ASSUME NEW s \in Session,
              (\E t \in Session : OpDesignate(s, t)) \/ (\E a \in Account : OpUnban(s, a))
       PROVE  Inv'
  BY <1>10, RightsInv
<1>11. UNCHANGED vars => UNCHANGED <<policy, chan, subs, pc, inside>>
  BY DEF vars, node
<1> QED
  BY <1>1, <1>2, <1>3, <1>4, <1>5, <1>6, <1>7, <1>8, <1>9, <1>10, <1>11 DEF Next

(* Whatever joins, departures, kicks, bans and disconnections interleave,  *)
(* exactly the members of a channel receive its traffic, and every member  *)
(* is a live session that will leave (node.rs; session.rs, cleanup).       *)
THEOREM RosterStaysTrue == Spec => []RosterTrue
<1> QED
  BY InitInv, InvInductive, InvImplies, PTL DEF Spec

-----------------------------------------------------------------------------
(* Departures.                                                             *)

(* The inductive invariant: only members are owed a departure, so that a   *)
(* channel which is destroyed, and its queue of departures with it, leaves *)
(* nobody behind who is still owed one.                                    *)
OwedInv ==
  /\ pending \in Seq(Session) /\ target \in [Session -> Session]
  /\ owed \subseteq Members \X Session
  /\ NoDepartureForgotten

(* A step of s that changes neither the roster nor the queue of departures *)
(* and is not the one that queues a departure.                             *)
LEMMA OwedUntouched ==
  ASSUME Inv, OwedInv, UNCHANGED <<chan, pending, target, owed>>,
         NEW s \in Session, \A x \in Session \ {s} : pc'[x] = pc[x],
         pc'[s] = pc[s] \/ pc[s] \notin {"leaving", "cleanup", "removing"}
  PROVE  OwedInv'
<1>1. Members' = Members
  BY DEF Members
<1>2. ASSUME NEW p \in owed PROVE LeaveInFlight(p[2])'
  <2>1. LeaveInFlight(p[2]) /\ p[2] \in Session
    BY <1>2 DEF OwedInv, NoDepartureForgotten
  <2> QED
    BY <2>1 DEF LeaveInFlight
<1> QED
  BY <1>1, <1>2 DEF OwedInv, NoDepartureForgotten

(* The queued departures are flushed, by the timer or before a frame: what *)
(* is owed still is in the hands of a task.                                *)
LEMMA OwedFlushed ==
  ASSUME Inv, OwedInv, UNCHANGED <<chan, target>>, pending' = <<>>, owed' = Settled,
         NEW s \in Session, \A x \in Session \ {s} : pc'[x] = pc[x],
         pc'[s] = pc[s] \/ pc[s] \notin {"leaving", "cleanup", "removing"}
  PROVE  OwedInv'
<1>1. Members' = Members
  BY DEF Members
<1>2. ASSUME NEW p \in Settled PROVE LeaveInFlight(p[2])'
  <2>1. LeaveInFlight(p[2]) /\ p[2] \in Session /\ p[2] \notin Range(pending)
    BY <1>2 DEF OwedInv, NoDepartureForgotten, Settled
  <2> QED
    BY <2>1 DEF LeaveInFlight
<1>3. pending' \in Seq(Session)
  OBVIOUS
<1> QED
  BY <1>1, <1>2, <1>3 DEF OwedInv, NoDepartureForgotten, Settled

(* enqueue_leave: the task hands the departure over to the queue, unless   *)
(* nobody is subscribed, and then nobody is owed anything.                 *)
LEMMA OwedQueued ==
  ASSUME Inv, OwedInv, NEW s \in Session, NEW n \in Session, EnqueueLeave(n),
         UNCHANGED <<chan, subs, owed>>, target' \in [Session -> Session],
         \A x \in Session \ {s} : pc'[x] = pc[x] /\ target'[x] = target[x],
         pc[s] \in {"leaving", "cleanup"} => n = s,
         pc[s] = "removing" => n = target[s]
  PROVE  OwedInv'
<1>1. Members' = Members
  BY DEF Members
<1>2. CASE subs = NoChannel
  <2>1. Members = {}
    BY <1>2, MembersType, FanoutAssumption DEF Members, Inv, SubscribersMatchRoster
  <2>2. pending' = pending /\ owed = {}
    BY <1>2, <2>1 DEF EnqueueLeave, OwedInv
  <2> QED
    BY <1>1, <2>2 DEF OwedInv, NoDepartureForgotten
<1>3. CASE subs # NoChannel
  <2>1. pending' = Append(pending, n)
    BY <1>3 DEF EnqueueLeave
  <2>2. pending' \in Seq(Session) /\ Range(pending') = Range(pending) \cup {n}
    BY <2>1, AppendFacts DEF OwedInv
  <2>3. ASSUME NEW p \in owed PROVE LeaveInFlight(p[2])'
    <3>1. LeaveInFlight(p[2]) /\ p[2] \in Session
      BY <2>3 DEF OwedInv, NoDepartureForgotten
    <3> QED
      BY <2>2, <3>1 DEF LeaveInFlight
  <2> QED
    BY <1>1, <2>2, <2>3 DEF OwedInv, NoDepartureForgotten
<1> QED
  BY <1>2, <1>3

(* Somebody leaves or is removed: the departure is in the hands of the     *)
(* task that took the member off the roster.                               *)
LEMMA OwedDeparture ==
  ASSUME Inv, OwedInv, NEW s \in Session, NEW t \in Session, NEW ch, chan # NoChannel,
         Depart(ch, t), ch \in ChannelType, ch.members = Without(chan.members, t),
         target' \in [Session -> Session],
         \A x \in Session \ {s} : pc'[x] = pc[x] /\ target'[x] = target[x],
         pc[s] \notin {"leaving", "cleanup", "removing"},
         \/ s = t /\ pc'[s] \in {"leaving", "cleanup"}
         \/ pc'[s] = "removing" /\ target'[s] = t
  PROVE  OwedInv'
<1>1. subs = chan.members /\ chan.members \in Seq(Session) /\ IsInjective(chan.members)
  BY MembersType DEF Inv, SubscribersMatchRoster
<1>2. Range(ch.members) = Members \ {t} /\ Pulled(t) = ch.members
  BY <1>1, WithoutFacts DEF Members, Pulled
<1>3. LeaveInFlight(t)'
  BY DEF LeaveInFlight
<1>4. CASE IsMember(chan, t) /\ ShouldDestroy(ch, policy)
  <2>1. ch.members = <<>>
    BY <1>4 DEF ShouldDestroy
  <2>2. Members \ {t} = {}
    BY <1>2, <2>1 DEF Range
  <2>3. owed' = {p \in owed : p[1] # t} /\ pending' = <<>>
    BY <1>4 DEF Depart
  <2>4. \A p \in owed : p[1] \in Members
    BY DEF OwedInv
  <2>5. owed' = {}
    BY <2>2, <2>3, <2>4
  <2>6. pending' \in Seq(Session)
    BY <2>3
  <2> QED
    BY <2>5, <2>6 DEF OwedInv, NoDepartureForgotten
<1>5. CASE ~(IsMember(chan, t) /\ ShouldDestroy(ch, policy))
  <2>1. chan' = ch /\ pending' = pending
    BY <1>5 DEF Depart
  <2>2. Members' = Members \ {t}
    <3>1. ch # NoChannel
      BY FanoutAssumption
    <3> QED
      BY <1>2, <2>1, <3>1 DEF Members
  <2>3. owed' \subseteq {p \in owed : p[1] # t} \cup ((Members \ {t}) \X {t})
    BY <1>2, <1>5 DEF Depart
  <2>4. owed' \subseteq Members' \X Session
    BY <2>2, <2>3 DEF OwedInv
  <2>5. ASSUME NEW p \in owed' PROVE LeaveInFlight(p[2])'
    <3>1. CASE p[2] = t
      BY <1>3, <3>1
    <3>2. CASE p[2] # t
      <4>1. p \in owed /\ LeaveInFlight(p[2]) /\ p[2] \in Session
        BY <2>3, <2>5, <3>2 DEF OwedInv, NoDepartureForgotten
      <4> QED
        BY <2>1, <4>1 DEF LeaveInFlight
    <3> QED
      BY <3>1, <3>2
  <2> QED
    BY <2>1, <2>4, <2>5 DEF OwedInv, NoDepartureForgotten
<1> QED
  BY <1>4, <1>5

(* leave_channel, when there is a channel and when there is none.          *)
LEMMA OwedLeave ==
  ASSUME Inv, OwedInv, NEW s \in Session, NodeLeave(s), UNCHANGED target,
         NEW to \in {"leaving", "cleanup"}, Goto(s, to),
         pc[s] \notin {"leaving", "cleanup", "removing"}
  PROVE  OwedInv'
<1>1. pc'[s] = to /\ \A x \in Session \ {s} : pc'[x] = pc[x]
  BY DEF Goto, Inv
<1>2. CASE chan = NoChannel
  BY <1>1, <1>2, OwedUntouched DEF NodeLeave, node
<1>3. CASE chan # NoChannel
  <2>1. chan \in ChannelType /\ Sound(chan, policy) /\ policy \in Policy
    BY <1>3, MembersType DEF Inv
  <2>2. Leave(chan, s) \in ChannelType /\ Leave(chan, s).members = Without(chan.members, s)
    <3>1. CASE IsMember(chan, s)
      <4>1. s \in Range(chan.members) /\ Leave(chan, s) = RemoveMember(chan, s)
        BY <3>1 DEF IsMember, Range, Leave
      <4> QED
        BY <2>1, <4>1, RemoveSound, RemovedMembers, NewIsChannel
    <3>2. CASE ~IsMember(chan, s)
      BY <2>1, <3>2 DEF Leave, Without, IsMember
    <3> QED
      BY <3>1, <3>2
  <2>3. Depart(Leave(chan, s), s) /\ target' \in [Session -> Session]
    BY <1>3 DEF NodeLeave, OwedInv
  <2> QED
    BY <1>1, <1>3, <2>2, <2>3, OwedDeparture
<1> QED
  BY <1>2, <1>3

(* channel_kick and channel_ban.                                           *)
LEMMA OwedRemoval ==
  ASSUME Inv, OwedInv, NEW s \in Session, NEW t \in Session, OpKick(s, t) \/ OpBan(s, t)
  PROVE  OwedInv'
<1>1. chan # NoChannel /\ IsMember(chan, t) /\ pc[s] = "idle"
  BY DEF OpKick, OpBan, Commands, MayAct, MayTarget
<1>2. chan \in ChannelType /\ Sound(chan, policy) /\ policy \in Policy /\ t \in Range(chan.members)
  BY <1>1, MembersType DEF Inv, IsMember, Range
<1> DEFINE banned == [chan EXCEPT !.bans = @ \cup {AccountOf[t]}]
<1>3. Sound(banned, policy) /\ banned \in ChannelType /\ banned.members = chan.members
  <2>1. chan.bans \cup {AccountOf[t]} \in SUBSET Account
    BY <1>2, ChannelAssumption DEF ChannelType
  <2>2. banned \in ChannelType /\ banned.members = chan.members
    BY <1>2, <2>1 DEF ChannelType
  <2> QED
    BY <1>2, <2>1, <2>2, BansSound
<1>4. \E ch : Depart(ch, t) /\ ch \in ChannelType /\ ch.members = Without(chan.members, t)
  <2>1. CASE OpKick(s, t)
    <3>1. Depart(RemoveMember(chan, t), t)
      BY <2>1 DEF OpKick, KickByName
    <3> QED
      BY <1>2, <3>1, RemoveSound, RemovedMembers, NewIsChannel
  <2>2. CASE OpBan(s, t)
    <3>1. Depart(RemoveMember(banned, t), t)
      BY <2>2 DEF OpBan, BanByName
    <3> HIDE DEF banned
    <3> QED
      BY <1>2, <1>3, <3>1, RemoveSound, RemovedMembers, NewIsChannel
  <2> QED
    BY <2>1, <2>2
<1>5. /\ pc'[s] = "removing" /\ target'[s] = t /\ target' \in [Session -> Session]
      /\ \A x \in Session \ {s} : pc'[x] = pc[x] /\ target'[x] = target[x]
  BY DEF OpKick, OpBan, Goto, Inv, OwedInv
<1> QED
  BY <1>1, <1>4, <1>5, OwedDeparture

(* A join or a change of rights keeps the members that are owed something. *)
LEMMA OwedRoster ==
  ASSUME Inv, OwedInv, UNCHANGED <<pending, target, owed>>, Members \subseteq Members',
         NEW s \in Session, \A x \in Session \ {s} : pc'[x] = pc[x],
         pc'[s] = pc[s] \/ pc[s] \notin {"leaving", "cleanup", "removing"}
  PROVE  OwedInv'
<1>1. ASSUME NEW p \in owed PROVE LeaveInFlight(p[2])'
  <2>1. LeaveInFlight(p[2]) /\ p[2] \in Session
    BY <1>1 DEF OwedInv, NoDepartureForgotten
  <2> QED
    BY <2>1 DEF LeaveInFlight
<1> QED
  BY <1>1 DEF OwedInv, NoDepartureForgotten

LEMMA OwedJoin ==
  ASSUME Inv, OwedInv, NEW s \in Session, NEW base \in SUBSET {"operator"}, DoJoin(s, base)
  PROVE  OwedInv'
<1> DEFINE ch == IF chan = NoChannel THEN New ELSE chan
<1>1. policy \in Policy
  BY MembersType
<1>2. Sound(ch, policy) /\ ch \in ChannelType
  BY <1>1, NewSound DEF Inv, Sound
<1>3. MayJoin(ch, policy, s) /\ chan' = Join(ch, policy, s, base)
  BY DEF DoJoin
<1>4. Range(ch.members) = Members
  BY DEF Members, New, Range
<1> HIDE DEF ch
<1>5. Join(ch, policy, s, base).members = Append(ch.members, s)
  BY <1>2 DEF Join, ChannelType
<1>6. Join(ch, policy, s, base) # NoChannel
  BY <1>1, <1>2, <1>3, JoinSound, NewIsChannel, FanoutAssumption
<1>7. Members' = Members \cup {s}
  BY <1>2, <1>3, <1>4, <1>5, <1>6, AppendFacts DEF ChannelType, Members
<1>8. pc[s] = "idle" /\ \A x \in Session \ {s} : pc'[x] = pc[x]
  BY DEF DoJoin, Goto, Inv
<1> QED
  BY <1>7, <1>8, OwedRoster DEF DoJoin

LEMMA OwedRights ==
  ASSUME Inv, OwedInv, NEW s \in Session,
         \/ \E t \in Session : OpDesignate(s, t)
         \/ \E a \in Account : OpUnban(s, a)
  PROVE  OwedInv'
<1>1. chan # NoChannel /\ UNCHANGED <<pending, target, owed, pc>>
  BY DEF OpDesignate, OpUnban, Commands
<1>2. chan \in ChannelType
  BY <1>1, MembersType
<1>3. chan'.members = chan.members /\ chan' \in ChannelType
  <2>1. ASSUME NEW t \in Session, OpDesignate(s, t)
        PROVE  chan'.members = chan.members /\ chan' \in ChannelType
    <3>1. MayTarget(chan, AccountOf[s], t) /\ chan' = DesignateByName(chan, t)
      BY <2>1 DEF OpDesignate, MayAct
    <3>2. DesignateByName(chan, t).members = chan.members
      BY <1>2 DEF DesignateByName, ChannelType
    <3>3. Sound(DesignateByName(chan, t), policy)
      BY <1>1, <1>2, <3>1, MembersType, DesignateByNameSound, ChannelAssumption DEF Inv
    <3> QED
      BY <3>1, <3>2, <3>3, NewIsChannel
  <2>2. ASSUME NEW a \in Account, OpUnban(s, a)
        PROVE  chan'.members = chan.members /\ chan' \in ChannelType
    <3>1. chan' = [chan EXCEPT !.bans = chan.bans \ {a}]
      BY <2>2 DEF OpUnban, Unban
    <3>2. chan.bans \ {a} \in SUBSET Account
      BY <1>2 DEF ChannelType
    <3> QED
      BY <1>2, <3>1, <3>2 DEF ChannelType
  <2> QED
    BY <2>1, <2>2
<1>4. Members' = Members
  BY <1>1, <1>3, FanoutAssumption DEF Members
<1> QED
  BY <1>1, <1>4, OwedRoster

(* The steps of a task that queues a departure.                            *)
LEMMA OwedEnqueue ==
  ASSUME Inv, OwedInv, NEW s \in Session, LeaveEnqueue(s) \/ CleanupEnqueue(s) \/ AfterRemoval(s)
  PROVE  OwedInv'
<1>1. \A x \in Session \ {s} : pc'[x] = pc[x]
  BY DEF LeaveEnqueue, CleanupEnqueue, AfterRemoval, Goto, Inv
<1>2. CASE LeaveEnqueue(s) \/ CleanupEnqueue(s)
  BY <1>1, <1>2, OwedQueued DEF LeaveEnqueue, CleanupEnqueue, OwedInv
<1>3. CASE AfterRemoval(s)
  <2>1. target[s] \in Session /\ target' \in [Session -> Session]
        /\ \A x \in Session \ {s} : target'[x] = target[x]
    BY <1>3 DEF AfterRemoval, OwedInv
  <2> QED
    BY <1>1, <1>3, <2>1, OwedQueued DEF AfterRemoval
<1> QED
  BY <1>2, <1>3

LEMMA OwedInductive == Inv /\ OwedInv /\ [Next]_vars => OwedInv'
<1> SUFFICES ASSUME Inv, OwedInv, [Next]_vars PROVE OwedInv'
  OBVIOUS
<1>1. CASE UNCHANGED <<chan, pending, pc, target, owed>>
  <2>1. Members' = Members
    BY <1>1 DEF Members
  <2>2. \A n : LeaveInFlight(n)' <=> LeaveInFlight(n)
    BY <1>1 DEF LeaveInFlight
  <2> QED
    BY <1>1, <2>1, <2>2 DEF OwedInv, NoDepartureForgotten
<1>2. CASE FlushPending
  <2>1. CASE Session = {}
    <3>1. Members = {} /\ Members' = {} /\ owed = {} /\ owed' = {}
      BY <1>2, <2>1, MembersType DEF FlushPending, Members, OwedInv, Settled
    <3>2. pending' \in Seq(Session) /\ target' = target
      BY <1>2 DEF FlushPending
    <3> QED
      BY <3>1, <3>2 DEF OwedInv, NoDepartureForgotten
  <2>2. CASE Session # {}
    BY <1>2, <2>2, OwedFlushed DEF FlushPending
  <2> QED
    BY <2>1, <2>2
<1>3. ASSUME NEW s \in Session, Deliver(s) PROVE OwedInv'
  BY <1>1, <1>3 DEF Deliver, node
<1>4. ASSUME NEW s \in Session, Cleanup(s) PROVE OwedInv'
  <2>1. pc[s] \in {"idle", "closing"}
    BY <1>4 DEF Cleanup
  <2>2. CASE inside[s]
    BY <1>4, <2>1, <2>2, OwedLeave DEF Cleanup
  <2>3. CASE ~inside[s]
    <3>1. \A x \in Session \ {s} : pc'[x] = pc[x]
      BY <1>4, <2>3 DEF Cleanup, Goto, Inv
    <3> QED
      BY <1>4, <2>1, <2>3, <3>1, OwedUntouched DEF Cleanup, node
  <2> QED
    BY <2>2, <2>3
<1>5. ASSUME NEW s \in Session, Join_(s) PROVE OwedInv'
  BY <1>5, OwedJoin DEF Join_
<1>6. ASSUME NEW s \in Session, Connect(s) \/ SendSnapshot(s) \/ ReleaseName(s) \/ EnsureMember(s)
      PROVE  OwedInv'
  <2>1. \A x \in Session \ {s} : pc'[x] = pc[x]
    BY <1>6 DEF Connect, SendSnapshot, ReleaseName, EnsureMember, Goto, Inv
  <2>2. pc[s] \notin {"leaving", "cleanup", "removing"} /\ UNCHANGED <<chan, pending, target, owed>>
    BY <1>6 DEF Connect, SendSnapshot, ReleaseName, EnsureMember, node
  <2> QED
    BY <2>1, <2>2, OwedUntouched
<1>7. ASSUME NEW s \in Session, AnnounceJoin(s) \/ Talk(s) PROVE OwedInv'
  <2>1. \A x \in Session \ {s} : pc'[x] = pc[x]
    BY <1>7 DEF AnnounceJoin, Talk, Goto, Inv
  <2> QED
    BY <1>7, <2>1, OwedFlushed DEF AnnounceJoin, Talk, Broadcast
<1>8. ASSUME NEW s \in Session, LeaveEnqueue(s) \/ CleanupEnqueue(s) \/ AfterRemoval(s)
      PROVE  OwedInv'
  BY <1>8, OwedEnqueue
<1>9. ASSUME NEW s \in Session, LeaveCurrent(s) PROVE OwedInv'
  BY <1>9, OwedLeave DEF LeaveCurrent
<1>10. ASSUME NEW s \in Session, NEW t \in Session, OpKick(s, t) \/ OpBan(s, t) PROVE OwedInv'
  BY <1>10, OwedRemoval
<1>11. ASSUME NEW s \in Session,
              (\E t \in Session : OpDesignate(s, t)) \/ (\E a \in Account : OpUnban(s, a))
       PROVE  OwedInv'
  BY <1>11, OwedRights
<1>12. UNCHANGED vars => UNCHANGED <<chan, pending, pc, target, owed>>
  BY DEF vars, node
<1> QED
  BY <1>1, <1>2, <1>3, <1>4, <1>5, <1>6, <1>7, <1>8, <1>9, <1>10, <1>11, <1>12
     DEF Next, Continue

(* Deferring the EID_LEAVEs, and queueing them in a critical section of    *)
(* their own, forgets none: whoever was subscribed when somebody left has  *)
(* been sent the departure, or a queue or a task still has it (node.rs,    *)
(* enqueue_leave and flush_pending; session.rs, after_removal).            *)
THEOREM DeparturesKept == Spec => []NoDepartureForgotten
<1>1. Init => OwedInv
  <2> SUFFICES ASSUME Init PROVE OwedInv
    OBVIOUS
  <2>1. pending \in Seq(Session) /\ target \in [Session -> Session] /\ owed = {}
    BY DEF Init
  <2> QED
    BY <2>1 DEF OwedInv, NoDepartureForgotten
<1>2. OwedInv => NoDepartureForgotten
  BY DEF OwedInv
<1> QED
  BY <1>1, <1>2, InitInv, InvInductive, OwedInductive, PTL DEF Spec

-----------------------------------------------------------------------------
(* Refinement.                                                             *)

(* What a departure does to the roster is what ChannelRules has it do.     *)
LEMMA DepartImplements ==
  ASSUME NEW ch, NEW s, chan # NoChannel, IsMember(chan, s), Depart(ch, s)
  PROVE  chan' = AfterDeparture(ch)
  BY DEF Depart, AfterDeparture

LEMMA LeaveImplements ==
  ASSUME NEW s \in Session, NodeLeave(s), UNCHANGED policy
  PROVE  LeaveChannel(s) \/ UNCHANGED channelVars
<1>1. CASE chan # NoChannel /\ IsMember(chan, s)
  BY <1>1, DepartImplements DEF NodeLeave, LeaveChannel, Exists
<1>2. CASE ~(chan # NoChannel /\ IsMember(chan, s))
  BY <1>2 DEF NodeLeave, Depart, Leave, node, channelVars
<1> QED
  BY <1>1, <1>2

(* Every step is a step of the rules, or invisible to them.                *)
LEMMA StepImplements == [Next]_vars => [RulesNext]_channelVars
<1> SUFFICES ASSUME [Next]_vars PROVE RulesNext \/ UNCHANGED channelVars
  OBVIOUS
<1>1. CASE UNCHANGED <<policy, chan>>
  BY <1>1 DEF channelVars
<1>2. ASSUME NEW s \in Session, LeaveCurrent(s) \/ Cleanup(s)
      PROVE  RulesNext \/ UNCHANGED channelVars
  <2>1. CASE NodeLeave(s) /\ UNCHANGED policy
    BY <2>1, LeaveImplements DEF RulesNext
  <2> QED
    BY <1>1, <1>2, <2>1 DEF LeaveCurrent, Cleanup, node
<1>3. ASSUME NEW s \in Session, NEW base \in SUBSET {"operator"}, DoJoin(s, base)
      PROVE  RulesNext
  <2>1. JoinChannel(s, base)
    BY <1>3 DEF DoJoin, JoinChannel, Exists
  <2> QED
    BY <2>1 DEF RulesNext
<1>4. ASSUME NEW s \in Session, NEW t \in Session, OpKick(s, t) \/ OpBan(s, t) \/ OpDesignate(s, t)
      PROVE  RulesNext
  <2>1. AccountOf[s] \in Account
    BY ChannelAssumption
  <2>2. chan # NoChannel /\ MayTarget(chan, AccountOf[s], t) /\ IsMember(chan, t)
    BY <1>4 DEF OpKick, OpBan, OpDesignate, Commands, MayAct, MayTarget
  <2>3. CASE OpKick(s, t)
    <3>1. ChannelKick(AccountOf[s], t)
      BY <2>2, <2>3, DepartImplements DEF OpKick, ChannelKick, Exists
    <3> QED
      BY <2>1, <3>1 DEF RulesNext
  <2>4. CASE OpBan(s, t)
    <3>1. ChannelBan(AccountOf[s], t)
      BY <2>2, <2>4, DepartImplements DEF OpBan, ChannelBan, Exists
    <3> QED
      BY <2>1, <3>1 DEF RulesNext
  <2>5. CASE OpDesignate(s, t)
    <3>1. ChannelDesignate(AccountOf[s], t)
      BY <2>2, <2>5 DEF OpDesignate, ChannelDesignate, Exists
    <3> QED
      BY <2>1, <3>1 DEF RulesNext
  <2> QED
    BY <1>4, <2>3, <2>4, <2>5
<1>5. ASSUME NEW s \in Session, NEW a \in Account, OpUnban(s, a)
      PROVE  RulesNext
  <2>1. AccountOf[s] \in Account
    BY ChannelAssumption
  <2>2. ChannelUnban(AccountOf[s], a)
    BY <1>5 DEF OpUnban, Commands, ChannelUnban, Exists
  <2> QED
    BY <2>1, <2>2 DEF RulesNext
<1>6. FlushPending \/ UNCHANGED vars => UNCHANGED <<policy, chan>>
  BY DEF FlushPending, vars, node
<1>7. ASSUME NEW s \in Session, Connect(s) \/ Deliver(s) \/ EnsureMember(s)
      PROVE  UNCHANGED <<policy, chan>>
  BY <1>7 DEF Connect, Deliver, EnsureMember, node
<1>8. ASSUME NEW s \in Session, Continue(s), ~Cleanup(s)
      PROVE  UNCHANGED <<policy, chan>>
  BY <1>8 DEF Continue, SendSnapshot, AnnounceJoin, LeaveEnqueue, Talk, AfterRemoval,
              CleanupEnqueue, ReleaseName, Broadcast, node
<1> QED
  BY <1>1, <1>2, <1>3, <1>4, <1>5, <1>6, <1>7, <1>8 DEF Next, Join_

(* The sessions' handlers over the node, split at their lock boundaries,   *)
(* implement the channel rules: splitting a join, a departure or a removal *)
(* into critical sections does not change what the roster may do.          *)
THEOREM FanoutImplementsRules == Spec => ImplementsChannelRules
<1>1. Init => RulesInit
  BY DEF Init, RulesInit
<1> QED
  BY <1>1, StepImplements, PTL DEF Spec, ImplementsChannelRules, RulesSpec

(* ... and so the operator rules hold of the roster the handlers change,   *)
(* between any two of their critical sections.                             *)
THEOREM FanoutKeepsRules == Spec => []RosterSound
  BY FanoutImplementsRules, OperatorRules, PTL DEF ImplementsChannelRules
=============================================================================
