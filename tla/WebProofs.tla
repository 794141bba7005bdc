------------------------------- MODULE WebProofs -------------------------------
(***************************************************************************)
(* The web side of the daemon, for every value of the constants.  The push *)
(* task of ladder_push.rs leaves no ladder change behind and the log of    *)
(* games counts what it should; the public feed withholds what it must;    *)
(* policies are only narrowed, and the settings page saved untouched       *)
(* changes nothing; the panel runs its first start once, leaves no file a  *)
(* start refuses but by saves cut short or at once, and bounds the guesses *)
(* at a password.                                                          *)
(***************************************************************************)
EXTENDS Feeds, Panel, FiniteSetTheorems, WellFoundedInduction, TLAPS
INSTANCE PublicFeed

-----------------------------------------------------------------------------
(* The push task.                                                          *)

Shown == Nat \cup {Partial}

(* What the push task may hold: nothing while the process is down, and     *)
(* what it has read of some ladders otherwise.                             *)
PusherType ==
  pusher \in [at : {"off"}] \cup [at : {"wait", "debounce", "read", "post"},
                                  got : UNION {[S -> Shown] : S \in SUBSET Ladders},
                                  ok : BOOLEAN]

PushTypeOK ==
  /\ standings \in [Ladders -> Nat]
  /\ site \in [Ladders -> Shown]
  /\ owed \subseteq Ladders
  /\ permit \in BOOLEAN /\ unannounced \in BOOLEAN
  /\ PusherType

(* A change will still be, or never is, pushed: a notification is stored,  *)
(* or owed, or there was none for it.                                      *)
News == permit \/ owed # {} \/ unannounced

(* The standings shown for the ladders of S are those of the database, but *)
(* for players a failed read left out.                                     *)
UpToDate(shown, S) == \A l \in S : shown[l] \in {standings[l], Partial}

(* The inductive invariant: a snapshot and, after a good post, the website *)
(* are up to date unless there is news.                                    *)
PushInv ==
  /\ PushTypeOK
  /\ pusher.at \in {"read", "post"} => News \/ UpToDate(pusher.got, DOMAIN pusher.got)
  /\ pusher.at = "post" => DOMAIN pusher.got = Ladders
  /\ pusher.at = "wait" /\ pusher.ok => News \/ UpToDate(site, Ladders)

-----------------------------------------------------------------------------
(* Nothing has been read at the start, and nothing is claimed of the site. *)
LEMMA PushInit == Init => PushInv
<1> SUFFICES ASSUME Init PROVE PushInv
  OBVIOUS
<1>1. PushTypeOK
  BY DEF Init, PushTypeOK, PusherType, Shown
<1> QED
  BY <1>1 DEF Init, PushInv

(* What a step leaves alone: standings, notifications, the push task, the  *)
(* website.                                                                *)
LEMMA PushUnchanged == PushInv /\ UNCHANGED push => PushInv'
  BY DEF PushInv, push, PushTypeOK, PusherType, Shown, News, UpToDate

(* Two steps take the push task to a snapshot: whatever the website shows, *)
(* nothing has been read.                                                  *)
LEMMA SnapshotInv ==
  ASSUME PushInv, pusher.at \in {"wait", "debounce"}, BeginSnapshot,
         UNCHANGED <<standings, owed, permit, site>>
  PROVE  PushInv'
<1>1. NothingRead \in UNION {[S -> Shown] : S \in SUBSET Ladders}
  <2>1. NothingRead \in [{} -> Shown]
    BY DEF NothingRead
  <2> QED
    BY <2>1
<1>2. DOMAIN NothingRead = {}
  BY DEF NothingRead
<1>3. pusher \in [at : {"wait", "debounce", "read", "post"},
                  got : UNION {[S -> Shown] : S \in SUBSET Ladders}, ok : BOOLEAN]
  BY DEF PushInv, PushTypeOK, PusherType
<1>4. pusher' = [at |-> "read", got |-> NothingRead, ok |-> pusher.ok]
  BY <1>3 DEF BeginSnapshot
<1>5. PushTypeOK'
  BY <1>1, <1>3, <1>4 DEF PushInv, PushTypeOK, PusherType, BeginSnapshot, Shown
<1> QED
  BY <1>2, <1>4, <1>5 DEF PushInv, UpToDate

(* A change of a ladder is news, by its notification or for want of one.   *)
LEMMA ChangeInv ==
  ASSUME PushInv, NEW l \in Ladders, RecordResult(l) \/ ChangeQuietly(l)
  PROVE  PushInv'
<1>1. standings' \in [Ladders -> Nat]
  BY DEF PushInv, PushTypeOK, RecordResult, ChangeQuietly, Changed
<1>2. News'
  BY DEF RecordResult, ChangeQuietly, News
<1>3. PushTypeOK'
  BY <1>1 DEF PushInv, PushTypeOK, PusherType, Shown, RecordResult, ChangeQuietly
<1> QED
  BY <1>2, <1>3 DEF PushInv, RecordResult, ChangeQuietly

(* A notification is news until the task takes it up.                      *)
LEMMA LadderChangedInv ==
  ASSUME PushInv, NEW l \in Ladders, LadderChanged(l)
  PROVE  PushInv'
<1>1. News'
  BY DEF LadderChanged, Notify, News
<1>2. PushTypeOK'
  BY DEF PushInv, PushTypeOK, PusherType, Shown, LadderChanged, Notify
<1> QED
  BY <1>1, <1>2 DEF PushInv, LadderChanged

(* A ladder read is up to date when it is read.                            *)
LEMMA ReadLadderInv ==
  ASSUME PushInv, NEW l \in Ladders, NEW read \in {standings[l], Partial}, ReadLadder(l, read)
  PROVE  PushInv'
<1> DEFINE got == [k \in DOMAIN pusher.got \cup {l} |-> IF k = l THEN read ELSE pusher.got[k]]
           at == IF Ladders \ DOMAIN pusher.got = {l} THEN "post" ELSE "read"
<1>1. PICK S \in SUBSET Ladders :
        pusher \in [at : {"wait", "debounce", "read", "post"}, got : [S -> Shown], ok : BOOLEAN]
  BY DEF PushInv, PushTypeOK, PusherType, ReadLadder
<1>2. read \in Shown
  BY DEF PushInv, PushTypeOK, Shown
<1>3. got \in [S \cup {l} -> Shown]
  BY <1>1, <1>2
<1>4. pusher' = [at |-> at, got |-> got, ok |-> pusher.ok]
  BY <1>1 DEF ReadLadder
<1>5. at = "post" => S \cup {l} = Ladders
  BY <1>1
<1>6. PushTypeOK'
  <2>1. S \cup {l} \in SUBSET Ladders
    BY <1>1
  <2>2. got \in UNION {[T -> Shown] : T \in SUBSET Ladders}
    BY <1>3, <2>1
  <2>3. pusher.ok \in BOOLEAN
    BY <1>1
  <2>4. PusherType'
    BY <1>4, <2>2, <2>3 DEF PusherType, Shown
  <2> QED
    BY <2>4 DEF PushInv, PushTypeOK, ReadLadder, Shown
<1>7. News \/ UpToDate(got, DOMAIN got)
  <2>1. News \/ UpToDate(pusher.got, S)
    BY <1>1 DEF PushInv, ReadLadder
  <2>2. DOMAIN got = S \cup {l}
    BY <1>3
  <2> QED
    BY <1>1, <2>1, <2>2 DEF UpToDate
<1>8. UNCHANGED <<standings, owed, permit, unannounced>>
  BY DEF ReadLadder
<1>9. pusher'.at # "wait" /\ pusher'.got = got /\ pusher'.at = at
  BY <1>4
<1>10. News' \/ UpToDate(pusher.got, DOMAIN pusher.got)'
  BY <1>7, <1>8, <1>9 DEF News, UpToDate
<1>11. pusher'.at = "post" => DOMAIN pusher'.got = Ladders
  BY <1>3, <1>5, <1>9
<1> QED
  BY <1>6, <1>9, <1>10, <1>11 DEF PushInv

(* A post puts a whole snapshot on the website, or says that it failed.    *)
LEMMA PostInv ==
  ASSUME PushInv, NEW arrives \in BOOLEAN, NEW ok \in BOOLEAN, Post(arrives, ok)
  PROVE  PushInv'
<1>1. pusher.got \in [Ladders -> Shown]
  BY DEF PushInv, PushTypeOK, PusherType, Post
<1>2. pusher' = [at |-> "wait", got |-> NothingRead, ok |-> ok]
  BY DEF Post
<1>3. NothingRead \in UNION {[S -> Shown] : S \in SUBSET Ladders}
  <2>1. NothingRead \in [{} -> Shown]
    BY DEF NothingRead
  <2> QED
    BY <2>1
<1>4. PusherType'
  BY <1>2, <1>3 DEF PusherType, Shown
<1>5. PushTypeOK'
  BY <1>1, <1>4 DEF PushInv, PushTypeOK, Post, Shown
<1>6. ok => site' = pusher.got
  BY DEF Post
<1>7. News \/ UpToDate(pusher.got, Ladders)
  BY <1>1 DEF PushInv, Post
<1>8. ok => News' \/ UpToDate(site, Ladders)'
  BY <1>6, <1>7 DEF Post, News, UpToDate
<1> QED
  BY <1>2, <1>5, <1>8 DEF PushInv

(* The invariant is inductive.                                             *)
LEMMA PushInductive == PushInv /\ [Next]_vars => PushInv'
<1> SUFFICES ASSUME PushInv, [Next]_vars PROVE PushInv'
  OBVIOUS
<1>1. CASE UNCHANGED vars
  BY <1>1, PushUnchanged DEF vars, push
<1>2. CASE Start
  <2>1. NothingRead \in UNION {[S -> Shown] : S \in SUBSET Ladders}
    <3>1. NothingRead \in [{} -> Shown]
      BY DEF NothingRead
    <3> QED
      BY <3>1
  <2>2. PushTypeOK'
    BY <1>2, <2>1 DEF PushInv, PushTypeOK, PusherType, Start, Shown
  <2> QED
    BY <1>2, <2>2 DEF PushInv, Start, UpToDate, NothingRead
<1>3. CASE Stop
  <2>1. PushTypeOK'
    BY <1>3 DEF PushInv, PushTypeOK, PusherType, Stop, Shown
  <2> QED
    BY <1>3, <2>1 DEF PushInv, Stop
<1>4. CASE Tick
  BY <1>4, PushUnchanged DEF Tick
<1>5. CASE RecordHostedGame
  BY <1>5, PushUnchanged DEF RecordHostedGame
<1>6. CASE \E r \in DOMAIN Window : CountGames(r)
  BY <1>6, PushUnchanged DEF CountGames
<1>7. CASE \E l \in Ladders : RecordResult(l) \/ LadderChanged(l) \/ ChangeQuietly(l)
  BY <1>7, ChangeInv, LadderChangedInv
<1>8. CASE PushTick
  BY <1>8, SnapshotInv DEF PushTick
<1>9. CASE Notified
  <2>1. PushTypeOK'
    BY <1>9 DEF PushInv, PushTypeOK, PusherType, Notified, Shown
  <2>2. pusher'.at = "debounce"
    BY <1>9 DEF PushInv, PushTypeOK, PusherType, Notified
  <2> QED
    BY <2>1, <2>2 DEF PushInv
<1>10. CASE Debounced
  BY <1>10, SnapshotInv DEF Debounced
<1>11. CASE \E l \in Ladders : \E read \in {standings[l], Partial} : ReadLadder(l, read)
  BY <1>11, ReadLadderInv
<1>12. CASE \E arrives, ok \in BOOLEAN : Post(arrives, ok)
  BY <1>12, PostInv
<1> QED
  BY <1>1, <1>2, <1>3, <1>4, <1>5, <1>6, <1>7, <1>8, <1>9, <1>10, <1>11, <1>12 DEF Next

-----------------------------------------------------------------------------
(* Once the push task waits with nothing to do after a good post, the      *)
(* website shows every ladder as it is (ladder_push.rs:8-9), whatever      *)
(* results, restarts and failures came in between.                         *)
THEOREM SiteStaysCurrent == Spec => []SiteCurrent
<1>1. PushInv => SiteCurrent
  BY DEF PushInv, SiteCurrent, News, UpToDate
<1> QED
  BY <1>1, PushInit, PushInductive, PTL DEF Spec

-----------------------------------------------------------------------------
(* The log of hosted games.                                                *)

InOrder ==
  /\ now \in Nat /\ hosted \in Seq(Nat)
  /\ \A g \in DOMAIN hosted : hosted[g] <= now
  /\ \A g, h \in DOMAIN hosted : g <= h => hosted[g] <= hosted[h]

(* Why the games before m may be missing: there are none, or they are too  *)
(* old for some reader, or the log is full with newer ones.                *)
Excused(m) ==
  \/ m = 1
  \/ \E r \in DOMAIN Window : hosted[m - 1] < now - Window[r]
  \/ Len(hosted) - m + 1 >= LogCap

(* The games since m are no more than the log may hold.                    *)
Fits(m) == Len(hosted) - m + 1 <= LogCap

(* The inductive invariant: the log has the games since some game.         *)
LogInv ==
  /\ InOrder
  /\ \E m \in 1..Len(hosted) + 1 : gameLog = m..Len(hosted) /\ Fits(m) /\ Excused(m)

(* A set of numbers has a least one.                                       *)
LEMMA LeastOf ==
  ASSUME NEW I \in SUBSET Nat, I # {}
  PROVE  \E x \in I : \A y \in I : x <= y
<1>1. PICK x \in I : \A y \in I : ~ (<<y, x>> \in OpToRel(<, Nat))
  BY NatLessThanWellFounded, WFMin
<1>2. ASSUME NEW y \in I PROVE x <= y
  <2>1. ~(<<y, x>> \in OpToRel(<, Nat))
    BY <1>1
  <2>2. ~(y < x)
    BY <2>1 DEF OpToRel
  <2> QED
    BY <2>2
<1> QED
  BY <1>2

LEMMA MinOf ==
  ASSUME NEW I \in SUBSET Nat, I # {}
  PROVE  Min(I) \in I /\ \A y \in I : Min(I) <= y
  BY LeastOf DEF Min

(* The newest of a run of games are its end.                               *)
LEMMA NewestOf ==
  ASSUME NEW m \in Nat, NEW l \in Nat, NEW n \in Nat
  PROVE  \A g : g \in Newest(m..l, n) <=> g \in m..l /\ l - g + 1 <= n
<1>1. ASSUME NEW g \in m..l PROVE Cardinality({h \in m..l : h >= g}) = l - g + 1
  <2>1. {h \in m..l : h >= g} = g..l
    OBVIOUS
  <2>2. Cardinality(g..l) = l - g + 1
    BY FS_Interval
  <2> QED
    BY <2>1, <2>2
<1> QED
  BY <1>1 DEF Newest

LEMMA LogInit == Init => LogInv
<1> SUFFICES ASSUME Init PROVE LogInv
  OBVIOUS
<1>1. InOrder
  BY DEF Init, InOrder
<1>2. gameLog = 1..Len(hosted) /\ Fits(1) /\ Excused(1) /\ 1 \in 1..Len(hosted) + 1
  BY FeedsAssumption DEF Init, Fits, Excused
<1> QED
  BY <1>1, <1>2 DEF LogInv

LEMMA RecordStep == LogInv /\ RecordHostedGame => LogInv'
<1> SUFFICES ASSUME LogInv, RecordHostedGame PROVE LogInv'
  OBVIOUS
<1> DEFINE L == Len(hosted)
<1>1. PICK m \in 1..L + 1 : gameLog = m..L /\ Fits(m) /\ Excused(m)
  BY DEF LogInv
<1>2. /\ now \in Nat /\ now' = now /\ hosted \in Seq(Nat) /\ L \in Nat /\ LogCap \in Nat
      /\ hosted' = Append(hosted, now) /\ gameLog' = Newest(gameLog \cup {L + 1}, LogCap)
  BY FeedsAssumption DEF LogInv, InOrder, RecordHostedGame, Event
<1>3. /\ hosted' \in Seq(Nat) /\ Len(hosted') = L + 1
      /\ DOMAIN hosted = 1..L /\ DOMAIN hosted' = 1..L + 1
      /\ \A g \in 1..L : hosted'[g] = hosted[g]
      /\ hosted'[L + 1] = now
  BY <1>2
<1>4. InOrder'
  <2>1. \A g \in 1..L : hosted'[g] \in Nat /\ hosted'[g] <= now
    BY <1>2, <1>3 DEF LogInv, InOrder
  <2>2. \A g \in 1..L + 1 : hosted'[g] <= now
    BY <1>2, <1>3, <2>1
  <2>3. ASSUME NEW g \in 1..L + 1, NEW h \in 1..L + 1, g <= h PROVE hosted'[g] <= hosted'[h]
    <3>1. CASE h = L + 1
      BY <1>3, <2>2, <3>1
    <3>2. CASE h # L + 1
      <4>1. g \in 1..L /\ h \in 1..L
        BY <1>2, <2>3, <3>2
      <4> QED
        BY <1>3, <2>3, <4>1 DEF LogInv, InOrder
    <3> QED
      BY <3>1, <3>2
  <2> QED
    BY <1>2, <1>3, <2>2, <2>3 DEF InOrder
<1>5. \A g : g \in gameLog' <=> g \in m..(L + 1) /\ (L + 1) - g + 1 <= LogCap
  <2>1. gameLog \cup {L + 1} = m..(L + 1)
    BY <1>1, <1>2
  <2>2. m \in Nat /\ L + 1 \in Nat
    BY <1>1, <1>2
  <2>3. gameLog' = Newest(m..(L + 1), LogCap)
    BY <1>2, <2>1
  <2>4. \A g : g \in Newest(m..(L + 1), LogCap) <=> g \in m..(L + 1) /\ (L + 1) - g + 1 <= LogCap
    BY <1>2, <2>2, NewestOf
  <2> QED
    BY <2>3, <2>4
<1>6. CASE (L + 1) - m + 1 <= LogCap
  <2>1. gameLog' = m..(L + 1)
    <3>1. ASSUME NEW g \in m..(L + 1) PROVE (L + 1) - g + 1 <= LogCap
      <4>1. g \in Int /\ m \in Int /\ m <= g
        BY <1>1, <1>2
      <4> QED
        BY <1>2, <1>6, <4>1
    <3> QED
      BY <1>5, <3>1
  <2>2. m - 1 \in 1..L \/ m = 1
    BY <1>1, <1>2
  <2>3. Fits(m)' /\ Excused(m)'
    BY <1>1, <1>2, <1>3, <1>6, <2>2 DEF Fits, Excused
  <2>4. m \in 1..(L + 1) + 1
    BY <1>1, <1>2
  <2> QED
    BY <1>3, <1>4, <2>1, <2>3, <2>4 DEF LogInv
<1>7. CASE ~((L + 1) - m + 1 <= LogCap)
  <2>1. PICK k \in Int : k = L + 2 - LogCap
    BY <1>2
  <2>2. k \in 1..(L + 1) + 1 /\ m < k
    BY <1>1, <1>2, <1>7, <2>1
  <2>3. gameLog' = k..(L + 1)
    <3>1. ASSUME NEW g \in gameLog' PROVE g \in k..(L + 1)
      <4>1. g \in m..(L + 1) /\ (L + 1) - g + 1 <= LogCap
        BY <1>5
      <4> QED
        BY <1>1, <1>2, <2>1, <4>1
    <3>2. ASSUME NEW g \in k..(L + 1) PROVE g \in gameLog'
      <4>1. g \in m..(L + 1) /\ (L + 1) - g + 1 <= LogCap
        BY <1>1, <1>2, <2>1, <2>2
      <4> QED
        BY <1>5, <4>1
    <3> QED
      BY <3>1, <3>2
  <2>4. Len(hosted') - k + 1 = LogCap
    BY <1>2, <1>3, <2>1
  <2> QED
    BY <1>2, <1>3, <1>4, <2>2, <2>3, <2>4 DEF LogInv, Fits, Excused
<1> QED
  BY <1>6, <1>7

LEMMA CountStep ==
  ASSUME LogInv, NEW r \in DOMAIN Window, CountGames(r)
  PROVE  LogInv'
<1> DEFINE L == Len(hosted)
           W == Window[r]
<1>1. PICK m \in 1..L + 1 : gameLog = m..L /\ Fits(m) /\ Excused(m)
  BY DEF LogInv
<1>2. /\ now \in Nat /\ now' = now /\ hosted' = hosted /\ hosted \in Seq(Nat) /\ L \in Nat /\ W \in Nat
      /\ DOMAIN hosted = 1..L /\ \A g \in 1..L : hosted[g] \in Nat
      /\ gameLog' = {g \in m..L : hosted[g] >= now - W}
  BY <1>1, FeedsAssumption DEF LogInv, InOrder, CountGames, Event, HostedSince
<1>3. InOrder'
  BY <1>2 DEF LogInv, InOrder
<1>4. \A k : (Excused(k)' <=> Excused(k)) /\ (Fits(k)' <=> Fits(k))
  BY <1>2 DEF Excused, Fits
<1>5. CASE gameLog' = {}
  <2>1. gameLog' = L + 1..L
    BY <1>2, <1>5
  <2>2. Excused(L + 1)
    <3>1. CASE m = L + 1
      BY <1>1, <3>1
    <3>2. CASE m # L + 1
      <4>1. L \in m..L /\ L \in 1..L
        BY <1>1, <1>2, <3>2
      <4>2. ~(hosted[L] >= now - W)
        BY <1>2, <1>5, <4>1
      <4>3. hosted[(L + 1) - 1] < now - W
        BY <1>2, <4>1, <4>2
      <4> QED
        BY <4>3 DEF Excused
    <3> QED
      BY <3>1, <3>2
  <2>3. L + 1 \in 1..L + 1 /\ Fits(L + 1)
    BY <1>2, FeedsAssumption DEF Fits
  <2> QED
    BY <1>2, <1>3, <1>4, <2>1, <2>2, <2>3 DEF LogInv
<1>6. CASE gameLog' # {}
  <2>1. gameLog' \in SUBSET Nat
    BY <1>1, <1>2
  <2>2. PICK k \in gameLog' : \A g \in gameLog' : k <= g
    BY <1>6, <2>1, LeastOf
  <2>3. k \in m..L /\ hosted[k] >= now - W /\ k \in 1..L
    BY <1>1, <1>2, <2>2
  <2>4. gameLog' = k..L
    <3>1. ASSUME NEW g \in k..L PROVE g \in gameLog'
      <4>1. g \in 1..L /\ g \in m..L /\ k <= g
        BY <1>1, <1>2, <2>3
      <4>2. hosted[k] <= hosted[g]
        BY <1>2, <2>3, <4>1 DEF LogInv, InOrder
      <4> QED
        BY <1>2, <2>3, <4>1, <4>2
    <3>2. ASSUME NEW g \in gameLog' PROVE g \in k..L
      BY <1>1, <1>2, <2>2, <2>3
    <3> QED
      BY <3>1, <3>2
  <2>5. Excused(k)
    <3>1. CASE k = m
      BY <1>1, <3>1
    <3>2. CASE k # m
      <4>1. k - 1 \in m..L /\ k - 1 \in 1..L
        BY <1>1, <1>2, <2>3, <3>2
      <4>3. k - 1 \notin gameLog'
        <5>1. k \in Int /\ ~(k <= k - 1)
          BY <2>3
        <5> QED
          BY <2>2, <5>1
      <4>2. hosted[k - 1] < now - W
        BY <1>2, <4>1, <4>3
      <4> QED
        BY <4>2 DEF Excused
    <3> QED
      BY <3>1, <3>2
  <2>6. k \in 1..L + 1 /\ Fits(k)
    BY <1>1, <1>2, <2>3, FeedsAssumption DEF Fits
  <2> QED
    BY <1>2, <1>3, <1>4, <2>4, <2>5, <2>6 DEF LogInv
<1> QED
  BY <1>5, <1>6

(* Time passes; games too old for somebody stay too old.                   *)
LEMMA LogTickStep == LogInv /\ Tick => LogInv'
<1> SUFFICES ASSUME LogInv, Tick PROVE LogInv'
  OBVIOUS
<1>1. PICK m \in 1..Len(hosted) + 1 : gameLog = m..Len(hosted) /\ Fits(m) /\ Excused(m)
  BY DEF LogInv
<1>2. now \in Nat /\ now' = now + 1 /\ UNCHANGED <<hosted, gameLog>> /\ hosted \in Seq(Nat)
  BY DEF LogInv, InOrder, Tick, log
<1>3. InOrder'
  <2>1. \A g \in DOMAIN hosted : hosted[g] \in Nat /\ hosted[g] <= now
    BY <1>2 DEF LogInv, InOrder
  <2>2. \A g \in DOMAIN hosted : hosted[g] <= now + 1
    BY <1>2, <2>1
  <2> QED
    BY <1>2, <2>2 DEF LogInv, InOrder
<1>4. Excused(m)'
  <2>1. CASE \E r \in DOMAIN Window : hosted[m - 1] < now - Window[r]
    <3>1. PICK r \in DOMAIN Window : hosted[m - 1] < now - Window[r]
      BY <2>1
    <3>2. Window[r] \in Nat
      BY FeedsAssumption
    <3>3. CASE m = 1
      BY <3>3 DEF Excused
    <3>4. CASE m # 1
      <4>1. hosted[m - 1] \in Nat
        BY <1>1, <1>2, <3>4
      <4>2. hosted[m - 1] < now + 1 - Window[r]
        BY <1>2, <3>1, <3>2, <4>1
      <4>3. hosted'[m - 1] < now' - Window[r]
        <5>1. hosted' = hosted /\ now' = now + 1
          BY <1>2
        <5> QED
          BY <1>2, <3>2, <4>1, <4>2, <5>1
      <4> QED
        BY <4>3 DEF Excused
    <3> QED
      BY <3>3, <3>4
  <2>2. CASE m = 1 \/ Len(hosted) - m + 1 >= LogCap
    BY <1>2, <2>2 DEF Excused
  <2> QED
    BY <1>1, <2>1, <2>2 DEF Excused
<1> QED
  BY <1>1, <1>2, <1>3, <1>4 DEF LogInv, Fits

LEMMA LogInductive == LogInv /\ [Next]_vars => LogInv'
<1> SUFFICES ASSUME LogInv, [Next]_vars PROVE LogInv'
  OBVIOUS
<1>1. CASE UNCHANGED <<gameLog, hosted, now>>
  BY <1>1 DEF LogInv, InOrder, Fits, Excused
<1>2. CASE Stop
  <2>1. gameLog' = {} /\ hosted' = <<>> /\ now' = now /\ now \in Nat
    BY <1>2 DEF Stop, Event, LogInv, InOrder
  <2>2. InOrder'
    BY <2>1 DEF InOrder
  <2>3. Len(hosted') = 0 /\ gameLog' = 1..Len(hosted') /\ Fits(1)' /\ Excused(1)'
    BY <2>1, FeedsAssumption DEF Fits, Excused
  <2> QED
    BY <2>2, <2>3 DEF LogInv
<1>3. CASE RecordHostedGame \/ Tick \/ \E r \in DOMAIN Window : CountGames(r)
  BY <1>3, RecordStep, CountStep, LogTickStep
<1>4. CASE UNCHANGED vars \/ Start \/ PushTick \/ Notified \/ Debounced
  BY <1>1, <1>4 DEF vars, Start, PushTick, Notified, Debounced, log, time, Event
<1>5. CASE \E l \in Ladders : RecordResult(l) \/ LadderChanged(l) \/ ChangeQuietly(l)
  BY <1>1, <1>5 DEF RecordResult, LadderChanged, ChangeQuietly, log, time, Event
<1>6. CASE \/ \E l \in Ladders : \E read \in {standings[l], Partial} : ReadLadder(l, read)
           \/ \E arrives, ok \in BOOLEAN : Post(arrives, ok)
  BY <1>1, <1>6 DEF ReadLadder, Post, log, time
<1> QED
  BY <1>2, <1>3, <1>4, <1>5, <1>6 DEF Next

(* Whichever readers prune the log, with whatever windows and cap, the     *)
(* shortest window is counted exactly, up to the cap (node.rs,             *)
(* games_hosted_since).                                                    *)
THEOREM ShortestWindowStaysExact == Spec => []ShortestWindowExact
<1>1. LogInv => ShortestWindowExact
  <2> SUFFICES ASSUME LogInv, NEW r \in DOMAIN Window, \A q \in DOMAIN Window : Window[r] <= Window[q]
               PROVE  Cardinality(HostedSince(gameLog, Window[r]))
                        = Min({LogCap, Cardinality({g \in DOMAIN hosted : now - hosted[g] <= Window[r]})})
    BY DEF ShortestWindowExact
  <2> DEFINE L == Len(hosted)
             C == HostedSince(gameLog, Window[r])
             R == {g \in DOMAIN hosted : now - hosted[g] <= Window[r]}
  <2>1. PICK m \in 1..L + 1 : gameLog = m..L /\ Fits(m) /\ Excused(m)
    BY DEF LogInv
  <2>2. /\ now \in Nat /\ L \in Nat /\ DOMAIN hosted = 1..L /\ \A g \in 1..L : hosted[g] \in Nat
        /\ LogCap \in Nat /\ \A q \in DOMAIN Window : Window[q] \in Nat
    BY FeedsAssumption DEF LogInv, InOrder
  <2>3. C = {g \in m..L : hosted[g] >= now - Window[r]}
    BY <2>1 DEF HostedSince
  <2>4. C \subseteq R /\ R \subseteq 1..L /\ C \subseteq m..L
    BY <2>1, <2>2, <2>3
  <2> HIDE DEF C, R
  <2>5. /\ IsFiniteSet(C) /\ IsFiniteSet(R) /\ Cardinality(C) \in Nat /\ Cardinality(R) \in Nat
        /\ Cardinality(C) <= Cardinality(R) /\ Cardinality(C) <= LogCap
    <3>1. IsFiniteSet(1..L) /\ IsFiniteSet(m..L)
      BY <2>1, <2>2, FS_Interval
    <3>2. IsFiniteSet(R) /\ IsFiniteSet(C) /\ Cardinality(C) <= Cardinality(m..L)
      BY <2>4, <3>1, FS_Subset
    <3>3. Cardinality(C) <= Cardinality(R)
      BY <2>4, <3>2, FS_Subset
    <3>4. Cardinality(m..L) <= LogCap
      <4>1. m \in Int /\ L \in Int
        BY <2>1, <2>2
      <4>2. Cardinality(m..L) = IF m > L THEN 0 ELSE L - m + 1
        BY <4>1, FS_Interval
      <4> QED
        BY <2>1, <2>2, <4>1, <4>2 DEF Fits
    <3> QED
      BY <2>1, <2>2, <3>1, <3>2, <3>3, <3>4, FS_CardinalityType
  <2>6. C = R \/ Cardinality(C) = LogCap
    <3>1. CASE R \subseteq m..L
      <4>1. R \subseteq C
        BY <2>2, <2>3, <3>1 DEF R
      <4> QED
        BY <2>4, <4>1
    <3>2. CASE ~(R \subseteq m..L)
      <4>1. PICK g \in R : g \notin m..L
        BY <3>2
      <4>2. g \in 1..L /\ g <= m - 1 /\ m - 1 \in 1..L /\ m # 1
        BY <2>1, <2>2, <2>4, <4>1
      <4>3. hosted[g] <= hosted[m - 1]
        BY <2>2, <4>2 DEF LogInv, InOrder
      <4>4. now - hosted[m - 1] <= Window[r]
        <5>1. now - hosted[g] <= Window[r]
          BY <4>1 DEF R
        <5> QED
          BY <2>2, <4>2, <4>3, <5>1
      <4>5. ~(\E q \in DOMAIN Window : hosted[m - 1] < now - Window[q])
        BY <2>2, <4>2, <4>4
      <4>6. L - m + 1 = LogCap
        BY <2>1, <2>2, <4>2, <4>5 DEF Excused, Fits
      <4>7. C = m..L
        <5>1. ASSUME NEW h \in m..L PROVE hosted[h] >= now - Window[r]
          <6>1. h \in 1..L /\ m - 1 <= h
            BY <2>1, <2>2
          <6>2. hosted[m - 1] <= hosted[h]
            BY <2>2, <4>2, <6>1 DEF LogInv, InOrder
          <6> QED
            BY <2>2, <4>2, <4>4, <6>1, <6>2
        <5> QED
          BY <2>3, <5>1
      <4>8. Cardinality(m..L) = IF m > L THEN 0 ELSE L - m + 1
        <5>1. m \in Int /\ L \in Int
          BY <2>1, <2>2
        <5> QED
          BY <5>1, FS_Interval
      <4> QED
        BY <2>1, <2>2, <4>6, <4>7, <4>8
    <3> QED
      BY <3>1, <3>2
  <2>7. Min({LogCap, Cardinality(R)}) \in {LogCap, Cardinality(R)}
        /\ \A y \in {LogCap, Cardinality(R)} : Min({LogCap, Cardinality(R)}) <= y
    <3>1. {LogCap, Cardinality(R)} \in SUBSET Nat /\ {LogCap, Cardinality(R)} # {}
      BY <2>2, <2>5
    <3> QED
      BY <3>1, MinOf
  <2>8. Cardinality(C) = Min({LogCap, Cardinality(R)})
    BY <2>2, <2>5, <2>6, <2>7
  <2> QED
    BY <2>8 DEF C, R
<1> QED
  BY <1>1, LogInit, LogInductive, PTL DEF Spec

-----------------------------------------------------------------------------
(* The public feed.                                                        *)

(* What is public about a channel is in the channel list.                  *)
LEMMA NamedChannels ==
  ASSUME NEW node
  PROVE  {c.name : c \in PublicChannels(node)} = {c \in DOMAIN node.channels : Named(node, c)}
<1> DEFINE list == PublicChannels(node)
<1>1. ASSUME NEW c \in list PROVE c.name \in DOMAIN node.channels /\ Named(node, c.name)
  <2>1. PICK o \in Occupancy(node) : o.public /\ c.name = o.name
    BY DEF PublicChannels
  <2>2. PICK k \in DOMAIN node.channels : o = [name |-> k, members |-> node.channels[k], public |-> Named(node, k)]
    BY DEF Occupancy
  <2>3. c.name = o.name /\ o.name = k /\ o.public = Named(node, k)
    BY <2>1, <2>2
  <2> QED
    BY <2>1, <2>3
<1>2. ASSUME NEW k \in DOMAIN node.channels, Named(node, k) PROVE \E c \in list : c.name = k
  <2> DEFINE o == [name |-> k, members |-> node.channels[k], public |-> Named(node, k)]
  <2>1. o \in Occupancy(node) /\ o.name = k /\ o.public
    BY <1>2 DEF Occupancy
  <2> HIDE DEF o
  <2>2. \E n : [name |-> o.name, users |-> n] \in list
    BY <2>1 DEF PublicChannels
  <2>3. PICK n : [name |-> k, users |-> n] \in list
    BY <2>1, <2>2
  <2>4. [name |-> k, users |-> n].name = k
    OBVIOUS
  <2> QED
    BY <2>3, <2>4
<1> HIDE DEF list
<1>3. {c.name : c \in list} \subseteq {k \in DOMAIN node.channels : Named(node, k)}
  BY <1>1
<1>4. {k \in DOMAIN node.channels : Named(node, k)} \subseteq {c.name : c \in list}
  BY <1>2
<1> QED
  BY <1>3, <1>4 DEF list

(* The channel given for a user is one that may be named.                  *)
LEMMA ChannelsOfUsers ==
  ASSUME NEW node, NEW user
  PROVE  ChannelOf(node, user) \in {c \in DOMAIN node.channels : Named(node, c)} \cup {None}
<1> DEFINE in == {o \in Occupancy(node) : user \in o.members}
           one == CHOOSE o \in in : TRUE
<1>1. CASE in = {} \/ ~one.public
  BY <1>1 DEF ChannelOf
<1>2. CASE in # {} /\ one.public
  <2>1. one \in in
    BY <1>2
  <2>2. PICK k \in DOMAIN node.channels : one = [name |-> k, members |-> node.channels[k], public |-> Named(node, k)]
    BY <2>1 DEF Occupancy
  <2>3. ChannelOf(node, user) = one.name
    BY <1>2 DEF ChannelOf
  <2> HIDE DEF one
  <2>4. one.name = k /\ (one.public <=> Named(node, k))
    BY <2>2
  <2> QED
    BY <1>2, <2>3, <2>4
<1> QED
  BY <1>1, <1>2

(* Where users are shown, the list of users names every session's.         *)
LEMMA ShownUsers ==
  ASSUME NEW node, NEW show, show
  PROVE  {u.name : u \in UserList(node, show)} = DOMAIN node.sessions
<1> DEFINE entry(s) == [name |-> s.name, product |-> Code(s.product), channel |-> ChannelOf(node, s.name)]
           online(n) == [name |-> n, product |-> node.sessions[n]]
<1>1. UserList(node, show) = {entry(s) : s \in OnlineSessions(node)}
  BY DEF UserList
<1>2. OnlineSessions(node) = {online(n) : n \in DOMAIN node.sessions}
  BY DEF OnlineSessions
<1>3. \A s : entry(s).name = s.name
  OBVIOUS
<1>4. \A n : online(n).name = n
  OBVIOUS
<1> HIDE DEF entry, online
<1>5. ASSUME NEW u \in UserList(node, show) PROVE u.name \in DOMAIN node.sessions
  <2>1. PICK s \in OnlineSessions(node) : u = entry(s)
    BY <1>1
  <2>2. PICK n \in DOMAIN node.sessions : s = online(n)
    BY <1>2
  <2>3. u.name = s.name
    BY <1>3, <2>1
  <2>4. s.name = n
    BY <1>4, <2>2
  <2> QED
    BY <2>3, <2>4
<1>6. ASSUME NEW n \in DOMAIN node.sessions PROVE \E u \in UserList(node, show) : u.name = n
  <2>1. online(n) \in OnlineSessions(node)
    BY <1>2
  <2>2. entry(online(n)) \in UserList(node, show)
    BY <1>1, <2>1
  <2> QED
    BY <1>3, <1>4, <2>2
<1> QED
  BY <1>5, <1>6

(* Of games with a password no list of the feed gives the name.            *)
LEMMA OpenGames ==
  ASSUME NEW node
  PROVE  {g.name : g \in {PublicGame(g) : g \in node.games} \cup Diablo2Games(node)}
           \subseteq {g.name : g \in {g \in node.games \cup node.realmGames : ~g.private}} \cup {None}
<1> DEFINE open == {g \in node.games \cup node.realmGames : ~g.private}
           names == {g.name : g \in open}
<1>1. ASSUME NEW g \in node.games PROVE PublicGame(g).name \in names \cup {None}
  BY DEF PublicGame
<1>2. ASSUME NEW d \in Diablo2Games(node) PROVE d.name \in names \cup {None}
  <2>1. PICK g \in node.realmGames : d = [name |-> IF g.private THEN None ELSE g.name, players |-> g.players]
    BY DEF Diablo2Games
  <2>2. d.name = IF g.private THEN None ELSE g.name
    BY <2>1
  <2> QED
    BY <2>2
<1> QED
  BY <1>1, <1>2

(* Whatever the node holds and whether or not users are shown, the feed    *)
(* names no channel the operator has not made public, through no list, no  *)
(* game with a password, and of the users those online if they are shown   *)
(* and the players of the latest ladder results, and nobody else           *)
(* (public_status.rs:16-24, 242-357).                                      *)
THEOREM FeedKeepsQuiet == \A node, show : show \in BOOLEAN => Withholds(node, show)
<1> SUFFICES ASSUME NEW node, NEW show \in BOOLEAN PROVE Withholds(node, show)
  OBVIOUS
<1> DEFINE feed == Feed(node, show)
           named == {c.name : c \in feed.channelList}
           may == {c \in DOMAIN node.channels : Named(node, c)}
<1>1. /\ feed.channelList = PublicChannels(node) /\ feed.userList = UserList(node, show)
      /\ feed.gameList = {PublicGame(g) : g \in node.games} /\ feed.diablo2 = Diablo2Games(node)
      /\ feed.users = (IF show THEN DOMAIN node.sessions ELSE None)
      /\ feed.recentLadder = node.recentLadder
  BY DEF Feed
<1> HIDE DEF feed
<1>2. named = may
  BY <1>1, NamedChannels
<1>3. may \subseteq {c \in DOMAIN node.rules : node.rules[c].public \/ node.rules[c].listed}
  BY DEF Named
<1>4. may \subseteq ChannelNames(node)
  BY DEF ChannelNames
<1>5. show => {u.channel : u \in feed.userList} \subseteq may \cup {None}
  <2> SUFFICES ASSUME show, NEW u \in feed.userList PROVE u.channel \in may \cup {None}
    OBVIOUS
  <2>1. PICK s \in OnlineSessions(node) :
          u = [name |-> s.name, product |-> Code(s.product), channel |-> ChannelOf(node, s.name)]
    BY <1>1 DEF UserList
  <2>2. u.channel = ChannelOf(node, s.name)
    BY <2>1
  <2> QED
    BY <2>2, ChannelsOfUsers
<1>6. ~show => feed.users = None /\ feed.userList = None
  BY <1>1 DEF UserList
<1>7. UsersNamed(feed, show) = (IF show THEN DOMAIN node.sessions ELSE {}) \cup LadderPlayers(node)
  <2>1. {result.player : result \in feed.recentLadder} = LadderPlayers(node)
    BY <1>1 DEF LadderPlayers
  <2>2. CASE ~show
    BY <2>1, <2>2 DEF UsersNamed
  <2>3. CASE show
    <3>1. {u.name : u \in feed.userList} = DOMAIN node.sessions
      BY <1>1, <2>3, ShownUsers
    <3>2. feed.users = DOMAIN node.sessions
      BY <1>1, <2>3
    <3> QED
      BY <2>1, <2>3, <3>1, <3>2 DEF UsersNamed
  <2> QED
    BY <2>2, <2>3
<1>8. {g.name : g \in feed.gameList \cup feed.diablo2}
        \subseteq {g.name : g \in {g \in node.games \cup node.realmGames : ~g.private}} \cup {None}
  BY <1>1, OpenGames
<1> QED
  BY <1>2, <1>3, <1>4, <1>5, <1>6, <1>7, <1>8 DEF Withholds, feed

-----------------------------------------------------------------------------
(* Policies: the limits a hub, a node and an operator's file make together. *)

Policies ==
  [mode : Mode, allowed : SUBSET Gate, ordering : {"hub_serialized", "local_first"},
   clients : ClientLimits, gateway_flood : Nat \X Nat]

(* ForProduct finds limits for every product.                              *)
LEMMA ForProductType ==
  ASSUME NEW limits \in ClientLimits, NEW p
  PROVE  ForProduct(limits, p) \in ConnLimits
<1>1. limits.fixed \in [FixedClass -> ConnLimits]
  BY DEF ClientLimits
<1>2. \A q \in DOMAIN limits.products : limits.products[q] \in ConnLimits
  BY DEF ClientLimits
<1> QED
  BY <1>1, <1>2 DEF ForProduct, FixedClass

(* The tighter of two limits is within both.                               *)
LEMMA TighterWithin ==
  ASSUME NEW a \in ConnLimits, NEW b \in ConnLimits, NEW f \in LimitField
  PROVE  Tighter(a, b)[f] <= a[f] /\ Tighter(a, b)[f] <= b[f]
<1>1. a[f] \in Nat /\ b[f] \in Nat
  BY DEF ConnLimits
<1> QED
  BY <1>1 DEF Tighter, Lesser

(* Neither the hub nor a node can be widened by the other: no gate opens   *)
(* and no limit of any class or product grows, for whichever products      *)
(* either of them lists (policy.rs, Policy::narrowed_by).                  *)
THEOREM NarrowingNeverWidens ==
  \A hub, node \in Policies : Within(Narrowed(hub, node), hub) /\ Within(Narrowed(hub, node), node)
<1> SUFFICES ASSUME NEW hub \in Policies, NEW node \in Policies
             PROVE  Within(Narrowed(hub, node), hub) /\ Within(Narrowed(hub, node), node)
  OBVIOUS
<1> DEFINE both == NarrowedLimits(hub.clients, node.clients)
<1>1. Narrowed(hub, node).clients = both /\ Narrowed(hub, node).allowed = hub.allowed \cap node.allowed
  BY DEF Narrowed, Policies
<1>2. hub.clients \in ClientLimits /\ node.clients \in ClientLimits
  BY DEF Policies
<1>3. ASSUME NEW c \in FixedClass, NEW f \in LimitField
      PROVE  both.fixed[c][f] <= hub.clients.fixed[c][f] /\ both.fixed[c][f] <= node.clients.fixed[c][f]
  <2>1. hub.clients.fixed[c] \in ConnLimits /\ node.clients.fixed[c] \in ConnLimits
    BY <1>2 DEF ClientLimits
  <2>2. both.fixed[c] = Tighter(hub.clients.fixed[c], node.clients.fixed[c])
    BY DEF NarrowedLimits
  <2> QED
    BY <2>1, <2>2, TighterWithin
<1>4. ASSUME NEW p \in Product, NEW f \in LimitField
      PROVE  /\ ForProduct(both, p)[f] <= ForProduct(hub.clients, p)[f]
             /\ ForProduct(both, p)[f] <= ForProduct(node.clients, p)[f]
  <2>1. ForProduct(hub.clients, p) \in ConnLimits /\ ForProduct(node.clients, p) \in ConnLimits
    BY <1>2, ForProductType
  <2>2. ForProduct(both, p) = Tighter(ForProduct(hub.clients, p), ForProduct(node.clients, p))
    <3>1. CASE p \in DOMAIN hub.clients.products \cup DOMAIN node.clients.products
      BY <3>1 DEF ForProduct, NarrowedLimits
    <3>2. CASE p \notin DOMAIN hub.clients.products \cup DOMAIN node.clients.products
      BY <3>2 DEF ForProduct, NarrowedLimits, FixedClass
    <3> QED
      BY <3>1, <3>2
  <2> QED
    BY <2>1, <2>2, TighterWithin
<1> QED
  BY <1>1, <1>3, <1>4 DEF Within

-----------------------------------------------------------------------------
(* A set of numbers that has a bound has a greatest one.                   *)
LEMMA GreatestOf ==
  ASSUME NEW I \in SUBSET Nat, I # {}, NEW bound \in Nat, \A x \in I : x <= bound
  PROVE  Max(I) \in I /\ \A x \in I : x <= Max(I)
<1> DEFINE U == {n \in Nat : \A x \in I : x <= n}
<1>1. PICK m \in U : \A y \in U : m <= y
  <2>1. U \in SUBSET Nat /\ bound \in U
    OBVIOUS
  <2> QED
    BY <2>1, LeastOf
<1>2. m \in I
  <2> SUFFICES ASSUME m \notin I PROVE FALSE
    OBVIOUS
  <2>1. PICK x \in I : TRUE
    OBVIOUS
  <2>2. m \in Nat /\ x \in Nat /\ x <= m /\ x # m
    BY <1>1
  <2>3. m - 1 \in Nat /\ \A y \in I : y <= m - 1
    BY <1>1, <2>2
  <2>4. m - 1 \in U
    BY <2>3
  <2> QED
    BY <1>1, <2>2, <2>4
<1>3. m \in I /\ \A x \in I : m >= x
  BY <1>1, <1>2
<1>4. Max(I) \in I /\ \A x \in I : Max(I) >= x
  BY <1>3 DEF Max
<1> QED
  BY <1>4

(* What an operator may write: some fields of a table of limits, for some  *)
(* classes and products.                                                   *)
Patch == UNION {[S -> 0..U32Max] : S \in SUBSET LimitField}
PatchTables(S) == UNION {[T -> Patch] : T \in SUBSET S}
Operators == [fixed : PatchTables(FixedClass), products : PatchTables(Product)]

U32Limits == [LimitField -> 0..U32Max]

(* Patches keep a table of limits within a u32.                            *)
LEMMA PatchedType ==
  ASSUME NEW base \in U32Limits, NEW patch \in Patch
  PROVE  Patched(base, patch) \in U32Limits
<1>1. \A f \in DOMAIN patch : patch[f] \in 0..U32Max
  BY DEF Patch
<1> QED
  BY <1>1 DEF Patched, U32Limits

(* So are the defaults, and none is for a product.                         *)
LEMMA DefaultsType ==
  ASSUME NEW mode
  PROVE  DefaultLimits(mode).fixed \in [FixedClass -> U32Limits] /\ DefaultLimits(mode).products = <<>>
<1>1. ASSUME NEW ip \in 0..U32Max, NEW account \in 0..U32Max, NEW global \in 0..U32Max
      PROVE  Limits(ip, account, global) \in U32Limits
  BY DEF Limits, U32Limits
<1>2. /\ 1 \in 0..U32Max /\ 2 \in 0..U32Max /\ 4 \in 0..U32Max /\ 8 \in 0..U32Max /\ 16 \in 0..U32Max
      /\ 256 \in 0..U32Max /\ 512 \in 0..U32Max /\ 1024 \in 0..U32Max /\ 2048 \in 0..U32Max
      /\ 4096 \in 0..U32Max /\ 8192 \in 0..U32Max /\ U32Max \in 0..U32Max
  BY PolicyAssumption
<1>3. /\ Limits(1, 1, 256) \in U32Limits /\ Limits(1, 1, 2048) \in U32Limits /\ Limits(1, 1, 1024) \in U32Limits
      /\ Limits(4, 4, 512) \in U32Limits /\ Limits(16, U32Max, 8192) \in U32Limits
      /\ Limits(8, 2, 4096) \in U32Limits
  <2>1. Limits(1, 1, 256) \in U32Limits
    BY <1>1, <1>2
  <2>2. Limits(1, 1, 2048) \in U32Limits
    BY <1>1, <1>2
  <2>3. Limits(1, 1, 1024) \in U32Limits
    BY <1>1, <1>2
  <2>4. Limits(4, 4, 512) \in U32Limits
    BY <1>1, <1>2
  <2>5. Limits(16, U32Max, 8192) \in U32Limits
    BY <1>1, <1>2
  <2>6. Limits(8, 2, 4096) \in U32Limits
    BY <1>1, <1>2
  <2> QED
    BY <2>1, <2>2, <2>3, <2>4, <2>5, <2>6
<1> QED
  BY <1>3 DEF DefaultLimits

(* The classes after the operator's patches.                               *)
PatchedFixed(base, patches) ==
  [c \in FixedClass |-> IF c \in DOMAIN patches THEN Patched(base[c], patches[c]) ELSE base[c]]

LEMMA PatchedLimits ==
  ASSUME NEW mode, NEW patches
  PROVE  WithPatches(DefaultLimits(mode), patches) =
           [fixed |-> PatchedFixed(DefaultLimits(mode).fixed, patches.fixed),
            products |-> [p \in DOMAIN patches.products |->
                            Patched(PatchedFixed(DefaultLimits(mode).fixed, patches.fixed)["game_default"],
                                    patches.products[p])]]
<1> DEFINE base == DefaultLimits(mode)
           fixed == PatchedFixed(base.fixed, patches.fixed)
           before == [fixed |-> fixed, products |-> base.products]
<1>1. base.products = <<>>
  BY DefaultsType
<1> HIDE DEF base
<1>2. \A p : ForProduct(before, p) = fixed["game_default"]
  BY <1>1 DEF ForProduct
<1>3. WithPatches(base, patches) =
        [fixed |-> fixed,
         products |-> [p \in DOMAIN patches.products |-> Patched(ForProduct(before, p), patches.products[p])]]
  BY DEF WithPatches, PatchedFixed
<1> QED
  BY <1>2, <1>3 DEF base

(* The pending class is widened, the rest is as it was.                    *)
LEMMA WidenedLimits ==
  ASSUME NEW limits, limits \in [fixed : [FixedClass -> U32Limits], products : {limits.products}]
  PROVE  /\ WidenPending(limits).products = limits.products
         /\ \A c \in FixedClass \ {"game_pending"} : WidenPending(limits).fixed[c] = limits.fixed[c]
<1>1. DOMAIN limits.fixed = FixedClass
  OBVIOUS
<1> QED
  BY <1>1 DEF WidenPending

(* The per-address limits a pending connection may turn out to be under.   *)
PerIp(limits) ==
  {limits.products[p]["per_ip"] : p \in DOMAIN limits.products} \cup {limits.fixed["game_default"]["per_ip"]}

LEMMA WidenedPending ==
  ASSUME NEW limits, limits \in [fixed : [FixedClass -> U32Limits], products : {limits.products}],
         \A p \in DOMAIN limits.products : limits.products[p] \in U32Limits
  PROVE  \A n \in PerIp(limits) : n <= WidenPending(limits).fixed["game_pending"]["per_ip"]
<1> DEFINE I == PerIp(limits)
           old == limits.fixed["game_pending"]["per_ip"]
<1>1. /\ "per_ip" \in LimitField /\ "game_pending" \in FixedClass /\ "game_default" \in FixedClass
      /\ DOMAIN limits.fixed = FixedClass
      /\ limits.fixed["game_pending"] \in U32Limits /\ limits.fixed["game_default"] \in U32Limits
  BY DEF LimitField, FixedClass
<1>2. U32Max \in Nat
  BY PolicyAssumption
<1>3. I \in SUBSET (0..U32Max) /\ limits.fixed["game_default"]["per_ip"] \in I
  BY <1>1 DEF PerIp, U32Limits
<1>4. I \in SUBSET Nat /\ I # {} /\ \A x \in I : x <= U32Max
  BY <1>2, <1>3
<1>5. Max(I) \in Nat /\ \A x \in I : x <= Max(I)
  BY <1>2, <1>4, GreatestOf
<1>6. WidenPending(limits).fixed["game_pending"]["per_ip"] = IF old < Max(I) THEN Max(I) ELSE old
  BY <1>1 DEF WidenPending, PerIp, U32Limits
<1>7. old \in Nat
  BY <1>1, <1>2 DEF U32Limits
<1> QED
  BY <1>4, <1>5, <1>6, <1>7

(* What the operator writes for classes and products never makes the limit *)
(* of connections whose product is still unknown the tighter one           *)
(* (config.rs:883-897), for any mode and any patches.                      *)
THEOREM PendingIsLoosest ==
  \A mode \in Mode, patches \in Operators : PendingLoosest(EffectivePolicy(mode, patches).clients)
<1> SUFFICES ASSUME NEW mode \in Mode, NEW patches \in Operators
             PROVE  PendingLoosest(EffectivePolicy(mode, patches).clients)
  OBVIOUS
<1> DEFINE limits == WithPatches(DefaultLimits(mode), patches)
           fixed == PatchedFixed(DefaultLimits(mode).fixed, patches.fixed)
<1>1. EffectivePolicy(mode, patches).clients = WidenPending(limits)
  BY DEF EffectivePolicy, ForMode
<1>2. fixed \in [FixedClass -> U32Limits]
  <2>1. \A c \in DOMAIN patches.fixed : patches.fixed[c] \in Patch
    BY DEF Operators, PatchTables
  <2>2. DefaultLimits(mode).fixed \in [FixedClass -> U32Limits]
    BY DefaultsType
  <2> QED
    BY <2>1, <2>2, PatchedType DEF PatchedFixed
<1>3. /\ limits \in [fixed : [FixedClass -> U32Limits], products : {limits.products}]
      /\ limits.fixed = fixed /\ DOMAIN limits.products = DOMAIN patches.products
      /\ \A p \in DOMAIN patches.products :
           limits.products[p] = Patched(fixed["game_default"], patches.products[p])
  BY <1>2, PatchedLimits
<1> HIDE DEF limits
<1>4. \A p \in DOMAIN limits.products : limits.products[p] \in U32Limits
  <2>1. \A p \in DOMAIN patches.products : patches.products[p] \in Patch
    BY DEF Operators, PatchTables
  <2>2. fixed["game_default"] \in U32Limits
    BY <1>2 DEF FixedClass
  <2> QED
    BY <1>3, <2>1, <2>2, PatchedType
<1>5. \A n \in PerIp(limits) : n <= WidenPending(limits).fixed["game_pending"]["per_ip"]
  BY <1>3, <1>4, WidenedPending
<1>6. ASSUME NEW p PROVE ForProduct(WidenPending(limits), p)["per_ip"] \in PerIp(limits)
  <2>1. /\ WidenPending(limits).products = limits.products
        /\ WidenPending(limits).fixed["game_default"] = limits.fixed["game_default"]
    BY <1>3, WidenedLimits DEF FixedClass
  <2> QED
    BY <2>1 DEF ForProduct, PerIp
<1> QED
  BY <1>1, <1>5, <1>6 DEF PendingLoosest
-----------------------------------------------------------------------------
(* The settings page saved as it was opened.                               *)

Tables(S, T) == UNION {[R -> T] : R \in SUBSET S}

ChannelTable ==
  [name : STRING, max_users : Nat \cup {None}, products : (SUBSET Product) \cup {None},
   public : BOOLEAN \cup {None}, persist : BOOLEAN \cup {None},
   telnet : STRING \cup {None}, min_flag : STRING \cup {None}]

(* The documents the TOML structures can hold.  A landing channel written  *)
(* as an empty string is left out: the page refuses the line it shows for  *)
(* one.                                                                    *)
Documents ==
  [str : Tables(StringField, STRING), int : Tables(IntField, Nat), flag : Tables(Checkbox, BOOLEAN),
   fixed : PatchTables(FixedClass), products : PatchTables(Product),
   allowed : Tables(Product \X STRING, SUBSET Nat),
   default_channel : Tables(STRING \ {""}, STRING \ {""}), defined : Seq(ChannelTable),
   enabled : BOOLEAN, link : STRING, token : STRING, inline : SUBSET STRING]

(* The strings the page takes over as they are, not as one choice of some. *)
ShownString == {"server_name", "mode", "hub", "storage_path", "listen_bncs", "status_listen"}

(* Untouched, the page shows every string as the start reads it, but for   *)
(* another spelling of the same choice.                                    *)
LEMMA PageStrings ==
  ASSUME NEW doc \in Documents, StartAccepts(doc), HouseStyle(doc)
  PROVE  LET str == SettingsPage(doc).str
         IN  /\ DOMAIN str = StringField
             /\ \A f \in ShownString : str[f] = Str(doc, f)
             /\ LogonKnown(str["wc3_logon"]) /\ (LegacyLogon(str["wc3_logon"]) <=> LegacyLogon(Str(doc, "wc3_logon")))
             /\ TelnetAccess(str["telnet_access"]) = TelnetAccess(Str(doc, "telnet_access"))
<1> DEFINE str == SettingsPage(doc).str
           shown(f) == IF f \in DOMAIN doc.str THEN doc.str[f] ELSE PageString(f)
<1>1. str = [f \in StringField |-> IF f \in {"mode", "wc3_logon", "telnet_access"}
                                   THEN Selected(Options(f), shown(f)) ELSE shown(f)]
  BY DEF SettingsPage
<1>2. ASSUME NEW f \in StringField PROVE shown(f) = Str(doc, f)
  BY DEF Str, PageString, HouseStyle
<1> HIDE DEF str, shown
<1>3. ASSUME NEW f \in ShownString \ {"mode"} PROVE str[f] = Str(doc, f)
  BY <1>1, <1>2 DEF StringField, ShownString
<1>4. str["mode"] = Str(doc, "mode")
  <2>1. Str(doc, "mode") \in {"gaming", "warnet", "both"}
    BY DEF StartAccepts, Validates, Mode
  <2>2. str["mode"] = Selected(<<"gaming", "warnet", "both">>, Str(doc, "mode"))
    BY <1>1, <1>2 DEF StringField, Options
  <2>3. \A v \in {"gaming", "warnet", "both"} : \E i \in DOMAIN <<"gaming", "warnet", "both">> : <<"gaming", "warnet", "both">>[i] = v
    OBVIOUS
  <2> QED
    BY <2>1, <2>2, <2>3 DEF Selected
<1>5. LogonKnown(str["wc3_logon"]) /\ (LegacyLogon(str["wc3_logon"]) <=> LegacyLogon(Str(doc, "wc3_logon")))
  <2>1. Str(doc, "wc3_logon") \in {"nls", "srp", "legacy"}
    BY DEF HouseStyle
  <2>2. str["wc3_logon"] = Selected(<<"nls", "legacy">>, Str(doc, "wc3_logon"))
    BY <1>1, <1>2 DEF StringField, Options
  <2>3. /\ \A v \in {"nls", "legacy"} : Selected(<<"nls", "legacy">>, v) = v
        /\ Selected(<<"nls", "legacy">>, "srp") = "nls"
    BY DEF Selected
  <2> QED
    BY <2>1, <2>2, <2>3 DEF LogonKnown, LegacyLogon
<1>6. TelnetAccess(str["telnet_access"]) = TelnetAccess(Str(doc, "telnet_access"))
  <2>1. Str(doc, "telnet_access") \in {"public", "none", "all", ""}
    BY DEF StartAccepts, ChannelsValid, TelnetAccess
  <2>2. str["telnet_access"] = Selected(<<"public", "none", "all">>, Str(doc, "telnet_access"))
    BY <1>1, <1>2 DEF StringField, Options
  <2>3. /\ \A v \in {"public", "none", "all"} : Selected(<<"public", "none", "all">>, v) = v
        /\ Selected(<<"public", "none", "all">>, "") = "public"
    <3>1. \A v \in {"public", "none", "all"} :
            \E i \in DOMAIN <<"public", "none", "all">> : <<"public", "none", "all">>[i] = v
      OBVIOUS
    <3>2. \A i \in DOMAIN <<"public", "none", "all">> : <<"public", "none", "all">>[i] # ""
      <4>1. \A i \in 1..3 : i = 1 \/ i = 2 \/ i = 3
        OBVIOUS
      <4>2. DOMAIN <<"public", "none", "all">> = 1..3
        OBVIOUS
      <4>3. /\ <<"public", "none", "all">>[1] # "" /\ <<"public", "none", "all">>[2] # ""
            /\ <<"public", "none", "all">>[3] # ""
        OBVIOUS
      <4> DEFINE options == <<"public", "none", "all">>
      <4> HIDE DEF options
      <4>4. /\ DOMAIN options = 1..3
            /\ options[1] # "" /\ options[2] # "" /\ options[3] # ""
        BY <4>2, <4>3 DEF options
      <4>5. \A i \in DOMAIN options : options[i] # ""
        BY <4>1, <4>4
      <4> QED
        BY <4>5 DEF options
    <3>3. <<"public", "none", "all">>[1] = "public"
      OBVIOUS
    <3> QED
      BY <3>1, <3>2, <3>3 DEF Selected
  <2> QED
    BY <2>1, <2>2, <2>3 DEF TelnetAccess
<1>7. DOMAIN str = StringField
  BY <1>1
<1>8. \A f \in ShownString : str[f] = Str(doc, f)
  BY <1>3, <1>4
<1> QED
  BY <1>5, <1>6, <1>7, <1>8 DEF str

(* A number the page shows is one the save accepts.                        *)
LEMMA NumbersAreNumbers ==
  ASSUME NEW n \in Nat
  PROVE  Number(n) /\ NumberOrBlank(n) /\ n # Blank /\ n # None
  BY ConfigAssumption DEF Number, NumberOrBlank

LEMMA PageNumbers ==
  ASSUME NEW doc \in Documents, NEW f \in IntField
  PROVE  /\ Num(doc, f) \in Nat
         /\ Parses(doc) => Num(doc, f) <= U32Max
<1>1. doc.int \in Tables(IntField, Nat)
  BY DEF Documents
<1>2. \A g \in DOMAIN doc.int : doc.int[g] \in Nat
  BY <1>1 DEF Tables
<1>3. DefaultInt(f) \in Nat /\ DefaultInt(f) <= 8192
  BY DEF DefaultInt
<1> QED
  BY <1>2, <1>3, PolicyAssumption DEF Num, Parses

(* Every class keeps its limits: a box is empty where the document sets    *)
(* nothing, or holds the default.                                          *)
LEMMA PageClasses ==
  ASSUME NEW doc \in Documents, NEW mode, NEW c \in FixedClass, NEW f \in LimitField
  PROVE  LET box == SettingsPage(doc).box
         IN  /\ box[<<c, f>>] \in Nat \cup {Blank}
             /\ <<c, f>> \in RequiredBox => box[<<c, f>>] \in Nat
             /\ Patched(DefaultLimits(mode).fixed[c], EditedClass(box, c))[f] =
                  PatchedFixed(DefaultLimits(mode).fixed, doc.fixed)[c][f]
<1> DEFINE box == SettingsPage(doc).box
           set == c \in DOMAIN doc.fixed /\ f \in DOMAIN doc.fixed[c]
           base == DefaultLimits(mode).fixed
<1>1. <<c, f>> \in ClassBox
  BY DEF ClassBox
<1>2. box[<<c, f>>] = IF set THEN doc.fixed[c][f]
                      ELSE IF <<c, f>> \in RequiredBox THEN PageNumber(<<c, f>>) ELSE Blank
  BY <1>1 DEF SettingsPage
<1>3. set => doc.fixed[c][f] \in Nat
  <2>1. doc.fixed \in PatchTables(FixedClass)
    BY DEF Documents
  <2>2. c \in DOMAIN doc.fixed => doc.fixed[c] \in Patch
    BY <2>1 DEF PatchTables
  <2>3. set => doc.fixed[c][f] \in 0..U32Max
    BY <2>2 DEF Patch
  <2> QED
    BY <2>3, PolicyAssumption
<1>4. PageNumber(<<c, f>>) \in Nat
  BY DEF PageNumber
<1>5. <<c, f>> \in RequiredBox => base[c][f] = PageNumber(<<c, f>>)
  <2> SUFFICES ASSUME <<c, f>> \in RequiredBox PROVE base[c][f] = PageNumber(<<c, f>>)
    OBVIOUS
  <2>1. c \in {"gateway", "bnftp", "game_default"} /\ f = "per_ip"
    BY DEF RequiredBox, FixedClass
  <2>2. \A ip, account, global : Limits(ip, account, global)["per_ip"] = ip
    BY DEF Limits, LimitField
  <2>3. CASE c = "gateway"
    BY <2>1, <2>2, <2>3 DEF DefaultLimits, PageNumber, FixedClass
  <2>4. CASE c = "bnftp"
    BY <2>1, <2>2, <2>4 DEF DefaultLimits, PageNumber, FixedClass
  <2>5. CASE c = "game_default"
    BY <2>1, <2>2, <2>5 DEF DefaultLimits, PageNumber, FixedClass
  <2> QED
    BY <2>1, <2>3, <2>4, <2>5
<1> HIDE DEF box, base
<1>6. Patched(base[c], EditedClass(box, c))[f] = IF box[<<c, f>>] # Blank THEN box[<<c, f>>] ELSE base[c][f]
  BY DEF Patched, EditedClass
<1>7. PatchedFixed(base, doc.fixed)[c][f] = IF set THEN doc.fixed[c][f] ELSE base[c][f]
  BY DEF PatchedFixed, Patched
<1>8. box[<<c, f>>] \in Nat => box[<<c, f>>] # Blank
  BY NumbersAreNumbers
<1>9. box[<<c, f>>] \in Nat \cup {Blank} /\ (<<c, f>> \in RequiredBox => box[<<c, f>>] \in Nat)
  BY <1>2, <1>3, <1>4
<1>10. Patched(base[c], EditedClass(box, c))[f] = PatchedFixed(base, doc.fixed)[c][f]
  <2>1. CASE set
    BY <2>1, <1>2, <1>3, <1>6, <1>7, <1>8
  <2>2. CASE ~set /\ <<c, f>> \in RequiredBox
    BY <2>2, <1>2, <1>4, <1>5, <1>6, <1>7, <1>8
  <2>3. CASE ~set /\ <<c, f>> \notin RequiredBox
    BY <2>3, <1>2, <1>6, <1>7
  <2> QED
    BY <2>1, <2>2, <2>3
<1> QED
  BY <1>9, <1>10 DEF box, base

(* Every product keeps its limits: a table is dropped only when it is      *)
(* empty.                                                                  *)
LEMMA PageProducts ==
  ASSUME NEW doc \in Documents, doc.inline = {}
  PROVE  LET edited == EditedProducts(doc, SettingsPage(doc))
         IN  /\ DOMAIN edited \subseteq DOMAIN doc.products
             /\ \A p \in DOMAIN edited : edited[p] = doc.products[p]
             /\ \A p \in DOMAIN doc.products \ DOMAIN edited : DOMAIN doc.products[p] = {}
             /\ \A p \in Known : SettingsPage(doc).product[p] \in Nat \cup {Blank}
<1> DEFINE page == SettingsPage(doc)
           new == [p \in Known |-> WithKey(TableOf(doc.products, p), "per_ip", page.product[p])]
           edited == EditedProducts(doc, page)
<1>1. \A p \in DOMAIN doc.products : doc.products[p] \in Patch
  <2>1. doc.products \in PatchTables(Product)
    BY DEF Documents
  <2> QED
    BY <2>1 DEF PatchTables
<1>2. ASSUME NEW p \in DOMAIN doc.products
      PROVE  /\ doc.products[p] = [f \in DOMAIN doc.products[p] |-> doc.products[p][f]]
             /\ \A f \in DOMAIN doc.products[p] : doc.products[p][f] \in Nat
  <2>1. doc.products[p] \in Patch
    BY <1>1
  <2> QED
    BY <2>1, PolicyAssumption DEF Patch
<1>3. ASSUME NEW p \in Known
      PROVE  page.product[p] = IF p \in DOMAIN doc.products /\ "per_ip" \in DOMAIN doc.products[p]
                               THEN doc.products[p]["per_ip"] ELSE Blank
  BY DEF SettingsPage
<1> HIDE DEF page
<1>4. ASSUME NEW p \in Known, p \in DOMAIN doc.products PROVE new[p] = doc.products[p]
  <2> DEFINE t == doc.products[p]
  <2>1. new[p] = WithKey(t, "per_ip", page.product[p])
    BY <1>4 DEF TableOf
  <2>2. CASE "per_ip" \in DOMAIN t
    <3>1. page.product[p] = t["per_ip"] /\ t["per_ip"] # Blank
      BY <1>2, <1>3, <1>4, <2>2, NumbersAreNumbers
    <3>2. new[p] = [g \in DOMAIN t |-> t[g]]
      BY <2>1, <2>2, <3>1 DEF WithKey
    <3> QED
      BY <3>2, <1>2, <1>4
  <2>3. CASE "per_ip" \notin DOMAIN t
    <3>1. page.product[p] = Blank
      BY <1>3, <2>3
    <3>2. new[p] = [g \in DOMAIN t |-> t[g]]
      BY <2>1, <2>3, <3>1 DEF WithKey
    <3> QED
      BY <3>2, <1>2, <1>4
  <2> QED
    BY <2>2, <2>3
<1>5. ASSUME NEW p \in Known, p \notin DOMAIN doc.products PROVE DOMAIN new[p] = {}
  <2>1. page.product[p] = Blank
    BY <1>3, <1>5
  <2> QED
    BY <2>1, <1>5 DEF TableOf, WithKey
<1>6. edited = [p \in (DOMAIN doc.products \ Known) \cup {q \in Known : DOMAIN new[q] # {}} |->
                  IF p \in Known THEN new[p] ELSE doc.products[p]]
  BY DEF EditedProducts
<1> HIDE DEF new, edited
<1>7. DOMAIN edited \subseteq DOMAIN doc.products
  BY <1>5, <1>6
<1>8. \A p \in DOMAIN edited : edited[p] = doc.products[p]
  BY <1>4, <1>6, <1>7
<1>9. \A p \in DOMAIN doc.products \ DOMAIN edited : DOMAIN doc.products[p] = {}
  BY <1>4, <1>6
<1>10. \A p \in Known : page.product[p] \in Nat \cup {Blank}
  BY <1>2, <1>3
<1> QED
  BY <1>7, <1>8, <1>9, <1>10 DEF page, edited

(* A table written from the lines of a page is the table they were made of. *)
LEMMA VersionLines ==
  ASSUME NEW t, NEW L, t = [p \in DOMAIN t |-> t[p]],
         L = {[pair |-> p, bytes |-> t[p]] : p \in DOMAIN t}
  PROVE  [p \in {line.pair : line \in L} |-> (CHOOSE line \in L : line.pair = p).bytes] = t
<1>1. ASSUME NEW line \in L PROVE line.pair \in DOMAIN t /\ line.bytes = t[line.pair]
  <2>1. PICK p \in DOMAIN t : line = [pair |-> p, bytes |-> t[p]]
    OBVIOUS
  <2> QED
    BY <2>1
<1>2. ASSUME NEW p \in DOMAIN t PROVE \E line \in L : line.pair = p
  <2>1. [pair |-> p, bytes |-> t[p]] \in L
    OBVIOUS
  <2>2. [pair |-> p, bytes |-> t[p]].pair = p
    OBVIOUS
  <2> QED
    BY <2>1, <2>2
<1> DEFINE Chosen(p) == CHOOSE line \in L : line.pair = p
           Written(p) == Chosen(p).bytes
<1>3. ASSUME NEW p \in DOMAIN t PROVE Written(p) = t[p]
  <2>1. Chosen(p) \in L /\ Chosen(p).pair = p
    BY <1>2
  <2> QED
    BY <1>1, <2>1
<1>4. {line.pair : line \in L} = DOMAIN t
  <2>1. \A line \in L : line.pair \in DOMAIN t
    BY <1>1
  <2>2. \A p \in DOMAIN t : \E line \in L : p = line.pair
    BY <1>2
  <2>3. {line.pair : line \in L} \subseteq DOMAIN t
    BY <2>1
  <2>4. DOMAIN t \subseteq {line.pair : line \in L}
    BY <2>2
  <2> QED
    BY <2>3, <2>4
<1>5. [p \in {line.pair : line \in L} |-> Written(p)] = [p \in DOMAIN t |-> Written(p)]
  BY <1>4, Zenon
<1> HIDE DEF Written
<1>6. [p \in DOMAIN t |-> Written(p)] = [p \in DOMAIN t |-> t[p]]
  BY <1>3
<1>7. [p \in {line.pair : line \in L} |-> Written(p)] = t
  BY <1>5, <1>6, Zenon
<1> QED
  BY <1>7 DEF Written

LEMMA LandingLines ==
  ASSUME NEW t, NEW L, t = [p \in DOMAIN t |-> t[p]],
         L = {[product |-> p, channel |-> t[p]] : p \in DOMAIN t}
  PROVE  [p \in {line.product : line \in L} |-> (CHOOSE line \in L : line.product = p).channel] = t
<1>1. ASSUME NEW line \in L PROVE line.product \in DOMAIN t /\ line.channel = t[line.product]
  <2>1. PICK p \in DOMAIN t : line = [product |-> p, channel |-> t[p]]
    OBVIOUS
  <2> QED
    BY <2>1
<1>2. ASSUME NEW p \in DOMAIN t PROVE \E line \in L : line.product = p
  <2>1. [product |-> p, channel |-> t[p]] \in L
    OBVIOUS
  <2>2. [product |-> p, channel |-> t[p]].product = p
    OBVIOUS
  <2> QED
    BY <2>1, <2>2
<1> DEFINE Chosen(p) == CHOOSE line \in L : line.product = p
           Written(p) == Chosen(p).channel
<1>3. ASSUME NEW p \in DOMAIN t PROVE Written(p) = t[p]
  <2>1. Chosen(p) \in L /\ Chosen(p).product = p
    BY <1>2
  <2> QED
    BY <1>1, <2>1
<1>4. {line.product : line \in L} = DOMAIN t
  <2>1. \A line \in L : line.product \in DOMAIN t
    BY <1>1
  <2>2. \A p \in DOMAIN t : \E line \in L : p = line.product
    BY <1>2
  <2>3. {line.product : line \in L} \subseteq DOMAIN t
    BY <2>1
  <2>4. DOMAIN t \subseteq {line.product : line \in L}
    BY <2>2
  <2> QED
    BY <2>3, <2>4
<1>5. [p \in {line.product : line \in L} |-> Written(p)] = [p \in DOMAIN t |-> Written(p)]
  BY <1>4, Zenon
<1> HIDE DEF Written
<1>6. [p \in DOMAIN t |-> Written(p)] = [p \in DOMAIN t |-> t[p]]
  BY <1>3
<1>7. [p \in {line.product : line \in L} |-> Written(p)] = t
  BY <1>5, <1>6, Zenon
<1> QED
  BY <1>7 DEF Written

LEMMA PageTables ==
  ASSUME NEW doc \in Documents
  PROVE  LET page == SettingsPage(doc)
             staged == Staged(doc, page)
         IN  /\ staged.allowed = doc.allowed
             /\ staged.default_channel = doc.default_channel
             /\ \A line \in page.versions : \A b \in line.bytes : b \in Nat
             /\ \A line \in page.landing : line.product # "" /\ line.channel # ""
<1> DEFINE page == SettingsPage(doc)
           staged == Staged(doc, page)
<1>1. /\ doc.allowed \in Tables(Product \X STRING, SUBSET Nat)
      /\ doc.default_channel \in Tables(STRING \ {""}, STRING \ {""})
  BY DEF Documents
<1>2. /\ doc.allowed = [p \in DOMAIN doc.allowed |-> doc.allowed[p]]
      /\ \A p \in DOMAIN doc.allowed : \A b \in doc.allowed[p] : b \in Nat
  <2> DEFINE t == doc.allowed
  <2>1. PICK R \in SUBSET (Product \X STRING) : t \in [R -> SUBSET Nat]
    BY <1>1 DEF Tables
  <2> HIDE DEF t
  <2>2. t = [p \in DOMAIN t |-> t[p]] /\ \A p \in DOMAIN t : \A b \in t[p] : b \in Nat
    BY <2>1
  <2> QED
    BY <2>2 DEF t
<1>3. /\ doc.default_channel = [p \in DOMAIN doc.default_channel |-> doc.default_channel[p]]
      /\ \A p \in DOMAIN doc.default_channel : p # "" /\ doc.default_channel[p] # ""
  <2> DEFINE t == doc.default_channel
  <2>1. PICK R \in SUBSET (STRING \ {""}) : t \in [R -> STRING \ {""}]
    BY <1>1 DEF Tables
  <2> HIDE DEF t
  <2>2. t = [p \in DOMAIN t |-> t[p]] /\ \A p \in DOMAIN t : p # "" /\ t[p] # ""
    BY <2>1
  <2> QED
    BY <2>2 DEF t
<1>4. page.versions = {[pair |-> p, bytes |-> doc.allowed[p]] : p \in DOMAIN doc.allowed}
  BY DEF SettingsPage
<1>5. page.landing = {[product |-> p, channel |-> doc.default_channel[p]] : p \in DOMAIN doc.default_channel}
  BY DEF SettingsPage
<1>6. /\ staged.allowed = [p \in {line.pair : line \in page.versions} |->
                              (CHOOSE line \in page.versions : line.pair = p).bytes]
      /\ staged.default_channel = [p \in {line.product : line \in page.landing} |->
                                     (CHOOSE line \in page.landing : line.product = p).channel]
  BY DEF Staged
<1> HIDE DEF page, staged
<1>9. staged.allowed = doc.allowed
  <2> DEFINE t == doc.allowed
             L == page.versions
  <2>1. t = [p \in DOMAIN t |-> t[p]] /\ L = {[pair |-> p, bytes |-> t[p]] : p \in DOMAIN t}
    BY <1>2, <1>4
  <2> HIDE DEF t, L
  <2>2. [p \in {line.pair : line \in L} |-> (CHOOSE line \in L : line.pair = p).bytes] = t
    BY <2>1, VersionLines
  <2> QED
    BY <1>6, <2>2 DEF t, L
<1>10. staged.default_channel = doc.default_channel
  BY <1>3, <1>5, <1>6, LandingLines
<1>11. ASSUME NEW line \in page.versions, NEW b \in line.bytes PROVE b \in Nat
  <2>1. PICK p \in DOMAIN doc.allowed : line = [pair |-> p, bytes |-> doc.allowed[p]]
    BY <1>4
  <2>2. line.bytes = doc.allowed[p]
    BY <2>1
  <2> QED
    BY <1>2, <2>2
<1>12. ASSUME NEW line \in page.landing PROVE line.product # "" /\ line.channel # ""
  <2>1. PICK p \in DOMAIN doc.default_channel : line = [product |-> p, channel |-> doc.default_channel[p]]
    BY <1>5
  <2>2. line.product = p /\ line.channel = doc.default_channel[p]
    BY <2>1
  <2> QED
    BY <1>3, <2>2
<1> QED
  BY <1>9, <1>10, <1>11, <1>12 DEF page, staged

(* Every channel table is found again under its name, with the options the *)
(* page does not show.                                                     *)
LEMMA PageChannels ==
  ASSUME NEW doc \in Documents, ChannelsValid(doc), doc.inline = {}
  PROVE  LET lines == SettingsPage(doc).channels
         IN  /\ DOMAIN lines = DOMAIN doc.defined
             /\ \A i \in DOMAIN doc.defined :
                  /\ lines[i].name # "" /\ NumberOrBlank(lines[i].max_users)
                  /\ EditedChannel(doc, lines[i]) \in ChannelTable
                  /\ EditedChannel(doc, lines[i]).name = doc.defined[i].name
                  /\ EditedChannel(doc, lines[i]).telnet = doc.defined[i].telnet
                  /\ EditedChannel(doc, lines[i]).min_flag = doc.defined[i].min_flag
                  /\ ResolvedChannel(EditedChannel(doc, lines[i])) = ResolvedChannel(doc.defined[i])
<1> DEFINE lines == SettingsPage(doc).channels
<1>1. lines = [i \in DOMAIN doc.defined |->
                 [name |-> doc.defined[i].name,
                  max_users |-> IF doc.defined[i].max_users = None THEN Blank ELSE doc.defined[i].max_users,
                  products |-> IF doc.defined[i].products = None THEN {} ELSE doc.defined[i].products,
                  public |-> doc.defined[i].public, persist |-> doc.defined[i].persist]]
  BY DEF SettingsPage, ChannelLines
<1> HIDE DEF lines
<1>2. ASSUME NEW i \in DOMAIN doc.defined
      PROVE  /\ lines[i].name # "" /\ NumberOrBlank(lines[i].max_users)
             /\ EditedChannel(doc, lines[i]) \in ChannelTable
             /\ EditedChannel(doc, lines[i]).name = doc.defined[i].name
             /\ EditedChannel(doc, lines[i]).telnet = doc.defined[i].telnet
             /\ EditedChannel(doc, lines[i]).min_flag = doc.defined[i].min_flag
             /\ ResolvedChannel(EditedChannel(doc, lines[i])) = ResolvedChannel(doc.defined[i])
  <2> DEFINE c == doc.defined[i]
             line == lines[i]
             named == {j \in DOMAIN doc.defined : doc.defined[j].name = line.name}
             edited == EditedChannel(doc, line)
  <2>1. /\ line.name = c.name /\ line.max_users = IF c.max_users = None THEN Blank ELSE c.max_users
        /\ line.products = IF c.products = None THEN {} ELSE c.products
        /\ line.public = c.public /\ line.persist = c.persist
    BY <1>1
  <2>2. c \in ChannelTable /\ i \in Nat
    <3>1. doc.defined \in Seq(ChannelTable)
      BY DEF Documents
    <3> QED
      BY <3>1
  <2>3. named = {i}
    BY <2>1 DEF ChannelsValid
  <2>4. (CHOOSE j \in named : \A k \in named : k <= j) = i
    <3>1. i <= i
      BY <2>2
    <3>2. \E j \in named : \A k \in named : k <= j
      BY <2>3, <3>1
    <3> QED
      BY <2>3, <3>2
  <2>5. edited = [c EXCEPT !.name = line.name,
                           !.max_users = IF line.max_users = Blank THEN None ELSE line.max_users,
                           !.products = IF line.products = {} THEN None ELSE line.products,
                           !.public = line.public, !.persist = line.persist]
    BY <2>3, <2>4 DEF EditedChannel
  <2> HIDE DEF line, c, named, edited
  <2>6. /\ c.max_users \in Nat \cup {None} /\ c.products \in (SUBSET Product) \cup {None}
        /\ c.public \in BOOLEAN \cup {None} /\ c.persist \in BOOLEAN \cup {None}
        /\ c.name \in STRING
    BY <2>2 DEF ChannelTable
  <2>7. NumberOrBlank(line.max_users) /\ (IF line.max_users = Blank THEN None ELSE line.max_users) = c.max_users
    <3>1. CASE c.max_users = None
      BY <2>1, <3>1 DEF NumberOrBlank
    <3>2. CASE c.max_users # None
      <4>1. line.max_users = c.max_users /\ c.max_users \in Nat
        BY <2>1, <2>6, <3>2
      <4> QED
        BY <4>1, NumbersAreNumbers
    <3> QED
      BY <3>1, <3>2
  <2> DEFINE products == IF line.products = {} THEN None ELSE line.products
  <2>8. /\ products \in (SUBSET Product) \cup {None}
        /\ (IF products = None THEN {} ELSE products) = IF c.products = None THEN {} ELSE c.products
    BY <2>1, <2>6
  <2> HIDE DEF products
  <2>9. edited = [c EXCEPT !.products = products]
    <3>1. edited = [c EXCEPT !.name = c.name, !.max_users = c.max_users, !.products = products,
                             !.public = c.public, !.persist = c.persist]
      BY <2>1, <2>5, <2>7 DEF products
    <3> QED
      BY <2>2, <3>1 DEF ChannelTable
  <2>10. edited \in ChannelTable
    BY <2>2, <2>8, <2>9 DEF ChannelTable
  <2>11. edited.name = c.name /\ edited.telnet = c.telnet /\ edited.min_flag = c.min_flag
    BY <2>2, <2>9 DEF ChannelTable
  <2>12. ResolvedChannel(edited) = ResolvedChannel(c)
    BY <2>2, <2>8, <2>9 DEF ChannelTable, ResolvedChannel
  <2>13. line.name # ""
    BY <2>1 DEF ChannelsValid, c
  <2> QED
    BY <2>7, <2>10, <2>11, <2>12, <2>13 DEF line, c, edited
<1> QED
  BY <1>1, <1>2 DEF lines

(* The third of these for a mode, as the limits below need it.             *)
LEMMA PageClassLimits ==
  ASSUME NEW doc \in Documents, NEW mode \in Mode, NEW c \in FixedClass, NEW f \in LimitField
  PROVE  Patched(DefaultLimits(mode).fixed[c], EditedClass(SettingsPage(doc).box, c))[f] =
           PatchedFixed(DefaultLimits(mode).fixed, doc.fixed)[c][f]
  BY PageClasses

(* The page, sent back, is a form the save accepts.                        *)
LEMMA PageAccepted ==
  ASSUME NEW doc \in Documents, StartAccepts(doc), HouseStyle(doc)
  PROVE  ~FormRefused(SettingsPage(doc))
<1> DEFINE page == SettingsPage(doc)
<1>1. /\ doc.inline = {} /\ ChannelsValid(doc) /\ Validates(doc)
  BY DEF StartAccepts, HouseStyle
<1>2. ASSUME NEW f \in IntField PROVE Number(page.int[f])
  <2>1. page.int[f] = Num(doc, f)
    BY DEF SettingsPage
  <2> QED
    BY <2>1, PageNumbers, NumbersAreNumbers
<1>3. ASSUME NEW b \in ClassBox
      PROVE  NumberOrBlank(page.box[b]) /\ (b \in RequiredBox => Number(page.box[b]))
  <2>1. PICK c \in FixedClass, f \in LimitField : b = <<c, f>>
    BY DEF ClassBox
  <2>2. page.box[b] \in Nat \cup {Blank} /\ (b \in RequiredBox => page.box[b] \in Nat)
    BY <2>1, PageClasses
  <2> QED
    BY <2>2, NumbersAreNumbers DEF NumberOrBlank
<1>4. RequiredBox \subseteq ClassBox
  BY DEF RequiredBox, ClassBox, LimitField
<1>5. page.node => page.str["hub"] # ""
  <2>1. page.node = doc.enabled
    BY DEF SettingsPage
  <2>2. page.str["hub"] = Str(doc, "hub")
    BY PageStrings DEF ShownString
  <2> QED
    BY <1>1, <2>1, <2>2 DEF Validates
<1>6. ASSUME NEW p \in Known PROVE NumberOrBlank(page.product[p])
  <2>1. page.product[p] \in Nat \cup {Blank}
    BY <1>1, PageProducts
  <2> QED
    BY <2>1, NumbersAreNumbers DEF NumberOrBlank
<1>7. \A line \in page.versions : \A b \in line.bytes : Number(b)
  BY PageTables, NumbersAreNumbers
<1>8. \A line \in page.landing : line.product # "" /\ line.channel # ""
  BY PageTables
<1>9. \A i \in DOMAIN page.channels : page.channels[i].name # "" /\ NumberOrBlank(page.channels[i].max_users)
  BY <1>1, PageChannels
<1> HIDE DEF page
<1>10. ~FormRefused(page)
  BY <1>2, <1>3, <1>4, <1>5, <1>6, <1>7, <1>8, <1>9 DEF FormRefused
<1> QED
  BY <1>10 DEF page

(* The limits of the staged document are those of the one it was made of.  *)
LEMMA StagedLimits ==
  ASSUME NEW doc \in Documents, doc.inline = {}, NEW mode \in Mode
  PROVE  LET old == EffectivePolicy(mode, Patches(doc)).clients
             new == EffectivePolicy(mode, Patches(Staged(doc, SettingsPage(doc)))).clients
         IN  /\ new.fixed = old.fixed
             /\ \A p \in Product : ForProduct(new, p) = ForProduct(old, p)
<1> DEFINE page == SettingsPage(doc)
           staged == Staged(doc, page)
           base == DefaultLimits(mode)
           fixed == PatchedFixed(base.fixed, doc.fixed)
           Table(q, t) == [p \in DOMAIN t |-> Patched(q["game_default"], t[p])]
           old == WithPatches(base, Patches(doc))
           new == WithPatches(base, Patches(staged))
<1>1. /\ staged.fixed = [c \in FixedClass |-> EditedClass(page.box, c)]
      /\ staged.products = EditedProducts(doc, page)
  BY DEF Staged
<1>2. PatchedFixed(base.fixed, staged.fixed) = fixed
  <2>1. ASSUME NEW c \in FixedClass PROVE PatchedFixed(base.fixed, staged.fixed)[c] = fixed[c]
    <3>1. PatchedFixed(base.fixed, staged.fixed)[c] = Patched(base.fixed[c], EditedClass(page.box, c))
      BY <1>1 DEF PatchedFixed
    <3>2. ASSUME NEW f \in LimitField
          PROVE  Patched(base.fixed[c], EditedClass(page.box, c))[f] = fixed[c][f]
      <4>1. Patched(DefaultLimits(mode).fixed[c], EditedClass(SettingsPage(doc).box, c))[f] =
              PatchedFixed(DefaultLimits(mode).fixed, doc.fixed)[c][f]
        BY PageClassLimits
      <4> QED
        BY <4>1
    <3>3. Patched(base.fixed[c], EditedClass(page.box, c)) =
            [f \in LimitField |-> Patched(base.fixed[c], EditedClass(page.box, c))[f]]
      BY DEF Patched
    <3>4. fixed[c] = [f \in LimitField |-> fixed[c][f]]
      <4>1. fixed[c] \in U32Limits
        <5>1. base.fixed \in [FixedClass -> U32Limits]
          BY DefaultsType
        <5>2. doc.fixed \in PatchTables(FixedClass)
          BY DEF Documents
        <5>3. \A k \in DOMAIN doc.fixed : doc.fixed[k] \in Patch
          BY <5>2 DEF PatchTables
        <5> QED
          BY <5>1, <5>3, PatchedType DEF PatchedFixed
      <4> QED
        BY <4>1 DEF U32Limits
    <3> QED
      BY <3>1, <3>2, <3>3, <3>4
  <2>2. /\ PatchedFixed(base.fixed, staged.fixed) =
             [c \in FixedClass |-> PatchedFixed(base.fixed, staged.fixed)[c]]
        /\ fixed = [c \in FixedClass |-> fixed[c]]
    BY DEF PatchedFixed
  <2> QED
    BY <2>1, <2>2
<1> HIDE DEF fixed
<1>3. /\ old = [fixed |-> fixed, products |-> Table(fixed, doc.products)]
      /\ new = [fixed |-> fixed, products |-> Table(fixed, staged.products)]
  <2>1. old = [fixed |-> PatchedFixed(base.fixed, doc.fixed),
               products |-> Table(PatchedFixed(base.fixed, doc.fixed), doc.products)]
    BY PatchedLimits DEF Patches
  <2>2. new = [fixed |-> PatchedFixed(base.fixed, staged.fixed),
               products |-> Table(PatchedFixed(base.fixed, staged.fixed), staged.products)]
    BY PatchedLimits DEF Patches
  <2> QED
    BY <1>2, <2>1, <2>2 DEF fixed
<1>4. /\ DOMAIN staged.products \subseteq DOMAIN doc.products
      /\ \A p \in DOMAIN staged.products : staged.products[p] = doc.products[p]
      /\ \A p \in DOMAIN doc.products \ DOMAIN staged.products : DOMAIN doc.products[p] = {}
  BY <1>1, PageProducts
<1>5. fixed["game_default"] = [f \in LimitField |-> fixed["game_default"][f]]
  <2>1. base.fixed["game_default"] \in U32Limits
    BY DefaultsType DEF FixedClass
  <2> QED
    BY <2>1 DEF fixed, PatchedFixed, Patched, U32Limits, FixedClass
<1>6. ASSUME NEW t, DOMAIN t = {} PROVE Patched(fixed["game_default"], t) = fixed["game_default"]
  BY <1>5, <1>6 DEF Patched
<1>7. EffectivePolicy(mode, Patches(doc)).clients = WidenPending(old)
  BY DEF EffectivePolicy, ForMode
<1>8. EffectivePolicy(mode, Patches(staged)).clients = WidenPending(new)
  BY DEF EffectivePolicy, ForMode
<1> HIDE DEF old, new, staged, page, base
<1>9. \A p : ForProduct(new, p) = ForProduct(old, p)
  BY <1>3, <1>4, <1>6 DEF ForProduct
<1>10. PerIp(new) = PerIp(old)
  BY <1>3, <1>4, <1>6 DEF PerIp
<1>11. new.fixed = old.fixed
  BY <1>3
<1>12. WidenPending(new).fixed = WidenPending(old).fixed
  BY <1>3, <1>10, <1>11 DEF WidenPending, PerIp
<1>13. ASSUME NEW p PROVE ForProduct(WidenPending(new), p) = ForProduct(WidenPending(old), p)
  <2>1. WidenPending(new).products = new.products /\ WidenPending(old).products = old.products
    BY <1>3 DEF WidenPending
  <2>2. /\ WidenPending(new).fixed["game_default"] = new.fixed["game_default"]
        /\ WidenPending(old).fixed["game_default"] = old.fixed["game_default"]
    BY <1>3 DEF WidenPending
  <2>3. ForProduct(WidenPending(new), p) = ForProduct(new, p) /\ ForProduct(WidenPending(old), p) = ForProduct(old, p)
    BY <2>1, <2>2 DEF ForProduct
  <2> QED
    BY <1>9, <2>3
<1> QED
  BY <1>7, <1>8, <1>12, <1>13 DEF staged, page

(* What is staged is what a start reads the same values from, and accepts. *)
LEMMA StagedValues ==
  ASSUME NEW doc \in Documents, StartAccepts(doc), HouseStyle(doc)
  PROVE  LET staged == Staged(doc, SettingsPage(doc))
         IN  /\ \A f \in ShownString : Str(staged, f) = Str(doc, f)
             /\ LogonKnown(Str(staged, "wc3_logon"))
             /\ LegacyLogon(Str(staged, "wc3_logon")) <=> LegacyLogon(Str(doc, "wc3_logon"))
             /\ TelnetAccess(Str(staged, "telnet_access")) = TelnetAccess(Str(doc, "telnet_access"))
             /\ DOMAIN staged.int = IntField /\ \A f \in IntField : Num(staged, f) = Num(doc, f)
             /\ \A f \in Checkbox : Flag(staged, f) = Flag(doc, f)
             /\ staged.enabled = doc.enabled /\ staged.link = doc.link /\ staged.token = doc.token
<1> DEFINE page == SettingsPage(doc)
           staged == Staged(doc, page)
<1>1. /\ staged.str = page.str /\ staged.int = page.int
      /\ staged.flag = [f \in Checkbox |-> f \in page.ticked]
      /\ staged.enabled = page.node /\ staged.link = doc.link /\ staged.token = doc.token
  BY DEF Staged
<1>2. /\ page.int = [f \in IntField |-> Num(doc, f)]
      /\ page.ticked = {f \in Checkbox : Flag(doc, f)} /\ page.node = doc.enabled
  BY DEF SettingsPage
<1>3. /\ DOMAIN page.str = StringField
      /\ \A f \in ShownString : page.str[f] = Str(doc, f)
      /\ LogonKnown(page.str["wc3_logon"])
      /\ LegacyLogon(page.str["wc3_logon"]) <=> LegacyLogon(Str(doc, "wc3_logon"))
      /\ TelnetAccess(page.str["telnet_access"]) = TelnetAccess(Str(doc, "telnet_access"))
  BY PageStrings
<1> HIDE DEF page, staged
<1>4. ASSUME NEW f \in StringField PROVE Str(staged, f) = page.str[f]
  BY <1>1, <1>3 DEF Str
<1>5. ShownString \cup {"wc3_logon", "telnet_access"} \subseteq StringField
  BY DEF StringField, ShownString
<1>6. DOMAIN staged.int = IntField /\ \A f \in IntField : Num(staged, f) = Num(doc, f)
  <2>1. staged.int = [f \in IntField |-> Num(doc, f)]
    BY <1>1, <1>2
  <2>2. DOMAIN staged.int = IntField /\ \A f \in IntField : staged.int[f] = Num(doc, f)
    BY <2>1
  <2>3. \A f \in IntField : Num(staged, f) = staged.int[f]
    BY <2>2 DEF Num
  <2> QED
    BY <2>2, <2>3
<1>7. ASSUME NEW f \in Checkbox PROVE Flag(staged, f) = Flag(doc, f)
  <2>1. Flag(doc, f) \in BOOLEAN
    <3>1. doc.flag \in Tables(Checkbox, BOOLEAN)
      BY DEF Documents
    <3>2. f \in DOMAIN doc.flag => doc.flag[f] \in BOOLEAN
      BY <3>1 DEF Tables
    <3> QED
      BY <3>2 DEF Flag, DefaultFlag
  <2>2. Flag(staged, f) = (f \in page.ticked)
    BY <1>1 DEF Flag
  <2>3. f \in page.ticked <=> Flag(doc, f)
    BY <1>2
  <2> QED
    BY <2>1, <2>2, <2>3
<1>8. \A f \in ShownString : Str(staged, f) = Str(doc, f)
  BY <1>3, <1>4, <1>5
<1>9. Str(staged, "wc3_logon") = page.str["wc3_logon"] /\ Str(staged, "telnet_access") = page.str["telnet_access"]
  BY <1>4, <1>5
<1> QED
  BY <1>1, <1>2, <1>3, <1>6, <1>7, <1>8, <1>9 DEF staged, page

LEMMA StagedChannels ==
  ASSUME NEW doc \in Documents, ChannelsValid(doc), doc.inline = {}
  PROVE  LET defined == Staged(doc, SettingsPage(doc)).defined
         IN  /\ DOMAIN defined = DOMAIN doc.defined
             /\ \A i \in DOMAIN doc.defined :
                  /\ defined[i].name = doc.defined[i].name /\ defined[i].telnet = doc.defined[i].telnet
                  /\ defined[i].min_flag = doc.defined[i].min_flag
                  /\ ResolvedChannel(defined[i]) = ResolvedChannel(doc.defined[i])
<1> DEFINE lines == SettingsPage(doc).channels
           defined == Staged(doc, SettingsPage(doc)).defined
<1>1. defined = [i \in DOMAIN lines |-> EditedChannel(doc, lines[i])]
  BY DEF Staged
<1>2. DOMAIN lines = DOMAIN doc.defined
  BY PageChannels
<1>3. ASSUME NEW i \in DOMAIN doc.defined
      PROVE  /\ EditedChannel(doc, lines[i]).name = doc.defined[i].name
             /\ EditedChannel(doc, lines[i]).telnet = doc.defined[i].telnet
             /\ EditedChannel(doc, lines[i]).min_flag = doc.defined[i].min_flag
             /\ ResolvedChannel(EditedChannel(doc, lines[i])) = ResolvedChannel(doc.defined[i])
  BY PageChannels
<1> HIDE DEF lines, defined
<1>4. DOMAIN defined = DOMAIN doc.defined /\ \A i \in DOMAIN doc.defined : defined[i] = EditedChannel(doc, lines[i])
  BY <1>1, <1>2
<1> QED
  BY <1>3, <1>4 DEF defined

LEMMA StagedAccepted ==
  ASSUME NEW doc \in Documents, StartAccepts(doc), HouseStyle(doc)
  PROVE  StartAccepts(Staged(doc, SettingsPage(doc)))
<1> DEFINE staged == Staged(doc, SettingsPage(doc))
<1>1. /\ Parses(doc) /\ Validates(doc) /\ VersionsValid(doc) /\ ChannelsValid(doc) /\ doc.inline = {}
  BY DEF StartAccepts, HouseStyle
<1>2. /\ \A f \in ShownString : Str(staged, f) = Str(doc, f)
      /\ LogonKnown(Str(staged, "wc3_logon"))
      /\ TelnetAccess(Str(staged, "telnet_access")) = TelnetAccess(Str(doc, "telnet_access"))
      /\ DOMAIN staged.int = IntField /\ \A f \in IntField : Num(staged, f) = Num(doc, f)
      /\ \A f \in Checkbox : Flag(staged, f) = Flag(doc, f)
      /\ staged.enabled = doc.enabled /\ staged.link = doc.link /\ staged.token = doc.token
  BY StagedValues
<1>3. staged.allowed = doc.allowed
  BY PageTables
<1>4. DOMAIN staged.products \subseteq DOMAIN doc.products
  <2>1. staged.products = EditedProducts(doc, SettingsPage(doc))
    BY DEF Staged
  <2> QED
    BY <1>1, <2>1, PageProducts
<1>5. /\ DOMAIN staged.defined = DOMAIN doc.defined
      /\ \A i \in DOMAIN doc.defined :
           /\ staged.defined[i].name = doc.defined[i].name /\ staged.defined[i].telnet = doc.defined[i].telnet
           /\ staged.defined[i].min_flag = doc.defined[i].min_flag
  BY <1>1, StagedChannels
<1> HIDE DEF staged
<1>6. Parses(staged)
  <2>1. \A f \in IntField : Num(doc, f) <= U32Max
    BY <1>1, PageNumbers
  <2>2. \A f \in IntField : staged.int[f] = Num(staged, f)
    BY <1>2 DEF Num
  <2> QED
    BY <1>1, <1>2, <2>1, <2>2 DEF Parses, ShownString
<1>7. Validates(staged)
  BY <1>1, <1>2, <1>4 DEF Validates, IntField, ShownString
<1>8. VersionsValid(staged)
  BY <1>1, <1>2, <1>3 DEF VersionsValid, Checkbox
<1>9. ChannelsValid(staged)
  BY <1>1, <1>2, <1>5 DEF ChannelsValid
<1> QED
  BY <1>6, <1>7, <1>8, <1>9 DEF StartAccepts, staged

(* Opening the settings page and saving it as it is changes nothing the    *)
(* server runs with, for every document a start accepts that is written    *)
(* the way the panel writes: the page and the save agree on every default, *)
(* and options the page does not show survive (status.rs,                  *)
(* do_settings_config).                                                    *)
THEOREM UntouchedPageSavesItself ==
  \A doc \in Documents : StartAccepts(doc) /\ HouseStyle(doc) => SavesItself(doc)
<1> SUFFICES ASSUME NEW doc \in Documents, StartAccepts(doc), HouseStyle(doc)
             PROVE  SavesItself(doc)
  OBVIOUS
<1> DEFINE staged == Staged(doc, SettingsPage(doc))
           mode == Str(doc, "mode")
<1>1. Save(doc, SettingsPage(doc)) = staged
  BY PageAccepted, StagedAccepted DEF Save
<1>2. mode \in Mode /\ ChannelsValid(doc) /\ doc.inline = {}
  BY DEF StartAccepts, Validates, HouseStyle
<1>3. /\ \A f \in ShownString : Str(staged, f) = Str(doc, f)
      /\ LegacyLogon(Str(staged, "wc3_logon")) <=> LegacyLogon(Str(doc, "wc3_logon"))
      /\ TelnetAccess(Str(staged, "telnet_access")) = TelnetAccess(Str(doc, "telnet_access"))
      /\ \A f \in IntField : Num(staged, f) = Num(doc, f)
      /\ \A f \in Checkbox : Flag(staged, f) = Flag(doc, f)
      /\ staged.enabled = doc.enabled /\ staged.link = doc.link
  BY StagedValues
<1>4. staged.allowed = doc.allowed /\ staged.default_channel = doc.default_channel
  BY PageTables
<1>5. {ResolvedChannel(staged.defined[i]) : i \in DOMAIN staged.defined} =
        {ResolvedChannel(doc.defined[i]) : i \in DOMAIN doc.defined}
  <2>1. /\ DOMAIN staged.defined = DOMAIN doc.defined
        /\ \A i \in DOMAIN doc.defined : ResolvedChannel(staged.defined[i]) = ResolvedChannel(doc.defined[i])
    BY <1>2, StagedChannels
  <2> QED
    BY <2>1
<1> DEFINE old == EffectivePolicy(mode, Patches(doc))
           new == EffectivePolicy(mode, Patches(staged))
<1>6. new.clients.fixed = old.clients.fixed /\ \A p \in Product : ForProduct(new.clients, p) = ForProduct(old.clients, p)
  BY <1>2, StagedLimits
<1>7. new.allowed = old.allowed
  BY DEF EffectivePolicy, ForMode
<1>8. (LegacyLogon(Str(staged, "wc3_logon"))) = (LegacyLogon(Str(doc, "wc3_logon")))
  BY <1>3 DEF LegacyLogon
<1> HIDE DEF staged, mode, old, new
<1>9. [p \in Product |-> ForProduct(new.clients, p)] = [p \in Product |-> ForProduct(old.clients, p)]
  BY <1>6
<1>10. /\ EffectivePolicy(Str(staged, "mode"), Patches(staged)) = new
       /\ EffectivePolicy(Str(doc, "mode"), Patches(doc)) = old
  BY <1>3 DEF mode, old, new, ShownString
<1>11. /\ Num(staged, "outbound_queue") = Num(doc, "outbound_queue")
       /\ Num(staged, "max_frame_bytes") = Num(doc, "max_frame_bytes")
       /\ Num(staged, "d2_max_characters") = Num(doc, "d2_max_characters")
       /\ Flag(staged, "d2_realm") = Flag(doc, "d2_realm")
       /\ Flag(staged, "versions_restrict") = Flag(doc, "versions_restrict")
  BY <1>3 DEF IntField, Checkbox
<1>12. /\ Str(staged, "server_name") = Str(doc, "server_name")
       /\ Str(staged, "mode") = Str(doc, "mode")
       /\ Str(staged, "storage_path") = Str(doc, "storage_path")
       /\ Str(staged, "status_listen") = Str(doc, "status_listen")
  BY <1>3 DEF ShownString
<1>13. Effective(staged) = Effective(doc)
  BY <1>3, <1>12, <1>4, <1>5, <1>6, <1>7, <1>8, <1>9, <1>10, <1>11, Zenon DEF Effective
<1> QED
  BY <1>1, <1>13 DEF SavesItself

-----------------------------------------------------------------------------
(* The admin panel.                                                        *)

Credential == [password : Password \cup {Generated}, must_change : BOOLEAN, remote : BOOLEAN]

(* What a connection may be doing: nothing or an errand to the storage     *)
(* actor, having a password checked, or saving a document.                 *)
RequestOK(r) ==
  \/ r \in [at : {"idle", "persist", "edit", "list"}]
  \/ r \in [at : {"verify"}, ip : Ip, password : Password \cup {Generated}]
  \/ r \in [at : {"save", "write"}, doc : {r.doc}]

(* The state a first run, a restart and the requests work on: nothing is   *)
(* under way while the daemon is not.                                      *)
PanelTypeOK ==
  /\ phase \in {"down", "up", "refused"}
  /\ admin \in Credential \cup {None}
  /\ disk \in Credential \cup {None, Truncated}
  /\ request = [c \in Conn |-> request[c]]
  /\ \A c \in Conn : RequestOK(request[c])
  /\ phase # "up" => \A c \in Conn : request[c] = Idle
  /\ \A c \in Conn : request[c].at = "persist" => admin # None
  /\ clock \in 0..MaxTime
  /\ overlapped \in BOOLEAN

(* Requests that touch neither credentials, nor the limiter, nor the file. *)
Errand == {"idle", "edit", "list"}
Elsewhere ==
  /\ UNCHANGED <<phase, file, spoiled, disk, admin, rate, clock, generated, guesses, overlapped>>
  /\ \/ UNCHANGED request
     \/ \E c \in Conn, r \in [at : Errand] :
          /\ request[c].at \in Errand /\ Goes(c, r)
          /\ phase = "up" \/ request[c] # Idle

(* Every step of the panel is of one of these kinds.                       *)
LEMMA PanelSteps ==
  ASSUME [PanelNext]_panelVars
  PROVE  \/ StartDaemon \/ StopDaemon \/ Mend \/ ClockTick \/ Elsewhere
         \/ \E c \in Conn :
              \/ \E ip \in Ip, p \in Password \cup {Generated} : Login(c, ip, p)
              \/ LoggedIn(c) \/ LoginFails(c)
              \/ \E ip \in Ip, t \in Token, p \in Password : ChangePassword(c, ip, t, p)
              \/ \E ip \in Ip, t \in Token, on \in BOOLEAN : SetRemote(c, ip, t, on)
              \/ \E ok \in BOOLEAN : Persisted(c, ok)
              \/ \E ip \in Ip, t \in Token, form \in Form \cup {SettingsPage(Document(file))} :
                   SaveSettings(c, ip, t, form)
              \/ OpenForWriting(c) \/ Write(c)
<1>1. CASE UNCHANGED panelVars
  BY <1>1 DEF panelVars, panel, Elsewhere
<1>2. CASE Actor
  BY <1>2 DEF Actor, panel, Elsewhere
<1>3. ASSUME NEW c \in Conn, Public(c) PROVE \/ Elsewhere
                                            \/ \E ip \in Ip, p \in Password \cup {Generated} : Login(c, ip, p)
  BY <1>3 DEF Public, Logout, Expired, Elsewhere, saved
<1>4. ASSUME NEW c \in Conn, NEW ip \in Ip, NEW t \in Token, NEW command, EditUser(c, ip, t, command)
      PROVE  Elsewhere
  <2>1. request[c].at \in Errand
    BY <1>4 DEF EditUser, MayAct, Admitted, Arrives, Idle, Errand
  <2>2. [at |-> "edit"] \in [at : Errand] /\ phase = "up"
    BY <1>4 DEF EditUser, MayAct, Admitted, Arrives, Errand
  <2> QED
    BY <1>4, <2>1, <2>2 DEF EditUser, Elsewhere, saved
<1>5. ASSUME NEW c \in Conn, UserEdited(c) \/ UsersListed(c)
      PROVE  Elsewhere
  <2>1. request[c].at \in Errand /\ request[c] # Idle
    BY <1>5 DEF UserEdited, UsersListed, Idle, Errand
  <2>2. [at |-> "list"] \in [at : Errand] /\ Idle \in [at : Errand]
    BY DEF Errand, Idle
  <2>3. Goes(c, [at |-> "list"]) \/ Goes(c, Idle)
    BY <1>5 DEF UserEdited, UsersListed
  <2>4. UNCHANGED <<phase, file, spoiled, disk, admin, rate, clock, generated, guesses, overlapped>>
    BY <1>5 DEF UserEdited, UsersListed, counters, saved
  <2> QED
    BY <2>1, <2>2, <2>3, <2>4 DEF Elsewhere
<1>6. ASSUME NEW c \in Conn, Private(c)
      PROVE  \/ Elsewhere
             \/ \E ip \in Ip, t \in Token, p \in Password : ChangePassword(c, ip, t, p)
             \/ \E ip \in Ip, t \in Token, on \in BOOLEAN : SetRemote(c, ip, t, on)
             \/ \E ip \in Ip, t \in Token, form \in Form \cup {SettingsPage(Document(file))} :
                  SaveSettings(c, ip, t, form)
  BY <1>4, <1>6 DEF Private
<1>7. ASSUME NEW c \in Conn, Continues(c)
      PROVE  \/ Elsewhere \/ LoggedIn(c) \/ LoginFails(c)
             \/ \E ok \in BOOLEAN : Persisted(c, ok)
             \/ OpenForWriting(c) \/ Write(c)
  BY <1>5, <1>7 DEF Continues
<1> QED
  BY <1>1, <1>2, <1>3, <1>6, <1>7 DEF PanelNext

(* A request that moves moves alone.                                       *)
LEMMA Moves ==
  ASSUME PanelTypeOK, NEW c \in Conn, NEW to, Goes(c, to)
  PROVE  /\ request' = [d \in Conn |-> request'[d]]
         /\ request'[c] = to
         /\ \A d \in Conn \ {c} : request'[d] = request[d]
  BY DEF PanelTypeOK, Goes

(* The assumption about the credentials, as the steps use it.              *)
LEMMA CredentialsAreFiles ==
  /\ None \notin Credential /\ Truncated \notin Credential /\ Truncated # None
  /\ \A d \in Credential \cup {None, Truncated} : Credentials(d) \in Credential \cup {None}
  /\ Credentials(None) \in Credential
  /\ \A d \in Credential : Credentials(d) = d
  /\ Credentials(Truncated) = None
<1>1. None \notin Credential /\ Truncated \notin Credential /\ Truncated # None
  BY PanelAssumption DEF Credential
<1>2. [password |-> Generated, must_change |-> TRUE, remote |-> FALSE] \in Credential
  BY DEF Credential
<1> QED
  BY <1>1, <1>2 DEF Credentials

(* A move to an idle state, or to any state while the daemon is up, keeps  *)
(* the types if nothing else of theirs changes.                            *)
LEMMA MoveKeepsType ==
  ASSUME PanelTypeOK, NEW c \in Conn, NEW to, Goes(c, to), RequestOK(to), to.at # "persist",
         phase = "up" \/ request[c] # Idle,
         UNCHANGED <<phase, admin, clock>>, disk' \in Credential \cup {None, Truncated},
         overlapped' \in BOOLEAN
  PROVE  PanelTypeOK'
<1>1. phase = "up"
  BY DEF PanelTypeOK
<1> QED
  BY <1>1, Moves DEF PanelTypeOK

LEMMA PanelTypeInit == PanelInit => PanelTypeOK
<1> SUFFICES ASSUME PanelInit PROVE PanelTypeOK
  OBVIOUS
<1>1. request = [c \in Conn |-> Idle] /\ RequestOK(Idle) /\ Idle.at = "idle"
  BY DEF PanelInit, RequestOK, Idle
<1>2. clock \in 0..MaxTime
  BY PanelAssumption DEF PanelInit
<1> QED
  BY <1>1, <1>2 DEF PanelInit, PanelTypeOK

(* The credentials a request would put in place.                           *)
LEMMA PersistType ==
  ASSUME PanelTypeOK, NEW c \in Conn, NEW ip \in Ip, NEW t \in Token,
         \/ \E p \in Password : ChangePassword(c, ip, t, p)
         \/ \E on \in BOOLEAN : SetRemote(c, ip, t, on)
  PROVE  /\ admin' \in Credential
         /\ phase = "up" /\ disk' \in {disk, Truncated}
         /\ Goes(c, [at |-> "persist"]) /\ request[c] = Idle
         /\ UNCHANGED <<phase, file, spoiled, rate, clock, generated, guesses, overlapped>>
<1>1. admin \in Credential
  BY DEF PanelTypeOK, ChangePassword, SetRemote, MayAct, Admitted, Arrives
<1>2. CASE \E p \in Password : ChangePassword(c, ip, t, p)
  <2>1. PICK p \in Password : ChangePassword(c, ip, t, p)
    BY <1>2
  <2>2. admin' = [admin EXCEPT !.password = p, !.must_change = FALSE]
    BY <2>1 DEF ChangePassword, Persist
  <2>3. admin' \in Credential
    BY <1>1, <2>2 DEF Credential
  <2> QED
    BY <2>1, <2>3 DEF ChangePassword, Persist, Admitted, Arrives, saved
<1>3. CASE \E on \in BOOLEAN : SetRemote(c, ip, t, on)
  <2>1. PICK on \in BOOLEAN : SetRemote(c, ip, t, on)
    BY <1>3
  <2>2. admin' = [admin EXCEPT !.remote = on]
    BY <2>1 DEF SetRemote, Persist
  <2>3. admin' \in Credential
    BY <1>1, <2>2 DEF Credential
  <2> QED
    BY <2>1, <2>3 DEF SetRemote, Persist, MayAct, Admitted, Arrives, saved
<1> QED
  BY <1>2, <1>3

(* Types are kept by every step.                                           *)
LEMMA PanelTypeStep ==
  ASSUME PanelTypeOK, [PanelNext]_panelVars
  PROVE  PanelTypeOK'
<1>1. CASE StartDaemon
  <2>1. admin' \in Credential \cup {None} /\ disk' \in Credential \cup {None, Truncated}
    BY <1>1, CredentialsAreFiles DEF PanelTypeOK, StartDaemon
  <2>2. phase' \in {"up", "refused"} /\ UNCHANGED <<request, clock, overlapped>>
    BY <1>1 DEF StartDaemon
  <2>3. \A c \in Conn : request[c] = Idle
    BY <1>1 DEF PanelTypeOK, StartDaemon
  <2> QED
    BY <2>1, <2>2, <2>3 DEF PanelTypeOK, RequestOK, Idle
<1>2. CASE StopDaemon
  BY <1>2 DEF PanelTypeOK, StopDaemon, RequestOK, Idle
<1>3. CASE Mend
  BY <1>3 DEF PanelTypeOK, Mend, RequestOK, Idle, counters
<1>4. CASE ClockTick
  <2>1. clock' \in 0..MaxTime
    BY <1>4, PanelAssumption DEF PanelTypeOK, ClockTick
  <2> QED
    BY <1>4, <2>1 DEF PanelTypeOK, ClockTick, RequestOK
<1>5. CASE Elsewhere
  <2>1. CASE UNCHANGED request
    BY <1>5, <2>1 DEF PanelTypeOK, Elsewhere, RequestOK
  <2>2. ASSUME NEW c \in Conn, NEW r \in [at : Errand], Goes(c, r), phase = "up" \/ request[c] # Idle
        PROVE  PanelTypeOK'
    <3>1. RequestOK(r) /\ r.at # "persist"
      BY DEF RequestOK, Errand
    <3> QED
      BY <1>5, <2>2, <3>1, MoveKeepsType DEF Elsewhere, PanelTypeOK
  <2> QED
    BY <1>5, <2>1, <2>2 DEF Elsewhere
<1>6. ASSUME NEW c \in Conn,
             \/ \E ip \in Ip, p \in Password \cup {Generated} : Login(c, ip, p)
             \/ \E ip \in Ip, t \in Token, form \in Form \cup {SettingsPage(Document(file))} :
                  SaveSettings(c, ip, t, form)
      PROVE  PanelTypeOK'
  <2>1. PICK to : RequestOK(to) /\ to.at # "persist" /\ Goes(c, to)
    BY <1>6 DEF Login, SaveSettings, RequestOK
  <2>2. phase = "up" /\ UNCHANGED <<phase, admin, clock, disk>>
    BY <1>6 DEF Login, SaveSettings, MayAct, Admitted, Arrives
  <2>3. overlapped' \in BOOLEAN
    BY <1>6 DEF Login, SaveSettings, PanelTypeOK
  <2> QED
    BY <2>1, <2>2, <2>3, MoveKeepsType DEF PanelTypeOK
<1>7. ASSUME NEW c \in Conn, LoggedIn(c) \/ LoginFails(c) \/ (\E ok \in BOOLEAN : Persisted(c, ok)) \/ Write(c)
      PROVE  PanelTypeOK'
  <2>1. Goes(c, Idle) /\ RequestOK(Idle) /\ Idle.at # "persist" /\ request[c] # Idle
    BY <1>7 DEF LoggedIn, LoginFails, Persisted, Write, RequestOK, Idle
  <2>2. UNCHANGED <<phase, admin, clock, overlapped>>
    BY <1>7 DEF LoggedIn, LoginFails, Persisted, Write, counters
  <2>3. disk' \in {disk, admin}
    BY <1>7 DEF LoggedIn, LoginFails, Persisted, Write
  <2> QED
    BY <2>1, <2>2, <2>3, MoveKeepsType DEF PanelTypeOK
<1>8. ASSUME NEW c \in Conn, OpenForWriting(c)
      PROVE  PanelTypeOK'
  <2>1. request[c] \in [at : {"save", "write"}, doc : {request[c].doc}]
    BY <1>8 DEF PanelTypeOK, RequestOK, OpenForWriting
  <2>2. [request[c] EXCEPT !.at = "write"] = [at |-> "write", doc |-> request[c].doc]
    BY <2>1
  <2>3. Goes(c, [at |-> "write", doc |-> request[c].doc]) /\ request[c] # Idle
    BY <1>8, <2>2 DEF OpenForWriting, Idle
  <2>4. RequestOK([at |-> "write", doc |-> request[c].doc])
    BY DEF RequestOK
  <2>5. UNCHANGED <<phase, admin, clock, overlapped, disk>>
    BY <1>8 DEF OpenForWriting, counters
  <2> QED
    BY <2>3, <2>4, <2>5, MoveKeepsType DEF PanelTypeOK
<1>9. ASSUME NEW c \in Conn, NEW ip \in Ip, NEW t \in Token,
             \/ \E p \in Password : ChangePassword(c, ip, t, p)
             \/ \E on \in BOOLEAN : SetRemote(c, ip, t, on)
      PROVE  PanelTypeOK'
  <2>1. /\ admin' \in Credential
        /\ phase = "up" /\ disk' \in {disk, Truncated}
        /\ Goes(c, [at |-> "persist"])
        /\ UNCHANGED <<phase, clock, overlapped>>
    BY <1>9, PersistType
  <2>2. RequestOK([at |-> "persist"])
    BY DEF RequestOK
  <2> QED
    BY <2>1, <2>2, Moves, CredentialsAreFiles DEF PanelTypeOK
<1> QED
  BY <1>1, <1>2, <1>3, <1>4, <1>5, <1>6, <1>7, <1>8, <1>9, PanelSteps

-----------------------------------------------------------------------------
(* The first-run password: the file is never absent again once it has been *)
(* there, and only an absent file makes a new one.                         *)
FirstRunInv == generated \in {0, 1} /\ (disk = None => generated = 0)

LEMMA FirstRunStep ==
  ASSUME PanelTypeOK, FirstRunInv, [PanelNext]_panelVars
  PROVE  FirstRunInv'
<1>1. CASE StartDaemon
  <2>1. CASE disk = None
    BY <1>1, <2>1, CredentialsAreFiles DEF FirstRunInv, StartDaemon
  <2>2. CASE disk = Truncated
    BY <1>1, <2>2, CredentialsAreFiles DEF FirstRunInv, StartDaemon
  <2>3. CASE disk \in Credential
    BY <1>1, <2>3, CredentialsAreFiles DEF FirstRunInv, StartDaemon
  <2> QED
    BY <2>1, <2>2, <2>3 DEF PanelTypeOK
<1>2. CASE StopDaemon \/ Mend \/ ClockTick \/ Elsewhere
  BY <1>2 DEF FirstRunInv, StopDaemon, Mend, ClockTick, Elsewhere, counters
<1>3. ASSUME NEW c \in Conn,
             \/ \E ip \in Ip, p \in Password \cup {Generated} : Login(c, ip, p)
             \/ \E ip \in Ip, t \in Token, form \in Form \cup {SettingsPage(Document(file))} :
                  SaveSettings(c, ip, t, form)
             \/ LoggedIn(c) \/ LoginFails(c) \/ OpenForWriting(c) \/ Write(c)
      PROVE  FirstRunInv'
  BY <1>3 DEF FirstRunInv, Login, SaveSettings, LoggedIn, LoginFails, OpenForWriting, Write, counters
<1>4. ASSUME NEW c \in Conn, NEW ip \in Ip, NEW t \in Token,
             \/ \E p \in Password : ChangePassword(c, ip, t, p)
             \/ \E on \in BOOLEAN : SetRemote(c, ip, t, on)
      PROVE  FirstRunInv'
  BY <1>4, PersistType, CredentialsAreFiles DEF FirstRunInv
<1>5. ASSUME NEW c \in Conn, NEW ok \in BOOLEAN, Persisted(c, ok)
      PROVE  FirstRunInv'
  BY <1>5 DEF FirstRunInv, PanelTypeOK, Persisted, counters
<1> QED
  BY <1>1, <1>2, <1>3, <1>4, <1>5, PanelSteps

(* One first-run password in the life of the data directory, whatever      *)
(* crashes between the emptying and the writing of admin.json and whatever *)
(* requests race (admin.rs:56-77).                                         *)
THEOREM OneFirstRun == PanelSpec => []FirstRunOnce
<1>1. PanelInit => PanelTypeOK /\ FirstRunInv
  BY PanelTypeInit DEF PanelInit, FirstRunInv
<1>2. PanelTypeOK /\ FirstRunInv /\ [PanelNext]_panelVars => (PanelTypeOK /\ FirstRunInv)'
  BY PanelTypeStep, FirstRunStep
<1>3. FirstRunInv => FirstRunOnce
  BY DEF FirstRunInv, FirstRunOnce
<1> QED
  BY <1>1, <1>2, <1>3, PTL DEF PanelSpec

-----------------------------------------------------------------------------
(* Saves.  What a save writes has passed the checks of a start.  Of saves  *)
(* that did not overlap one at most is under way, and finds the file as    *)
(* emptied as it left it; a file no save has spoiled is absent, emptied or *)
(* a document a start accepts.                                             *)
Accepted(doc) == doc # Torn /\ StartAccepts(doc)
Startable(f) == f \in {None, Truncated} \/ Accepted(f)

SavesInv ==
  /\ phase = "refused" => spoiled
  /\ ~spoiled => Startable(file)
  /\ \A c \in Saving : Accepted(request[c].doc)
  /\ ~overlapped =>
       /\ \A c, d \in Saving : c = d
       /\ \A c \in Saving : request[c].at = "write" => file = Truncated

(* A start accepts an empty document: every key has a default that passes. *)
LEMMA EmptyAccepted == StartAccepts(EmptyDoc)
<1>1. Parses(EmptyDoc)
  BY DEF Parses, EmptyDoc, Str, DefaultString
<1>2. Validates(EmptyDoc)
  <2>1. Str(EmptyDoc, "mode") \in Mode /\ LogonKnown(Str(EmptyDoc, "wc3_logon"))
    BY DEF EmptyDoc, Str, DefaultString, Mode, LogonKnown
  <2>2. Num(EmptyDoc, "outbound_queue") = 64 /\ Num(EmptyDoc, "max_frame_bytes") = 8192
        /\ Num(EmptyDoc, "d2_max_characters") = 18
    BY DEF EmptyDoc, Num, DefaultInt
  <2>3. DOMAIN EmptyDoc.products = {} /\ ~EmptyDoc.enabled /\ EmptyDoc.link = ""
    BY DEF EmptyDoc
  <2>4. /\ Num(EmptyDoc, "outbound_queue") >= 1 /\ Num(EmptyDoc, "max_frame_bytes") >= 16
        /\ Num(EmptyDoc, "d2_max_characters") \in 1..18
    BY <2>2
  <2>5. DOMAIN EmptyDoc.products \subseteq Product
    BY <2>3
  <2> QED
    BY <2>1, <2>3, <2>4, <2>5 DEF Validates
<1>3. VersionsValid(EmptyDoc)
  BY DEF VersionsValid, EmptyDoc, Flag, DefaultFlag
<1>4. ChannelsValid(EmptyDoc)
  <2>1. Str(EmptyDoc, "telnet_access") = "public"
    BY DEF EmptyDoc, Str, DefaultString
  <2>2. TelnetAccess("public") = "public"
    BY DEF TelnetAccess
  <2>3. DOMAIN EmptyDoc.defined = {}
    BY DEF EmptyDoc
  <2> QED
    BY <2>1, <2>2, <2>3 DEF ChannelsValid
<1> QED
  BY <1>1, <1>2, <1>3, <1>4 DEF StartAccepts

(* What the panel writes has passed the checks of a start.                 *)
LEMMA SubmittedAccepted ==
  ASSUME NEW f, NEW form, Submitted(f, form) # None
  PROVE  Accepted(Submitted(f, form))
<1>1. Submitted(f, form) = Staged(Document(f), form) /\ StartAccepts(Staged(Document(f), form))
  BY DEF Submitted, Save
<1>2. Staged(Document(f), form) # Torn
  BY DEF Staged, Torn
<1> QED
  BY <1>1, <1>2 DEF Accepted

(* Absent, emptied and accepted files all start.                           *)
LEMMA GoodFilesStart ==
  ASSUME NEW f, Startable(f)
  PROVE  Loads(Launched(f)) /\ Startable(Launched(f))
<1>1. Accepted(DefaultFile) /\ Truncated # Torn
  BY PanelAssumption DEF Accepted
<1>2. Launched(f) # Torn /\ (Launched(f) = Truncated \/ Accepted(Launched(f)))
  BY <1>1 DEF Launched, Accepted, Startable
<1>3. StartAccepts(Document(Launched(f)))
  BY <1>2, EmptyAccepted DEF Document, Accepted
<1> QED
  BY <1>2, <1>3 DEF Loads, Startable

LEMMA SavesStep ==
  ASSUME PanelTypeOK, SavesInv, [PanelNext]_panelVars
  PROVE  SavesInv'
<1>1. CASE StartDaemon
  <2>1. UNCHANGED <<request, overlapped>> /\ Saving' = Saving
    BY <1>1 DEF StartDaemon, Saving
  <2>2. \A c \in Conn : request[c] = Idle
    BY <1>1 DEF PanelTypeOK, StartDaemon
  <2>3. Saving = {}
    BY <2>2 DEF Saving, Idle
  <2>4. ~spoiled => Loads(Launched(file)) /\ Startable(file')
    BY <1>1, GoodFilesStart DEF SavesInv, StartDaemon
  <2>5. ~spoiled => phase' = "up"
    BY <1>1, <2>4 DEF StartDaemon
  <2>6. phase' \in {"up", "refused"} /\ UNCHANGED spoiled
    BY <1>1 DEF StartDaemon
  <2> QED
    BY <2>1, <2>3, <2>4, <2>5, <2>6 DEF SavesInv, Startable
<1>2. CASE StopDaemon
  <2>1. Saving' = {}
    BY <1>2 DEF StopDaemon, Saving, Idle
  <2>2. phase' = "down" /\ (UNCHANGED <<file, spoiled>> \/ spoiled' = TRUE)
    BY <1>2 DEF StopDaemon
  <2> QED
    BY <2>1, <2>2 DEF SavesInv, Startable
<1>3. CASE Mend
  <2>1. phase' = "down" /\ file' = DefaultFile /\ Accepted(DefaultFile) /\ UNCHANGED request
    BY <1>3, PanelAssumption DEF Mend, Accepted
  <2>2. \A c \in Conn : request[c] = Idle
    BY <1>3 DEF PanelTypeOK, Mend
  <2>3. Saving' = {}
    BY <2>1, <2>2 DEF Saving, Idle
  <2> QED
    BY <2>1, <2>3 DEF SavesInv, Startable
<1>4. CASE ClockTick
  BY <1>4 DEF SavesInv, ClockTick, Saving, saved, Startable
<1>5. ASSUME NEW c \in Conn, NEW to, Goes(c, to), to.at \notin {"save", "write"},
             request[c].at \notin {"save", "write"},
             UNCHANGED <<phase, file, spoiled, overlapped>>
      PROVE  SavesInv'
  <2>1. \A d \in Conn : d \in Saving' <=> d \in Saving
    BY <1>5, Moves DEF Saving
  <2>2. \A d \in Saving : request'[d] = request[d]
    BY <1>5, Moves DEF Saving
  <2>3. Saving \subseteq Conn /\ Saving' \subseteq Conn
    BY DEF Saving
  <2> QED
    BY <1>5, <2>1, <2>2, <2>3 DEF SavesInv, Startable
<1>6. CASE Elsewhere
  <2>1. CASE UNCHANGED request
    BY <1>6, <2>1 DEF SavesInv, Elsewhere, Saving, Startable
  <2>2. ASSUME NEW c \in Conn, NEW r \in [at : Errand], request[c].at \in Errand, Goes(c, r)
        PROVE  SavesInv'
    BY <1>5, <1>6, <2>2 DEF Elsewhere, Errand
  <2> QED
    BY <1>6, <2>1, <2>2 DEF Elsewhere
<1>7. ASSUME NEW c \in Conn,
             \/ \E ip \in Ip, p \in Password \cup {Generated} : Login(c, ip, p)
             \/ LoggedIn(c) \/ LoginFails(c) \/ \E ok \in BOOLEAN : Persisted(c, ok)
      PROVE  SavesInv'
  <2>1. \E to : Goes(c, to) /\ to.at \notin {"save", "write"}
    <3>1. ASSUME NEW ip \in Ip, NEW p, Login(c, ip, p)
          PROVE  \E to : Goes(c, to) /\ to.at \notin {"save", "write"}
      <4>1. Goes(c, [at |-> "verify", ip |-> ip, password |-> p])
        BY <3>1 DEF Login
      <4> QED
        BY <4>1
    <3>2. Idle.at \notin {"save", "write"}
      BY DEF Idle
    <3>3. CASE LoggedIn(c) \/ LoginFails(c) \/ \E ok \in BOOLEAN : Persisted(c, ok)
      BY <3>2, <3>3 DEF LoggedIn, LoginFails, Persisted
    <3> QED
      BY <1>7, <3>1, <3>3
  <2>2. request[c].at \notin {"save", "write"}
    <3>1. request[c].at \in {"verify", "persist"} \/ request[c] = Idle
      BY <1>7 DEF Login, LoggedIn, LoginFails, Persisted, Arrives
    <3> QED
      BY <3>1 DEF Idle
  <2>3. UNCHANGED <<phase, file, spoiled, overlapped>>
    BY <1>7 DEF Login, LoggedIn, LoginFails, Persisted, counters, saved
  <2> QED
    BY <1>5, <2>1, <2>2, <2>3
<1>8. ASSUME NEW c \in Conn, NEW ip \in Ip, NEW t \in Token,
             \/ \E p \in Password : ChangePassword(c, ip, t, p)
             \/ \E on \in BOOLEAN : SetRemote(c, ip, t, on)
      PROVE  SavesInv'
  <2>1. Goes(c, [at |-> "persist"]) /\ request[c] = Idle
        /\ UNCHANGED <<phase, file, spoiled, overlapped>>
    BY <1>8, PersistType
  <2> QED
    BY <1>5, <2>1 DEF Idle
<1>9. ASSUME NEW c \in Conn, NEW ip \in Ip, NEW t \in Token, NEW form, SaveSettings(c, ip, t, form)
      PROVE  SavesInv'
  <2>1. /\ Accepted(Submitted(file, form)) /\ phase = "up"
        /\ Goes(c, [at |-> "save", doc |-> Submitted(file, form)])
        /\ overlapped' = (Saving # {}) /\ UNCHANGED <<phase, file, spoiled>>
    BY <1>9, SubmittedAccepted DEF SaveSettings, MayAct, Admitted, Arrives, saved
  <2>2. request'[c] = [at |-> "save", doc |-> Submitted(file, form)]
        /\ \A d \in Conn \ {c} : request'[d] = request[d]
    BY <2>1, Moves
  <2>3. Saving' \subseteq Saving \cup {c}
    BY <2>2 DEF Saving
  <2>4. \A d \in Saving' : Accepted(request'[d].doc)
    <3>1. \A d \in Saving \ {c} : d \in Conn /\ Accepted(request[d].doc)
      BY DEF SavesInv, Saving
    <3> QED
      BY <2>1, <2>2, <2>3, <3>1
  <2>5. ~overlapped' => \A d \in Saving' : d = c /\ request'[d].at # "write"
    <3>1. CASE Saving = {}
      <4>1. \A d \in Saving' : d = c
        BY <2>3, <3>1
      <4>2. request'[c].at = "save"
        BY <2>2
      <4> QED
        BY <4>1, <4>2
    <3>2. CASE Saving # {}
      <4>1. overlapped'
        BY <2>1, <3>2
      <4> QED
        BY <4>1
    <3> QED
      BY <3>1, <3>2
  <2>6. ~spoiled' => Startable(file')
    BY <2>1 DEF SavesInv, Startable
  <2> QED
    BY <2>1, <2>4, <2>5, <2>6 DEF SavesInv
<1>10. ASSUME NEW c \in Conn, OpenForWriting(c)
       PROVE  SavesInv'
  <2>1. request[c] \in [at : {"save", "write"}, doc : {request[c].doc}] /\ request[c].at = "save"
    BY <1>10 DEF PanelTypeOK, RequestOK, OpenForWriting
  <2>2. [request[c] EXCEPT !.at = "write"] = [at |-> "write", doc |-> request[c].doc]
    BY <2>1
  <2>3. Goes(c, [at |-> "write", doc |-> request[c].doc])
    BY <1>10, <2>2 DEF OpenForWriting
  <2>4. request'[c] = [at |-> "write", doc |-> request[c].doc]
        /\ \A d \in Conn \ {c} : request'[d] = request[d]
    BY <2>3, Moves
  <2>5. \A d \in Conn : d \in Saving' <=> d \in Saving
    BY <2>1, <2>4 DEF Saving
  <2>6. c \in Saving /\ Saving' \subseteq Conn
    BY <2>1 DEF Saving
  <2>7. file' = Truncated /\ UNCHANGED <<phase, overlapped>>
    BY <1>10 DEF OpenForWriting, counters
  <2>8. phase # "refused"
    <3>1. request[c] # Idle
      BY <2>1 DEF Idle
    <3> QED
      BY <3>1 DEF PanelTypeOK
  <2>9. \A d \in Saving' : Accepted(request'[d].doc)
    BY <2>4, <2>5, <2>6 DEF SavesInv
  <2>10. Startable(file')
    BY <2>7 DEF Startable
  <2> QED
    BY <2>5, <2>6, <2>7, <2>8, <2>9, <2>10 DEF SavesInv
<1>11. ASSUME NEW c \in Conn, Write(c)
       PROVE  SavesInv'
  <2>1. request'[c] = Idle /\ \A d \in Conn \ {c} : request'[d] = request[d]
    BY <1>11, Moves DEF Write
  <2>2. c \in Saving /\ Saving' = Saving \ {c}
    BY <1>11, <2>1 DEF Write, Saving, Idle
  <2>3. ~overlapped => Saving' = {}
    BY <2>2 DEF SavesInv
  <2>4. ~spoiled' => ~overlapped /\ file' \in {request[c].doc, file}
    BY <1>11 DEF Write
  <2>5. ~overlapped => file = Truncated
    BY <1>11, <2>2 DEF SavesInv, Write
  <2>6. ~spoiled' => Startable(file')
    BY <2>2, <2>4, <2>5 DEF SavesInv, Startable
  <2>7. phase # "refused" /\ UNCHANGED <<phase, overlapped>>
    <3>1. request[c] # Idle
      BY <1>11 DEF Write, Idle
    <3> QED
      BY <1>11, <3>1 DEF PanelTypeOK, Write, counters
  <2>8. \A d \in Saving' : Accepted(request'[d].doc)
    <3>1. \A d \in Saving' : d \in Conn \ {c} /\ d \in Saving
      BY <2>2 DEF Saving
    <3> QED
      BY <2>1, <3>1 DEF SavesInv
  <2> QED
    BY <2>3, <2>6, <2>7, <2>8 DEF SavesInv
<1> QED
  BY <1>1, <1>2, <1>3, <1>4, <1>6, <1>7, <1>8, <1>9, <1>10, <1>11, PanelSteps

(* A file that a start refuses was cut short or written by two at once,    *)
(* for any forms, connections, failed writes and crashes amid a save: what *)
(* one save writes whole and alone a start accepts (status.rs:1425-1429,   *)
(* 1774-1790).                                                             *)
THEOREM RefusalsNeedSpoiling == PanelSpec => []OnlySpoiledRefused
<1>1. PanelInit => PanelTypeOK /\ SavesInv
  BY PanelTypeInit DEF PanelInit, SavesInv, Startable, Saving, Idle
<1>2. PanelTypeOK /\ SavesInv /\ [PanelNext]_panelVars => (PanelTypeOK /\ SavesInv)'
  BY PanelTypeStep, SavesStep
<1>3. SavesInv => OnlySpoiledRefused
  BY DEF SavesInv, OnlySpoiledRefused
<1> QED
  BY <1>1, <1>2, <1>3, PTL DEF PanelSpec

-----------------------------------------------------------------------------
(* The limiter.  The counts g of one address at tick n, with v of its      *)
(* requests having their passwords checked, and its entry e in the table   *)
(* of failures, if it is there: the entry has counted every failure since  *)
(* its window began, and no failure falls outside a window, so that of the *)
(* failures in a span of the window's length those before the present      *)
(* window are of one earlier window.                                       *)
Ticks == 0..MaxTime + 1
Most == MaxLoginFails - 1 + Cardinality(Conn)

Monotonic(g, n) ==
  /\ \A t, u \in Ticks : t <= u => g[t] <= g[u]
  /\ \A t \in Ticks : t > n => g[t] = g[MaxTime + 1]

Counted(g, n, v, e) ==
  /\ e \in [fails : Nat, start : 0..n]
  /\ g[MaxTime + 1] - g[e.start] = e.fails
  /\ e.fails + v <= Most
  /\ \A t \in Ticks : t >= e.start + LoginWindow => g[t] = g[MaxTime + 1]
  /\ \A t \in Ticks : t <= e.start /\ e.start < t + LoginWindow => g[e.start] - g[t] <= Most

Uncounted(g, n) ==
  /\ g[n] = g[MaxTime + 1]
  /\ \A t \in Ticks : n < t + LoginWindow => g[MaxTime + 1] - g[t] <= Most

Bounded(g) ==
  \A a, b \in Ticks : a < b /\ b - a <= LoginWindow => g[b] - g[a] <= 2 * Most

Counts(g, n) == g \in [Ticks -> Nat] /\ Monotonic(g, n) /\ Bounded(g)
WithEntry(g, n, v, e) == Counts(g, n) /\ Counted(g, n, v, e)
WithoutEntry(g, n) == Counts(g, n) /\ Uncounted(g, n)

LEMMA MostNat == Most \in Nat /\ Cardinality(Conn) \in Nat /\ Cardinality(Conn) <= Most
  BY PanelAssumption, FS_CardinalityType DEF Most

(* Nothing has been counted yet, or it has all been forgotten.             *)
LEMMA NoneGuessed ==
  ASSUME NEW n \in 0..MaxTime
  PROVE  WithoutEntry(NoGuesses, n)
<1>1. NoGuesses \in [Ticks -> Nat] /\ \A t \in Ticks : NoGuesses[t] = 0
  BY DEF NoGuesses, Ticks
<1>2. n \in Ticks /\ MaxTime + 1 \in Ticks
  BY PanelAssumption DEF Ticks
<1>3. Monotonic(NoGuesses, n)
  <2>1. \A t, u \in Ticks : t <= u => NoGuesses[t] <= NoGuesses[u]
    BY <1>1
  <2>2. \A t \in Ticks : t > n => NoGuesses[t] = NoGuesses[MaxTime + 1]
    BY <1>1, <1>2
  <2> QED
    BY <2>1, <2>2 DEF Monotonic
<1>4. \A t, u \in Ticks : NoGuesses[t] = NoGuesses[u] /\ NoGuesses[t] - NoGuesses[u] <= Most
                         /\ NoGuesses[t] - NoGuesses[u] <= 2 * Most
  BY <1>1, MostNat
<1>5. Bounded(NoGuesses) /\ Uncounted(NoGuesses, n)
  BY <1>2, <1>4 DEF Bounded, Uncounted
<1> QED
  BY <1>1, <1>3, <1>5 DEF WithoutEntry, Counts

(* Time passes.                                                            *)
LEMMA TickCounts ==
  ASSUME NEW n \in 0..MaxTime, n + 1 \in 0..MaxTime, NEW g, Counts(g, n)
  PROVE  Counts(g, n + 1)
<1>1. Monotonic(g, n + 1)
  BY PanelAssumption DEF Counts, Monotonic, Ticks
<1> QED
  BY <1>1 DEF Counts

LEMMA TickWithEntry ==
  ASSUME NEW n \in 0..MaxTime, n + 1 \in 0..MaxTime, NEW g, NEW v, NEW e, WithEntry(g, n, v, e)
  PROVE  WithEntry(g, n + 1, v, e)
<1>1. e \in [fails : Nat, start : 0..(n + 1)]
  BY DEF WithEntry, Counted
<1> QED
  BY <1>1, TickCounts DEF WithEntry, Counted

LEMMA TickWithoutEntry ==
  ASSUME NEW n \in 0..MaxTime, n + 1 \in 0..MaxTime, NEW g, WithoutEntry(g, n)
  PROVE  WithoutEntry(g, n + 1)
<1>1. n + 1 \in Ticks
  BY PanelAssumption DEF Ticks
<1>2. g[n + 1] = g[MaxTime + 1]
  BY <1>1 DEF WithoutEntry, Counts, Monotonic
<1>3. \A t \in Ticks : n + 1 < t + LoginWindow => n < t + LoginWindow
  BY PanelAssumption DEF Ticks
<1> QED
  BY <1>2, <1>3, TickCounts DEF WithoutEntry, Uncounted

(* One more request waits that the limiter let in.                         *)
LEMMA WaitingLimits ==
  ASSUME NEW n \in 0..MaxTime, NEW g, NEW v \in Nat, NEW w \in Nat, NEW e, WithEntry(g, n, v, e),
         w <= Cardinality(Conn), e.fails < MaxLoginFails
  PROVE  WithEntry(g, n, w, e)
<1>1. e.fails \in Nat
  BY DEF WithEntry, Counted
<1>2. e.fails + w <= Most
  BY <1>1, MostNat, PanelAssumption DEF Most
<1> QED
  BY <1>2 DEF WithEntry, Counted

(* An entry whose window has passed is dropped: its failures were all in   *)
(* the window.                                                             *)
LEMMA DropLimits ==
  ASSUME NEW n \in 0..MaxTime, NEW g, NEW v \in Nat, NEW e,
         WithEntry(g, n, v, e), n - e.start >= LoginWindow
  PROVE  WithoutEntry(g, n)
<1>1. n \in Ticks /\ MaxTime + 1 \in Ticks /\ \A t \in Ticks : g[t] \in Nat
  BY PanelAssumption DEF Ticks, WithEntry, Counts
<1>2. e.start \in 0..n /\ e.start \in Ticks /\ e.fails \in Nat
  BY PanelAssumption DEF WithEntry, Counted, Ticks
<1>3. g[n] = g[MaxTime + 1]
  BY <1>1, <1>2, PanelAssumption DEF WithEntry, Counted, Ticks
<1>4. ASSUME NEW t \in Ticks, n < t + LoginWindow
      PROVE  g[MaxTime + 1] - g[t] <= Most
  <2>1. e.start <= t
    BY <1>2, <1>4, PanelAssumption DEF Ticks
  <2>2. g[e.start] <= g[t]
    BY <1>2, <2>1 DEF WithEntry, Counts, Monotonic
  <2>3. g[MaxTime + 1] - g[e.start] <= Most
    BY <1>1, <1>2, MostNat DEF WithEntry, Counted
  <2>4. g[MaxTime + 1] \in Nat /\ g[e.start] \in Nat /\ g[t] \in Nat
    BY <1>1, <1>2
  <2> QED
    BY <2>2, <2>3, <2>4, MostNat
<1> QED
  BY <1>3, <1>4 DEF WithEntry, WithoutEntry, Uncounted

(* A failure is counted for every later tick.                              *)
OneMore(g, n) == [t \in Ticks |-> g[t] + IF t > n THEN 1 ELSE 0]

LEMMA OneMoreFacts ==
  ASSUME NEW n \in 0..MaxTime, NEW g \in [Ticks -> Nat], Monotonic(g, n)
  PROVE  /\ OneMore(g, n) \in [Ticks -> Nat] /\ Monotonic(OneMore(g, n), n)
         /\ \A t \in Ticks : t <= n => OneMore(g, n)[t] = g[t]
         /\ \A t \in Ticks : t > n => OneMore(g, n)[t] = g[MaxTime + 1] + 1
<1>1. MaxTime + 1 \in Ticks /\ MaxTime + 1 > n
  BY PanelAssumption DEF Ticks
<1>2. \A t \in Ticks : g[t] \in Nat /\ t \in Nat
  BY DEF Ticks
<1>3. \A t \in Ticks : OneMore(g, n)[t] = g[t] + IF t > n THEN 1 ELSE 0
  BY DEF OneMore
<1>4. OneMore(g, n) \in [Ticks -> Nat]
  BY <1>2 DEF OneMore
<1>5. \A t, u \in Ticks : t <= u => OneMore(g, n)[t] <= OneMore(g, n)[u]
  BY <1>2, <1>3 DEF Monotonic
<1>6. \A t \in Ticks : t > n => OneMore(g, n)[t] = g[MaxTime + 1] + 1
  BY <1>3 DEF Monotonic
<1>7. \A t \in Ticks : t <= n => OneMore(g, n)[t] = g[t]
  BY <1>2, <1>3
<1> QED
  BY <1>1, <1>4, <1>5, <1>6, <1>7 DEF Monotonic

(* A failure within the window is counted by the entry, and a span of the  *)
(* window's length that it falls in begins within the window, or in the    *)
(* one before.                                                             *)
LEMMA FailWithin ==
  ASSUME NEW n \in 0..MaxTime, NEW g, NEW v \in Nat, NEW e, WithEntry(g, n, v + 1, e),
         n - e.start < LoginWindow
  PROVE  WithEntry(OneMore(g, n), n, v, [fails |-> e.fails + 1, start |-> e.start])
<1> DEFINE h == OneMore(g, n)
           T == MaxTime + 1
           s == e.start
<1>1. n \in Ticks /\ T \in Ticks /\ T > n /\ \A t \in Ticks : g[t] \in Nat
  BY PanelAssumption DEF Ticks, WithEntry, Counts
<1>2. s \in 0..n /\ s \in Ticks /\ e.fails \in Nat /\ e.fails + (v + 1) <= Most
  BY PanelAssumption DEF WithEntry, Counted, Ticks
<1>3. /\ h \in [Ticks -> Nat] /\ Monotonic(h, n)
      /\ \A t \in Ticks : t <= n => h[t] = g[t]
      /\ \A t \in Ticks : t > n => h[t] = g[T] + 1
  BY OneMoreFacts DEF WithEntry, Counts
<1> HIDE DEF h
<1>4. h[T] - h[s] = e.fails + 1
  <2>1. s <= n /\ g[T] \in Nat /\ g[s] \in Nat
    <3>1. s <= n
      BY <1>2
    <3>2. g[T] \in Nat /\ g[s] \in Nat
      BY <1>1, <1>2, Zenon
    <3> QED
      BY <3>1, <3>2
  <2>2. h[T] = g[T] + 1 /\ h[s] = g[s]
    BY <1>1, <1>2, <1>3, <2>1
  <2>3. g[T] - g[s] = e.fails
    BY DEF WithEntry, Counted
  <2> QED
    BY <1>2, <2>1, <2>2, <2>3
<1>5. \A t \in Ticks : t >= s + LoginWindow => h[t] = h[T]
  <2>1. \A t \in Ticks : t >= s + LoginWindow => t > n
    BY <1>2, PanelAssumption DEF Ticks
  <2> QED
    BY <1>1, <1>3, <2>1
<1>6. \A t \in Ticks : t <= s /\ s < t + LoginWindow => h[s] - h[t] <= Most
  BY <1>2, <1>3 DEF WithEntry, Counted, Ticks
<1>7. Counted(h, n, v, [fails |-> e.fails + 1, start |-> s])
  BY <1>2, <1>4, <1>5, <1>6, MostNat DEF Counted
<1>8. ASSUME NEW a \in Ticks, NEW b \in Ticks, a < b, b - a <= LoginWindow
      PROVE  h[b] - h[a] <= 2 * Most
  <2>1. a \in Nat /\ b \in Nat /\ h[a] \in Nat /\ h[b] \in Nat /\ h[s] \in Nat /\ h[T] \in Nat
    <3>1. a \in Nat /\ b \in Nat
      BY DEF Ticks
    <3>2. \A t \in Ticks : h[t] \in Nat
      BY <1>3
    <3> QED
      BY <1>1, <1>2, <3>1, <3>2
  <2>2. CASE b <= n
    BY <1>3, <1>8, <2>1, <2>2 DEF WithEntry, Counts, Bounded
  <2>3. CASE a > n
    BY <1>3, <1>8, <2>1, <2>3, MostNat
  <2>4. CASE b > n /\ a >= s /\ a <= n
    <3>1. h[s] <= h[a] /\ h[b] <= h[T]
      BY <1>1, <1>2, <1>3, <2>4, PanelAssumption DEF Monotonic, Ticks
    <3> QED
      BY <1>2, <1>4, <2>1, <3>1, MostNat
  <2>5. CASE b > n /\ a < s
    <3>1. h[s] - h[a] <= Most
      BY <1>2, <1>6, <1>8, <2>1, <2>5, PanelAssumption
    <3>2. h[b] <= h[T]
      BY <1>1, <1>3, PanelAssumption DEF Monotonic, Ticks
    <3> QED
      BY <1>2, <1>4, <2>1, <3>1, <3>2, MostNat
  <2> QED
    BY <1>2, <2>1, <2>2, <2>3, <2>4, <2>5
<1> QED
  BY <1>3, <1>7, <1>8 DEF WithEntry, Counts, Bounded, h

(* The first failure of a window: whatever came before has left at most    *)
(* one window's worth in the span behind it.                               *)
LEMMA FailFirst ==
  ASSUME NEW n \in 0..MaxTime, NEW g, NEW v \in Nat, v + 1 <= Cardinality(Conn),
         WithoutEntry(g, n)
  PROVE  WithEntry(OneMore(g, n), n, v, [fails |-> 1, start |-> n])
<1> DEFINE h == OneMore(g, n)
           T == MaxTime + 1
<1>1. n \in Ticks /\ T \in Ticks /\ T > n /\ \A t \in Ticks : g[t] \in Nat
  BY PanelAssumption DEF Ticks, WithoutEntry, Counts
<1>2. /\ h \in [Ticks -> Nat] /\ Monotonic(h, n)
      /\ \A t \in Ticks : t <= n => h[t] = g[t]
      /\ \A t \in Ticks : t > n => h[t] = g[T] + 1
  BY OneMoreFacts DEF WithoutEntry, Counts
<1>3. g[n] = g[T] /\ \A t \in Ticks : n < t + LoginWindow => g[T] - g[t] <= Most
  BY DEF WithoutEntry, Uncounted
<1> HIDE DEF h
<1>4. h[T] - h[n] = 1
  <2>1. n <= n
    OBVIOUS
  <2>2. h[T] = g[T] + 1 /\ h[n] = g[n] /\ g[T] \in Nat
    BY <1>1, <1>2, <2>1
  <2> QED
    BY <1>3, <2>2
<1>5. \A t \in Ticks : t >= n + LoginWindow => h[t] = h[T]
  BY <1>1, <1>2, PanelAssumption DEF Ticks
<1>6. \A t \in Ticks : t <= n /\ n < t + LoginWindow => h[n] - h[t] <= Most
  BY <1>1, <1>2, <1>3
<1>7. 1 + v <= Most
  BY MostNat
<1>8. Counted(h, n, v, [fails |-> 1, start |-> n])
  BY <1>4, <1>5, <1>6, <1>7 DEF Counted
<1>9. ASSUME NEW a \in Ticks, NEW b \in Ticks, a < b, b - a <= LoginWindow
      PROVE  h[b] - h[a] <= 2 * Most
  <2>1. a \in Nat /\ b \in Nat /\ h[a] \in Nat /\ h[b] \in Nat /\ h[n] \in Nat /\ g[T] \in Nat
    BY <1>1, <1>2 DEF Ticks
  <2>2. CASE b <= n
    BY <1>2, <1>9, <2>1, <2>2 DEF WithoutEntry, Counts, Bounded
  <2>3. CASE a > n
    BY <1>2, <1>9, <2>1, <2>3, MostNat
  <2>4. CASE b > n /\ a <= n
    <3>1. h[n] - h[a] <= Most
      BY <1>6, <1>9, <2>1, <2>4, PanelAssumption
    <3>2. h[b] = h[n] + 1
      BY <1>1, <1>2, <1>3, <2>4
    <3> QED
      BY <1>7, <2>1, <3>1, <3>2, MostNat
  <2> QED
    BY <2>1, <2>2, <2>3, <2>4
<1> QED
  BY <1>2, <1>8, <1>9 DEF WithEntry, Counts, Bounded, h

(* The requests of an address whose password is being checked.             *)
Verifying(ip) == {c \in Conn : request[c].at = "verify" /\ request[c].ip = ip}

Guessed(ip) ==
  /\ ip \in DOMAIN rate => WithEntry(guesses[ip], clock, Cardinality(Verifying(ip)), rate[ip])
  /\ ip \notin DOMAIN rate => WithoutEntry(guesses[ip], clock)

GuessesInv ==
  /\ DOMAIN rate \subseteq Ip /\ DOMAIN guesses = Ip
  /\ \A ip \in Ip : Guessed(ip)

LEMMA VerifyingFinite ==
  ASSUME NEW ip
  PROVE  /\ IsFiniteSet(Verifying(ip)) /\ Cardinality(Verifying(ip)) \in Nat
         /\ Cardinality(Verifying(ip)) <= Cardinality(Conn)
<1>1. Verifying(ip) \subseteq Conn
  BY DEF Verifying
<1> QED
  BY <1>1, PanelAssumption, FS_Subset, FS_CardinalityType

LEMMA VerifyingFiniteNext ==
  ASSUME NEW ip
  PROVE  /\ IsFiniteSet(Verifying(ip)') /\ Cardinality(Verifying(ip)') \in Nat
         /\ Cardinality(Verifying(ip)') <= Cardinality(Conn)
<1>1. Verifying(ip)' \subseteq Conn
  BY DEF Verifying
<1> QED
  BY <1>1, PanelAssumption, FS_Subset, FS_CardinalityType

(* A request that ends its check, or one that has begun none.              *)
LEMMA VerifyingMoves ==
  ASSUME PanelTypeOK, NEW c \in Conn, NEW to, Goes(c, to), to.at # "verify", NEW ip
  PROVE  Verifying(ip)' = Verifying(ip) \ {c}
<1>1. request'[c] = to /\ \A d \in Conn \ {c} : request'[d] = request[d]
  BY Moves
<1> QED
  BY <1>1 DEF Verifying

(* Steps that leave the limiter and the passwords being checked alone.     *)
LEMMA GuessesKept ==
  ASSUME GuessesInv, UNCHANGED <<rate, guesses, clock>>, \A ip \in Ip : Verifying(ip)' = Verifying(ip)
  PROVE  GuessesInv'
  BY DEF GuessesInv, Guessed

(* An address a step does not concern.                                     *)
LEMMA OthersGuessed ==
  ASSUME NEW i, Guessed(i), i \in DOMAIN rate' <=> i \in DOMAIN rate,
         i \in DOMAIN rate => rate'[i] = rate[i],
         guesses'[i] = guesses[i], UNCHANGED clock, Verifying(i)' = Verifying(i)
  PROVE  Guessed(i)'
  BY DEF Guessed

LEMMA LoginGuesses ==
  ASSUME PanelTypeOK, GuessesInv, NEW c \in Conn, NEW ip \in Ip, NEW p, Login(c, ip, p)
  PROVE  GuessesInv'
<1>1. Goes(c, [at |-> "verify", ip |-> ip, password |-> p]) /\ UNCHANGED <<guesses, clock>>
  BY DEF Login
<1>2. request'[c] = [at |-> "verify", ip |-> ip, password |-> p]
      /\ \A d \in Conn \ {c} : request'[d] = request[d]
  BY <1>1, Moves
<1>3. request[c] = Idle /\ clock \in 0..MaxTime
  BY DEF Login, Arrives, PanelTypeOK
<1>4. \A i \in Ip \ {ip} : Verifying(i)' = Verifying(i)
  BY <1>2, <1>3 DEF Verifying, Idle
<1>5. CASE Recent(ip)
  <2>1. rate' = rate /\ ip \in DOMAIN rate /\ ~(rate[ip].fails >= MaxLoginFails)
    BY <1>5 DEF Login, Limited, Recent
  <2>2. WithEntry(guesses[ip], clock, Cardinality(Verifying(ip)), rate[ip])
    BY <2>1 DEF GuessesInv, Guessed
  <2>3. rate[ip].fails < MaxLoginFails
    BY <2>1, <2>2, PanelAssumption DEF WithEntry, Counted
  <2>4. WithEntry(guesses[ip], clock, Cardinality(Verifying(ip)'), rate[ip])
    BY <1>3, <2>2, <2>3, WaitingLimits, VerifyingFinite, VerifyingFiniteNext
  <2>5. \A i \in Ip \ {ip} : Guessed(i)'
    BY <1>1, <1>4, <2>1, OthersGuessed DEF GuessesInv
  <2>6. Guessed(ip)'
    BY <1>1, <2>1, <2>4 DEF Guessed
  <2> QED
    BY <1>1, <2>1, <2>5, <2>6 DEF GuessesInv
<1>6. CASE ~Recent(ip)
  <2>1. rate' = Without(rate, {ip})
    BY <1>6 DEF Login
  <2>2. DOMAIN rate' = DOMAIN rate \ {ip} /\ \A i \in DOMAIN rate \ {ip} : rate'[i] = rate[i]
    BY <2>1 DEF Without
  <2>3. WithoutEntry(guesses[ip], clock)
    <3>1. CASE ip \in DOMAIN rate
      <4>1. WithEntry(guesses[ip], clock, Cardinality(Verifying(ip)), rate[ip])
        BY <3>1 DEF GuessesInv, Guessed
      <4>2. clock - rate[ip].start >= LoginWindow
        <5>1. rate[ip].start \in 0..clock
          BY <4>1 DEF WithEntry, Counted
        <5> QED
          BY <1>3, <1>6, <3>1, <5>1, PanelAssumption DEF Recent
      <4> QED
        BY <1>3, <4>1, <4>2, DropLimits, VerifyingFinite
    <3>2. CASE ip \notin DOMAIN rate
      BY <3>2 DEF GuessesInv, Guessed
    <3> QED
      BY <3>1, <3>2
  <2>4. \A i \in Ip \ {ip} : Guessed(i)'
    BY <1>1, <1>4, <2>2, OthersGuessed DEF GuessesInv
  <2>5. Guessed(ip)'
    BY <1>1, <2>2, <2>3 DEF Guessed
  <2> QED
    BY <1>1, <2>2, <2>4, <2>5 DEF GuessesInv
<1> QED
  BY <1>5, <1>6

LEMMA LoggedInGuesses ==
  ASSUME PanelTypeOK, GuessesInv, NEW c \in Conn, LoggedIn(c)
  PROVE  GuessesInv'
<1>1. PICK ip \in Ip : ip = request[c].ip
  BY DEF PanelTypeOK, RequestOK, LoggedIn
<1>2. /\ rate' = Without(rate, {ip}) /\ UNCHANGED clock /\ Goes(c, Idle) /\ Idle.at # "verify"
      /\ guesses' = [guesses EXCEPT ![ip] = NoGuesses]
  BY <1>1 DEF LoggedIn, Idle
<1>3. DOMAIN rate' = DOMAIN rate \ {ip} /\ \A i \in DOMAIN rate \ {ip} : rate'[i] = rate[i]
  BY <1>2 DEF Without
<1>4. \A i \in Ip \ {ip} : c \notin Verifying(i)
  BY <1>1 DEF Verifying
<1>5. \A i \in Ip \ {ip} : Verifying(i)' = Verifying(i)
  BY <1>2, <1>4, VerifyingMoves
<1>6. clock \in 0..MaxTime
  BY DEF PanelTypeOK
<1>7. WithoutEntry(NoGuesses, clock)
  BY <1>6, NoneGuessed
<1>8. guesses'[ip] = NoGuesses /\ DOMAIN guesses' = Ip /\ \A i \in Ip \ {ip} : guesses'[i] = guesses[i]
  BY <1>2 DEF GuessesInv
<1>9. \A i \in Ip \ {ip} : Guessed(i)'
  BY <1>2, <1>3, <1>5, <1>8, OthersGuessed DEF GuessesInv
<1>10. Guessed(ip)'
  BY <1>2, <1>3, <1>7, <1>8 DEF Guessed
<1> QED
  BY <1>3, <1>8, <1>9, <1>10 DEF GuessesInv

LEMMA LoginFailsGuesses ==
  ASSUME PanelTypeOK, GuessesInv, NEW c \in Conn, LoginFails(c)
  PROVE  GuessesInv'
<1>1. PICK ip \in Ip : ip = request[c].ip
  BY DEF PanelTypeOK, RequestOK, LoginFails
<1>2. /\ rate' = Insert(rate, ip, Failed(ip)) /\ UNCHANGED clock /\ Goes(c, Idle) /\ Idle.at # "verify"
      /\ guesses' = [guesses EXCEPT ![ip] = OneMore(@, clock)]
  BY <1>1 DEF LoginFails, Idle, OneMore, Ticks
<1>3. /\ DOMAIN rate' = DOMAIN rate \cup {ip} /\ rate'[ip] = Failed(ip)
      /\ \A i \in DOMAIN rate \ {ip} : rate'[i] = rate[i]
  BY <1>2 DEF Insert
<1>4. \A i \in Ip \ {ip} : c \notin Verifying(i)
  BY <1>1 DEF Verifying
<1>5. \A i \in Ip \ {ip} : Verifying(i)' = Verifying(i)
  BY <1>2, <1>4, VerifyingMoves
<1>6. clock \in 0..MaxTime
  BY DEF PanelTypeOK
<1>7. guesses'[ip] = OneMore(guesses[ip], clock) /\ DOMAIN guesses' = Ip
      /\ \A i \in Ip \ {ip} : guesses'[i] = guesses[i]
  BY <1>2 DEF GuessesInv
<1>8. c \in Verifying(ip)
  BY <1>1 DEF Verifying, LoginFails
<1>9. PICK v \in Nat : v = Cardinality(Verifying(ip)') /\ v + 1 = Cardinality(Verifying(ip))
  <2>1. Verifying(ip)' = Verifying(ip) \ {c}
    BY <1>2, VerifyingMoves
  <2>2. Cardinality(Verifying(ip) \ {c}) = Cardinality(Verifying(ip)) - 1
    BY <1>8, VerifyingFinite, FS_RemoveElement
  <2> QED
    BY <2>1, <2>2, VerifyingFinite, VerifyingFiniteNext
<1>10. v + 1 <= Cardinality(Conn)
  BY <1>9, VerifyingFinite
<1>11. /\ ip \in DOMAIN rate => WithEntry(guesses[ip], clock, v + 1, rate[ip])
       /\ ip \notin DOMAIN rate => WithoutEntry(guesses[ip], clock)
  BY <1>9 DEF GuessesInv, Guessed
<1>12. WithEntry(OneMore(guesses[ip], clock), clock, v, Failed(ip))
  <2>1. CASE Recent(ip)
    <3>1. WithEntry(guesses[ip], clock, v + 1, rate[ip]) /\ clock - rate[ip].start < LoginWindow
      BY <1>11, <2>1 DEF Recent
    <3>2. rate[ip] \in [fails : Nat, start : 0..clock]
      BY <3>1 DEF WithEntry, Counted
    <3>3. Failed(ip) = [fails |-> rate[ip].fails + 1, start |-> rate[ip].start]
      BY <2>1, <3>2 DEF Failed
    <3> QED
      BY <1>6, <3>1, <3>3, FailWithin
  <2>2. CASE ~Recent(ip)
    <3>1. WithoutEntry(guesses[ip], clock)
      <4>1. CASE ip \in DOMAIN rate
        <5>1. WithEntry(guesses[ip], clock, v + 1, rate[ip])
          BY <1>11, <4>1
        <5>2. rate[ip].start \in 0..clock
          BY <5>1 DEF WithEntry, Counted
        <5>3. clock - rate[ip].start >= LoginWindow
          BY <1>6, <2>2, <4>1, <5>2, PanelAssumption DEF Recent
        <5> QED
          BY <1>6, <1>9, <5>1, <5>3, DropLimits
      <4>2. CASE ip \notin DOMAIN rate
        BY <1>11, <4>2
      <4> QED
        BY <4>1, <4>2
    <3>2. Failed(ip) = [fails |-> 1, start |-> clock]
      BY <2>2 DEF Failed
    <3> QED
      BY <1>6, <1>9, <1>10, <3>1, <3>2, FailFirst
  <2> QED
    BY <2>1, <2>2
<1>13. \A i \in Ip \ {ip} : Guessed(i)'
  BY <1>2, <1>3, <1>5, <1>7, OthersGuessed DEF GuessesInv
<1>14. Guessed(ip)'
  BY <1>2, <1>3, <1>7, <1>9, <1>12 DEF Guessed
<1> QED
  BY <1>3, <1>7, <1>13, <1>14 DEF GuessesInv

LEMMA GuessesStep ==
  ASSUME PanelTypeOK, GuessesInv, [PanelNext]_panelVars
  PROVE  GuessesInv'
<1>1. CASE StartDaemon \/ Mend
  BY <1>1, GuessesKept DEF StartDaemon, Mend, Verifying, counters
<1>2. CASE StopDaemon
  <2>1. DOMAIN rate' = {} /\ UNCHANGED clock /\ guesses' = [i \in Ip |-> NoGuesses]
    BY <1>2 DEF StopDaemon
  <2>2. clock \in 0..MaxTime
    BY DEF PanelTypeOK
  <2>3. WithoutEntry(NoGuesses, clock)
    BY <2>2, NoneGuessed
  <2> QED
    BY <2>1, <2>3 DEF GuessesInv, Guessed
<1>3. CASE ClockTick
  <2>1. /\ clock' = clock + 1 /\ clock \in 0..MaxTime /\ clock + 1 \in 0..MaxTime
        /\ UNCHANGED <<rate, guesses, request>>
    BY <1>3, PanelAssumption DEF ClockTick, PanelTypeOK
  <2>2. \A ip \in Ip : Verifying(ip)' = Verifying(ip)
    BY <2>1 DEF Verifying
  <2>3. ASSUME NEW ip \in Ip PROVE Guessed(ip)'
    BY <2>1, <2>2, TickWithEntry, TickWithoutEntry DEF GuessesInv, Guessed
  <2> QED
    BY <2>1, <2>3 DEF GuessesInv
<1>4. ASSUME NEW c \in Conn, NEW to, Goes(c, to), to.at # "verify", request[c].at # "verify",
             UNCHANGED <<rate, guesses, clock>>
      PROVE  GuessesInv'
  <2>1. \A ip \in Ip : Verifying(ip)' = Verifying(ip) /\ c \notin Verifying(ip)
    <3>1. \A ip \in Ip : c \notin Verifying(ip)
      BY <1>4 DEF Verifying
    <3> QED
      BY <1>4, <3>1, VerifyingMoves
  <2> QED
    BY <1>4, <2>1, GuessesKept
<1>5. CASE Elsewhere
  <2>1. CASE UNCHANGED request
    BY <1>5, <2>1, GuessesKept DEF Elsewhere, Verifying
  <2>2. ASSUME NEW c \in Conn, NEW r \in [at : Errand], request[c].at \in Errand, Goes(c, r)
        PROVE  GuessesInv'
    BY <1>4, <1>5, <2>2 DEF Elsewhere, Errand
  <2> QED
    BY <1>5, <2>1, <2>2 DEF Elsewhere
<1>6. ASSUME NEW c \in Conn, NEW ip \in Ip, NEW t \in Token,
             \/ \E p \in Password : ChangePassword(c, ip, t, p)
             \/ \E on \in BOOLEAN : SetRemote(c, ip, t, on)
      PROVE  GuessesInv'
  <2>1. Goes(c, [at |-> "persist"]) /\ request[c] = Idle /\ UNCHANGED <<rate, guesses, clock>>
    BY <1>6, PersistType
  <2> QED
    BY <1>4, <2>1 DEF Idle
<1>7. ASSUME NEW c \in Conn, (\E ok \in BOOLEAN : Persisted(c, ok)) \/ Write(c)
      PROVE  GuessesInv'
  <2>1. Goes(c, Idle) /\ Idle.at # "verify" /\ request[c].at # "verify"
    BY <1>7 DEF Persisted, Write, Idle
  <2>2. UNCHANGED <<rate, guesses, clock>>
    BY <1>7 DEF Persisted, Write, counters
  <2> QED
    BY <1>4, <2>1, <2>2
<1>8. ASSUME NEW c \in Conn, NEW ip \in Ip, NEW t \in Token, NEW form, SaveSettings(c, ip, t, form)
      PROVE  GuessesInv'
  <2>1. Goes(c, [at |-> "save", doc |-> Submitted(file, form)]) /\ request[c] = Idle
        /\ UNCHANGED <<rate, guesses, clock>>
    BY <1>8 DEF SaveSettings, MayAct, Admitted, Arrives
  <2> QED
    BY <1>4, <2>1 DEF Idle
<1>9. ASSUME NEW c \in Conn, OpenForWriting(c)
      PROVE  GuessesInv'
  <2>1. request[c] \in [at : {"save", "write"}, doc : {request[c].doc}]
    BY <1>9 DEF PanelTypeOK, RequestOK, OpenForWriting
  <2>2. [request[c] EXCEPT !.at = "write"].at = "write" /\ request[c].at # "verify"
    BY <2>1
  <2>3. Goes(c, [request[c] EXCEPT !.at = "write"]) /\ UNCHANGED <<rate, guesses, clock>>
    BY <1>9 DEF OpenForWriting, counters
  <2> QED
    BY <1>4, <2>2, <2>3
<1> QED
  BY <1>1, <1>2, <1>3, <1>5, <1>6, <1>7, <1>8, <1>9, LoginGuesses, LoggedInGuesses, LoginFailsGuesses,
     PanelSteps

(* However log-ons, time-outs of the window and other requests interleave, *)
(* an address fails in as many ticks as the window has at most twice what  *)
(* one window lets it, for any limit, window and number of connections     *)
(* (status.rs:762-788).                                                    *)
THEOREM GuessesStayBounded == PanelSpec => []GuessesBounded
<1>1. PanelInit => PanelTypeOK /\ GuessesInv
  <2> SUFFICES ASSUME PanelInit PROVE GuessesInv
    BY PanelTypeInit
  <2>1. DOMAIN rate = {} /\ clock \in 0..MaxTime /\ guesses = [i \in Ip |-> NoGuesses]
    BY PanelAssumption DEF PanelInit
  <2>2. WithoutEntry(NoGuesses, clock)
    BY <2>1, NoneGuessed
  <2> QED
    BY <2>1, <2>2 DEF GuessesInv, Guessed
<1>2. PanelTypeOK /\ GuessesInv /\ [PanelNext]_panelVars => (PanelTypeOK /\ GuessesInv)'
  BY PanelTypeStep, GuessesStep
<1>3. GuessesInv => GuessesBounded
  <2>1. GuessesInv => \A ip \in Ip : Bounded(guesses[ip])
    BY DEF GuessesInv, Guessed, WithEntry, WithoutEntry, Counts
  <2> QED
    BY <2>1 DEF GuessesBounded, Bounded, Most, Ticks
<1> QED
  BY <1>1, <1>2, <1>3, PTL DEF PanelSpec
================================================================================
