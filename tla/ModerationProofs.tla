----------------------------- MODULE ModerationProofs -----------------------------
(***************************************************************************)
(* The ban store (moderation.rs) keeps its word for any sessions, names,   *)
(* durations, clock adjustments and restarts: its fast-path flags are      *)
(* exact and nobody speaks through a mute.                                 *)
(***************************************************************************)
EXTENDS Moderation, TLAPS

(* The store and what staff have ordered have their shapes, and the clock  *)
(* is never ahead of the time that has really passed.                      *)
StoreTypeOK ==
  /\ bans \in Bans
  /\ writing \in BOOLEAN /\ intact \in BOOLEAN
  /\ orders \in Expiries(Names)
  /\ said \in [Session -> Int]
  /\ clock \in Nat /\ real \in Nat /\ clock <= real

(* Every mute that still stands is in the store.                           *)
OrdersKept ==
  \A name \in DOMAIN orders :
    orders[name] > real =>
      name \in DOMAIN bans.mutes /\ bans.mutes[name] = orders[name]

(* The inductive invariant: as long as the file was written whole, it is   *)
(* the store whenever nobody writes it, and the store has what was ordered.*)
Inv ==
  /\ StoreTypeOK
  /\ FlagsExact
  /\ intact => OrdersKept
  /\ intact /\ ~writing => disk = bans

-----------------------------------------------------------------------------
(* Tables of expiries.                                                     *)

(* A table is a function on some of its keys.                              *)
LEMMA ExpiriesOf ==
  ASSUME NEW X, NEW f
  PROVE  f \in Expiries(X) <=> DOMAIN f \subseteq X /\ f \in [DOMAIN f -> Nat]
<1>1. ASSUME f \in Expiries(X) PROVE DOMAIN f \subseteq X /\ f \in [DOMAIN f -> Nat]
  <2>1. PICK K \in SUBSET X : f \in [K -> Nat]
    BY <1>1 DEF Expiries
  <2> QED
    BY <2>1
<1>2. ASSUME DOMAIN f \subseteq X, f \in [DOMAIN f -> Nat] PROVE f \in Expiries(X)
  BY <1>2 DEF Expiries
<1> QED
  BY <1>1, <1>2

(* The empty table.                                                        *)
LEMMA EmptyTable == \A X : <<>> \in Expiries(X)
<1>1. <<>> \in [{} -> Nat]
  OBVIOUS
<1> QED
  BY <1>1 DEF Expiries

(* An entry put in a table is there, and the others stay.                  *)
LEMMA PutIn ==
  ASSUME NEW X, NEW f \in Expiries(X), NEW k \in X, NEW v \in Nat
  PROVE  /\ Put(f, k, v) \in Expiries(X)
         /\ DOMAIN Put(f, k, v) = DOMAIN f \cup {k} /\ Put(f, k, v)[k] = v
         /\ \A x \in DOMAIN f \ {k} : Put(f, k, v)[x] = f[x]
<1> DEFINE g == Put(f, k, v)
<1>1. DOMAIN f \subseteq X /\ f \in [DOMAIN f -> Nat]
  BY ExpiriesOf
<1>2. /\ DOMAIN g = DOMAIN f \cup {k} /\ g[k] = v
      /\ \A x \in DOMAIN f \ {k} : g[x] = f[x]
  BY DEF Put
<1>3. g \in [DOMAIN g -> Nat]
  BY <1>1 DEF Put
<1> HIDE DEF g
<1>4. g \in Expiries(X)
  BY <1>1, <1>2, <1>3, ExpiriesOf
<1> QED
  BY <1>2, <1>4 DEF g

(* Entries dropped from a table are gone, and the others stay.             *)
LEMMA DropFrom ==
  ASSUME NEW X, NEW f \in Expiries(X), NEW keys
  PROVE  /\ Drop(f, keys) \in Expiries(X)
         /\ DOMAIN Drop(f, keys) = DOMAIN f \ keys
         /\ \A x \in DOMAIN f \ keys : Drop(f, keys)[x] = f[x]
<1> DEFINE g == Drop(f, keys)
<1>1. DOMAIN f \subseteq X /\ f \in [DOMAIN f -> Nat]
  BY ExpiriesOf
<1>2. DOMAIN g = DOMAIN f \ keys /\ \A x \in DOMAIN f \ keys : g[x] = f[x]
  BY DEF Drop
<1>3. g \in [DOMAIN g -> Nat]
  BY <1>1 DEF Drop
<1> HIDE DEF g
<1>4. g \in Expiries(X)
  BY <1>1, <1>2, <1>3, ExpiriesOf
<1> QED
  BY <1>2, <1>4 DEF g

(* Pruning keeps what has not expired.                                     *)
LEMMA LiveOf ==
  ASSUME NEW X, NEW f \in Expiries(X)
  PROVE  /\ Live(f) \in Expiries(X)
         /\ \A x \in DOMAIN f : f[x] > clock => x \in DOMAIN Live(f) /\ Live(f)[x] = f[x]
<1> DEFINE g == Live(f)
<1>1. DOMAIN f \subseteq X /\ f \in [DOMAIN f -> Nat]
  BY ExpiriesOf
<1>2. /\ DOMAIN g = {y \in DOMAIN f : f[y] > clock}
      /\ \A x \in DOMAIN g : g[x] = f[x]
  BY DEF Live
<1>3. g \in [DOMAIN g -> Nat]
  BY <1>1 DEF Live
<1> HIDE DEF g
<1>4. g \in Expiries(X)
  BY <1>1, <1>2, <1>3, ExpiriesOf
<1>5. \A x \in DOMAIN f : f[x] > clock => x \in DOMAIN g /\ g[x] = f[x]
  BY <1>2
<1> QED
  BY <1>4, <1>5 DEF g

(* A pruned store is a store, and keeps every mute that has not expired.   *)
LEMMA PruneOf ==
  ASSUME NEW b \in Bans
  PROVE  /\ Prune(b) \in Bans /\ Prune(b).tags = b.tags
         /\ Prune(b).mutes = Live(b.mutes) /\ Prune(b).ips = Live(b.ips)
<1>1. Live(b.ips) \in Expiries({IpOf[s] : s \in Session}) /\ Live(b.mutes) \in Expiries(Names)
  BY LiveOf DEF Bans
<1> QED
  BY <1>1 DEF Prune, Bans

-----------------------------------------------------------------------------
(* Steps.                                                                  *)

LEMMA InitInv == Init => Inv
<1> SUFFICES ASSUME Init PROVE Inv
  OBVIOUS
<1>1. <<>> \in Expiries(Names) /\ <<>> \in Expiries({IpOf[s] : s \in Session})
  BY EmptyTable
<1>2. NoBans \in Bans
  BY <1>1 DEF NoBans, Bans
<1>3. StoreTypeOK
  <2>1. said \in [Session -> Int]
    BY DEF Init
  <2>2. bans \in Bans /\ orders \in Expiries(Names)
    BY <1>1, <1>2 DEF Init
  <2>3. clock \in Nat /\ real \in Nat /\ clock <= real
    BY DEF Init
  <2>4. writing \in BOOLEAN /\ intact \in BOOLEAN
    BY DEF Init
  <2> QED
    BY <2>1, <2>2, <2>3, <2>4 DEF StoreTypeOK
<1>4. FlagsExact
  BY DEF Init, FlagsExact
<1>5. OrdersKept
  BY DEF Init, OrdersKept
<1> QED
  BY <1>3, <1>4, <1>5 DEF Init, Inv

(* A step that leaves the store, the orders and the clocks alone.          *)
LEMMA StoreUnchanged ==
  ASSUME Inv, UNCHANGED <<store, time, orders, intact>>, said' \in [Session -> Int]
  PROVE  Inv'
<1>1. StoreTypeOK'
  BY DEF Inv, StoreTypeOK, store, time
<1>2. FlagsExact' /\ (intact => OrdersKept)'
  BY DEF Inv, FlagsExact, OrdersKept, FlagsOf, store, time
<1> QED
  BY <1>1, <1>2 DEF Inv, store

(* A change of the store under the lock that keeps what was ordered.       *)
LEMMA SetInv ==
  ASSUME Inv, NEW b \in Bans, Set(b), UNCHANGED <<time, said, intact>>,
         orders' \in Expiries(Names),
         OrdersKept => \A name \in DOMAIN orders' :
           orders'[name] > real => name \in DOMAIN b.mutes /\ b.mutes[name] = orders'[name]
  PROVE  Inv'
<1>1. StoreTypeOK'
  BY DEF Inv, StoreTypeOK, Set, time
<1>2. FlagsExact'
  BY DEF FlagsExact, Set, RefreshFlags, FlagsOf
<1>3. intact' => OrdersKept'
  BY DEF Inv, OrdersKept, Set, time
<1>4. writing'
  BY DEF Set
<1> QED
  BY <1>1, <1>2, <1>3, <1>4 DEF Inv

(* The commands prune first, which loses no mute that stands: the clock is *)
(* not ahead of real time.                                                 *)
LEMMA PrunedKeeps ==
  ASSUME Inv, OrdersKept, NEW name \in DOMAIN orders, orders[name] > real
  PROVE  name \in DOMAIN Prune(bans).mutes /\ Prune(bans).mutes[name] = orders[name]
<1>1. bans \in Bans /\ bans.mutes \in Expiries(Names)
  BY DEF Inv, StoreTypeOK, Bans
<1>2. name \in DOMAIN bans.mutes /\ bans.mutes[name] = orders[name]
  BY DEF OrdersKept
<1>3. bans.mutes[name] > clock
  <2>1. orders[name] \in Nat
    BY ExpiriesOf DEF Inv, StoreTypeOK
  <2> QED
    BY <1>2, <2>1 DEF Inv, StoreTypeOK
<1> QED
  BY <1>1, <1>2, <1>3, LiveOf, PruneOf

LEMMA MuteInv ==
  ASSUME Inv, NEW s \in Session, NEW name \in Names, NEW d \in Duration, Mute(s, name, d)
  PROVE  Inv'
<1> DEFINE p == Prune(bans)
           e == Expiry(d)
           b == [p EXCEPT !.mutes = Put(p.mutes, name, e)]
<1>1. p \in Bans /\ p.mutes \in Expiries(Names)
  BY PruneOf DEF Inv, StoreTypeOK, Bans
<1>2. e \in Nat
  BY ModerationAssumption DEF Expiry, Inv, StoreTypeOK
<1>3. Set(b) /\ orders' = Put(orders, name, e) /\ UNCHANGED <<time, said, intact>>
  BY DEF Mute, Command, Charged, time
<1> HIDE DEF p, e
<1>4. Put(p.mutes, name, e) \in Expiries(Names)
  BY <1>1, <1>2, PutIn
<1>5. b \in Bans /\ b.mutes = Put(p.mutes, name, e)
  BY <1>1, <1>4 DEF Bans
<1> HIDE DEF b
<1>6. orders \in Expiries(Names)
  BY DEF Inv, StoreTypeOK
<1>7. /\ orders' \in Expiries(Names)
      /\ DOMAIN orders' = DOMAIN orders \cup {name} /\ orders'[name] = e
      /\ \A x \in DOMAIN orders \ {name} : orders'[x] = orders[x]
  <2>1. orders' \in Expiries(Names)
    BY <1>2, <1>3, <1>6, PutIn
  <2>2. /\ DOMAIN orders' = DOMAIN orders \cup {name} /\ orders'[name] = e
        /\ \A x \in DOMAIN orders \ {name} : orders'[x] = orders[x]
    BY <1>3 DEF Put
  <2> QED
    BY <2>1, <2>2
<1>8. /\ DOMAIN b.mutes = DOMAIN p.mutes \cup {name} /\ b.mutes[name] = e
      /\ \A x \in DOMAIN p.mutes \ {name} : b.mutes[x] = p.mutes[x]
  BY <1>5 DEF Put
<1>9. ASSUME OrdersKept, NEW n \in DOMAIN orders', orders'[n] > real
      PROVE  n \in DOMAIN b.mutes /\ b.mutes[n] = orders'[n]
  <2>1. CASE n = name
    BY <1>7, <1>8, <2>1
  <2>2. CASE n # name
    <3>1. n \in DOMAIN orders /\ orders'[n] = orders[n]
      BY <1>7, <2>2
    <3>2. n \in DOMAIN p.mutes /\ p.mutes[n] = orders[n]
      BY <1>9, <3>1, PrunedKeeps DEF p
    <3> QED
      BY <1>8, <2>2, <3>1, <3>2
  <2> QED
    BY <2>1, <2>2
<1> QED
  BY <1>3, <1>5, <1>7, <1>9, SetInv

LEMMA UnmuteInv ==
  ASSUME Inv, NEW s \in Session, NEW name \in Names, Unmute(s, name)
  PROVE  Inv'
<1> DEFINE p == Prune(bans)
           b == [p EXCEPT !.mutes = Drop(p.mutes, {name})]
<1>1. p \in Bans /\ p.mutes \in Expiries(Names)
  BY PruneOf DEF Inv, StoreTypeOK, Bans
<1>2. Set(b) /\ orders' = Drop(orders, {name}) /\ UNCHANGED <<time, said, intact>>
  BY DEF Unmute, Command, Charged, time
<1> HIDE DEF p
<1>3. Drop(p.mutes, {name}) \in Expiries(Names)
  BY <1>1, DropFrom
<1>4. b \in Bans /\ b.mutes = Drop(p.mutes, {name})
  BY <1>1, <1>3 DEF Bans
<1> HIDE DEF b
<1>5. orders \in Expiries(Names)
  BY DEF Inv, StoreTypeOK
<1>6. /\ orders' \in Expiries(Names) /\ DOMAIN orders' = DOMAIN orders \ {name}
      /\ \A n \in DOMAIN orders' : orders'[n] = orders[n]
  BY <1>2, <1>5, DropFrom
<1>7. /\ DOMAIN b.mutes = DOMAIN p.mutes \ {name}
      /\ \A n \in DOMAIN b.mutes : b.mutes[n] = p.mutes[n]
  BY <1>4 DEF Drop
<1>8. ASSUME OrdersKept, NEW n \in DOMAIN orders', orders'[n] > real
      PROVE  n \in DOMAIN b.mutes /\ b.mutes[n] = orders'[n]
  <2>1. n \in DOMAIN orders /\ n # name /\ orders'[n] = orders[n]
    BY <1>6
  <2>2. n \in DOMAIN p.mutes /\ p.mutes[n] = orders[n]
    BY <1>8, <2>1, PrunedKeeps DEF p
  <2> QED
    BY <1>7, <2>1, <2>2
<1> QED
  BY <1>2, <1>4, <1>6, <1>8, SetInv

(* Bans of addresses prune the mutes and touch nothing else of them.       *)
LEMMA IpInv ==
  ASSUME Inv, NEW s \in Session, NEW target \in Session,
         IpUnban(s, IpOf[target]) \/ \E d \in Duration : IpBan(s, target, d)
  PROVE  Inv'
<1> DEFINE p == Prune(bans)
           Ips == {IpOf[t] : t \in Session}
<1>1. p \in Bans /\ p.ips \in Expiries(Ips)
  BY PruneOf DEF Inv, StoreTypeOK, Bans
<1>2. \E f \in Expiries(Ips) : Set([p EXCEPT !.ips = f])
  <2>1. CASE IpUnban(s, IpOf[target])
    <3>1. Set([p EXCEPT !.ips = Drop(p.ips, {IpOf[target]})])
      BY <2>1 DEF IpUnban
    <3>2. Drop(p.ips, {IpOf[target]}) \in Expiries(Ips)
      BY <1>1, DropFrom
    <3> QED
      BY <3>1, <3>2
  <2>2. ASSUME NEW d \in Duration, IpBan(s, target, d)
        PROVE  \E f \in Expiries(Ips) : Set([p EXCEPT !.ips = f])
    <3>1. Set([p EXCEPT !.ips = Put(p.ips, IpOf[target], Expiry(d))])
      BY <2>2 DEF IpBan
    <3>2. Expiry(d) \in Nat
      BY ModerationAssumption DEF Expiry, Inv, StoreTypeOK
    <3>3. Put(p.ips, IpOf[target], Expiry(d)) \in Expiries(Ips)
      BY <1>1, <3>2, PutIn
    <3> QED
      BY <3>1, <3>3
  <2> QED
    BY <2>1, <2>2
<1>3. PICK f \in Expiries(Ips) : Set([p EXCEPT !.ips = f])
  BY <1>2
<1>4. [p EXCEPT !.ips = f] \in Bans /\ [p EXCEPT !.ips = f].mutes = p.mutes
  BY <1>1 DEF Bans
<1>5. UNCHANGED <<time, said, intact, orders>>
  BY DEF IpUnban, IpBan, Command, Charged, time
<1>6. orders \in Expiries(Names)
  BY DEF Inv, StoreTypeOK
<1>7. OrdersKept => \A n \in DOMAIN orders : orders[n] > real =>
        n \in DOMAIN p.mutes /\ p.mutes[n] = orders[n]
  BY PrunedKeeps
<1> HIDE DEF p
<1> QED
  BY <1>3, <1>4, <1>5, <1>6, <1>7, SetInv

(* Bans of tags touch no mute.                                             *)
LEMMA TagInv ==
  ASSUME Inv, NEW s \in Session, NEW name \in Names, NEW tag \in Tags(name),
         TagBan(s, tag) \/ TagUnban(s, tag)
  PROVE  Inv'
<1>1. bans \in Bans
  BY DEF Inv, StoreTypeOK
<1>2. \E T \in SUBSET UNION {Tags(n) : n \in Names} : Set([bans EXCEPT !.tags = T])
  <2>1. bans.tags \in SUBSET UNION {Tags(n) : n \in Names}
    BY <1>1 DEF Bans
  <2>2. CASE TagBan(s, tag)
    <3>1. bans.tags \cup {tag} \in SUBSET UNION {Tags(n) : n \in Names}
      BY <2>1
    <3>2. Set([bans EXCEPT !.tags = bans.tags \cup {tag}])
      BY <2>2 DEF TagBan
    <3> QED
      BY <3>1, <3>2
  <2>3. CASE TagUnban(s, tag)
    <3>1. bans.tags \ {tag} \in SUBSET UNION {Tags(n) : n \in Names}
      BY <2>1
    <3>2. Set([bans EXCEPT !.tags = bans.tags \ {tag}])
      BY <2>3 DEF TagUnban
    <3> QED
      BY <3>1, <3>2
  <2> QED
    BY <2>2, <2>3
<1>3. PICK T \in SUBSET UNION {Tags(n) : n \in Names} : Set([bans EXCEPT !.tags = T])
  BY <1>2
<1>4. [bans EXCEPT !.tags = T] \in Bans /\ [bans EXCEPT !.tags = T].mutes = bans.mutes
  BY <1>1 DEF Bans
<1>5. UNCHANGED <<time, said, intact, orders>>
  BY DEF TagBan, TagUnban, Command, Charged, time
<1>6. orders \in Expiries(Names)
  BY DEF Inv, StoreTypeOK
<1> QED
  BY <1>3, <1>4, <1>5, <1>6, SetInv DEF OrdersKept

(* The file holds the store again, or never counts again.                  *)
LEMMA WriteInv ==
  ASSUME Inv, NEW ok \in BOOLEAN, WriteEnds(ok)
  PROVE  Inv'
<1>1. StoreTypeOK'
  BY DEF Inv, StoreTypeOK, WriteEnds, time
<1>2. FlagsExact'
  BY DEF Inv, FlagsExact, FlagsOf, WriteEnds
<1>3. intact' => intact /\ ok
  BY DEF WriteEnds, Inv, StoreTypeOK
<1>4. intact' => OrdersKept'
  BY <1>3 DEF Inv, OrdersKept, WriteEnds, time
<1>5. intact' => disk' = bans'
  BY <1>3 DEF WriteEnds
<1> QED
  BY <1>1, <1>2, <1>4, <1>5 DEF Inv

(* A restart loads the store that was there, if the file is whole.         *)
LEMMA RestartInv ==
  ASSUME Inv, Restart, disk \in Bans \cup {Truncated}
  PROVE  Inv'
<1>1. Load(disk) \in Bans
  <2>1. NoBans \in Bans
    <3>1. <<>> \in Expiries(Names) /\ <<>> \in Expiries({IpOf[s] : s \in Session})
      BY EmptyTable
    <3> QED
      BY <3>1 DEF NoBans, Bans
  <2> QED
    BY <2>1 DEF Load
<1>2. StoreTypeOK'
  BY <1>1 DEF Inv, StoreTypeOK, Restart, time
<1>3. FlagsExact'
  BY DEF FlagsExact, FlagsOf, Restart
<1>4. intact' => intact /\ ~writing
  BY DEF Restart, Inv, StoreTypeOK
<1>5. intact' => bans' = bans /\ disk' = bans'
  BY <1>4, TruncatedAssumption DEF Inv, StoreTypeOK, Restart, Load
<1>6. intact' => OrdersKept'
  BY <1>4, <1>5 DEF Inv, OrdersKept, Restart, time
<1> QED
  BY <1>2, <1>3, <1>5, <1>6 DEF Inv

(* Time passes: fewer mutes stand.                                         *)
LEMMA TimeInv == Inv /\ (Tick \/ SetBack) => Inv'
<1> SUFFICES ASSUME Inv, Tick \/ SetBack PROVE Inv'
  OBVIOUS
<1>1. StoreTypeOK'
  BY DEF Inv, StoreTypeOK, Tick, SetBack, store, history
<1>2. FlagsExact'
  BY DEF Inv, FlagsExact, FlagsOf, Tick, SetBack, store
<1>3. intact' => OrdersKept'
  <2>1. real' \in Nat /\ real' >= real
    BY DEF Inv, StoreTypeOK, Tick, SetBack
  <2>2. \A n \in DOMAIN orders : orders[n] \in Nat
    BY ExpiriesOf DEF Inv, StoreTypeOK
  <2>3. UNCHANGED <<orders, bans, intact>>
    BY DEF Tick, SetBack, store, history
  <2>4. \A n \in DOMAIN orders : orders[n] > real' => orders[n] > real
    BY <2>1, <2>2 DEF Inv, StoreTypeOK
  <2> QED
    BY <2>3, <2>4 DEF Inv, OrdersKept
<1>4. UNCHANGED <<disk, bans, writing, intact>>
  BY DEF Tick, SetBack, store, history
<1> QED
  BY <1>1, <1>2, <1>3, <1>4 DEF Inv

-----------------------------------------------------------------------------
(* The file is a store, or cut short.                                      *)
FileOK == disk \in Bans \cup {Truncated}

(* A step of a session that does not change the store.                     *)
Quiet(s) ==
  \/ Connect(s) \/ Logon(s) \/ Kicked(s) \/ End(s) \/ Exceeded(s) \/ Talk(s)
  \/ \E name \in Names : Squelch(s, name) \/ Unsquelch(s, name)

LEMMA QuietInv ==
  ASSUME Inv, NEW s \in Session, Quiet(s)
  PROVE  Inv' /\ disk' = disk
<1>1. UNCHANGED <<store, time, orders, intact>>
  BY DEF Quiet, Connect, Logon, Kicked, End, Exceeded, Talk, Squelch, Unsquelch, Sends, Charged, history
<1>2. said' \in [Session -> Int]
  <2>1. CASE Talk(s)
    BY <2>1 DEF Talk, Inv, StoreTypeOK
  <2>2. CASE ~Talk(s)
    BY <2>2 DEF Quiet, Connect, Logon, Kicked, End, Exceeded, Squelch, Unsquelch, Sends,
                Charged, history, Inv, StoreTypeOK
  <2> QED
    BY <2>1, <2>2
<1> QED
  BY <1>1, <1>2, StoreUnchanged DEF store

(* A step of a session that does.                                          *)
Orders(s) ==
  \/ \E name \in Names :
       \/ Unmute(s, name) \/ \E d \in Duration : Mute(s, name, d)
       \/ \E tag \in Tags(name) : TagBan(s, tag) \/ TagUnban(s, tag)
  \/ \E target \in Session : IpUnban(s, IpOf[target]) \/ \E d \in Duration : IpBan(s, target, d)

LEMMA OrdersInv ==
  ASSUME Inv, NEW s \in Session, Orders(s)
  PROVE  Inv' /\ disk' = Truncated
<1>1. Inv'
  BY MuteInv, UnmuteInv, TagInv, IpInv DEF Orders
<1>2. disk' = Truncated
  BY DEF Orders, Unmute, Mute, TagBan, TagUnban, IpUnban, IpBan, Set
<1> QED
  BY <1>1, <1>2

(* The disjuncts of Next by what they do to the store.                     *)
LEMMA NextSplit ==
  Next => \/ \E ok \in BOOLEAN : WriteEnds(ok)
          \/ \E s \in Session : Quiet(s) \/ Orders(s)
          \/ Tick \/ SetBack \/ Restart
  BY DEF Next, Quiet, Orders

LEMMA InvInductive == Inv /\ FileOK /\ [Next]_vars => Inv' /\ FileOK'
<1> SUFFICES ASSUME Inv, FileOK, [Next]_vars PROVE Inv' /\ FileOK'
  OBVIOUS
<1>1. CASE UNCHANGED vars
  <2>1. UNCHANGED <<store, time, orders, intact, said, disk>>
    BY <1>1 DEF vars, history, store
  <2>2. said' \in [Session -> Int]
    BY <2>1 DEF Inv, StoreTypeOK
  <2> QED
    BY <2>1, <2>2, StoreUnchanged DEF FileOK
<1>2. ASSUME NEW ok \in BOOLEAN, WriteEnds(ok) PROVE Inv' /\ FileOK'
  <2>1. FileOK'
    BY <1>2 DEF WriteEnds, FileOK, Inv, StoreTypeOK
  <2> QED
    BY <1>2, <2>1, WriteInv
<1>3. ASSUME NEW s \in Session, Quiet(s) PROVE Inv' /\ FileOK'
  BY <1>3, QuietInv DEF FileOK
<1>4. ASSUME NEW s \in Session, Orders(s) PROVE Inv' /\ FileOK'
  BY <1>4, OrdersInv DEF FileOK
<1>5. CASE Tick \/ SetBack
  <2>1. disk' = disk
    BY <1>5 DEF Tick, SetBack, store
  <2> QED
    BY <1>5, <2>1, TimeInv DEF FileOK
<1>6. CASE Restart
  <2>1. disk' = disk
    BY <1>6 DEF Restart
  <2> QED
    BY <1>6, <2>1, RestartInv DEF FileOK
<1> QED
  BY <1>1, <1>2, <1>3, <1>4, <1>5, <1>6, NextSplit

LEMMA InitFile == Init => FileOK
  BY InitInv DEF Init, FileOK, Inv, StoreTypeOK

-----------------------------------------------------------------------------
(* The flags that mute_for and its like read without the lock are those of *)
(* the store behind it, whatever the commands, prunings and restarts       *)
(* (moderation.rs, refresh_flags).                                         *)
THEOREM FlagsStayExact == Spec => []FlagsExact
<1>1. Inv => FlagsExact
  BY DEF Inv
<1> QED
  BY <1>1, InitInv, InitFile, InvInductive, PTL DEF Spec

(* Only Talk lets a line through, and not that of an account whose mute    *)
(* stands.                                                                 *)
LEMMA SilenceStep ==
  Inv /\ [Next]_vars
    => [\A s \in Session : Speaks(s) => ~(intact /\ Ordered(AccountName(s)))]_vars
<1> SUFFICES ASSUME Inv, Next, NEW s \in Session, said'[s] # said[s],
                    intact, Ordered(AccountName(s))
             PROVE  FALSE
  BY DEF Speaks
<1>1. \E t \in Session : Talk(t)
  <2>1. \A t \in Session : Quiet(t) => Talk(t) \/ said' = said
    BY DEF Quiet, Connect, Logon, Kicked, End, Exceeded, Squelch, Unsquelch, Sends,
           Charged, history
  <2>2. \A t \in Session : Orders(t) => said' = said
    BY DEF Orders, Unmute, Mute, TagBan, TagUnban, IpUnban, IpBan, Command
  <2>3. (\E ok \in BOOLEAN : WriteEnds(ok)) \/ Tick \/ SetBack \/ Restart => said' = said
    BY DEF WriteEnds, Tick, SetBack, Restart, history
  <2> QED
    BY <2>1, <2>2, <2>3, NextSplit
<1>2. PICK t \in Session : Talk(t)
  BY <1>1
<1>3. t = s /\ ~Muted(AccountName(s))
  BY <1>2 DEF Talk, Inv, StoreTypeOK
<1> DEFINE n == AccountName(s)
<1>4. n \in DOMAIN orders /\ orders[n] > real
  BY DEF Ordered
<1>5. n \in DOMAIN bans.mutes /\ bans.mutes[n] = orders[n]
  BY <1>4 DEF Inv, OrdersKept
<1>6. has.mutes
  BY <1>5 DEF Inv, FlagsExact, FlagsOf
<1>7. bans.mutes[n] > clock
  <2>1. orders[n] \in Nat
    BY <1>4, ExpiriesOf DEF Inv, StoreTypeOK
  <2> QED
    BY <1>4, <1>5, <2>1 DEF Inv, StoreTypeOK
<1> QED
  BY <1>3, <1>5, <1>6, <1>7 DEF Muted

(* Whatever staff, clocks and restarts do, no line of an account whose     *)
(* mute stands reaches a channel as long as the ban file was written whole *)
(* (moderation.rs, mute_for; session.rs, chat_command).                    *)
THEOREM MutesHold == Spec => MutedStaySilent
<1>1. Inv /\ FileOK /\ [Next]_vars
        => [\A s \in Session : Speaks(s) => ~(intact /\ Ordered(AccountName(s)))]_vars
  BY SilenceStep
<1> QED
  BY <1>1, InitInv, InitFile, InvInductive, PTL DEF Spec, MutedStaySilent

-----------------------------------------------------------------------------
(* The flood budget.  Ten times a thousandth of a token is the unit, so    *)
(* that nothing is rounded: what n ticks earn, and what a tracker is worth *)
(* once it is refilled, at most a burst.                                   *)
Earned(n) == n * TickMs * Per10s

Idle(f, now) == IF now > f.last THEN now - f.last ELSE 0

Worth(f, now) ==
  IF 10 * f.tokens + Earned(Idle(f, now)) > 10 * Capacity THEN 10 * Capacity
  ELSE 10 * f.tokens + Earned(Idle(f, now))

Ticks == 0..MaxClock + 1

Tracker == [tokens : 0..Capacity, last : Nat]

FloodTypeOK ==
  /\ clock \in Nat /\ real \in 0..MaxClock
  /\ spent \in [Session -> [Ticks -> Nat]]
  /\ flood \in [Session -> Tracker]
  /\ stage \in [Session -> {"off", "connected", "online", "gone"}]

(* Nothing is let through before a session connects, nor in a tick to come.*)
SpentInOrder(s) ==
  /\ stage[s] = "off" => \A t \in Ticks : spent[s][t] = 0
  /\ \A t \in Ticks : t > real => spent[s][t] = spent[s][real + 1]

(* Since any tick, what was let through and what the tracker is worth is   *)
(* within the burst and what the ticks since then earned.                  *)
WithinBudget(s) ==
  \A a \in 0..real :
    10000 * (spent[s][real + 1] - spent[s][a]) + Worth(flood[s], clock)
      <= 10 * Capacity + Earned(real - a)

(* The same of the ticks that are over.                                    *)
PastWithinBudget(s) ==
  \A a, b \in 0..real + 1 :
    a < b => 10000 * (spent[s][b] - spent[s][a]) <= 10 * Capacity + Earned(b - a - 1)

FloodInv ==
  /\ FloodTypeOK
  /\ \A s \in Session : SpentInOrder(s) /\ WithinBudget(s) /\ PastWithinBudget(s)

(* Ticks earn alike.                                                       *)
LEMMA EarnedOf ==
  ASSUME NEW m \in Nat, NEW n \in Nat, m <= n
  PROVE  /\ Earned(0) = 0 /\ Earned(m) \in Nat /\ Earned(m) <= Earned(n)
         /\ Earned(n + 1) = Earned(n) + Earned(1)
<1> DEFINE K == TickMs * Per10s
<1>1. K \in Nat
  BY ModerationAssumption
<1>2. \A x \in Nat : Earned(x) = x * K
  BY ModerationAssumption DEF Earned
<1> HIDE DEF K
<1>3. m * K \in Nat /\ m * K <= n * K /\ 0 * K = 0 /\ (n + 1) * K = n * K + 1 * K
  BY <1>1
<1> QED
  BY <1>2, <1>3

LEMMA CapacityNat == Capacity \in Nat
  BY ModerationAssumption DEF Capacity

LEMMA TenthOf ==
  ASSUME NEW x \in Nat
  PROVE  /\ x \div 10 \in Nat /\ 10 * (x \div 10) <= x
         /\ \A y \in Int : 10 * y <= x => y <= x \div 10
  OBVIOUS

(* A tracker has its worth, and refilling it makes none.                   *)
LEMMA RefillOf ==
  ASSUME NEW f \in Tracker, clock \in Nat
  PROVE  /\ Refill(f) \in Tracker
         /\ Worth(f, clock) \in 0..10 * Capacity
         /\ 10 * Refill(f).tokens <= Worth(f, clock)
         /\ Refill(f).last >= clock
<1>1. f.tokens \in 0..Capacity /\ f.last \in Nat /\ f = [tokens |-> f.tokens, last |-> f.last]
  BY DEF Tracker
<1>2. Idle(f, clock) \in Nat
  BY <1>1 DEF Idle
<1>3. Earned(Idle(f, clock)) \in Nat
  BY <1>2, EarnedOf
<1>4. Worth(f, clock) \in 0..10 * Capacity
  BY <1>1, <1>3, CapacityNat DEF Worth
<1>5. CASE clock <= f.last
  BY <1>1, <1>3, <1>4, <1>5, CapacityNat DEF Refill, Worth
<1>6. CASE ~(clock <= f.last)
  <2> DEFINE gained == Earned(clock - f.last) \div 10
  <2>1. Idle(f, clock) = clock - f.last
    BY <1>1, <1>6 DEF Idle
  <2>2. gained \in Nat /\ 10 * gained <= Earned(Idle(f, clock))
    BY <1>3, <2>1, TenthOf
  <2>3. Refill(f) = [tokens |-> IF f.tokens + gained > Capacity THEN Capacity ELSE f.tokens + gained,
                     last |-> clock]
    BY <1>6 DEF Refill, Earned
  <2> HIDE DEF gained
  <2>4. Refill(f).last = clock /\ Refill(f).tokens \in 0..Capacity
    BY <1>1, <2>2, <2>3, CapacityNat
  <2>5. 10 * Refill(f).tokens <= Worth(f, clock)
    BY <1>1, <1>3, <2>2, <2>3, CapacityNat DEF Worth
  <2> QED
    BY <1>4, <2>3, <2>4, <2>5 DEF Tracker
<1> QED
  BY <1>1, <1>5, <1>6

(* A tracker that was just used is worth its tokens.                       *)
LEMMA FreshWorth ==
  ASSUME NEW f \in Tracker, clock \in Nat, f.last >= clock
  PROVE  Worth(f, clock) = 10 * f.tokens
<1>1. f.tokens \in 0..Capacity /\ Idle(f, clock) = 0
  BY DEF Tracker, Idle
<1>2. Earned(0) = 0
  BY EarnedOf
<1> QED
  BY <1>1, <1>2, CapacityNat DEF Worth

(* A step that leaves the budget alone.                                    *)
LEMMA FloodUnchanged ==
  ASSUME FloodInv, UNCHANGED <<clock, real, spent, flood>>,
         stage' \in [Session -> {"off", "connected", "online", "gone"}],
         \A s \in Session : stage'[s] = "off" => stage[s] = "off"
  PROVE  FloodInv'
<1>1. FloodTypeOK'
  BY DEF FloodInv, FloodTypeOK, Tracker, Capacity, Ticks
<1>2. ASSUME NEW s \in Session PROVE SpentInOrder(s)' /\ WithinBudget(s)' /\ PastWithinBudget(s)'
  <2>1. SpentInOrder(s) /\ WithinBudget(s) /\ PastWithinBudget(s)
    BY DEF FloodInv
  <2>2. SpentInOrder(s)'
    BY <2>1 DEF SpentInOrder, Ticks
  <2>3. WithinBudget(s)'
    BY <2>1 DEF WithinBudget, Worth, Idle, Earned, Capacity
  <2>4. PastWithinBudget(s)'
    BY <2>1 DEF PastWithinBudget, Earned, Capacity
  <2> QED
    BY <2>2, <2>3, <2>4
<1> QED
  BY <1>1, <1>2 DEF FloodInv

LEMMA FloodInit == Init => FloodInv
<1> SUFFICES ASSUME Init PROVE FloodInv
  OBVIOUS
<1>1. NewTracker \in Tracker /\ NewTracker.tokens = Capacity /\ NewTracker.last = 0
  BY CapacityNat DEF Init, NewTracker, Tracker
<1>2. FloodTypeOK
  <2>1. clock \in Nat /\ real \in 0..MaxClock
    BY ModerationAssumption DEF Init
  <2>2. spent \in [Session -> [Ticks -> Nat]]
    BY DEF Init, Ticks
  <2>3. flood \in [Session -> Tracker] /\ stage \in [Session -> {"off", "connected", "online", "gone"}]
    BY <1>1 DEF Init
  <2> QED
    BY <2>1, <2>2, <2>3 DEF FloodTypeOK
<1>3. ASSUME NEW s \in Session PROVE SpentInOrder(s) /\ WithinBudget(s) /\ PastWithinBudget(s)
  <2>1. \A t \in Ticks : spent[s][t] = 0
    BY DEF Init, Ticks
  <2>2. real = 0 /\ clock = 0 /\ 0 \in Ticks /\ 1 \in Ticks /\ flood[s] = NewTracker
    BY ModerationAssumption DEF Init, Ticks
  <2>3. Worth(flood[s], clock) = 10 * Capacity
    BY <1>1, <2>2, FreshWorth
  <2>4. Earned(0) = 0
    BY EarnedOf
  <2>5. SpentInOrder(s)
    BY <2>1, <2>2 DEF SpentInOrder
  <2>6. WithinBudget(s)
    BY <2>1, <2>2, <2>3, <2>4, CapacityNat DEF WithinBudget
  <2>7. PastWithinBudget(s)
    BY <2>1, <2>2, <2>4, CapacityNat DEF PastWithinBudget
  <2> QED
    BY <2>5, <2>6, <2>7
<1> QED
  BY <1>2, <1>3 DEF FloodInv

(* What a step does to one session's tracker: a new one before the first   *)
(* line, or a refilled one.                                                *)
LEMMA TrackerStep ==
  ASSUME FloodInv, NEW s \in Session, NEW f \in Tracker,
         UNCHANGED <<clock, real, spent>>, flood' = [flood EXCEPT ![s] = f],
         stage' \in [Session -> {"off", "connected", "online", "gone"}],
         \A t \in Session : stage'[t] = "off" => stage[t] = "off",
         Worth(f, clock) <= Worth(flood[s], clock) \/ stage[s] = "off"
  PROVE  FloodInv'
<1>1. FloodTypeOK'
  BY DEF FloodInv, FloodTypeOK, Tracker, Capacity, Ticks
<1>2. ASSUME NEW t \in Session PROVE SpentInOrder(t)' /\ WithinBudget(t)' /\ PastWithinBudget(t)'
  <2>1. SpentInOrder(t) /\ WithinBudget(t) /\ PastWithinBudget(t)
    BY DEF FloodInv
  <2>2. SpentInOrder(t)'
    BY <2>1 DEF SpentInOrder, Ticks
  <2>3. PastWithinBudget(t)'
    BY <2>1 DEF PastWithinBudget, Earned, Capacity
  <2>4. /\ clock \in Nat /\ real \in 0..MaxClock
        /\ \A a \in 0..real : a \in Ticks /\ spent[t][a] \in Nat /\ real - a \in Nat
        /\ real + 1 \in Ticks /\ spent[t][real + 1] \in Nat
    BY ModerationAssumption DEF FloodInv, FloodTypeOK, Ticks
  <2>5. /\ Worth(f, clock) \in 0..10 * Capacity /\ flood[s] \in Tracker /\ flood[t] \in Tracker
        /\ Worth(flood[s], clock) \in 0..10 * Capacity
    BY <2>4, RefillOf DEF FloodInv, FloodTypeOK
  <2>6. \A a \in 0..real : Earned(real - a) \in Nat
    BY <2>4, EarnedOf
  <2>7. \A a \in 0..real :
          10000 * (spent[t][real + 1] - spent[t][a]) + Worth(flood'[t], clock)
            <= 10 * Capacity + Earned(real - a)
    <3>1. CASE t # s
      BY <2>1, <3>1 DEF WithinBudget, FloodInv, FloodTypeOK
    <3>2. CASE t = s /\ stage[s] = "off"
      <4>1. \A a \in Ticks : spent[t][a] = 0
        BY <2>1, <3>2 DEF SpentInOrder
      <4> QED
        BY <2>4, <2>5, <2>6, <3>2, <4>1, CapacityNat DEF FloodInv, FloodTypeOK
    <3>3. CASE t = s /\ stage[s] # "off"
      <4>1. flood'[t] = f
        BY <3>3 DEF FloodInv, FloodTypeOK
      <4> QED
        BY <2>1, <2>4, <2>5, <2>6, <3>3, <4>1, CapacityNat DEF WithinBudget
    <3> QED
      BY <3>1, <3>2, <3>3
  <2>8. WithinBudget(t)'
    BY <2>7 DEF WithinBudget, Worth, Idle, Earned, Capacity
  <2> QED
    BY <2>2, <2>3, <2>8
<1> QED
  BY <1>1, <1>2 DEF FloodInv

(* A line that is let through costs what it adds.                          *)
LEMMA ChargedStep ==
  ASSUME FloodInv, NEW s \in Session, Charged(s), UNCHANGED time
  PROVE  FloodInv'
<1> DEFINE f == flood[s]
           r == Refill(f)
           g == [r EXCEPT !.tokens = r.tokens - 1000]
<1>1. /\ clock \in Nat /\ real \in 0..MaxClock /\ f \in Tracker
      /\ spent \in [Session -> [Ticks -> Nat]] /\ flood \in [Session -> Tracker]
  BY DEF FloodInv, FloodTypeOK
<1>2. UNCHANGED <<clock, real, stage>>
  BY DEF time, Charged
<1>3. /\ flood' = [flood EXCEPT ![s] = g]
      /\ spent' = [spent EXCEPT ![s] =
                     [t \in DOMAIN spent[s] |-> IF t > real THEN spent[s][t] + 1 ELSE spent[s][t]]]
      /\ r.tokens >= 1000 /\ stage[s] = "online"
  <2>1. flood' = [flood EXCEPT ![s] = g]
    BY DEF Charged, Spend
  <2>2. spent' = [spent EXCEPT ![s] =
                     [t \in DOMAIN spent[s] |-> IF t > real THEN spent[s][t] + 1 ELSE spent[s][t]]]
    BY DEF Charged
  <2>3. r.tokens >= 1000 /\ stage[s] = "online"
    BY DEF Charged, Enough, Sends
  <2> QED
    BY <2>1, <2>2, <2>3
<1>4. /\ r \in Tracker /\ Worth(f, clock) \in 0..10 * Capacity
      /\ 10 * r.tokens <= Worth(f, clock) /\ r.last >= clock
  BY <1>1, RefillOf
<1>5. g \in Tracker /\ g.tokens = r.tokens - 1000 /\ g.last = r.last
  BY <1>3, <1>4, CapacityNat DEF Tracker
<1> HIDE DEF r, g
<1>6. Worth(g, clock) \in 0..10 * Capacity /\ Worth(g, clock) <= Worth(f, clock) - 10000
  <2>1. Worth(g, clock) = 10 * g.tokens
    BY <1>1, <1>4, <1>5, FreshWorth
  <2>2. g.tokens \in 0..Capacity /\ r.tokens \in 0..Capacity
    BY <1>4, <1>5 DEF Tracker
  <2> QED
    BY <1>3, <1>4, <1>5, <2>1, <2>2, CapacityNat
<1>7. /\ \A a \in Ticks : spent'[s][a] = IF a > real THEN spent[s][a] + 1 ELSE spent[s][a]
      /\ \A t \in Session \ {s} : spent'[t] = spent[t] /\ flood'[t] = flood[t]
      /\ flood'[s] = g
  BY <1>1, <1>3
<1>8. FloodTypeOK'
  <2>1. [t \in DOMAIN spent[s] |-> IF t > real THEN spent[s][t] + 1 ELSE spent[s][t]] \in [Ticks -> Nat]
    BY <1>1
  <2>2. spent' \in [Session -> [Ticks -> Nat]] /\ flood' \in [Session -> Tracker]
    BY <1>1, <1>3, <1>5, <2>1
  <2> QED
    BY <1>2, <2>2 DEF FloodInv, FloodTypeOK, Ticks, Tracker, Capacity
<1>9. /\ \A a \in 0..real : a \in Ticks /\ spent[s][a] \in Nat /\ real - a \in Nat
      /\ real + 1 \in Ticks /\ spent[s][real + 1] \in Nat
      /\ \A a \in Ticks : spent[s][a] \in Nat
      /\ \A a \in 0..real : Earned(real - a) \in Nat
  <2>1. \A a \in 0..real : a \in Ticks /\ real - a \in Nat
    BY <1>1, ModerationAssumption DEF Ticks
  <2>2. real + 1 \in Ticks
    BY <1>1, ModerationAssumption DEF Ticks
  <2>3. \A a \in 0..real : Earned(real - a) \in Nat
    BY <2>1, EarnedOf
  <2> QED
    BY <1>1, <2>1, <2>2, <2>3
<1>10. SpentInOrder(s) /\ WithinBudget(s) /\ PastWithinBudget(s)
  BY DEF FloodInv
<1>11. SpentInOrder(s)'
  <2>1. \A t \in Ticks : t > real => spent'[s][t] = spent'[s][real + 1]
    BY <1>1, <1>7, <1>9, <1>10 DEF SpentInOrder
  <2> QED
    BY <1>2, <1>3, <2>1 DEF SpentInOrder, Ticks
<1>12. \A a \in 0..real :
         10000 * (spent'[s][real + 1] - spent'[s][a]) + Worth(g, clock) <= 10 * Capacity + Earned(real - a)
  <2> SUFFICES ASSUME NEW a \in 0..real
               PROVE  10000 * (spent'[s][real + 1] - spent'[s][a]) + Worth(g, clock)
                        <= 10 * Capacity + Earned(real - a)
    OBVIOUS
  <2>1. spent'[s][real + 1] = spent[s][real + 1] + 1 /\ spent'[s][a] = spent[s][a]
    BY <1>1, <1>7, <1>9
  <2>2. 10000 * (spent[s][real + 1] - spent[s][a]) + Worth(f, clock) <= 10 * Capacity + Earned(real - a)
    BY <1>10 DEF WithinBudget
  <2> QED
    BY <1>4, <1>6, <1>9, <2>1, <2>2, CapacityNat
<1>13. WithinBudget(s)'
  BY <1>2, <1>7, <1>12 DEF WithinBudget, Worth, Idle, Earned, Capacity
<1>14. PastWithinBudget(s)'
  <2> SUFFICES ASSUME NEW a \in 0..real + 1, NEW b \in 0..real + 1, a < b
               PROVE  10000 * (spent'[s][b] - spent'[s][a]) <= 10 * Capacity + Earned(b - a - 1)
    BY <1>2 DEF PastWithinBudget, Earned, Capacity
  <2>1. CASE b = real + 1
    <3>1. a \in 0..real /\ b - a - 1 = real - a
      BY <1>1, <2>1
    <3>2. spent'[s][real + 1] \in Nat /\ spent'[s][a] \in Nat
      BY <1>1, <1>7, <1>9, <3>1
    <3> QED
      BY <1>6, <1>9, <1>12, <2>1, <3>1, <3>2, CapacityNat
  <2>2. CASE b # real + 1
    <3>1. a \in 0..real /\ b \in 0..real
      BY <1>1, <2>2
    <3>2. spent'[s][b] = spent[s][b] /\ spent'[s][a] = spent[s][a]
      BY <1>1, <1>7, <1>9, <3>1
    <3> QED
      BY <1>10, <3>2 DEF PastWithinBudget
  <2> QED
    BY <2>1, <2>2
<1>15. ASSUME NEW t \in Session \ {s} PROVE SpentInOrder(t)' /\ WithinBudget(t)' /\ PastWithinBudget(t)'
  <2>1. SpentInOrder(t) /\ WithinBudget(t) /\ PastWithinBudget(t)
    BY DEF FloodInv
  <2>2. spent'[t] = spent[t] /\ flood'[t] = flood[t]
    BY <1>7
  <2>3. SpentInOrder(t)'
    BY <1>2, <2>1, <2>2 DEF SpentInOrder, Ticks
  <2>4. WithinBudget(t)'
    BY <1>2, <2>1, <2>2 DEF WithinBudget, Worth, Idle, Earned, Capacity
  <2>5. PastWithinBudget(t)'
    BY <1>2, <2>1, <2>2 DEF PastWithinBudget, Earned, Capacity
  <2> QED
    BY <2>3, <2>4, <2>5
<1> QED
  BY <1>8, <1>11, <1>13, <1>14, <1>15 DEF FloodInv

(* A clock set back makes no tracker worth more.                           *)
LEMMA SetBackStep == FloodInv /\ SetBack => FloodInv'
<1> SUFFICES ASSUME FloodInv, SetBack PROVE FloodInv'
  OBVIOUS
<1>1. /\ clock \in Nat /\ real \in 0..MaxClock /\ clock' = clock - 1 /\ clock' \in Nat
      /\ UNCHANGED <<real, spent, flood, stage>>
  BY DEF FloodInv, FloodTypeOK, SetBack, session, history
<1>2. FloodTypeOK'
  BY <1>1 DEF FloodInv, FloodTypeOK, Tracker, Capacity, Ticks
<1>3. ASSUME NEW s \in Session PROVE SpentInOrder(s)' /\ WithinBudget(s)' /\ PastWithinBudget(s)'
  <2>1. SpentInOrder(s) /\ WithinBudget(s) /\ PastWithinBudget(s) /\ flood[s] \in Tracker
    BY DEF FloodInv, FloodTypeOK
  <2>2. Worth(flood[s], clock') <= Worth(flood[s], clock)
    <3>1. Idle(flood[s], clock') \in Nat /\ Idle(flood[s], clock) \in Nat
          /\ Idle(flood[s], clock') <= Idle(flood[s], clock)
      BY <1>1, <2>1 DEF Idle, Tracker
    <3>2. /\ Earned(Idle(flood[s], clock')) \in Nat /\ Earned(Idle(flood[s], clock)) \in Nat
          /\ Earned(Idle(flood[s], clock')) <= Earned(Idle(flood[s], clock))
      BY <3>1, EarnedOf
    <3>3. flood[s].tokens \in Nat
      BY <2>1, CapacityNat DEF Tracker
    <3> QED
      BY <3>2, <3>3, CapacityNat DEF Worth
  <2>3. Worth(flood[s], clock') \in Int /\ Worth(flood[s], clock) \in Int
    <3>1. Earned(Idle(flood[s], clock')) \in Nat /\ Earned(Idle(flood[s], clock)) \in Nat
      <4>1. Idle(flood[s], clock') \in Nat /\ Idle(flood[s], clock) \in Nat
        BY <1>1, <2>1 DEF Idle, Tracker
      <4> QED
        BY <4>1, EarnedOf
    <3>2. flood[s].tokens \in Nat
      BY <2>1, CapacityNat DEF Tracker
    <3> QED
      BY <3>1, <3>2, CapacityNat DEF Worth
  <2>4. \A a \in 0..real : spent[s][a] \in Nat /\ spent[s][real + 1] \in Nat /\ Earned(real - a) \in Nat
    <3>1. \A a \in 0..real : spent[s][a] \in Nat /\ spent[s][real + 1] \in Nat /\ real - a \in Nat
      BY <1>1, ModerationAssumption DEF FloodInv, FloodTypeOK, Ticks
    <3> QED
      BY <3>1, EarnedOf
  <2>5. \A a \in 0..real :
          10000 * (spent[s][real + 1] - spent[s][a]) + Worth(flood[s], clock')
            <= 10 * Capacity + Earned(real - a)
    BY <2>1, <2>2, <2>3, <2>4, CapacityNat DEF WithinBudget
  <2>6. WithinBudget(s)'
    BY <1>1, <2>5 DEF WithinBudget, Worth, Idle, Earned, Capacity
  <2>7. SpentInOrder(s)' /\ PastWithinBudget(s)'
    BY <1>1, <2>1 DEF SpentInOrder, PastWithinBudget, Earned, Capacity, Ticks
  <2> QED
    BY <2>6, <2>7
<1> QED
  BY <1>2, <1>3 DEF FloodInv

(* A tick earns a tracker what it allows the session.                      *)
LEMMA TickStep == FloodInv /\ Tick => FloodInv'
<1> SUFFICES ASSUME FloodInv, Tick PROVE FloodInv'
  OBVIOUS
<1>1. /\ clock \in Nat /\ real \in 0..MaxClock /\ real < MaxClock
      /\ clock' = clock + 1 /\ real' = real + 1
      /\ UNCHANGED <<spent, flood, stage>>
  BY DEF FloodInv, FloodTypeOK, Tick, session, history
<1>2. real' \in 0..MaxClock /\ clock' \in Nat
  BY <1>1, ModerationAssumption
<1>3. FloodTypeOK'
  BY <1>1, <1>2 DEF FloodInv, FloodTypeOK, Tracker, Capacity, Ticks
<1>4. ASSUME NEW s \in Session PROVE SpentInOrder(s)' /\ WithinBudget(s)' /\ PastWithinBudget(s)'
  <2>1. SpentInOrder(s) /\ WithinBudget(s) /\ PastWithinBudget(s) /\ flood[s] \in Tracker
    BY DEF FloodInv, FloodTypeOK
  <2>2. Earned(1) \in Nat
    BY EarnedOf
  <2>3. /\ Worth(flood[s], clock) \in 0..10 * Capacity /\ Worth(flood[s], clock + 1) \in 0..10 * Capacity
        /\ Worth(flood[s], clock + 1) <= Worth(flood[s], clock) + Earned(1)
    <3>1. Idle(flood[s], clock) \in Nat
          /\ (\/ Idle(flood[s], clock + 1) = Idle(flood[s], clock) + 1
              \/ Idle(flood[s], clock + 1) = Idle(flood[s], clock))
      BY <1>1, <2>1 DEF Idle, Tracker
    <3>2. /\ Earned(Idle(flood[s], clock)) \in Nat
          /\ (\/ Earned(Idle(flood[s], clock + 1)) = Earned(Idle(flood[s], clock)) + Earned(1)
              \/ Earned(Idle(flood[s], clock + 1)) = Earned(Idle(flood[s], clock)))
      BY <3>1, EarnedOf
    <3>3. flood[s].tokens \in 0..Capacity
      BY <2>1 DEF Tracker
    <3> QED
      BY <2>2, <3>2, <3>3, CapacityNat DEF Worth
  <2>4. /\ real + 1 \in Ticks /\ real + 2 \in Ticks
        /\ \A a \in 0..real + 1 : a \in Ticks
        /\ \A a \in Ticks : spent[s][a] \in Nat
    BY <1>1, ModerationAssumption DEF FloodInv, FloodTypeOK, Ticks
  <2>5. spent[s][real + 2] = spent[s][real + 1]
    BY <1>1, <2>1, <2>4 DEF SpentInOrder
  <2>6. ASSUME NEW a \in 0..real + 1
        PROVE  10000 * (spent[s][real + 2] - spent[s][a]) + Worth(flood[s], clock + 1)
                 <= 10 * Capacity + Earned(real + 1 - a)
    <3>1. CASE a = real + 1
      <4>1. Earned(real + 1 - a) = 0
        BY <1>1, <3>1, EarnedOf
      <4> QED
        BY <2>3, <2>4, <2>5, <3>1, <4>1, CapacityNat
    <3>2. CASE a # real + 1
      <4>1. a \in 0..real /\ real - a \in Nat /\ real + 1 - a = (real - a) + 1
        BY <1>1, <3>2
      <4>2. Earned(real - a) \in Nat /\ Earned(real + 1 - a) = Earned(real - a) + Earned(1)
        BY <4>1, EarnedOf
      <4>3. 10000 * (spent[s][real + 1] - spent[s][a]) + Worth(flood[s], clock)
              <= 10 * Capacity + Earned(real - a)
        BY <2>1, <4>1 DEF WithinBudget
      <4>4. spent[s][real + 1] \in Nat /\ spent[s][a] \in Nat
        BY <2>4, <4>1
      <4> QED
        BY <2>2, <2>3, <2>5, <4>2, <4>3, <4>4, CapacityNat
    <3> QED
      BY <3>1, <3>2
  <2>7. WithinBudget(s)'
    <3>1. real' + 1 = real + 2 /\ clock' = clock + 1 /\ real' = real + 1
      BY <1>1
    <3> QED
      BY <1>1, <2>6, <3>1 DEF WithinBudget, Worth, Idle, Earned, Capacity
  <2>8. SpentInOrder(s)'
    BY <1>1, <2>1, <2>4 DEF SpentInOrder, Ticks
  <2>9. ASSUME NEW a \in 0..real + 2, NEW b \in 0..real + 2, a < b
        PROVE  10000 * (spent[s][b] - spent[s][a]) <= 10 * Capacity + Earned(b - a - 1)
    <3>1. CASE b = real + 2
      <4>1. a \in 0..real + 1 /\ b - a - 1 = real + 1 - a /\ real + 1 - a \in Nat
        BY <1>1, <2>9, <3>1
      <4>2. Earned(real + 1 - a) \in Nat /\ spent[s][a] \in Nat
        BY <2>4, <4>1, EarnedOf
      <4> QED
        BY <2>3, <2>4, <2>6, <3>1, <4>1, <4>2, CapacityNat
    <3>2. CASE b # real + 2
      <4>1. a \in 0..real + 1 /\ b \in 0..real + 1
        BY <1>1, <2>9, <3>2
      <4> QED
        BY <2>1, <2>9, <4>1 DEF PastWithinBudget
    <3> QED
      BY <3>1, <3>2
  <2>10. PastWithinBudget(s)'
    <3>1. real' + 1 = real + 2
      BY <1>1
    <3> QED
      BY <1>1, <2>9, <3>1 DEF PastWithinBudget, Earned, Capacity
  <2> QED
    BY <2>7, <2>8, <2>10
<1> QED
  BY <1>3, <1>4 DEF FloodInv

LEMMA FloodInductive == FloodInv /\ [Next]_vars => FloodInv'
<1> SUFFICES ASSUME FloodInv, [Next]_vars PROVE FloodInv'
  OBVIOUS
<1> DEFINE Stages == {"off", "connected", "online", "gone"}
<1>1. stage \in [Session -> Stages]
  BY DEF FloodInv, FloodTypeOK
<1>2. CASE UNCHANGED vars \/ \E ok \in BOOLEAN : WriteEnds(ok)
  <2>1. UNCHANGED <<clock, real, spent, flood, stage>>
    BY <1>2 DEF vars, session, time, history, WriteEnds
  <2> QED
    BY <1>1, <2>1, FloodUnchanged
<1>3. CASE Restart
  <2>1. /\ UNCHANGED <<clock, real, spent, flood>>
        /\ stage' = [s \in Session |-> IF stage[s] = "off" THEN "off" ELSE "gone"]
    BY <1>3 DEF Restart, time
  <2> QED
    BY <2>1, FloodUnchanged
<1>4. ASSUME NEW s \in Session, Logon(s) \/ Kicked(s) \/ End(s) PROVE FloodInv'
  <2>1. /\ UNCHANGED <<clock, real, spent, flood>>
        /\ stage' = stage \/ stage' = [stage EXCEPT ![s] = "online"]
           \/ stage' = [stage EXCEPT ![s] = "gone"]
    BY <1>4 DEF Logon, Kicked, End, Over, time, history
  <2> QED
    BY <1>1, <2>1, FloodUnchanged
<1>5. ASSUME NEW s \in Session, Connect(s) PROVE FloodInv'
  <2>1. NewTracker \in Tracker
    BY CapacityNat DEF NewTracker, Tracker, FloodInv, FloodTypeOK
  <2>2. /\ UNCHANGED <<clock, real, spent>> /\ flood' = [flood EXCEPT ![s] = NewTracker]
        /\ stage' = [stage EXCEPT ![s] = "connected"] /\ stage[s] = "off"
    BY <1>5 DEF Connect, time, history
  <2> QED
    BY <1>1, <2>1, <2>2, TrackerStep
<1>6. ASSUME NEW s \in Session, Exceeded(s) PROVE FloodInv'
  <2>1. flood[s] \in Tracker /\ clock \in Nat
    BY DEF FloodInv, FloodTypeOK
  <2>2. /\ UNCHANGED <<clock, real, spent>> /\ flood' = [flood EXCEPT ![s] = Refill(flood[s])]
        /\ (stage' = stage \/ stage' = [stage EXCEPT ![s] = "gone"])
    BY <1>6 DEF Exceeded, Over, time, history
  <2>3. Refill(flood[s]) \in Tracker /\ Worth(Refill(flood[s]), clock) <= Worth(flood[s], clock)
    BY <2>1, RefillOf, FreshWorth
  <2> QED
    BY <1>1, <2>2, <2>3, TrackerStep
<1>7. ASSUME NEW s \in Session, Talk(s) \/ Orders(s) \/ \E name \in Names : Squelch(s, name) \/ Unsquelch(s, name)
      PROVE  FloodInv'
  <2>1. Charged(s)
    BY <1>7 DEF Talk, Orders, Squelch, Unsquelch, Mute, Unmute, TagBan, TagUnban, IpBan, IpUnban, Command
  <2>2. UNCHANGED time
    BY <2>1 DEF Charged
  <2> QED
    BY <2>1, <2>2, ChargedStep
<1>8. CASE Tick \/ SetBack
  BY <1>8, TickStep, SetBackStep
<1> QED
  BY <1>2, <1>3, <1>4, <1>5, <1>6, <1>7, <1>8, NextSplit DEF Quiet

(* FloodBudget: over any span of real time a session gets no more lines    *)
(* through than the burst and what the span refills, however often the     *)
(* clock is set back and the tokens are rounded (limits.rs, FloodTracker). *)
THEOREM FloodsBounded == Spec => []FloodBudget
<1>1. FloodInv => FloodBudget
  <2> SUFFICES ASSUME FloodInv, NEW s \in Session, NEW a \in Ticks, NEW b \in Ticks, a < b
               PROVE  1000 * (spent[s][b] - spent[s][a])
                        <= Capacity + ((b - a - 1) * TickMs * Per10s) \div 10
    BY DEF FloodBudget, Ticks
  <2>1. /\ real \in 0..MaxClock /\ MaxClock \in Nat /\ a \in Nat /\ b \in Nat
        /\ \A t \in Ticks : spent[s][t] \in Nat
        /\ SpentInOrder(s) /\ PastWithinBudget(s)
    BY ModerationAssumption DEF FloodInv, FloodTypeOK, Ticks
  <2>2. b - a - 1 \in Nat /\ Earned(b - a - 1) \in Nat
    <3>1. b - a - 1 \in Nat
      BY <2>1
    <3> QED
      BY <3>1, EarnedOf
  <2>3. 10000 * (spent[s][b] - spent[s][a]) <= 10 * Capacity + Earned(b - a - 1)
    <3>1. CASE b <= real + 1
      BY <2>1, <3>1 DEF PastWithinBudget
    <3>2. CASE b > real + 1 /\ a <= real
      <4>1. spent[s][b] = spent[s][real + 1] /\ real + 1 - a - 1 \in Nat /\ real + 1 - a - 1 <= b - a - 1
        BY <2>1, <3>2 DEF SpentInOrder
      <4>2. 10000 * (spent[s][real + 1] - spent[s][a]) <= 10 * Capacity + Earned(real + 1 - a - 1)
        BY <2>1, <3>2 DEF PastWithinBudget
      <4>3. /\ Earned(real + 1 - a - 1) \in Nat
            /\ Earned(real + 1 - a - 1) <= Earned(b - a - 1)
        BY <2>2, <4>1, EarnedOf
      <4>4. spent[s][real + 1] \in Nat /\ spent[s][a] \in Nat
        BY <2>1, <4>1
      <4> QED
        BY <2>2, <4>1, <4>2, <4>3, <4>4, CapacityNat
    <3>3. CASE a > real
      <4>1. spent[s][b] = spent[s][a] /\ spent[s][a] \in Nat
        BY <2>1, <3>3 DEF SpentInOrder
      <4> QED
        BY <2>2, <4>1, CapacityNat
    <3> QED
      BY <2>1, <3>1, <3>2, <3>3
  <2> DEFINE x == Earned(b - a - 1)
             y == 1000 * (spent[s][b] - spent[s][a]) - Capacity
  <2>4. y \in Int /\ 10 * y <= x
    BY <2>1, <2>2, <2>3, CapacityNat
  <2>5. y <= x \div 10 /\ x \div 10 \in Nat
    BY <2>2, <2>4, TenthOf
  <2>6. x \div 10 = ((b - a - 1) * TickMs * Per10s) \div 10
    BY DEF Earned
  <2>7. spent[s][b] - spent[s][a] \in Int
    BY <2>1
  <2> HIDE DEF x
  <2> QED
    BY <2>5, <2>6, <2>7, CapacityNat
<1> QED
  BY <1>1, FloodInit, FloodInductive, PTL DEF Spec
===================================================================================
