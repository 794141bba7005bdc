--------------------------- MODULE WriteBehindProofs ---------------------------
(***************************************************************************)
(* Proofs about WriteBehind, for any accounts, keys, values, flush policy  *)
(* and set of accounts the backend may refuse.                             *)
(***************************************************************************)
EXTENDS WriteBehind, FiniteSetTheorems, TLAPS

(* The timer and the interval together bound the age of a buffered write:  *)
(* it is no older than the last flush, until the interval has run out, and *)
(* since then only one timer period can have passed.                       *)
AgeBound ==
  DirtyAccounts # {} =>
    /\ age <= Interval + sinceTick
    /\ age <= elapsed \/ elapsed = Interval

(* Nobody writes to an id before it is handed out.                         *)
NewUntouched == \A a \in Account : row[a] = "new" => dirty[a] = NoAttrs

Inv == TypeOK /\ CountExact /\ NoResurrection /\ NewUntouched /\ AgeBound

-----------------------------------------------------------------------------

(* Merge yields an attribute map.                                          *)
LEMMA MergeType ==
  ASSUME NEW s \in AttrMap, NEW d \in AttrMap
  PROVE  Merge(s, d) \in AttrMap
BY DEF Merge, AttrMap

(* The empty map is an attribute map and is neutral for Merge.             *)
LEMMA MergeNone ==
  /\ NoAttrs \in AttrMap
  /\ \A m \in AttrMap : Merge(m, NoAttrs) = m /\ Merge(NoAttrs, m) = m
<1>1. NoAttrs \in AttrMap
  BY DEF NoAttrs, AttrMap
<1>2. ASSUME NEW m \in AttrMap PROVE Merge(m, NoAttrs) = m /\ Merge(NoAttrs, m) = m
  <2>1. m = [k \in Key |-> m[k]]
    BY DEF AttrMap
  <2>2. Merge(m, NoAttrs) = [k \in Key |-> m[k]]
    BY DEF Merge, NoAttrs
  <2>3. Merge(NoAttrs, m) = [k \in Key |-> m[k]]
    BY DEF Merge, NoAttrs
  <2> QED BY <2>1, <2>2, <2>3
<1> QED BY <1>1, <1>2

(* Merging a new write into the buffer and overlaying the buffer on the    *)
(* backend is overlaying the write on what was visible.                    *)
LEMMA MergeAssoc ==
  ASSUME NEW s \in AttrMap, NEW d \in AttrMap, NEW m \in AttrMap
  PROVE  Merge(s, Merge(d, m)) = Merge(Merge(s, d), m)
BY DEF Merge, AttrMap

-----------------------------------------------------------------------------

(* The pairs that Count counts are finite, so the count is a number.       *)
LEMMA CountType ==
  ASSUME NEW d
  PROVE  /\ IsFiniteSet({p \in Account \X Key : d[p[1]][p[2]] # Absent})
         /\ Count(d) \in Nat
<1>1. IsFiniteSet(Account \X Key)
  BY FS_Product, WriteBehindAssumption
<1>2. {p \in Account \X Key : d[p[1]][p[2]] # Absent} \in SUBSET (Account \X Key)
  OBVIOUS
<1>3. IsFiniteSet({p \in Account \X Key : d[p[1]][p[2]] # Absent})
  BY <1>1, <1>2, FS_Subset
<1> QED BY <1>3, FS_CardinalityType DEF Count

(* An empty buffer counts zero.                                            *)
LEMMA CountNone == Count([a \in Account |-> NoAttrs]) = 0
<1>1. {p \in Account \X Key : [a \in Account |-> NoAttrs][p[1]][p[2]] # Absent} = {}
  BY DEF NoAttrs
<1> QED BY <1>1, FS_EmptySet DEF Count

(* A put adds exactly the keys that were not buffered before.              *)
LEMMA CountPut ==
  ASSUME NEW a \in Account, NEW m \in AttrMap, dirty \in [Account -> AttrMap]
  PROVE  /\ Cardinality(NewlyDirty(a, m)) \in Nat
         /\ Count([dirty EXCEPT ![a] = Merge(@, m)])
              = Count(dirty) + Cardinality(NewlyDirty(a, m))
<1> DEFINE d == [dirty EXCEPT ![a] = Merge(@, m)]
           Old == {p \in Account \X Key : dirty[p[1]][p[2]] # Absent}
           New == {p \in Account \X Key : d[p[1]][p[2]] # Absent}
           Added == {a} \X NewlyDirty(a, m)
<1>1. IsFiniteSet(NewlyDirty(a, m))
  <2>1. NewlyDirty(a, m) \in SUBSET Key
    BY DEF NewlyDirty
  <2> QED BY <2>1, FS_Subset, WriteBehindAssumption
<1>2. Cardinality(NewlyDirty(a, m)) \in Nat
  BY <1>1, FS_CardinalityType
<1>3. IsFiniteSet(Added) /\ Cardinality(Added) = Cardinality(NewlyDirty(a, m))
  <2>1. IsFiniteSet({a}) /\ Cardinality({a}) = 1
    BY FS_Singleton
  <2>2. IsFiniteSet(Added) /\ Cardinality(Added) = 1 * Cardinality(NewlyDirty(a, m))
    BY <2>1, <1>1, FS_Product
  <2> QED BY <2>2, <1>2
<1>4. New = Old \cup Added
  <2>1. ASSUME NEW b \in Account, NEW k \in Key
        PROVE  <<b, k>> \in New <=> <<b, k>> \in Old \cup Added
    <3>1. CASE b = a
      <4>1. d[b][k] = IF m[k] # Absent THEN m[k] ELSE dirty[a][k]
        BY <3>1 DEF Merge
      <4>2. <<b, k>> \in Added <=> k \in NewlyDirty(a, m)
        BY <3>1
      <4>3. k \in NewlyDirty(a, m) <=> m[k] # Absent /\ dirty[a][k] = Absent
        BY DEF NewlyDirty
      <4>4. <<b, k>> \in New <=> d[b][k] # Absent
        OBVIOUS
      <4>5. <<b, k>> \in Old <=> dirty[a][k] # Absent
        BY <3>1
      <4> HIDE DEF d, Old, New, Added
      <4> QED BY <4>1, <4>2, <4>3, <4>4, <4>5
    <3>2. CASE b # a
      <4>1. d[b] = dirty[b]
        BY <3>2
      <4>2. <<b, k>> \notin Added
        BY <3>2
      <4> QED BY <4>1, <4>2
    <3> QED BY <3>1, <3>2
  <2>2. New \subseteq Account \X Key /\ Old \cup Added \subseteq Account \X Key
    BY DEF NewlyDirty
  <2> HIDE DEF New, Old, Added
  <2> QED BY <2>1, <2>2
<1>5. Old \cap Added = {}
  BY DEF NewlyDirty
<1>6. IsFiniteSet(Old) /\ Count(dirty) \in Nat
  BY CountType
<1>7. Cardinality(Old \cup Added) = Cardinality(Old) + Cardinality(Added)
  <2>1. Cardinality(Old \cap Added) = 0
    BY <1>5, FS_EmptySet
  <2>2. Cardinality(Old) \in Nat /\ Cardinality(Added) \in Nat
    BY <1>6, <1>3, FS_CardinalityType
  <2> HIDE DEF Old, Added
  <2>3. Cardinality(Old \cup Added)
          = Cardinality(Old) + Cardinality(Added) - Cardinality(Old \cap Added)
    BY <1>6, <1>3, FS_Union
  <2> QED BY <2>1, <2>2, <2>3
<1> QED BY <1>2, <1>3, <1>4, <1>7 DEF Count

-----------------------------------------------------------------------------

(* The buffer a flush leaves, and what it writes, keep their types; a      *)
(* flush never writes rows for an account that is gone.                    *)
LEMMA FlushSound ==
  ASSUME TypeOK, NoResurrection, NEW F, FlushNow(F), UNCHANGED row
  PROVE  /\ stored' \in [Account -> AttrMap] /\ dirty' \in [Account -> AttrMap]
         /\ dirtyAttrs' \in Nat /\ CountExact' /\ age' = 0
         /\ NoResurrection' /\ (NewUntouched => NewUntouched')
<1>1. \A a \in Account : BackendPut(a) \in AttrMap
  BY MergeType DEF BackendPut, TypeOK
<1>2. stored' \in [Account -> AttrMap]
  BY <1>1 DEF FlushNow, TypeOK
<1>3. dirty' \in [Account -> AttrMap]
  BY MergeNone DEF FlushNow, Kept, TypeOK
<1>4. dirtyAttrs' \in Nat /\ CountExact'
  BY CountType DEF FlushNow, CountExact, Count
<1>5. ASSUME NEW a \in Account, row'[a] # "live" PROVE stored'[a] = NoAttrs
  BY <1>5 DEF FlushNow, BackendPut, NoResurrection
<1>6. NewUntouched => NewUntouched'
  BY DEF FlushNow, Kept, NewUntouched
<1> QED BY <1>2, <1>3, <1>4, <1>5, <1>6 DEF FlushNow, NoResurrection

(* A buffer that has just been offered to the backend is within bounds.    *)
LEMMA FreshSound == ASSUME TypeOK', age' = 0 PROVE AgeBound'
<1>1. Interval \in Nat /\ elapsed' \in Nat /\ sinceTick' \in Nat
  BY WriteBehindAssumption DEF TypeOK
<1>2. \A i, e, t \in Nat : 0 <= i + t /\ 0 <= e
  OBVIOUS
<1>3. 0 <= Interval + sinceTick' /\ 0 <= elapsed'
  BY <1>1, <1>2, Zenon
<1> QED BY <1>3, Zenon DEF AgeBound

(* Dropping one account's buffered writes keeps the buffer's type and      *)
(* never makes an empty buffer dirty.                                      *)
LEMMA DroppedSound ==
  ASSUME TypeOK, NEW a \in Account
  PROVE  /\ Dropped(a) \in [Account -> AttrMap]
         /\ Count(Dropped(a)) \in Nat
         /\ {b \in Account : Dropped(a)[b] # NoAttrs} \subseteq DirtyAccounts
BY MergeNone, CountType DEF Dropped, TypeOK, DirtyAccounts

(* The invariant holds initially and is preserved by every step.           *)
LEMMA InvInductive ==
  /\ Init => Inv
  /\ Inv /\ [Next]_vars => Inv'
<1>1. ASSUME Init PROVE Inv
  <2>1. TypeOK
    BY <1>1, MergeNone, WriteBehindAssumption DEF Init, TypeOK, Row, MaxAge
  <2>2. CountExact
    BY <1>1, CountNone DEF Init, CountExact
  <2>3. NoResurrection /\ NewUntouched /\ AgeBound
    BY <1>1 DEF Init, NoResurrection, NewUntouched, AgeBound, DirtyAccounts
  <2> QED BY <2>1, <2>2, <2>3 DEF Inv
<1>2. ASSUME Inv, [Next]_vars PROVE Inv'
  <2> USE <1>2 DEF Inv
  <2>1. CASE UNCHANGED vars
    BY <2>1 DEF vars, TypeOK, CountExact, NoResurrection, NewUntouched, AgeBound, DirtyAccounts, Count
  <2>2. ASSUME NEW a \in Account, NEW m \in AttrMap, CreateAccount(a, m) PROVE Inv'
    <3>1. TypeOK'
      BY <2>2 DEF CreateAccount, TypeOK, Row
    <3>2. CountExact' /\ AgeBound'
      BY <2>2 DEF CreateAccount, CountExact, AgeBound, DirtyAccounts, Count
    <3>3. NoResurrection' /\ NewUntouched'
      BY <2>2 DEF CreateAccount, NoResurrection, NewUntouched, TypeOK
    <3> QED BY <3>1, <3>2, <3>3
  <2>3. ASSUME NEW a \in Account, NEW m \in AttrMap, AttrsPut(a, m) PROVE Inv'
    <3>1. Merge(dirty[a], m) \in AttrMap
      BY MergeType DEF TypeOK
    <3>2. TypeOK'
      BY <2>3, <3>1, CountPut, WriteBehindAssumption DEF AttrsPut, TypeOK, MaxAge
    <3>3. CountExact'
      BY <2>3, CountPut DEF AttrsPut, CountExact, TypeOK, Count
    <3>4. AgeBound'
      BY <2>3, WriteBehindAssumption DEF AttrsPut, AgeBound, TypeOK, DirtyAccounts
    <3>5. NoResurrection' /\ NewUntouched'
      BY <2>3 DEF AttrsPut, NoResurrection, NewUntouched, TypeOK
    <3> QED BY <3>2, <3>3, <3>4, <3>5
  <2>4. CASE TickIdle
    BY <2>4, WriteBehindAssumption
    DEF TickIdle, TypeOK, CountExact, NoResurrection, NewUntouched, AgeBound, DirtyAccounts, Count
  <2>5. CASE TickEarly
    <3>1. elapsed < Interval
      BY <2>5, WriteBehindAssumption DEF TickEarly, Due, TypeOK
    <3>2. TypeOK' /\ CountExact' /\ NoResurrection' /\ NewUntouched'
      BY <2>5, WriteBehindAssumption
      DEF TickEarly, TypeOK, CountExact, NoResurrection, NewUntouched, Count
    <3>3. AgeBound'
      BY <2>5, <3>1, WriteBehindAssumption DEF TickEarly, AgeBound, TypeOK, DirtyAccounts
    <3> QED BY <3>2, <3>3
  <2>6. CASE TickFlush
    <3>1. PICK F \in MayRefuse :
            FlushNow(F) /\ elapsed' = IF F = {} THEN 0 ELSE elapsed
      BY <2>6 DEF TickFlush
    <3>2. sinceTick' = 0 /\ UNCHANGED row
      BY <2>6 DEF TickFlush
    <3>3. /\ stored' \in [Account -> AttrMap] /\ dirty' \in [Account -> AttrMap]
          /\ dirtyAttrs' \in Nat /\ CountExact' /\ age' = 0 /\ NoResurrection'
          /\ NewUntouched'
      BY <3>1, <3>2, FlushSound
    <3>4. TypeOK'
      BY <3>1, <3>2, <3>3, WriteBehindAssumption DEF TypeOK, MaxAge
    <3>5. AgeBound'
      BY <3>3, <3>4, FreshSound
    <3> QED BY <3>3, <3>4, <3>5
  <2>7. CASE Flush
    <3>1. PICK F \in MayRefuse : FlushNow(F)
      BY <2>7 DEF Flush
    <3>2. UNCHANGED <<row, elapsed, sinceTick>>
      BY <2>7 DEF Flush
    <3>3. /\ stored' \in [Account -> AttrMap] /\ dirty' \in [Account -> AttrMap]
          /\ dirtyAttrs' \in Nat /\ CountExact' /\ age' = 0 /\ NoResurrection'
          /\ NewUntouched'
      BY <3>1, <3>2, FlushSound
    <3>4. TypeOK'
      BY <3>2, <3>3, WriteBehindAssumption DEF TypeOK, MaxAge
    <3>5. AgeBound'
      BY <3>3, <3>4, FreshSound
    <3> QED BY <3>3, <3>4, <3>5
  <2>8. ASSUME NEW a \in Account, DeleteAccount(a) PROVE Inv'
    <3>1. TypeOK'
      BY <2>8, DroppedSound, MergeNone DEF DeleteAccount, TypeOK, Row
    <3>2. CountExact'
      BY <2>8 DEF DeleteAccount, CountExact, Count
    <3>3. NoResurrection' /\ NewUntouched'
      BY <2>8 DEF DeleteAccount, Dropped, NoResurrection, NewUntouched, TypeOK
    <3>4. DirtyAccounts' \subseteq DirtyAccounts
      BY <2>8, DroppedSound DEF DeleteAccount, DirtyAccounts
    <3>5. AgeBound'
      BY <2>8, <3>4 DEF DeleteAccount, AgeBound
    <3> QED BY <3>1, <3>2, <3>3, <3>5
  <2>9. ASSUME NEW a \in Account, DeleteAccountFails(a) PROVE Inv'
    <3>1. TypeOK'
      BY <2>9, DroppedSound DEF DeleteAccountFails, TypeOK
    <3>2. CountExact' /\ NoResurrection' /\ NewUntouched'
      BY <2>9 DEF DeleteAccountFails, Dropped, CountExact, Count, NoResurrection, NewUntouched, TypeOK
    <3>3. DirtyAccounts' \subseteq DirtyAccounts
      BY <2>9, DroppedSound DEF DeleteAccountFails, DirtyAccounts
    <3>4. AgeBound'
      BY <2>9, <3>3 DEF DeleteAccountFails, AgeBound
    <3> QED BY <3>1, <3>2, <3>4
  <2>10. CASE Crash
    <3>1. TypeOK'
      BY <2>10, MergeNone, WriteBehindAssumption DEF Crash, TypeOK, MaxAge
    <3>2. CountExact'
      BY <2>10, CountNone DEF Crash, CountExact, Count
    <3>3. NoResurrection' /\ NewUntouched' /\ AgeBound'
      BY <2>10 DEF Crash, NoResurrection, NewUntouched, AgeBound, DirtyAccounts
    <3> QED BY <3>1, <3>2, <3>3
  <2>11. CASE Advance
    <3>1. TypeOK'
      BY <2>11, WriteBehindAssumption DEF Advance, TypeOK, Upto, MaxAge
    <3>2. CountExact' /\ NoResurrection' /\ NewUntouched'
      BY <2>11 DEF Advance, CountExact, Count, NoResurrection, NewUntouched
    <3>3. AgeBound'
      BY <2>11, WriteBehindAssumption DEF Advance, AgeBound, TypeOK, Upto, MaxAge, DirtyAccounts
    <3> QED BY <3>1, <3>2, <3>3
  <2> QED
    BY <2>1, <2>2, <2>3, <2>4, <2>5, <2>6, <2>7, <2>8, <2>9, <2>10, <2>11 DEF Next, Tick
<1> QED BY <1>1, <1>2

(* The inductive invariant holds in every reachable state.                 *)
LEMMA Invariance == Spec => []Inv
<1>1. Init => Inv
  BY InvInductive
<1>2. Inv /\ [Next]_vars => Inv'
  BY InvInductive
<1> QED BY <1>1, <1>2, PTL DEF Spec

(* Every reachable state is well typed, and dirty_attrs is the number of   *)
(* buffered attributes, after any overwrites, refused flushes and deletes. *)
THEOREM CountStaysExact == Spec => [](TypeOK /\ CountExact)
<1>1. Inv => TypeOK /\ CountExact
  BY DEF Inv
<1> QED BY <1>1, Invariance, PTL

(* The flush interval bounds what a crash can lose: no buffered write has  *)
(* waited longer than the interval and one timer period since it was put   *)
(* or last offered to the backend.                                         *)
THEOREM LossIsBounded == Spec => []LossWindow
<1>1. Inv => LossWindow
  BY WriteBehindAssumption DEF Inv, AgeBound, LossWindow, TypeOK
<1> QED BY <1>1, Invariance, PTL

(* A deleted account never has attribute rows again, although sessions     *)
(* that still hold its id go on writing to the buffer.                     *)
THEOREM DeletedStaysDeleted == Spec => []NoResurrection
<1>1. Inv => NoResurrection
  BY DEF Inv
<1> QED BY <1>1, Invariance, PTL

-----------------------------------------------------------------------------

(* The abstract store's maps are the write-behind layer's.                 *)
LEMMA SameMaps ==
  /\ Store!NoAttrs = NoAttrs /\ Store!AttrMap = AttrMap
  /\ \A s, d : Store!Merge(s, d) = Merge(s, d)
BY DEF Store!NoAttrs, NoAttrs, Store!AttrMap, AttrMap, Store!Merge, Merge

(* A flush, whatever the backend refuses, is a Persist of the abstract     *)
(* store, and hides nothing of an existing account from its readers.       *)
LEMMA FlushPersists ==
  ASSUME TypeOK, NoResurrection, NEW F \in SUBSET Account, FlushNow(F), UNCHANGED row
  PROVE  /\ Store!Persist(Account \ F)
         /\ \A a \in Account : row[a] = "live" => Visible'[a] = Visible[a]
<1> DEFINE gone(a) == a \in Account \ F /\ row[a] # "live"
           live(a) == a \in Account \ F /\ row[a] = "live"
<1>1. ASSUME NEW a \in Account
      PROVE  /\ stored'[a] = IF live(a) THEN Visible[a] ELSE stored[a]
             /\ Visible'[a] = IF gone(a) THEN stored[a] ELSE Visible[a]
  <2>1. /\ stored'[a] = IF a \in F THEN stored[a] ELSE BackendPut(a)
        /\ dirty'[a] = IF a \in F THEN dirty[a] ELSE NoAttrs
    BY DEF FlushNow, Kept
  <2>2. stored[a] \in AttrMap /\ dirty[a] \in AttrMap
    BY DEF TypeOK
  <2>3. Visible[a] = Merge(stored[a], dirty[a]) /\ Visible'[a] = Merge(stored'[a], dirty'[a])
    BY DEF Visible, Merge
  <2>4. CASE a \in F
    BY <2>1, <2>3, <2>4
  <2>5. CASE live(a)
    <3>1. stored'[a] = Merge(stored[a], dirty[a]) /\ dirty'[a] = NoAttrs
      BY <2>1, <2>5 DEF BackendPut
    <3>2. Merge(Merge(stored[a], dirty[a]), NoAttrs) = Merge(stored[a], dirty[a])
      BY <2>2, MergeType, MergeNone
    <3> QED BY <2>3, <2>5, <3>1, <3>2
  <2>6. CASE gone(a)
    <3>1. stored'[a] = stored[a] /\ dirty'[a] = NoAttrs
      BY <2>1, <2>6 DEF BackendPut
    <3> QED BY <2>2, <2>3, <2>6, <3>1, MergeNone
  <2> QED BY <2>4, <2>5, <2>6
<1>2. stored' = [a \in Account |-> IF live(a) THEN Visible[a] ELSE stored[a]]
  <2>1. stored' = [a \in Account |-> stored'[a]]
    BY FlushSound
  <2> QED BY <1>1, <2>1
<1>3. Visible' = [a \in Account |-> IF gone(a) THEN stored[a] ELSE Visible[a]]
  <2>1. Visible' = [a \in Account |-> Visible'[a]]
    BY DEF Visible
  <2> QED BY <1>1, <2>1
<1>4. Store!Persist(Account \ F)
  BY <1>2, <1>3 DEF Store!Persist
<1> QED BY <1>1, <1>4

(* Dropping an account's buffered writes leaves its readers the backend's. *)
LEMMA DropMaps ==
  ASSUME TypeOK, NEW a \in Account, dirty' = Dropped(a), UNCHANGED stored
  PROVE  Visible' = [Visible EXCEPT ![a] = stored[a]]
<1>1. ASSUME NEW b \in Account PROVE Visible'[b] = IF b = a THEN stored[a] ELSE Visible[b]
  <2>1. dirty'[b] = IF b = a THEN NoAttrs ELSE dirty[b]
    BY DEF Dropped, TypeOK
  <2>2. Visible'[b] = Merge(stored[b], dirty'[b])
    BY DEF Visible
  <2> QED BY <2>1, <2>2, MergeNone DEF Visible, TypeOK
<1>2. Visible' = [b \in Account |-> Visible'[b]] /\ Visible = [b \in Account |-> Visible[b]]
  BY DEF Visible
<1> QED BY <1>1, <1>2

(* Every step of the write-behind layer is a step of the abstract store,   *)
(* or leaves the abstract store unchanged.                                 *)
LEMMA StepRefines == Inv /\ [Next]_vars => [Store!Next]_(Store!vars)
<1> SUFFICES ASSUME Inv, [Next]_vars PROVE Store!Next \/ UNCHANGED Store!vars
  OBVIOUS
<1> USE DEF Inv
<1>1. CASE UNCHANGED vars
  BY <1>1 DEF vars, Store!vars, Visible
<1>2. ASSUME NEW a \in Account, NEW m \in AttrMap, CreateAccount(a, m) PROVE Store!Next
  <2>1. dirty[a] = NoAttrs
    BY <1>2 DEF CreateAccount, NewUntouched
  <2>2. ASSUME NEW b \in Account PROVE Visible'[b] = IF b = a THEN m ELSE Visible[b]
    <3>1. stored'[b] = IF b = a THEN m ELSE stored[b]
      BY <1>2 DEF CreateAccount, TypeOK
    <3>2. Visible'[b] = Merge(stored'[b], dirty[b])
      BY <1>2 DEF CreateAccount, Visible
    <3> QED BY <2>1, <3>1, <3>2, MergeNone DEF Visible
  <2>3. Visible' = [Visible EXCEPT ![a] = m]
    <3>1. Visible' = [b \in Account |-> Visible'[b]] /\ Visible = [b \in Account |-> Visible[b]]
      BY DEF Visible
    <3> QED BY <2>2, <3>1
  <2>4. Store!Create(a, m)
    BY <1>2, <2>3 DEF CreateAccount, Store!Create
  <2> QED BY <2>4, SameMaps DEF Store!Next
<1>3. ASSUME NEW a \in Account, NEW m \in AttrMap, AttrsPut(a, m) PROVE Store!Next
  <2>1. ASSUME NEW b \in Account
        PROVE  Visible'[b] = IF b = a THEN Merge(Visible[a], m) ELSE Visible[b]
    <3>1. dirty'[b] = IF b = a THEN Merge(dirty[a], m) ELSE dirty[b]
      BY <1>3 DEF AttrsPut, TypeOK
    <3>2. Visible'[b] = Merge(stored[b], dirty'[b])
      BY <1>3 DEF AttrsPut, Visible
    <3>3. stored[a] \in AttrMap /\ dirty[a] \in AttrMap
      BY DEF TypeOK
    <3> QED BY <3>1, <3>2, <3>3, MergeAssoc DEF Visible
  <2>2. Visible' = [Visible EXCEPT ![a] = Merge(@, m)]
    <3>1. Visible' = [b \in Account |-> Visible'[b]] /\ Visible = [b \in Account |-> Visible[b]]
      BY DEF Visible
    <3> QED BY <2>1, <3>1
  <2>3. Store!Put(a, m)
    BY <1>3, <2>2, SameMaps DEF AttrsPut, Store!Put
  <2> QED BY <2>3, SameMaps DEF Store!Next
<1>4. CASE TickIdle \/ TickEarly \/ Advance
  BY <1>4 DEF TickIdle, TickEarly, Advance, Store!vars, Visible
<1>5. CASE TickFlush \/ Flush
  <2>1. PICK F \in MayRefuse : FlushNow(F)
    BY <1>5 DEF TickFlush, Flush
  <2>2. F \in SUBSET Account /\ UNCHANGED row
    BY <1>5 DEF TickFlush, Flush, MayRefuse, DirtyAccounts
  <2>3. Store!Persist(Account \ F)
    BY <2>1, <2>2, FlushPersists
  <2> QED BY <2>3 DEF Store!Next
<1>6. ASSUME NEW a \in Account, DeleteAccount(a) PROVE Store!Next
  <2>1. ASSUME NEW b \in Account PROVE Visible'[b] = IF b = a THEN NoAttrs ELSE Visible[b]
    <3>1. /\ dirty'[b] = IF b = a THEN NoAttrs ELSE dirty[b]
          /\ stored'[b] = IF b = a THEN NoAttrs ELSE stored[b]
      BY <1>6 DEF DeleteAccount, Dropped, TypeOK
    <3>2. Visible'[b] = Merge(stored'[b], dirty'[b])
      BY DEF Visible
    <3> QED BY <3>1, <3>2, MergeNone DEF Visible
  <2>2. Visible' = [Visible EXCEPT ![a] = NoAttrs]
    <3>1. Visible' = [b \in Account |-> Visible'[b]] /\ Visible = [b \in Account |-> Visible[b]]
      BY DEF Visible
    <3> QED BY <2>1, <3>1
  <2>3. Store!Delete(a)
    BY <1>6, <2>2, SameMaps DEF DeleteAccount, Store!Delete
  <2> QED BY <2>3 DEF Store!Next
<1>7. ASSUME NEW a \in Account, DeleteAccountFails(a) PROVE Store!Next
  <2>1. Visible' = [Visible EXCEPT ![a] = stored[a]]
    BY <1>7, DropMaps DEF DeleteAccountFails
  <2>2. Store!DropUnsaved(a)
    BY <1>7, <2>1 DEF DeleteAccountFails, Store!DropUnsaved
  <2> QED BY <2>2 DEF Store!Next
<1>8. CASE Crash
  <2>1. ASSUME NEW b \in Account PROVE Visible'[b] = stored[b]
    BY <1>8, MergeNone DEF Crash, Visible, TypeOK
  <2>2. Visible' = stored
    <3>1. Visible' = [b \in Account |-> Visible'[b]] /\ stored = [b \in Account |-> stored[b]]
      BY DEF Visible, TypeOK
    <3> QED BY <2>1, <3>1
  <2>3. Store!Crash
    BY <1>8, <2>2 DEF Crash, Store!Crash
  <2> QED BY <2>3 DEF Store!Next
<1> QED
  BY <1>1, <1>2, <1>3, <1>4, <1>5, <1>6, <1>7, <1>8 DEF Next, Tick

(* The write-behind layer implements the abstract attribute store: readers *)
(* see their own writes, persisting is invisible, and a crash loses only   *)
(* attributes that were not saved yet.                                     *)
THEOREM RefinesAttrStore == Spec => ImplementsAttrStore
<1>1. Init => Store!Init
  <2> SUFFICES ASSUME Init PROVE Store!Init
    OBVIOUS
  <2>1. Merge(NoAttrs, NoAttrs) = NoAttrs
    BY MergeNone
  <2>2. Visible = [a \in Account |-> NoAttrs]
    BY <2>1 DEF Init, Visible
  <2> QED BY <2>2, SameMaps DEF Init, Store!Init
<1>2. Inv /\ [Next]_vars => [Store!Next]_(Store!vars)
  BY StepRefines
<1> QED BY <1>1, <1>2, Invariance, PTL DEF Spec, Store!Spec, ImplementsAttrStore

(* No flush, by the timer or by request, loses a write that a reader of an *)
(* existing account could see, whatever the backend refuses.               *)
THEOREM FlushesLoseNothing == Spec => FlushLosesNothing
<1>1. Inv /\ [Next]_vars =>
        [Tick \/ Flush => \A a \in Account : row[a] = "live" => Visible'[a] = Visible[a]]_vars
  <2> SUFFICES ASSUME Inv, Tick \/ Flush, NEW a \in Account, row[a] = "live"
               PROVE  Visible'[a] = Visible[a]
    OBVIOUS
  <2>1. CASE TickIdle \/ TickEarly
    BY <2>1 DEF TickIdle, TickEarly, Visible
  <2>2. CASE TickFlush \/ Flush
    <3>1. PICK F \in MayRefuse : FlushNow(F)
      BY <2>2 DEF TickFlush, Flush
    <3>2. F \in SUBSET Account /\ UNCHANGED row
      BY <2>2 DEF TickFlush, Flush, MayRefuse, DirtyAccounts
    <3> QED BY <3>1, <3>2, FlushPersists DEF Inv
  <2> QED BY <2>1, <2>2 DEF Tick
<1> QED BY <1>1, Invariance, PTL DEF Spec, FlushLosesNothing
=============================================================================
