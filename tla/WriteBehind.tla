------------------------------ MODULE WriteBehind ------------------------------
(***************************************************************************)
(* WriteBehind<B> (crates/bnetcc-storage/src/write_behind.rs) over the     *)
(* SQLite backend (crates/bnetcc-storage-sqlite/src/lib.rs): attribute     *)
(* writes are buffered per account and flushed by `tick`, which the        *)
(* embedder calls on a timer; accounts are written through.  The methods   *)
(* take `&mut self`, so one method is one step.  The process may crash     *)
(* between any two.                                                        *)
(*                                                                         *)
(* The code compares clock readings only by their difference, so the clock *)
(* is the time since the last flush, saturated where the code no longer    *)
(* tells values apart.                                                     *)
(***************************************************************************)
EXTENDS Attrs, Naturals, FiniteSets

CONSTANTS
  MaxDirtyAccounts, MaxDirtyAttrs, Interval,  \* FlushPolicy
  TickPeriod,  \* the timer calls tick at least this often
  Refused      \* accounts whose backend operations may fail

ASSUME WriteBehindAssumption ==
  /\ MaxDirtyAccounts \in Nat /\ MaxDirtyAttrs \in Nat /\ Interval \in Nat
  /\ TickPeriod \in Nat \ {0}
  /\ Refused \subseteq Account
  /\ IsFiniteSet(Account) /\ IsFiniteSet(Key)

VARIABLES
  row,        \* the backend's account table
  stored,     \* the backend's attribute table
  dirty,      \* the buffer: WriteBehind::dirty
  dirtyAttrs, \* WriteBehind::dirty_attrs
  elapsed,    \* now - last_flush_ms, up to Interval
  sinceTick,  \* time since the timer last called tick
  age         \* history: time since the oldest buffered write was put, or
              \* was last offered to the backend; up to MaxAge

vars == <<row, stored, dirty, dirtyAttrs, elapsed, sinceTick, age>>

MaxAge == Interval + TickPeriod + 1

DirtyAccounts == {a \in Account : dirty[a] # NoAttrs}

(* The recount after a flush or a delete.                                  *)
Count(d) == Cardinality({p \in Account \X Key : d[p[1]][p[2]] # Absent})

(* attrs_get and attrs_all: the buffer over the backend.                   *)
Visible == [a \in Account |-> Merge(stored[a], dirty[a])]

Store == INSTANCE AttrStore WITH visible <- Visible, saved <- stored

(* WriteBehind::new.                                                       *)
Init ==
  /\ row = [a \in Account |-> "new"]
  /\ stored = [a \in Account |-> NoAttrs]
  /\ dirty = [a \in Account |-> NoAttrs]
  /\ dirtyAttrs = 0
  /\ elapsed = 0 /\ sinceTick = 0 /\ age = 0

-----------------------------------------------------------------------------

(* create_account: one transaction for the row and its attributes.         *)
CreateAccount(a, m) ==
  /\ row[a] = "new"
  /\ row' = [row EXCEPT ![a] = "live"]
  /\ stored' = [stored EXCEPT ![a] = m]
  /\ UNCHANGED <<dirty, dirtyAttrs, elapsed, sinceTick, age>>

\* mutant: an overwritten key is counted again
NewlyDirtyAll(a, m) == {k \in Key : m[k] # Absent}

(* The keys `slot.insert(k, v).is_none()` counts.                          *)
NewlyDirty(a, m) == {k \in Key : m[k] # Absent /\ dirty[a][k] = Absent}

(* attrs_put: buffered.  The caller may be a session whose account has     *)
(* been deleted since it logged on.                                        *)
AttrsPut(a, m) ==
  /\ row[a] # "new" /\ m # NoAttrs
  /\ dirty' = [dirty EXCEPT ![a] = Merge(@, m)]
  /\ dirtyAttrs' = dirtyAttrs + Cardinality(NewlyDirty(a, m))
  /\ age' = IF DirtyAccounts = {} THEN 0 ELSE age
  /\ UNCHANGED <<row, stored, elapsed, sinceTick>>

\* mutant: rows are written whether or not the account still exists
BackendPutAnyway(a) == Merge(stored[a], dirty[a])

(* SqliteStorage::attrs_put: a batch for an account that is gone violates  *)
(* the foreign key and is dropped without an error.                        *)
BackendPut(a) == IF row[a] = "live" THEN Merge(stored[a], dirty[a]) ELSE stored[a]

\* mutant: the loop stops at the first failure and puts everything back
KeptAll(F) == IF F = {} THEN [a \in Account |-> NoAttrs] ELSE dirty

(* What goes back into the buffer when the backend refuses the accounts F. *)
Kept(F) == [a \in Account |-> IF a \in F THEN dirty[a] ELSE NoAttrs]

\* mutant: what the backend refuses is not put back into the buffer
FlushNowForgets(F) ==
  /\ stored' = [a \in Account |-> IF a \in F THEN stored[a] ELSE BackendPut(a)]
  /\ dirty' = [a \in Account |-> NoAttrs]
  /\ dirtyAttrs' = 0
  /\ age' = 0

(* flush_now: every dirty account is offered to the backend; the refused   *)
(* ones, F, stay buffered.                                                 *)
FlushNow(F) ==
  /\ stored' = [a \in Account |-> IF a \in F THEN stored[a] ELSE BackendPut(a)]
  /\ dirty' = Kept(F)
  /\ dirtyAttrs' = Count(Kept(F))
  /\ age' = 0

MayRefuse == SUBSET (Refused \cap DirtyAccounts)

\* mutant: the interval is not among the reasons to flush
DueOnSizeOnly ==
  \/ Cardinality(DirtyAccounts) >= MaxDirtyAccounts
  \/ dirtyAttrs >= MaxDirtyAttrs

Due ==
  \/ Cardinality(DirtyAccounts) >= MaxDirtyAccounts
  \/ dirtyAttrs >= MaxDirtyAttrs
  \/ elapsed >= Interval

(* tick, from the timer.                                                   *)
TickIdle ==
  /\ DirtyAccounts = {}
  /\ elapsed' = 0 /\ sinceTick' = 0
  /\ UNCHANGED <<row, stored, dirty, dirtyAttrs, age>>

TickEarly ==
  /\ DirtyAccounts # {} /\ ~Due
  /\ sinceTick' = 0
  /\ UNCHANGED <<row, stored, dirty, dirtyAttrs, elapsed, age>>

TickFlush ==
  /\ DirtyAccounts # {} /\ Due
  /\ \E F \in MayRefuse :
       /\ FlushNow(F)
       /\ elapsed' = IF F = {} THEN 0 ELSE elapsed
  /\ sinceTick' = 0
  /\ UNCHANGED row

Tick == TickIdle \/ TickEarly \/ TickFlush

(* Storage::flush passes last_flush_ms as the time, so the interval keeps  *)
(* running.                                                                *)
Flush ==
  /\ \E F \in MayRefuse : FlushNow(F)
  /\ UNCHANGED <<row, elapsed, sinceTick>>

(* delete_account: the buffer is dropped first, then the backend deletes.  *)
Dropped(a) == [dirty EXCEPT ![a] = NoAttrs]

\* mutant: the account's buffered attributes are not dropped
DeleteAccountKeeps(a) ==
  /\ row[a] = "live"
  /\ row' = [row EXCEPT ![a] = "deleted"]
  /\ stored' = [stored EXCEPT ![a] = NoAttrs]
  /\ UNCHANGED <<dirty, dirtyAttrs, elapsed, sinceTick, age>>

DeleteAccount(a) ==
  /\ row[a] = "live"
  /\ row' = [row EXCEPT ![a] = "deleted"]
  /\ stored' = [stored EXCEPT ![a] = NoAttrs]
  /\ dirty' = Dropped(a)
  /\ dirtyAttrs' = Count(Dropped(a))
  /\ UNCHANGED <<elapsed, sinceTick, age>>

(* ... and the same when the backend fails or has no such row.             *)
DeleteAccountFails(a) ==
  /\ a \in Refused \/ row[a] # "live"
  /\ dirty' = Dropped(a)
  /\ dirtyAttrs' = Count(Dropped(a))
  /\ UNCHANGED <<row, stored, elapsed, sinceTick, age>>

(* An unclean shutdown: into_backend, and new over what it returns.        *)
Crash ==
  /\ dirty' = [a \in Account |-> NoAttrs]
  /\ dirtyAttrs' = 0
  /\ elapsed' = 0 /\ sinceTick' = 0 /\ age' = 0
  /\ UNCHANGED <<row, stored>>

Upto(n, max) == IF n < max THEN n + 1 ELSE max

(* Time passes; the timer is never later than its period.                  *)
Advance ==
  /\ sinceTick < TickPeriod
  /\ sinceTick' = sinceTick + 1
  /\ elapsed' = Upto(elapsed, Interval)
  /\ age' = Upto(age, MaxAge)
  /\ UNCHANGED <<row, stored, dirty, dirtyAttrs>>

Next ==
  \/ \E a \in Account, m \in AttrMap : CreateAccount(a, m) \/ AttrsPut(a, m)
  \/ Tick
  \/ Flush
  \/ \E a \in Account : DeleteAccount(a) \/ DeleteAccountFails(a)
  \/ Crash
  \/ Advance

(* The timer runs; nothing else need ever happen.                          *)
Fairness == WF_vars(Tick) /\ WF_vars(Advance)

Spec == Init /\ [][Next]_vars /\ Fairness

-----------------------------------------------------------------------------

(* Every part of the state has its type.                                   *)
TypeOK ==
  /\ row \in [Account -> Row]
  /\ stored \in [Account -> AttrMap]
  /\ dirty \in [Account -> AttrMap]
  /\ dirtyAttrs \in Nat
  /\ elapsed \in 0 .. Interval
  /\ sinceTick \in 0 .. TickPeriod
  /\ age \in 0 .. MaxAge

(* dirty_attrs, which decides when a flush is due, is kept exact through   *)
(* overwrites, partial failures and deletes.                               *)
CountExact == dirtyAttrs = Count(dirty)

(* FlushPolicy::interval_ms "bounds data loss on a crash": every buffered  *)
(* write was put, or was last offered to the backend, no longer ago than   *)
(* the interval and one timer period, whatever the backend refused and     *)
(* whoever called flush in between.                                        *)
LossWindow == DirtyAccounts # {} => age <= Interval + TickPeriod

(* delete_account: "a later flush cannot resurrect rows for an id the      *)
(* backend has just removed", not even for writes buffered after it.       *)
NoResurrection == \A a \in Account : row[a] # "live" => stored[a] = NoAttrs

(* flush_now: "one account the backend refuses must not strand every other *)
(* account's writes in the buffer".                                        *)
OthersNotStranded ==
  \A a \in Account \ Refused : dirty[a] # NoAttrs ~> dirty[a] = NoAttrs

(* tick and flush_now: "the buffer is retained on error so nothing is      *)
(* lost": whatever the backend refuses, a flush changes nothing that a     *)
(* reader of an existing account sees.                                     *)
FlushLosesNothing ==
  [][Tick \/ Flush =>
       \A a \in Account : row[a] = "live" => Visible'[a] = Visible[a]]_vars

(* A reader sees its own writes until a crash or a delete, and a flush     *)
(* changes nothing it sees.                                                *)
ImplementsAttrStore == Store!Spec
=============================================================================
