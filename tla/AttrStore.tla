------------------------------- MODULE AttrStore -------------------------------
(***************************************************************************)
(* What the storage layer promises its callers about attributes            *)
(* (the `Storage` trait, crates/bnetcc-storage/src/lib.rs, and the module  *)
(* comment of write_behind.rs).  A reader sees `visible`; a crash leaves   *)
(* `saved`.  Persisting may lag behind but never changes what a reader of  *)
(* a live account sees.                                                    *)
(***************************************************************************)
EXTENDS Attrs

VARIABLES row, visible, saved

vars == <<row, visible, saved>>

Init ==
  /\ row = [a \in Account |-> "new"]
  /\ visible = [a \in Account |-> NoAttrs]
  /\ saved = [a \in Account |-> NoAttrs]

(* Registration is durable at once.                                        *)
Create(a, m) ==
  /\ row[a] = "new"
  /\ row' = [row EXCEPT ![a] = "live"]
  /\ visible' = [visible EXCEPT ![a] = m]
  /\ saved' = [saved EXCEPT ![a] = m]

Put(a, m) ==
  /\ visible' = [visible EXCEPT ![a] = Merge(@, m)]
  /\ UNCHANGED <<row, saved>>

(* The writes of the accounts in S reach the disk; those made for an       *)
(* account that is gone are forgotten.                                     *)
Persist(S) ==
  /\ saved' = [a \in Account |->
                 IF a \in S /\ row[a] = "live" THEN visible[a] ELSE saved[a]]
  /\ visible' = [a \in Account |->
                   IF a \in S /\ row[a] # "live" THEN saved[a] ELSE visible[a]]
  /\ UNCHANGED row

Delete(a) ==
  /\ row[a] = "live"
  /\ row' = [row EXCEPT ![a] = "deleted"]
  /\ visible' = [visible EXCEPT ![a] = NoAttrs]
  /\ saved' = [saved EXCEPT ![a] = NoAttrs]

(* A delete that does not succeed, or that names an account already gone,  *)
(* still costs the account its unsaved writes.                             *)
DropUnsaved(a) ==
  /\ visible' = [visible EXCEPT ![a] = saved[a]]
  /\ UNCHANGED <<row, saved>>

(* Only attributes that were not saved yet are lost.                       *)
Crash ==
  /\ visible' = saved
  /\ UNCHANGED <<row, saved>>

Next ==
  \/ \E a \in Account, m \in AttrMap : Create(a, m) \/ Put(a, m)
  \/ \E S \in SUBSET Account : Persist(S)
  \/ \E a \in Account : Delete(a) \/ DropUnsaved(a)
  \/ Crash

Spec == Init /\ [][Next]_vars
=============================================================================
