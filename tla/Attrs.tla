--------------------------------- MODULE Attrs ---------------------------------
(***************************************************************************)
(* Attribute maps (crates/bnetcc-storage/src/attr.rs `AttrMap`) and the    *)
(* accounts that own them.  A map is a function on every key, with Absent  *)
(* where it has no entry; attributes are only ever inserted or dropped     *)
(* with their account.                                                     *)
(***************************************************************************)
CONSTANTS Account, Key, Value, Absent

ASSUME AttrsAssumption == Absent \notin Value

AttrMap == [Key -> Value \cup {Absent}]

NoAttrs == [k \in Key |-> Absent]

(* Every entry of `over` inserted into `under`.                            *)
Merge(under, over) ==
  [k \in Key |-> IF over[k] # Absent THEN over[k] ELSE under[k]]

(* Ids are handed out once and never again (AUTOINCREMENT).                *)
Row == {"new", "live", "deleted"}
=============================================================================
