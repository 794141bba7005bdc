--------------------------------- MODULE Policy ---------------------------------
(***************************************************************************)
(* Server policy (crates/bnetcc-core/src/policy.rs): what a mode allows,   *)
(* the connection limits of each client class, the operator's partial      *)
(* overrides of them, and how a hub's policy is narrowed by a node's.      *)
(***************************************************************************)
EXTENDS Integers, FiniteSetsExt, TLC

CONSTANTS
  Product,     \* four-character product codes
  U32Max       \* u32::MAX

(* The defaults below fit a u32.                                           *)
ASSUME PolicyAssumption == U32Max \in Nat /\ U32Max >= 8192

Mode == {"gaming", "warnet", "both"}

(* Client classes that have limits of their own; a game class is its       *)
(* product.                                                                *)
FixedClass == {"gateway", "bnftp", "game_pending", "game_default"}
LimitField == {"per_ip", "per_account", "global"}
ConnLimits == [LimitField -> Nat]

Limits(ip, account, global) ==
  [f \in LimitField |-> CASE f = "per_ip" -> ip [] f = "per_account" -> account [] OTHER -> global]

Lesser(m, n) == IF m < n THEN m ELSE n

(* ConnLimits::min: the tighter of two limit sets, field by field          *)
Tighter(a, b) == [f \in LimitField |-> Lesser(a[f], b[f])]

(* ConnLimitsPatch::apply: a patch is a function on the fields it sets     *)
Patched(base, patch) == [f \in LimitField |-> IF f \in DOMAIN patch THEN patch[f] ELSE base[f]]

(* ClientLimits: the fixed classes, and a partial function on products     *)
ClientLimits == [fixed : [FixedClass -> ConnLimits],
                 products : UNION {[S -> ConnLimits] : S \in SUBSET Product}]

(* ClientLimits::for_class for a game of product p                         *)
ForProduct(limits, p) ==
  IF p \in DOMAIN limits.products THEN limits.products[p] ELSE limits.fixed["game_default"]

(* ClientLimits::narrowed_by: a product one side does not list is compared *)
(* with that side's default                                                *)
NarrowedLimits(hub, node) ==
  [fixed |-> [c \in FixedClass |-> Tighter(hub.fixed[c], node.fixed[c])],
   products |-> [p \in DOMAIN hub.products \cup DOMAIN node.products |->
                   Tighter(ForProduct(hub, p), ForProduct(node, p))]]

Gate == {"game_hosting", "game_listing", "realms", "w3_routing"}

DefaultLimits(mode) ==
  [fixed |-> [c \in FixedClass |->
      CASE c = "gateway" -> Limits(1, 1, CASE mode = "gaming" -> 256 [] mode = "warnet" -> 2048
                                           [] OTHER -> 1024)
        [] c = "bnftp" -> Limits(4, 4, 512)
        [] c = "game_pending" -> Limits(16, U32Max, 8192)
        [] OTHER -> Limits(8, 2, 4096)],
   products |-> <<>>]

(* Policy::for_mode.  The flood policies are parameters of FloodTracker.   *)
ForMode(mode) ==
  [mode |-> mode,
   allowed |-> IF mode = "warnet" THEN {} ELSE Gate,
   ordering |-> IF mode = "warnet" THEN "hub_serialized" ELSE "local_first",
   clients |-> DefaultLimits(mode),
   gateway_flood |-> CASE mode = "gaming" -> <<60, 20>> [] mode = "warnet" -> <<200, 60>>
                       [] OTHER -> <<120, 40>>]

(* Policy::narrowed_by: mode, ordering and floods are the hub's            *)
Narrowed(hub, node) ==
  [hub EXCEPT !.allowed = @ \cap node.allowed,
              !.clients = NarrowedLimits(@, node.clients)]

(* ClientLimitsConfig::apply: the operator's patches over the defaults, a  *)
(* product's over what applies to it before.  patches is a pair of partial *)
(* functions: fixed class to patch, product to patch.                      *)
WithPatches(limits, patches) ==
  LET fixed == [c \in FixedClass |-> IF c \in DOMAIN patches.fixed
                                    THEN Patched(limits.fixed[c], patches.fixed[c])
                                    ELSE limits.fixed[c]]
      before == [fixed |-> fixed, products |-> limits.products]
  IN  [fixed |-> fixed,
       products |-> [p \in DOMAIN patches.products |->
                       Patched(ForProduct(before, p), patches.products[p])]]

(* Config::policy widens the pending class to the loosest product.         *)
WidenPending(limits) ==
  LET widest == Max({limits.products[p]["per_ip"] : p \in DOMAIN limits.products}
                      \cup {limits.fixed["game_default"]["per_ip"]})
  IN  [limits EXCEPT !.fixed["game_pending"]["per_ip"] = IF @ < widest THEN widest ELSE @]

EffectivePolicy(mode, patches) ==
  [ForMode(mode) EXCEPT !.clients = WidenPending(WithPatches(@, patches))]

-----------------------------------------------------------------------------
(* What the policy promises.                                               *)

(* Narrowing never widens: no gate opens, no limit of any class grows.     *)
Within(policy, bound) ==
  /\ policy.allowed \subseteq bound.allowed
  /\ \A c \in FixedClass, f \in LimitField :
       policy.clients.fixed[c][f] <= bound.clients.fixed[c][f]
  /\ \A p \in Product, f \in LimitField :
       ForProduct(policy.clients, p)[f] <= ForProduct(bound.clients, p)[f]

(* A connection the product's limit would admit is not turned away while   *)
(* its product is still unknown.                                           *)
PendingLoosest(limits) ==
  \A p \in Product :
    ForProduct(limits, p)["per_ip"] <= limits.fixed["game_pending"]["per_ip"]
=============================================================================
