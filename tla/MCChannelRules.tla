---------------------------- MODULE MCChannelRules ----------------------------
(* Small instance of ChannelRules: two accounts with two sessions each and *)
(* one with a single session, under four policies.                         *)
EXTENDS ChannelRules

CONSTANTS fish, fish2, owl, owl2, crow, Fish, Owl, Crow

MCSession == {fish, fish2, owl, owl2, crow}
MCAccount == {Fish, Owl, Crow}
MCAccountOf ==
  [s \in MCSession |->
     IF s \in {fish, fish2} THEN Fish ELSE IF s \in {owl, owl2} THEN Owl ELSE Crow]

First_(max, persist) ==
  [grant |-> [kind |-> "FirstArrival", names |-> {}], max_users |-> max,
   class |-> "Local", persist |-> persist, allowed |-> MCSession]

(* A private channel capped at three users, the same kept when empty, "Op  *)
(* Fish" without a cap, and an official channel closed to one client.      *)
MCPolicies ==
  { First_(3, FALSE),
    First_(3, TRUE),
    [First_(0, FALSE) EXCEPT
       !.grant = [kind |-> "NameMatch", names |-> {fish, fish2}]],
    [First_(0, FALSE) EXCEPT
       !.grant = [kind |-> "None", names |-> {}], !.class = "Official",
       !.allowed = MCSession \ {crow}] }
=============================================================================
