----------------------------- MODULE MCChatFanout -----------------------------
(* Small instance of ChatFanout: two accounts with a session each, in a    *)
(* private channel and in an "Op Fish" that is kept when empty.             *)
EXTENDS ChatFanout

CONSTANTS fish, owl, Fish, Owl

MCSession == {fish, owl}
MCAccount == {Fish, Owl}
MCAccountOf == [s \in MCSession |-> IF s = owl THEN Owl ELSE Fish]

Private ==
  [grant |-> [kind |-> "FirstArrival", names |-> {}], max_users |-> 0,
   class |-> "Local", persist |-> FALSE, allowed |-> MCSession]

MCPolicies ==
  { Private,
    [Private EXCEPT !.grant = [kind |-> "NameMatch", names |-> {fish}], !.persist = TRUE] }
=============================================================================
