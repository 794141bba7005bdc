------------------------------ MODULE MCModeration ------------------------------
(* A member of staff and a Diablo II player, whose channel name carries a  *)
(* character, at two addresses; hours become ticks of one second.          *)
EXTENDS Moderation

CONSTANTS fish, staff, Fish, Sysop, hero, home, office

MCSession == {fish, staff}
MCStaff == {staff}
MCAccountOf == [s \in MCSession |-> IF s = fish THEN Fish ELSE Sysop]
MCCharacterOf == [s \in MCSession |-> IF s = fish THEN hero ELSE None]
MCIpOf == [s \in MCSession |-> IF s = fish THEN home ELSE office]
MCDuration == {1}
=================================================================================
