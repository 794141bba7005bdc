--------------------------------- MODULE MCGames ---------------------------------
(* Two sessions, free to log on to one account or to two: account 1 has a  *)
(* win less than the ladder asks for, account 2 enough.  The expected      *)
(* score is Elo's to three digits for ratings less than a hundred apart,   *)
(* which no bounded run leaves.                                            *)
EXTENDS Games

CONSTANTS s1, s2, star, lost

MCSession == {s1, s2}
MCAccounts == (1 :> [name |-> 1, family |-> "xsha1", secret |-> 1])
              @@ (2 :> [name |-> 2, family |-> "xsha1", secret |-> 2])
MCInitialWins == <<1, 2>>
MCProductOf == [s \in Session |-> star]
MCGameName == {lost}
MCExpected == [d \in -100 .. 100 |-> 500 - ((144 * d) \div 100)]
Slots(c1, c2) == <<[name |-> 1, code |-> c1], [name |-> 2, code |-> c2]>>
MCReport == {[type |-> 0, slots |-> Slots(1, 0)], [type |-> 1, slots |-> Slots(2, 1)]}
MCInvalidName == {}
==================================================================================
