---------------------------- MODULE MCGameServerLink ----------------------------
(* Two tasks with requests under way and two game servers dialling in.     *)
EXTENDS GameServerLink

CONSTANTS w1, w2, g1, g2

MCWaiter == {w1, w2}
MCGameServer == {g1, g2}
Symmetric == Permutations(MCWaiter) \cup Permutations(MCGameServer)
=============================================================================
