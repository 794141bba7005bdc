---------------------------- MODULE MCWriteBehind ----------------------------
(* Small instance of WriteBehind: two accounts, of which the backend may    *)
(* refuse one, with two attributes of two values.                          *)
EXTENDS WriteBehind

CONSTANTS fish, owl, flags, login, v1, v2

MCAccount == {fish, owl}
MCKey == {flags, login}
MCValue == {v1, v2}
MCRefused == {owl}
=============================================================================
