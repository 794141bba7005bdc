---------------------------- MODULE MCSessionLife ----------------------------
(* Small instances of SessionLife with two connections.  One account, so   *)
(* that both may log on under it; of the two keys one is presented alone   *)
(* and both as the base and expansion key of one client.  Two addresses    *)
(* without accounts for the admission and key tables; one address, without *)
(* keys, for the directory and staff.                                      *)
EXTENDS SessionLife

CONSTANTS c1, c2, home, cafe, d2, k1, k2, fish, hero

MCConn == {c1, c2}
MCIP == {home, cafe}
MCOneIP == {home}
MCProduct == {d2}
MCKey == {k1, k2}
MCKeyLists == {<<k1>>, <<k2, k1>>}
MCNoKeys == {}
MCAccount == {fish}
MCNoAccount == {}
MCCharacter == [a \in Account |-> hero]
MCGlobal == [k \in Class |-> IF k = "Bnftp" THEN 1 ELSE 2]
MCPerIp == [k \in Class |-> IF k = "GamePending" THEN 2 ELSE 1]
MCAllowlist == {}
MCAllowHome == {home}
=============================================================================
