---------------------------------- MODULE MCPanel ----------------------------------
(* Two connections, each from this host or from elsewhere, one account,    *)
(* and two forms: one that changes what a start checks and one that is     *)
(* refused.                                                                *)
EXTENDS Panel

CONSTANTS c1, c2, here, away, secret

MCExpected == [d \in {0} |-> 500]
MCConn == {c1, c2}
Symmetric == Permutations(MCConn)
MCIp == {here, away}
MCLoopback == {here}
MCPassword == {secret}
MCProduct == {"SEXP"}
MCDefaultFile ==
  [EmptyDoc EXCEPT !.str = [f \in {"storage_path", "status_listen"} |->
                              IF f = "storage_path" THEN "bnetccd.db" ELSE "127.0.0.1:6114"]]
MCForm ==
  LET page == SettingsPage(MCDefaultFile)
  IN  {[page EXCEPT !.str["wc3_logon"] = "legacy"], [page EXCEPT !.int["outbound_queue"] = 0]}
MCPanelDb ==
  [accounts |-> (1 :> [name |-> 1, family |-> "xsha1", secret |-> 1]), nextId |-> 2,
   attrs |-> (1 :> <<>>), chars |-> <<>>]
MCInvalidName == {}
====================================================================================
