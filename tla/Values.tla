--------------------------------- MODULE Values ---------------------------------
(* Values the modules of the realm, the games and the panel share.         *)
CONSTANTS
  None,    \* no value: Option::None, no reply yet
  Error    \* a reply that carries an error
=============================================================================
