--------------------------------- MODULE MCRealm ---------------------------------
(* Two logins of two accounts, one of them with a ladder character.        *)
EXTENDS Realm

CONSTANTS m1, m2, l1, l2, t1, t2, g1, panel, cows

MCExpected == [d \in {0} |-> 500]
MCAccounts == (1 :> [name |-> 1, family |-> "xsha1", secret |-> 1])
              @@ (2 :> [name |-> 2, family |-> "xsha1", secret |-> 2])
MCWaiter == {m1, m2}
MCTicketId == {t1, t2}
Symmetric == Permutations(MCWaiter) \cup Permutations(MCTicketId)
MCLogin == {l1, l2}
MCOwnerOf == (l1 :> 1) @@ (l2 :> 2)
MCExpansionOf == (l1 :> TRUE) @@ (l2 :> TRUE)
MCClient == {m1, m2, panel}
MCOneServer == {g1}
New(n) == [name |-> n, class |-> 0, expansion |-> FALSE, hardcore |-> TRUE, ladder |-> TRUE]
MCNewCharacters == {New(1)}
MCAsked == {[maxPlayers |-> 0, difference |-> 255]}
MCGameNames == {cows}
MCInitialDb ==
  [accounts |-> MCAccounts, nextId |-> 3, attrs |-> (1 :> <<>>) @@ (2 :> <<>>),
   chars |-> <<New(1) @@ [account |-> 1, dead |-> FALSE, level |-> 1, progression |-> 0, save |-> None]>>]
MCInvalidName == {}

(* The game server has linked: no other connects to this realm.            *)
MCInit ==
  /\ InitStorage(InitialDb)
  /\ gs = (g1 :> [stage |-> "linked", version |-> Version, generation |-> 1,
                  writer |-> TRUE, queue |-> <<>>, taken |-> {}])
  /\ current = [generation |-> 1, version |-> Version, to |-> g1]
  /\ generation = 1 /\ installed = g1
  /\ pending = <<>> /\ nextId = 0
  /\ games = None
  /\ call = [w \in Waiter |-> NoCall]
  /\ InitRealm
MCSpec == MCInit /\ [][Next]_vars
==================================================================================
