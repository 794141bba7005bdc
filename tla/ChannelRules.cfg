SPECIFICATION RulesSpec
CONSTANTS
  fish = fish
  fish2 = fish2
  owl = owl
  owl2 = owl2
  crow = crow
  Fish = Fish
  Owl = Owl
  Crow = Crow
  None = None
  NoChannel = NoChannel
  SeqWidth = 2
  Session <- MCSession
  Account <- MCAccount
  AccountOf <- MCAccountOf
  Policies <- MCPolicies
INVARIANT RosterSound
PROPERTY OperatorSuccession
CHECK_DEADLOCK FALSE
