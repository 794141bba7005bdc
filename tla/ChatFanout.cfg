SPECIFICATION Spec
CONSTANTS
  fish = fish
  owl = owl
  Fish = Fish
  Owl = Owl
  None = None
  NoChannel = NoChannel
  SeqWidth = 2
  QueueDepth = 1
  Session <- MCSession
  Account <- MCAccount
  AccountOf <- MCAccountOf
  Policies <- MCPolicies
INVARIANTS RosterTrue NoDepartureForgotten
PROPERTIES ImplementsChannelRules DeparturesAnnounced
