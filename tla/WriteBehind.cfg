SPECIFICATION Spec
CONSTANTS
  fish = fish
  owl = owl
  flags = flags
  login = login
  v1 = v1
  v2 = v2
  Absent = Absent
  MaxDirtyAccounts = 2
  MaxDirtyAttrs = 3
  Interval = 2
  TickPeriod = 1
  Account <- MCAccount
  Key <- MCKey
  Value <- MCValue
  Refused <- MCRefused
INVARIANTS CountExact LossWindow NoResurrection
PROPERTIES FlushLosesNothing ImplementsAttrStore OthersNotStranded
