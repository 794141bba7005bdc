SPECIFICATION Spec
CONSTANTS
  fish = fish
  staff = staff
  Fish = Fish
  Sysop = Sysop
  hero = hero
  home = home
  office = office
  None = None
  Error = Error
  Truncated = Truncated
  Session <- MCSession
  Staff <- MCStaff
  AccountOf <- MCAccountOf
  CharacterOf <- MCCharacterOf
  IpOf <- MCIpOf
  Duration <- MCDuration
  Never = 99
  Burst = 2
  Per10s = 5
  Penalty = "mute"
  MuteTicks = 1
  TickMs = 1000
  MaxClock = 2
  MaxBack = 1
  MaxEvents = 3
  MaxStarts = 1
CHECK_DEADLOCK FALSE
INVARIANTS FlagsExact FloodBudget
PROPERTIES MutedStaySilent
