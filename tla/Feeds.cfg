SPECIFICATION Spec
CONSTANTS
  Ladders <- MCLadders
  Partial = Partial
  None = None
  fish = fish
  pike = pike
  dace = dace
  Window <- MCWindow
  LogCap = 2
  MaxClock = 3
  MaxEvents = 5
CHECK_DEADLOCK FALSE
INVARIANTS ShortestWindowExact SiteCurrent TrackerListsTruly FeedWithholds
