SPECIFICATION MCSpec
CONSTANTS
  m1 = m1
  m2 = m2
  l1 = l1
  l2 = l2
  t1 = t1
  t2 = t2
  g1 = g1
  panel = panel
  cows = cows
  None = None
  Error = Error
  Down = Down
  Waiter <- MCWaiter
  Login <- MCLogin
  OwnerOf <- MCOwnerOf
  ExpansionOf <- MCExpansionOf
  Client <- MCClient
  Panel = panel
  GameServer <- MCOneServer
  NewCharacters <- MCNewCharacters
  Asked <- MCAsked
  GameNames <- MCGameNames
  TicketId <- MCTicketId
  InitialDb <- MCInitialDb
  InvalidName <- MCInvalidName
  ExpectedBy <- MCExpected
  Saturation = 0
  LadderMinWins = 2
  MaxRank = 2
  PageMax = 2
  QueueCap = 1
  MaxIds = 2
  MaxCharacters = 1
  OtherCost = 3
  MaxEvents = 4
SYMMETRY Symmetric
CHECK_DEADLOCK FALSE
INVARIANTS TicketsOfOpenLogins JoinsOnlyOwn
