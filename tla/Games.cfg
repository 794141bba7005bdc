SPECIFICATION Spec
CONSTANTS
  s1 = s1
  s2 = s2
  star = star
  lost = lost
  None = None
  Error = Error
  Session <- MCSession
  Client <- MCSession
  Accounts <- MCAccounts
  InitialWins <- MCInitialWins
  ProductOf <- MCProductOf
  GameName <- MCGameName
  Report <- MCReport
  InvalidName <- MCInvalidName
  ExpectedBy <- MCExpected
  Saturation = 100
  LadderMinWins = 2
  MaxRank = 2
  PageMax = 2
  MinGameLength = 1
  RecentMax = 1
  MaxTime = 2
  MaxResults = 2
INVARIANTS ListedGamesHaveHosts NobodyForgotten
PROPERTY LadderRecordsHold
