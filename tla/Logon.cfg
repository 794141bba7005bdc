SPECIFICATION Spec
CONSTANTS
  s1 = s1
  s2 = s2
  fish = fish
  here = here
  None = None
  Error = Error
  Session <- MCSession
  Client <- MCSession
  Accounts <- MCAccounts
  Typed <- MCTyped
  NodeRealm = here
  Secret <- MCSecret
  InvalidName <- MCInvalidName
  ExpectedBy <- MCExpected
  Saturation = 0
  LadderMinWins = 2
  MaxRank = 2
  PageMax = 2
  MaxEvents = 3
  Base = 4
  NUL = 0
  CR = 1
  LF = 2
  Magic = 3
  ReadChunk = 16
  CompactAt = 3
  MaxFrame = 6
  MaxLine = 4
  MaxRequest = 12
  MaxFilename = 3
  Version2 = 2
  V1Min = 6
  V1Fields = 3
  V2Min = 5
  V2Fixed = 2
  ChatTextMax = 4
  ChannelNameMax = 4
  AccountMin = 2
  AccountMax = 3
  CharacterMin = 2
  CharacterMax = 4
  GameNameMax = 3
  DescriptionMax = 3
  GameinfoCharacters = 3
  MaxCodes = 2
  NameMax = 3
  MaxHttp = 44
  MaxTag = 2
  MaxBridgedName = 5
  MaxSuffix = 2
  MaxHops = 3
  MaxLinkFrame = 9
  LinkRead = 4
  RetryCeiling = 60
INVARIANTS
  LogonOutcomeExact ChallengeIsLast RealmNamesAreSrp
  FramesArriveWhole StatstringsArriveWhole NamesMeanOneThing RepliesArriveWhole
CHECK_DEADLOCK FALSE
