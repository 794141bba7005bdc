SPECIFICATION PanelSpec
CONSTANTS
  c1 = c1
  c2 = c2
  here = here
  away = away
  secret = secret
  None = None
  Error = Error
  Blank = Blank
  NotNumber = NotNumber
  Generated = Generated
  Truncated = Truncated
  U32Max = 65535
  Product <- MCProduct
  Known <- MCProduct
  Conn <- MCConn
  Client <- MCConn
  Ip <- MCIp
  Loopback <- MCLoopback
  Password <- MCPassword
  Form <- MCForm
  DefaultFile <- MCDefaultFile
  PanelDb <- MCPanelDb
  InvalidName <- MCInvalidName
  ExpectedBy <- MCExpected
  Saturation = 0
  LadderMinWins = 2
  MaxRank = 2
  PageMax = 2
  MaxLoginFails = 1
  LoginWindow = 2
  SessionTtl = 2
  MaxTokens = 2
  MaxTime = 2
  MaxArrivals = 5
SYMMETRY Symmetric
CHECK_DEADLOCK FALSE
INVARIANTS OnlySpoiledRefused FirstRunOnce GuessesBounded
