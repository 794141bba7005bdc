SPECIFICATION LinkSpec
CONSTANTS
  w1 = w1
  w2 = w2
  g1 = g1
  g2 = g2
  None = None
  Error = Error
  Down = Down
  Waiter <- MCWaiter
  GameServer <- MCGameServer
  QueueCap = 1
  MaxIds = 2
SYMMETRY Symmetric
CHECK_DEADLOCK FALSE
INVARIANTS PendingExact LinkFollowsInstall
