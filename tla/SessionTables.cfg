SPECIFICATION Spec
CONSTANTS
  c1 = c1
  c2 = c2
  home = home
  cafe = cafe
  d2 = d2
  k1 = k1
  k2 = k2
  fish = fish
  hero = hero
  None = None
  MaxConnections = 2
  Conn <- MCConn
  IP <- MCIP
  Product <- MCProduct
  RealmProduct <- MCProduct
  Key <- MCKey
  KeyLists <- MCKeyLists
  Account <- MCNoAccount
  Character <- MCCharacter
  Global <- MCGlobal
  PerIp <- MCPerIp
  Allowlist <- MCAllowlist
INVARIANTS AdmissionExact KeysExact
