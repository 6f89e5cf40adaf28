CONSTANTS
  Clients = {c1, c2}
  Conns <- MCConns
  MaxOpen = 1
  MaxIdle = 0
  MaxTry = 1
  Lifetime = TRUE
  MaxOverlap = 1
  NoConn = NoConn
  NoClient = NoClient
SPECIFICATION FairSpec
PROPERTY CallsAlwaysReturn
CHECK_DEADLOCK FALSE
