CONSTANTS
  Clients = {c1, c2}
  Conns <- MCConns
  MaxOpen = 1
  MaxIdle = 3
  MaxTry = 1
  Lifetime = TRUE
  MaxOverlap = 1
  NoConn = NoConn
  NoClient = NoClient
SPECIFICATION FairSpec
INVARIANTS TypeOK Exclusive Accounting Overshoot NoCircularWait
PROPERTIES KeepsLedger CallsReturn
CHECK_DEADLOCK FALSE
