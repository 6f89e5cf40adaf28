CONSTANTS
  Callers = {g1, g2}
  Worker = w
  Msgs <- MCMsgs
  Cap = 2
  MaxLevel = 1
  QueueLen = 1
  MaxOutputs = 2
  Configs <- MCConfigs
  MaxMsgs = 3
SPECIFICATION FairSpec
INVARIANTS Conserved BatchAsAnnounced ReachesAll
PROPERTIES LoggingReturns AllPublished
CHECK_DEADLOCK FALSE
