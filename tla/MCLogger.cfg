CONSTANTS
  worker = worker
  closer = closer
  None = None
  Writers <- MCWriters
  Worker <- worker
  Closer <- closer
  Maxlines = 1
  Maxdays = 0
  MonthDays = 2
  MaxNum = 1
  MaxDate = 1
  MaxMsgs = 3
  ChanLen = 2
SPECIFICATION LFairSpec
INVARIANTS LinesBounded ClosedAfterDraining
PROPERTIES ArchivesKept LostOnlyAfterFailure WriteReturns CloseReturns
CHECK_DEADLOCK FALSE
