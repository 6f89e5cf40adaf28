CONSTANTS
  SeqMod = 3
  MaxReply = 4
  MaxPipe = 2
  MaxStmts = 2
  MaxOpenStmts = 1
  None = None
  StmtIds <- MCStmtIds
SPECIFICATION FairSpec
INVARIANTS DieClosedOnce CommandsInSync RepliesNumbered ReplyFindsBufferFree StatementKept
PROPERTIES Answered SessionEnds
CHECK_DEADLOCK FALSE
