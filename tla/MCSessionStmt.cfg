CONSTANTS
  SeqMod = 3
  MaxReply = 2
  MaxPipe = 2
  MaxStmts = 2
  MaxOpenStmts = 2
  None = None
  StmtIds <- MCStmtIds
SPECIFICATION Spec
INVARIANT RightStatement
CHECK_DEADLOCK FALSE
