CONSTANTS
  BufSize = 3
  MaxNeed = 3
  MaxRead = 6
SPECIFICATION Spec
INVARIANT ReplyIntact
CHECK_DEADLOCK FALSE
