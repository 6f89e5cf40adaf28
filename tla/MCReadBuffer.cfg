CONSTANTS
  BufSize = 3
  MaxNeed = 5
  MaxRead = 9
SPECIFICATION Spec
INVARIANT UnreadInOrder
PROPERTY ReadsTheStream
CHECK_DEADLOCK FALSE
