CONSTANTS
  SeqWrap = 4
  MaxDefs = 1
  MaxRows = 1
  MaxUses = 1
SPECIFICATION FairSpec
PROPERTY StopsAtError
CHECK_DEADLOCK FALSE
