CONSTANTS
  SeqWrap = 4
  MaxDefs = 2
  MaxRows = 2
  MaxUses = 4
SPECIFICATION FairSpec
INVARIANTS ForwardedWhole LeavesNothing InStep
PROPERTIES NeverRepaired HandlerReturns
CHECK_DEADLOCK FALSE
