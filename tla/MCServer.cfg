CONSTANTS
  c1 = c1
  c2 = c2
  c3 = c3
  None = None
  Conns <- MCConns
  Max = 2
SPECIFICATION FairSpec
INVARIANT SlotsHeld
PROPERTIES KeepsCounter EveryoneDealtWith SlotsComeBack
CHECK_DEADLOCK FALSE
