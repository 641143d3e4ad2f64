SPECIFICATION Spec
CONSTANTS
  Targets = {t1, t2}
  LongTarget = t1
  LongSize = 2
  Size <- MCSize
  MaxScripts = 3
  Capacity = 1
  NTargets = 1
  Others = 1
  Mishaps = {"removalFails"}
INVARIANTS RegisteredWereDone GoneLeaveQueue WithinCapacity
PROPERTY EndIsSeen
CHECK_DEADLOCK FALSE
