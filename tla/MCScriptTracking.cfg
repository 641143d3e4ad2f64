SPECIFICATION Spec
CONSTANTS
  Targets = {t1, t2, t3}
  LongTarget = t1
  LongSize = 1
  Size <- MCSize
  MaxScripts = 2
  Capacity = 1
  NTargets = 1
  Others = 0
  Mishaps = {"removalFails", "addFails", "telemetryFails", "stopOutlasts"}
SYMMETRY SameTargets
CONSTRAINT FewLost
INVARIANTS TypeOK OldestForgotten GoneLeaveQueue WithinCapacity
CHECK_DEADLOCK FALSE
