SPECIFICATION Spec
CONSTANTS
  Targets = {t1}
  LongTarget = t1
  LongSize = 3
  Size <- MCSize
  MaxScripts = 3
  Capacity = 2
  NTargets = 1
  Others = 1
  Mishaps = {}
INVARIANT RegisteredAreWhole
CHECK_DEADLOCK FALSE
