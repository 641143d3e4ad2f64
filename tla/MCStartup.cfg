SPECIFICATION Spec
CONSTANTS
  Sources = {s1, s2}
  Threads = {x1, x2}
  Unknown = Unknown
  Starters = {a, b}
  MaxTime = 6
  MaxStarts = 2
SYMMETRY Symmetry
CONSTRAINT InTime
INVARIANTS
  TypeOK
  AlertIdsStick
  NightFollowed
  LoopKnowsState
  StartedIsWhole
CHECK_DEADLOCK FALSE
