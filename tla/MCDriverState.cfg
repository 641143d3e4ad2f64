SPECIFICATION Spec
CONSTANTS
  ta = ta
  tb = tb
  tc = tc
  None = None
  Targets <- MCTargets
  Late <- MCLate
  CwfsTargets <- MCCwfs
  NTargets = 1
  Algorithms = {"feature", "sequential"}
  Modes = {"ADVANCE", "SIMPLE"}
  MaxLoads = 1
  MaxFiles = 7
CONSTRAINT FewStrays
INVARIANTS
  TypeOK
  SnapshotExists
  OnlyIssuedCounted
  
  LoadStays
PROPERTIES
  FailedForgotten
