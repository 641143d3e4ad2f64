SPECIFICATION Spec
CONSTANTS
  Blocks = {}
  Targets = {t1}
  NTargets = 0
  Commands <- MCPredictions
  Mishaps = {"removalRaises", "loopOutlasts"}
INVARIANTS OperationReported LocksAskedOnce
