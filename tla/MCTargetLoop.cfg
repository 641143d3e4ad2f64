SPECIFICATION Spec
CONSTANTS
  Blocks = {}
  Targets = {t1, t2}
  NTargets = 1
  Commands <- MCOperators
  Mishaps = {"workRaises"}
INVARIANTS TypeOK IdleMeansStopped ResumedLoopRuns
PROPERTIES KeepsPromise
