SPECIFICATION Spec
CONSTANTS
  Blocks = {}
  Targets = {t1}
  NTargets = 0
  Commands = {"predict", "faultFlag"}
  Mishaps = {}
PROPERTY PredictReturns
