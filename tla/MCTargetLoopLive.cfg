SPECIFICATION Spec
CONSTANTS
  Blocks = {b1}
  Targets = {}
  NTargets = 0
  Commands <- MCBlocks
  Mishaps = {}
PROPERTIES StopEnds ResumeEnds BlocksEnd
