SPECIFICATION Spec
CONSTANTS
  Components = {c1}
  Self = self
  UserStatuses <- MCDaytime
  MaxWrites = 2
PROPERTIES ClearedFlagIsSignalled DayIsFlagged
