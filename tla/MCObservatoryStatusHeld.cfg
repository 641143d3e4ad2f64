SPECIFICATION Spec
CONSTANTS
  Components = {c1}
  Self = self
  UserStatuses <- MCFewStatuses
  MaxWrites = 2
INVARIANT FaultFlagHeld
