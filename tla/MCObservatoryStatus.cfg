SPECIFICATION Spec
CONSTANTS
  Components = {c1, c2}
  Self = self
  UserStatuses <- MCFewStatuses
  MaxWrites = 2
SYMMETRY SameComponents
CONSTRAINT OneSession
INVARIANTS TypeOK NoOperationalConflict EventFollowsStatus InFaultIsListed
PROPERTY FaultFlagSticks
