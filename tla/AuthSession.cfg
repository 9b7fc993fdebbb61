SPECIFICATION Spec
CONSTANTS
  Browser = {b1, b2}
  Request = {r1, r2}
  Nobody = Nobody
  Tier1 = 1
  Tier3 = 2
  MaxClock = 2
  MaxSecrets = 2
  MaxPassword = 1
INVARIANTS TypeOK LockFollowsFailures SessionsAreEarned
CONSTRAINT ClockOrSecrets
SYMMETRY Symmetry
PROPERTY KeepsContract
CHECK_DEADLOCK FALSE
