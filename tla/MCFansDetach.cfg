CONSTANTS
  q1 = q1
  q2 = q2
  Request = {q1, q2}
  Switches = 1
SPECIFICATION Spec
INVARIANT MaxModeHolds
CHECK_DEADLOCK FALSE
