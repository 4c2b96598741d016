CONSTANTS
  q1 = q1
  q2 = q2
  Request = {q1, q2}
  Switches = 1
SPECIFICATION FairSpec
INVARIANTS TypeOK CommandedIsReal
PROPERTIES DropsOnlyStale LeaseRamps FansComeBack LeaksAreDropped
CHECK_DEADLOCK FALSE
