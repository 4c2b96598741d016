CONSTANTS
  j1 = j1
  j2 = j2
  j3 = j3
  k1 = k1
  k2 = k2
  NoJob = NoJob
  Job = {j1, j2}
  Key <- MCOneKey
  MaxWidth = 2
  SerialB1 = TRUE
SPECIFICATION Spec
INVARIANT TruthfulScope
CHECK_DEADLOCK FALSE
