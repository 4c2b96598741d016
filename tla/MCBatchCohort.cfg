CONSTANTS
  j1 = j1
  j2 = j2
  j3 = j3
  k1 = k1
  k2 = k2
  NoJob = NoJob
  Job = {j1, j2, j3}
  Key <- MCKey
  MaxWidth = 2
  SerialB1 = FALSE
SPECIFICATION Spec
INVARIANTS TypeOK OnePump NoJobStranded TruthfulScope PublishAfterCleanup ShutdownWaitsForOwner
PROPERTY ImplementsContract
CHECK_DEADLOCK FALSE
