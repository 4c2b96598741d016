CONSTANTS
  f1 = f1
  p1 = p1
  c1 = c1
  c2 = c2
  c3 = c3
  c4 = c4
  session1 = session1
  NoItem = NoItem
  NoKey = NoKey
  Foreground = {}
  Postcommit = {p1}
  Persistence = {c1}
  CoalesceKey <- MCOneKey
  PinnedBytes <- MCOneWeight
  MaxPendingBytes = 2
  IdleGrace = 1
  QuietGrace = 1
  OwnerIdleGrace = 1
  KeepaliveInterval = 1
  AttentiveWindow = 2
  PumpBudgets = {1}
SPECIFICATION FairSpec
INVARIANT OwnerNeverOversleeps
PROPERTIES EveryFutureResolves OwnerEnds
