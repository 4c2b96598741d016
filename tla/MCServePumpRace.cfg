CONSTANTS
  r1 = r1
  r2 = r2
  f1 = f1
  f2 = f2
  x2 = x2
  p1 = p1
  w1 = w1
  c1 = c1
  NoItem = NoItem
  NoKey = NoKey
  Foreground = {f1, f2, x2}
  Postcommit = {p1, w1}
  Persistence = {c1}
  CoalesceKey <- MCCoalesceKey
  PinnedBytes <- MCPinnedBytes
  MaxPendingBytes = 0
  IdleGrace = 2
  QuietGrace = 1
  OwnerIdleGrace = 1
  KeepaliveInterval = 0
  AttentiveWindow = 0
  PumpBudgets = {1, 4}
  Gen <- MCGen
  Tail <- MCTail
  Rungs = {w1}
  PumpAfter = 3
SPECIFICATION ServeSpec
PROPERTY PumpNeverRacesTail
CHECK_DEADLOCK FALSE
