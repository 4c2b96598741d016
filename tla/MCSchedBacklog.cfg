CONSTANTS
  f1 = f1
  p1 = p1
  c1 = c1
  c2 = c2
  c3 = c3
  c4 = c4
  session1 = session1
  NoItem = NoItem
  NoKey = NoKey
  Foreground = {f1}
  Postcommit = {}
  Persistence = {c1, c2, c3, c4}
  CoalesceKey <- MCCoalesceKey
  PinnedBytes <- MCPinnedBytes
  MaxPendingBytes = 2
  IdleGrace = 0
  QuietGrace = 0
  OwnerIdleGrace = 0
  KeepaliveInterval = 0
  AttentiveWindow = 0
  PumpBudgets = {}
SPECIFICATION Spec
INVARIANTS TypeOK NoLostWork NewestWins ExitLeavesNothing
PROPERTIES BudgetDropsOnlyPinned BudgetFits
