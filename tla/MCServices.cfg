CONSTANTS
  gdrive = gdrive
  ann = ann
  bob = bob
  f1 = f1
  f2 = f2
  k1 = k1
  k2 = k2
  k3 = k3
  db1 = db1
  db2 = db2
  r1 = r1
  x1 = x1
  x2 = x2
  Provider <- MCProvider
  Refreshed <- MCProvider
  Account <- MCAccount
  Flow <- MCFlow
  MaxTokens = 3
  MaxSlips = 1
  Name <- MCName
  Driver <- MCDrivers
  Task <- MCTask
  PoolSize = 1
  MaxPools = 2
  Request <- MCRequest
  Chats <- MCChats
  Check <- MCCheck
  Interval = 2
  MaxTime = 3
  Parts <- MCParts
SYMMETRY Symmetry
SPECIFICATION Spec
INVARIANTS TokensAreTrue ConnectionsComeBack RequestsAreRouted StatusIsCurrent
CHECK_DEADLOCK FALSE
