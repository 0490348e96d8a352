CONSTANTS
  c1 = c1
  c2 = c2
  old = old
  idle = idle
  Client <- MCClient
  Kinds <- MCKinds
  Requests <- MCRequests
  Layouts <- MCLayouts
  Blocked <- MCBlocked
  Old <- old
  Idle <- idle
  write_file = write_file
  delete_file = delete_file
  None = None
  Bad = Bad
  Tools <- MCTools
  Tables <- MCTables
  ApprovalsNeeded = 2
  MaxApprovals = 2
  Threshold = 2
  PlaceholderLen = 2
  Configs <- MCConfigs
  Contents <- MCContents
  Length = 4
  Sources <- MCSources
  Forces <- MCForces
  MaxOps = 4
  Parts <- MCParts
SYMMETRY Symmetry
SPECIFICATION ToolboxSpec
INVARIANTS WholeFiles OneFilePerPath
  TypeOK BreakerIsExact RedactionIsExact CriticalIsHeld DangerousCallsAsk
PROPERTY OutcomeIsTrue
CHECK_DEADLOCK FALSE
