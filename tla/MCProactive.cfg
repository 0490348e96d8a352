CONSTANTS
  c1 = c1
  c2 = c2
  n1 = n1
  n2 = n2
  e1 = e1
  e2 = e2
  f1 = f1
  f2 = f2
  d1 = d1
  d2 = d2
  t1 = t1
  t2 = t2
  t3 = t3
  u1 = u1
  u2 = u2
  ok = ok
  bad = bad
  Client <- MCClient
  Note <- MCNote
  Endpoint <- MCEndpoint
  File <- MCFile
  Dir <- MCDir
  DirOf <- MCDirOf
  Target <- MCTarget
  UrlOf <- MCUrlOf
  Expected <- MCExpected
  Status <- MCStatus
  Refused = {}
  Event <- MCEvent
  Scopes <- MCScopes
  MaxGlitches = 1
  MaxLoops = 2
  MaxRounds = 2
  MaxFlips = 1
SPECIFICATION Spec
INVARIANTS BroadcastReachesAll UrgentIsPushed AlertsAreTrue
PROPERTY FilesAreTold
CHECK_DEADLOCK FALSE
