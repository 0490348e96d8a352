CONSTANTS
  u1 = u1
  u2 = u2
  p1 = p1
  p2 = p2
  Worker = Worker
  Gone = Gone
  NoTask = NoTask
  UserJobs <- MCOneJob
  Prompts <- MCPrompts
  Stores <- MCBothStores
  MaxJobs = 2
  MaxFaults = 1
SPECIFICATION Spec
INVARIANTS TypeOK LastResultWasRun
PROPERTIES NoResurrection WorkerRecovers
CHECK_DEADLOCK FALSE
