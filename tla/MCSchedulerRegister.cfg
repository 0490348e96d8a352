CONSTANTS
  u1 = u1
  u2 = u2
  p1 = p1
  p2 = p2
  Worker = Worker
  Gone = Gone
  NoTask = NoTask
  UserJobs <- MCOneJob
  Prompts <- MCPrompts
  Stores <- MCConfiguredStore
  MaxJobs = 2
  MaxFaults = 1
SPECIFICATION Spec

PROPERTIES EnabledJobIsRegistered
CHECK_DEADLOCK FALSE
