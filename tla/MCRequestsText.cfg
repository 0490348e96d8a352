CONSTANTS
  s1 = s1
  s2 = s2
  c1 = c1
  c2 = c2
  c3 = c3
  NoCall = NoCall
  Streams <- MCStreams
  Calls <- MCCalls
  Confirm <- MCConfirm
  code = code
  chart = chart
  form = form
  NoTag = NoTag
  Tag <- MCTag
  OpenLen <- MCOpenLen
  CloseLen <- MCCloseLen
  Keep = 3
  Answers <- MCAnswers
  w1 = w1
  ok = ok
  risky = risky
  NoTask = NoTask
  Workers <- MCOneWorker
  Tasks <- MCTasks
  Raising <- MCRaising
  MaxJobs = 3
  MaxFaults = 3
  Parts <- MCParser
SPECIFICATION RequestsSpec
INVARIANT TextIsEmitted
CHECK_DEADLOCK FALSE
