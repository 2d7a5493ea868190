CONSTANTS
  j1 = j1
  j2 = j2
  j3 = j3
  j4 = j4
  w1 = w1
  w2 = w2
  NoJob = NoJob
  Jobs <- MCJobs
  Workers <- MCWorkers
  QueueMaxSize = 2
SPECIFICATION FairSpec
INVARIANTS TypeOK OneCopy PoolBound
PROPERTIES FutureIsFinal Answered AcceptedRuns Promise
CHECK_DEADLOCK FALSE
