CONSTANTS
  c1 = c1
  c2 = c2
  None = None
  Conns <- TwoConns
  MaxTexts = 2
  Overlap = FALSE
  Faults <- FaultKinds
SPECIFICATION FairSpec
INVARIANTS TypeOK EntryAlive HistoryOrdered
PROPERTIES EveryTextAnswered TurnsPromise
CHECK_DEADLOCK FALSE
