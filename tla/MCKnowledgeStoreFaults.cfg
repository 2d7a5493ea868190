CONSTANTS
  r1 = r1
  r2 = r2
  r3 = r3
  r4 = r4
  f1 = f1
  f2 = f2
  p1 = p1
  Nil = Nil
  Requests <- TwoRequests
  Files <- TwoFiles
  Procs <- OneProc
  Objects = {1, 2, 3, 4}
  SnapshotReads = FALSE
  Faults <- FaultKinds
SPECIFICATION FairSpec
CHECK_DEADLOCK FALSE
PROPERTIES Atomic RowsFollowJobs Served
