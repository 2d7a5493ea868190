CONSTANTS
  r1 = r1
  r2 = r2
  r3 = r3
  r4 = r4
  f1 = f1
  f2 = f2
  p1 = p1
  Nil = Nil
  Requests <- ThreeRequests
  Files <- TwoFiles
  Procs <- OneProc
  Objects = {1, 2, 3, 4, 5}
  SnapshotReads = FALSE
  Faults = {"load"}
SPECIFICATION Spec
INVARIANT DeletedIsGone
CHECK_DEADLOCK FALSE
SYMMETRY RequestSymmetry
