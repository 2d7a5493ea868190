CONSTANTS
  c1 = c1
  c2 = c2
  None = None
  Conns <- TwoConns
  MaxTexts = 2
  Overlap = TRUE
  Faults = {}
SPECIFICATION Spec
INVARIANT Registered
CHECK_DEADLOCK FALSE
