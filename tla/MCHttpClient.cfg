CONSTANTS
  r1 = r1
  r2 = r2
  r3 = r3
  Requests <- MCRequests
  MaxTokens = 5
SPECIFICATION FairSpec
INVARIANTS TypeOK OneRefresh NobodyLeftBehind NoStorm
PROPERTY Settles
CHECK_DEADLOCK FALSE
