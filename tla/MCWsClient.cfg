CONSTANTS
  s1 = s1
  s2 = s2
  s3 = s3
  u1 = u1
  u2 = u2
  w1 = w1
  w2 = w2
  w3 = w3
  Null = Null
  Sockets <- MCSockets
  Urls <- MCUrls
  Waiters <- MCWaiters
  MaxAttempts = 2
SPECIFICATION FairSpec
INVARIANTS TypeOK OneSocket RetryPending
PROPERTIES WaitEnds Promise
