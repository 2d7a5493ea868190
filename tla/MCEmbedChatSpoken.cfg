SPECIFICATION EmbedSpec
CONSTANTS
  MaxAsked = 1
  MaxAsking = 1
INVARIANTS
  SpokenIsSent
CHECK_DEADLOCK FALSE
