SPECIFICATION PagesSpec
CONSTANTS
  Texts <- MCTexts
  MaxSpeeches = 3
  MaxPending = 3
  MaxAsked = 2
  MaxRecorders = 2
  MaxAsking = 1
  Items = {i1, i2, i3}
  NoItem = NoItem
  Entries = {e1, e2}
  MaxClosers = 2
  Assistants = {a1, a2}
  NewOne = NewOne
  MaxAwaited = 1
  Users = {u1, u2}
  Nobody = Nobody
  Wrongs = {w1, w2}
  Corrects = {c1}
  NoText = NoText
  MaxSaves = 2
INVARIANTS
  PagesTypeOK
  InterruptedStays
  ListeningIsReal
  ListeningShowsChat
  EditorOwn
  FormMatches
  SessionOwn
  RulesFresh
PROPERTIES
  IndicatorClears
CHECK_DEADLOCK FALSE
