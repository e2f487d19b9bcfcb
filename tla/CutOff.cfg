SPECIFICATION FairSpec
CONSTANTS
  c1 = c1
  c2 = c2
  c3 = c3
  c4 = c4
  k1 = k1
  k2 = k2
  Calls = {c1, c2}
  Keys = {k1}
  KeyOf <- OneKey
  None = None
  Options <- PlainHttp
  MaxSessions = 1
  ResetOutlivesTimeout = TRUE
PROPERTIES
  TimeoutEnds
