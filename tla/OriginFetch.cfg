SPECIFICATION FairSpec
CONSTANTS
  c1 = c1
  c2 = c2
  c3 = c3
  c4 = c4
  k1 = k1
  k2 = k2
  Calls = {c1, c2, c4}
  Keys = {k1, k2}
  KeyOf <- TwoKeys
  None = None
  Options <- AllOptions
  MaxSessions = 2
  ResetOutlivesTimeout = TRUE
INVARIANTS
  TypeOK
  OwnTimeoutAborts
  SingleTrial
  OneSession
PROPERTIES
  TrialDecides
  Settles
  TrialEnds
