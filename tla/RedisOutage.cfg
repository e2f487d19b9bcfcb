SPECIFICATION FairSpec
CONSTANTS
  c1 = c1
  c2 = c2
  c3 = c3
  Clients = {c1, c2}
  Options <- AllOptions
  RetryCount = 2
  MaxOutages = 2
INVARIANTS
  TypeOK
  FallsBack
PROPERTIES
  OriginAnswerDelivered
  Answered
  Recovers
