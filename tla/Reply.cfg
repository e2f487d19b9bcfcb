SPECIFICATION Spec
CONSTANTS
  r1 = r1
  r2 = r2
  r3 = r3
  Requests = {r1, r2}
  None = None
  Fingerprint = Fingerprint
  MaxVersion = 1
  Untransformed = {1}
  ReadOnly = TRUE
  Anchored = FALSE
SYMMETRY AnyClient
INVARIANTS
  TypeOK
  EntryPhases
  AnswerPhases
  KeptIsNoOlder
