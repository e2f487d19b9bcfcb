SPECIFICATION Spec
CONSTANTS
  Precision = 2
  MaxTime = 4
  None = None
  NaN = NaN
  Controls <- ManyControls
  ExpiresIn <- AnyExpires
  UpstreamAges = {0, 1}
  Skews <- AnySkew
  Requests <- ManyRequests
INVARIANTS
  TypeOK
  AgesInv
  AgeIsConservative
PROPERTIES
  HitWithinLimits
  NotModifiedRefreshes
