SPECIFICATION Spec
CONSTANTS
  r1 = r1
  r2 = r2
  r3 = r3
  w1 = w1
  w2 = w2
  Requests = {r1, r2, r3}
  Workers = {w1, w2}
  WorkerOf <- TwoWorkers
  None = None
  MaxVersion = 1
  Local = TRUE
  Distributed = TRUE
  RetryCount = 2
  LeaseOutlivesFetch = TRUE
  HasTTL = FALSE
  Policies = {"cacheable"}
  Directives = {"none"}
  Validators = {}
  Purges = {"entry"}
  RedisFaults = TRUE
  Crashes = TRUE
SYMMETRY SameWorker
INVARIANTS
  TypeOK
  RefreshInv
  OneOriginRequest
  NoMixedEntry
