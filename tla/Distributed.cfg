SPECIFICATION Spec
CONSTANTS
  r1 = r1
  r2 = r2
  r3 = r3
  w1 = w1
  w2 = w2
  Requests = {r1, r2, r3}
  Workers = {w1, w2}
  WorkerOf <- TwoWorkers
  None = None
  MaxVersion = 1
  Local = TRUE
  Distributed = TRUE
  RetryCount = 2
  LeaseOutlivesFetch = TRUE
  HasTTL = TRUE
  Policies = {"cacheable", "forbidden"}
  Directives = {"none"}
  Validators = {}
  Purges = {"entry"}
  RedisFaults = FALSE
  Crashes = FALSE
SYMMETRY SameWorker
INVARIANTS
  MutualExclusion
  NoLeakedLock
  EntryExpires
PROPERTIES
  ImplementsSingleFlight
