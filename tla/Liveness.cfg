SPECIFICATION FairSpec
CONSTANTS
  r1 = r1
  r2 = r2
  r3 = r3
  w1 = w1
  w2 = w2
  Requests = {r1, r2, r3}
  Workers = {w1, w2}
  WorkerOf <- TwoWorkers
  None = None
  MaxVersion = 0
  Local = TRUE
  Distributed = TRUE
  RetryCount = 2
  LeaseOutlivesFetch = FALSE
  HasTTL = FALSE
  Policies = {"cacheable"}
  Directives = {"none"}
  Validators = {}
  Purges = {"lock"}
  RedisFaults = FALSE
  Crashes = TRUE
PROPERTIES
  Served
  OnlyOwnerUnlocks
