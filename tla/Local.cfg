SPECIFICATION Spec
CONSTANTS
  r1 = r1
  r2 = r2
  r3 = r3
  w1 = w1
  w2 = w2
  Requests = {r1, r2, r3}
  Workers = {w1}
  WorkerOf <- OneWorker
  None = None
  MaxVersion = 0
  Local = TRUE
  Distributed = FALSE
  RetryCount = 2
  LeaseOutlivesFetch = TRUE
  HasTTL = TRUE
  Policies = {"cacheable","must-revalidate","forbidden"}
  Directives = {"none","no-cache","no-store","only-if-cached"}
  Validators = {}
  Purges = {}
  RedisFaults = FALSE
  Crashes = FALSE
SYMMETRY AnyRequest
INVARIANTS
  OnePerWorker
  NoDeadPromise
