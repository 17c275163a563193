SPECIFICATION RunSpec
CONSTANTS
  l1 = l1
  l2 = l2
  l3 = l3
  l4 = l4
  d1 = d1
  s1 = s1
  s2 = s2
  s3 = s3
  Schedulers = {l1, l2, l3, l4}
  Loads = {d1}
  Stores = {s1, s2, s3}
  StoreOf <- MCStoreOf
  JobsOf <- MCJobsOf
  Parallelism = 2
  MayCancel = {l1}
  HostCap = 1
  StoreCap = 1
INVARIANTS
  PermitsMatchHolders
PROPERTIES
  EveryJobRunsNobodySpins
  BoundsCalls
CHECK_DEADLOCK FALSE
