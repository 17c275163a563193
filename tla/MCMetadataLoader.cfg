SPECIFICATION Spec
CONSTANTS
  relations = relations
  columns = columns
  Kinds <- MCKinds
  DependsOn <- MCDependsOn
  Parallelism = 2
  Permits = 1
  MaxGen = 2
  ParentCancel = TRUE
  None = None
INVARIANTS
  CacheMatchesStatus
  InputsLoaded
  WaitersAreToldTheTruth
PROPERTIES
  RevisionOrder
  SettledStays
CHECK_DEADLOCK FALSE
