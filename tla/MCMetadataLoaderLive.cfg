SPECIFICATION FairSpec
CONSTANTS
  relations = relations
  columns = columns
  Kinds = {relations}
  DependsOn <- MCNoDependencies
  Parallelism = 2
  Permits = 1
  MaxGen = 2
  ParentCancel = TRUE
  None = None
PROPERTIES
  LoadsSettleAndDrain
CHECK_DEADLOCK FALSE
