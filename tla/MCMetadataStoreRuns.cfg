SPECIFICATION RunSpec
CONSTANTS
  Ops = {"refresh", "maintain"}
  Readers = {r1}
  MaxGen = 3
  MaxSchema = 1
  MaxInvalidations = 1
INVARIANTS
  FreshAndCovered
  DetailsFollow
  Drained
PROPERTIES
  RetiredEnds
CHECK_DEADLOCK FALSE
