SPECIFICATION Spec
CONSTANTS
  Ops = {"background"}
  Readers = {r1}
  MaxGen = 3
  MaxSchema = 1
  MaxInvalidations = 1
INVARIANTS
  NoDetailAfterClose
CHECK_DEADLOCK FALSE
