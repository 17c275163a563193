SPECIFICATION Spec
CONSTANTS
  r1 = r1
  r2 = r2
  c1 = c1
  c2 = c2
  v = v
  Readers = {r1, r2}
  Coverages = {c1, c2, v}
  Volatile = {v}
  MaxBytes = 2
  Weights <- MCWeights
  MaxRuns = 2
  MaxGen = 2
  MaxFences = 1
SYMMETRY ReaderSymmetry
INVARIANTS
  CacheConsistent
  WaitDrains
  NobodyIsStranded
PROPERTIES
  KeepsPromise
CHECK_DEADLOCK FALSE
