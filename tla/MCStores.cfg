SPECIFICATION RunSpec
CONSTANTS
  c1 = c1
  c2 = c2
  c3 = c3
  k1 = k1
  scope1 = scope1
  scope2 = scope2
  r1 = r1
  r2 = r2
  Keys = {k1}
  Scopes = {scope1, scope2}
  Callers = {c1, c2, c3}
  MaxTracks = 2
  ParentCancel = TRUE
  Readers = {r1, r2}
  Subjects <- Declarations
  Generated = {"RDB$1"}
  Catalogs <- DetailCatalogs
  Folded <- FoldedSpelling
  SourceDialect = 1
  MaxGenerations = 2
  MaxChanges = 1
SYMMETRY RunSymmetry
INVARIANTS
  OneStoreWhileLeased
  SharedPermits
  ClosedMeansDrained
  NobodyIsStranded
  CacheIsTheCatalog
  DescriptorsSayWhatIsDeclared
  DetailsAreOfTheObject
CHECK_DEADLOCK FALSE
