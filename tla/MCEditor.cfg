SPECIFICATION RunSpec
CONSTANTS
  Pubs = {1, 2}
  Subs = {1, 2}
  MaxVersion = 3
  c1 = c1
  c2 = c2
  URIs = {1, 2}
  Workers = {c1, c2}
  MaxRevision = 2
  MaxEditorVersion = 2
  MaxBinding = 1
  Requests = {c1, c2}
  Docs = {1, 2}
  Text <- CommandText
  Compiles = {1, 2}
  Abilities <- CommandAbilities
  Catalogs = {"missing", "rows"}
  MaxGen = 2
  Procs = {1, 2}
  Attempts <- SnapshotAttempts
  Followed = {1}
  Conns = {1}
  Pids = {1, 2}
  MaxConnGeneration = 2
  MaxCrash = 1
SYMMETRY RequestSymmetry
INVARIANTS
  WatchersCatchUp
  RepliesTellTheTruth
  CacheHoldsTheDocument
  SnapshotsAccounted
PROPERTIES
  NothingAfterClose
  StatementsRunAsReviewed
CHECK_DEADLOCK FALSE
