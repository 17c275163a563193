SPECIFICATION RunSpec
CONSTANTS
  a = a
  b = b
  q1 = q1
  noConfig = noConfig
  noKey = noKey
  Keys = {a, b}
  NoConfig = noConfig
  NoKey = noKey
  Asked = {a, b}
  Queries = {}
  QueueLen = 1
  MaxReq = 3
  MayStop = FALSE
INVARIANTS
  NothingLeaks
  QueriesMatch
  SwitchTakes
PROPERTIES
  RequestsAndStopEnd
