SPECIFICATION Spec
CONSTANTS
  t1 = t1
  t2 = t2
  c1 = c1
  c2 = c2
  c3 = c3
  Main = Main
  NoProc = NoProc
  NoCtx = NoCtx
  Threads <- TwoThreads
  Contexts <- TwoContexts
  NumSocks = 2
  NumEndpoints = 2
  connect_failure_retry_delay = 1
  ConnectAtInit = TRUE
  Reliable <- NoEndpoint
  MaxTime = 2
INVARIANTS
  TypeOK
  LockDiscipline
  HeapExact
  GraceBounded
PROPERTIES
  ImplementsLease
  CallTerminates
  EveryLeaseEnds
