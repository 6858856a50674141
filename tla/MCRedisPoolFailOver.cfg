SPECIFICATION Spec
CONSTANTS
  t1 = t1
  t2 = t2
  c1 = c1
  c2 = c2
  c3 = c3
  Main = Main
  NoProc = NoProc
  NoCtx = NoCtx
  Threads <- TwoThreads
  Contexts <- ThreeContexts
  NumSocks = 3
  NumEndpoints = 3
  connect_failure_retry_delay = 1
  ConnectAtInit = FALSE
  Reliable <- MiddleEndpoint
  MaxTime = 1
SYMMETRY Symmetry
INVARIANTS
  ScanCoversOnce
  FailOver
