SPECIFICATION Spec
CONSTANTS
  t1 = t1
  t2 = t2
  c1 = c1
  c2 = c2
  d1 = d1
  d2 = d2
  e1 = e1
  e2 = e2
  p1 = p1
  p2 = p2
  p3 = p3
  Watcher = Watcher
  NoProc = NoProc
  NoPool = NoPool
  Threads <- TwoThreads
  Clients <- OneClient
  ClientOf <- SharedClient
  Dbs <- OneDb
  DbOf <- AllOnOne
  Watched <- OneDb
  Servers <- TwoServers
  Pools <- ThreePools
  MaxCalls = 2
  MaxEvents = 3
SYMMETRY Symmetry
INVARIANTS
  UsedIsLive
