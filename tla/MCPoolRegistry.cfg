SPECIFICATION Spec
CONSTANTS
  t1 = t1
  t2 = t2
  c1 = c1
  c2 = c2
  d1 = d1
  d2 = d2
  e1 = e1
  e2 = e2
  p1 = p1
  p2 = p2
  p3 = p3
  Watcher = Watcher
  NoProc = NoProc
  NoPool = NoPool
  Threads <- TwoThreads
  Clients <- TwoClients
  ClientOf <- OwnClient
  Dbs <- TwoDbs
  DbOf <- AllOnOne
  Watched <- TwoDbs
  Servers <- OneServer
  Pools <- ThreePools
  MaxCalls = 2
  MaxEvents = 2
INVARIANTS
  TypeOK
  RefsExact
  UsedIsLive
  StaleIfOvertaken
PROPERTIES
  CallsReturn
  ReplacedByWatcher
