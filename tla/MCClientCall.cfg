SPECIFICATION Spec
CONSTANTS
  t1 = t1
  t2 = t2
  Threads <- TwoThreads
  Socks = {s1}
  Hosts = {h1, h2}
  NoProc = NoProc
  NoHost = NoHost
  Ops <- MCOps
  MaxCalls = 2
INVARIANTS ReportIsOwn AnswersTrue RepliesOwned
PROPERTIES StoreByCalls
CHECK_DEADLOCK FALSE
