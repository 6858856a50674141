SPECIFICATION Spec
CONSTANTS
  t1 = t1
  t2 = t2
  s1 = s1
  s2 = s2
  NoSock = NoSock
  NoProc = NoProc
  Threads <- TwoThreads
  Socks <- TwoSockets
  MaxCalls = 2
  MaxConns = 4
SYMMETRY Symmetry
INVARIANTS
  ReplyIsOwn
  WireIsClean
  AtMostTwice
