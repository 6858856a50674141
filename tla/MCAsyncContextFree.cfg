SPECIFICATION Spec
CONSTANTS
  c1 = c1
  c2 = c2
  p1 = p1
  Channels <- TwoChannels
  Patterns <- NoPattern
  Silent <- NoneSilent
  MaxCommands = 2
  MaxTraffic = 0
CHECK_DEADLOCK FALSE
INVARIANTS
  MessageToSubscriber
