SPECIFICATION DisciplinedSpec
CONSTANTS
  c1 = c1
  c2 = c2
  p1 = p1
  Channels <- OneChannel
  Patterns <- OnePattern
  Silent <- SecondSilent
  MaxCommands = 3
  MaxTraffic = 1
CHECK_DEADLOCK FALSE
INVARIANTS
  OwnReplyOnce
  MessageToSubscriber
  AssertionsHold
  CleanMeansAnswered
PROPERTIES
  CallbackRuns
  DisconnectEnds
