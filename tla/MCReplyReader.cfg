SPECIFICATION Spec
CONSTANTS
  Width <- PieceWidth
  Replies <- SomeReplies
  Height <- SomeHeights
  Streams <- SomeStreams
  Formats <- SomeFormats
  MaxDepth = 2
  DiscardAt = 3
  MaxObjects = 8
  OutOfMemory = TRUE
CHECK_DEADLOCK FALSE
INVARIANTS
  RepliesAreSent
  ErrorIsReal
  ObjectsOwned
  LengthExact
