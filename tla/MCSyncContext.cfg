SPECIFICATION Spec
CONSTANTS
  Modes <- MCModes
  NumAddrs = 2
  ConnectRetries = 2
  Descriptors = {1, 2}
  MaxCommands = 2
  MaxReconnects = 2
INVARIANTS RepliesInOrder NullMeansErr
PROPERTIES DescriptorsOwned CallReturns
CHECK_DEADLOCK FALSE
