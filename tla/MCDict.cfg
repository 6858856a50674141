SPECIFICATION Spec
CONSTANTS
  k1 = k1
  k2 = k2
  k3 = k3
  k4 = k4
  a = a
  b = b
  NoCallback = NoCallback
  NoKey = NoKey
  Keys <- FourKeys
  Hash <- SomeHash
  Callbacks <- TwoCallbacks
  InitialSize = 2
INVARIANTS
  WellPlaced
  ValuesOwned
  VisitsEachOnce
PROPERTIES
  ImplementsMap
