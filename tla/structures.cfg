CONSTANTS
  MaxSize = 4
  Values = {a, b}
SPECIFICATION SSpec
INVARIANTS
  LoadsServed
  LooksUpWhatItAsks
  AccessesInOrder
  StoresNotSpeculative
PROPERTIES
  ImplementsFifo
  LsqDrains
