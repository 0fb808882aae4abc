CONSTANTS
  Configs <- CoreWithLongAlu
  Slow = {}
  QueueSize = 4
  PoolSize = 8
  IntRegs = {1, 2}
  FpRegs = {}
SPECIFICATION Spec
INVARIANTS BusyHasWriter
