CONSTANTS
  Configs <- CoreWithFpLoads
  Slow = {1}
  QueueSize = 2
  PoolSize = 7
  IntRegs = {1, 2}
  FpRegs = {3}
SPECIFICATION Spec
INVARIANTS OperandsCorrect
