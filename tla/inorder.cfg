CONSTANTS
  Configs <- Cores
  Slow = {1}
  QueueSize = 2
  PoolSize = 7
  IntRegs = {1, 2}
  FpRegs = {3}
SPECIFICATION FairSpec
INVARIANTS CommitsInOrder OperandsCorrect PreciseExit
PROPERTIES DecodeProceeds
