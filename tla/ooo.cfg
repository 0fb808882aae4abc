CONSTANTS
  RobSize = 3
  IqSize = 2
  NumRegs = 2
  Insns <- Legal
  MaxId = 4
SPECIFICATION FairSpec
INVARIANTS RatCorrect AssertionsHold OperandsCorrect NothingLeftBehind
PROPERTY RobDrains
