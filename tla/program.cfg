CONSTANTS
  MaxSize = 3
  MaxCalls = 7
  Addrs <- TwoAddrs
SPECIFICATION PSpec
INVARIANTS
  LatestCallsKept
  CommitsProgram
  LegalAgree
  IllegalAgree
  ResultsCorrect
PROPERTIES
  Learns
