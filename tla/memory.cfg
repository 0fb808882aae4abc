CONSTANTS
  InsnAccesses <- InsnOnly
  DataAccesses <- DataOnly
  AimAccesses <- AimBoth
  Lookups = {1, 2}
  DramLatencies = {1, 2}
  LlcDelay = 1
  QueueSize = 4
  Parts = {"controller", "dram", "aim"}
  DramAccesses <- MixedAccesses
  DramHosts = {"wrapper", "cpu"}
SPECIFICATION MFairSpec
INVARIANTS
  CurSizeCounts
  NoLostRequest
  DramNeverAborts
  RefreshedInTime
  AccessReturns
  AccessTimed
PROPERTIES
  LsuProgress
  FetchServed
  ReadsBeforeWrite
