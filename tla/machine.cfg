CONSTANTS
  Budget = 2
  MaxBlock = 1
  Homes = {1, 3}
  Delegations = {{}, {"SEIP"}}
  Parts = {"hart", "mmu", "disk"}
  MstatusBits = {"SUM"}
  Disks = {"http", "ro", "rw", "snapshot"}
  DiskRequests <- AcrossBlocks
  FreedBuffer = {"kept"}
SPECIFICATION MFairSpec
INVARIANTS
  EachInsnOnce
  TrapsRestore
  SleepsIdle
  TlbCurrent
  PaddrCharged
  ScreenCurrent
  CompletesInOrder
  ReadsLastWrite
PROPERTIES
  TimerTaken
  RequestsComplete
