CONSTANTS
  Budget = 3
  MaxBlock = 1
  Homes = {0, 1, 3}
  Delegations = {{}, {"SEIP"}}
  Parts = {"mmu"}
  MstatusBits = {"MPRV", "MPP0", "MPP1"}
  Disks = {"http"}
  DiskRequests <- AcrossBlocks
  FreedBuffer = {"kept"}
SPECIFICATION MSpec
INVARIANTS TlbCurrent
