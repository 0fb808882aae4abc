CONSTANTS
  Budget = 3
  MaxBlock = 1
  Homes = {0, 1, 3}
  Delegations = {{}, {"SEIP"}}
  Parts = {"disk"}
  MstatusBits = {"SUM", "MXR"}
  Disks = {"http"}
  DiskRequests <- AcrossClusters
  FreedBuffer = {"kept"}
SPECIFICATION MSpec
INVARIANTS ReadsLastWrite
