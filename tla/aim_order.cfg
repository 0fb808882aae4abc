CONSTANTS
  InsnAccesses <- InsnOnly
  DataAccesses <- DataOnly
  AimAccesses <- AimBoth
  Lookups = {1, 2}
  DramLatencies = {1, 2}
  LlcDelay = 1
  QueueSize = 5
  Parts = {"aim"}
  DramAccesses <- LineWrites
  DramHosts = {"wrapper"}
SPECIFICATION MSpec
INVARIANTS IssuesInOrder
