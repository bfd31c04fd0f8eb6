CONSTANTS
  ip1 = ip1
  Ips <- OneIp
  Limits <- OffOrTwo
  Window = 3
  MaxDelay = 2
  MaxTime = 8
  MaxRequests = 7
CHECK_DEADLOCK FALSE
SPECIFICATION Spec
INVARIANTS
  BurstBound
  GateInv
