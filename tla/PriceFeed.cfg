CONSTANTS
  c1 = c1
  c2 = c2
  Conns <- TwoConns
  Cap = 2
  WireCap = 1
  MaxBatches = 4
CHECK_DEADLOCK FALSE
SPECIFICATION FairSpec
INVARIANTS
  FeedInv
PROPERTIES
  ImplementsOrderedFeed
  TasksEndTogether
  DeliveredOrCut
