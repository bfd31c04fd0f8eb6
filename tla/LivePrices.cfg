CONSTANTS
  btcusd = btcusd
  btceur = btceur
  Pairs <- TwoPairs
  Traded <- UsdPairs
  MaxPolls = 3
  MaxDrops = 1
CHECK_DEADLOCK FALSE
SPECIFICATION FairSpec
INVARIANTS
  LiveInv
PROPERTIES
  EventuallyLoaded
  FreshEventually
