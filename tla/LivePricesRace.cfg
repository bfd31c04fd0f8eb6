CONSTANTS
  btcusd = btcusd
  btceur = btceur
  Pairs <- TwoPairs
  Traded <- UsdPairs
  MaxPolls = 2
  MaxDrops = 0
CHECK_DEADLOCK FALSE
SPECIFICATION Spec
PROPERTIES
  SnapshotNeverRegresses
