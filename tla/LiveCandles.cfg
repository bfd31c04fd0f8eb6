CONSTANTS
  btc = btc
  eth = eth
  none = none
  Coins <- TwoCoins
  NoCoin = none
  Widths <- OneAndTwo
  MaxCandles = 2
  MaxPrice = 3
  MaxTime = 3
  MaxPrints = 4
  MaxSkew = 1
CHECK_DEADLOCK FALSE
SPECIFICATION Spec
SYMMETRY Symmetry
INVARIANTS
  CandleInv
  MatchesTape
  PrintMovesChart
PROPERTIES
  ClosedFrozen
