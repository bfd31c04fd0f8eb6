CONSTANTS
  btc = btc
  eth = eth
  Symbols <- TwoSymbols
  MaxFrames = 2
  MaxTrades = 2
SPECIFICATION FairSpec
INVARIANTS
  StreamInv
PROPERTIES
  Silent
  Reconnects
  Drained
  Released
