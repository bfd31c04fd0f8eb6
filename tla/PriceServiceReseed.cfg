CONSTANTS
  btc = btc
  eth = eth
  usd = usd
  eur = eur
  Coins <- MCCoins
  Currencies <- UsdEur
  Usd = usd
  Limit = 2
  MaxAttempts = 2
  ReadErrors <- ReadsWork
  MaxNow = 2
  MaxBoots = 3
  MaxSent = 1
CHECK_DEADLOCK FALSE
SPECIFICATION Spec
INVARIANTS
  SeededOnce
