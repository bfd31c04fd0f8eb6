CONSTANTS
  btc = btc
  eth = eth
  usd = usd
  eur = eur
  Coins <- MCCoins
  Currencies <- UsdEur
  Usd = usd
  Limit = 1
  MaxAttempts = 2
  ReadErrors <- ReadsMayFail
  MaxNow = 2
  MaxBoots = 2
  MaxSent = 2
CHECK_DEADLOCK FALSE
SPECIFICATION FairSpec
INVARIANTS
  ServiceInv
  BroadcastPersisted
  AtomicSaves
PROPERTIES
  TopCoinNotReseeded
  PollCompletes
  RegistryPopulated
