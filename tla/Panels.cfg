CONSTANTS
  MaxAlerts = 2
  MaxPrice = 2
  Registry <- TwoCoins
  Currencies = {"USD", "EUR"}
  Periods = {"day"}
  DefaultPick = 1
  MaxPoints = 3
  MaxPolls = 2
  Quotes <- AllOrSome
  MaxTrades = 1
  MaxTime = 2
  MaxClicks = 2
  Pairs = {"BTC", "ETH"}
  MaxTicks = 2
  WindowUnits = 2
  MaxLate = 1
  MaxPrints = 3
  MaxStamp = 2
  Islands = {"shell", "cards", "map"}
  Listed <- ListedTwo
  Fallback <- FallbackTwo
  TopPrice = 2
  MaxMoves = 4
  Refreshes = {"r1", "r2"}
  MaxMoment = 1
  ExportCoins = {"BTC", "ETH"}
  EmptyCoins = {"ETH"}
  ExportPeriods = {"day"}
  LocalLists = {"Holdings"}
  Jobs = {1, 2}
  Tracked <- BtcAndAda
  Alphabet <- ByName
  Queries <- AllOrOne
  Changes <- DownOrFlat
  Unknown = 99
  TopCap = 2
  Donut = 1
  Answers <- OneOrAll
  Window = 2
  TopValue = 2
  MaxSeries = 5
  TopWeight = 5
  MaxWeights = 5
  BoxW = 3
  BoxH = 2
CHECK_DEADLOCK FALSE
SPECIFICATION Spec
INVARIANTS
  AlertsInv
  
  ShownIsSelected
  TickerInv
  TerminalInv
  OpsInv
  ExportInv
  ViewsInv
  IndicatorsSound
  TilesContainer
PROPERTIES
  ArmedIsTriggered
  WaitsEnd
  VitalsArrive
  AlertsSettle
