SPECIFICATION Spec
CONSTANTS
  MaxTrades = 5
  MaxAssets = 3
  MaxMoves = 2
  Bulky = {5}
  TradeLimit = 4
  MaxTradePages = 3
  MaxAssetPages = 2
  InventoryLimit = 2
  ChunkSize = 4
  MaxChunks = 3
  Currencies = {"usd", "eur"}
  HomeCurrency = "usd"
  MaxJobs = 2
  MaxStorageFailures = 1
  MaxCalls = 3
  MaxFaults = 2
  MaxMessages = 3
  MaxChoices = 2
  Tags = {"i"}
  PriceSources <- MCSources
  MoneyOf = {"USD", "EUR"}
  MaxSwitches = 2
  MarketCards <- MCMarketCards
  PageEnds <- MCPageEnds
  Strip <- MCStrip
  Priced = {"b"}
  Foreign = {"EUR"}
  MaxTimers = 0
  MaxRates = 1
  MaxRoutes = 1
  Inventory <- MCInventory
  SellName <- MCSellName
  FloatOf <- MCFloatOf
  Reference <- MCReference
  Percentages = {100}
  MaxMatches = 1
  MaxPolls = 1
  MaxSellVisits = 1
  MaxClicks = 2
  MaxSaves = 1
  MaxPastTrades = 3
  Sizes = {1, 2}
  MaxAsks = 2
  Given <- MCGiven
  Received <- MCReceived
  Accounts = {"a", "b"}
  Paired = "a"
  MaxPages = 1
  Yours = {"a", "b", "c"}
  Theirs = {}
  NameOf <- MCNameOf
  PagesOf <- MCPagesOf
  PageSize = 2
  MaxTries = 2
  MaxGames = 1
  Filler = "filler"
  Goods = {"k1", "k2"}
  TitleOf <- MCTitleOf
  NoGood = "nogood"
  NumDelays = 1
  MaxShows = 2
  MaxLists = 1
INVARIANTS
  FurtherTypeOK
  CompleteIsComplete
  OptInsAreTheUsers
  UnpairedIsUnpaired
  
  LabelsAreRight
  
  SellLinesAreTheirs
  PagesJoinUp
  
  NothingIsLost
  PanelSellsTheOpenItem
VIEW PartView
CHECK_DEADLOCK FALSE
