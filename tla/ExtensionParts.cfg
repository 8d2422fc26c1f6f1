SPECIFICATION Spec
CONSTANTS
  Assets = {a1}
  Prices = {5}
  MaxReviews = 2
  MaxChanges = 2
  MaxWorkerStops = 1
  Wallets <- MCWallets
  HighestPrice = 200
  NumItems = 2
  MaxPrice = 2
  SingleSells = 1
  Listings = {"l1", "l2"}
  Names = {"n1"}
  MarketNameOf <- MCMarketNameOf
  MaxScans = 2
  OfferIds = {"o1"}
  MaxItems = 2
  MaxRequests = 1
  OwnItems = {"a"}
  PartnerItems = {"x"}
  ClassOf <- MCClassOf
  NoItem = "none"
  MaxReads = 2
  MaxCurrencies = 1
  Tradable = {"t"}
  Held = {"h"}
  AssetIdOf <- MCAssetIdOf
  MaxRechecks = 1
  MaxTabs = 1
  Views = {"p1", "h"}
  KindOf <- MCKindOf
  OrdersIn <- MCOrdersIn
  GoodsOf <- MCGoodsOf
  OwnViews = {"p1"}
  MaxSettings = 2
  MaxMoves = 1
  FloatListings = {"l"}
  Title <- MCTitle
  Quoted = {"l"}
  MaxWrites = 2
  MaxVisits = 1
  MaxVersions = 3
  MaxFetches = 2
  PerHour = 2
  MaxFailures = 4
INVARIANTS
  PartsTypeOK
  DoneIsCommitted
  SplitMeetsPrice
  WritesAreTheUsers
  BatchStopsDead
  FlaggedIsOverpriced
  
  FetchedFloatsAreShown
  OffLeavesNothing
  PanelIsCurrent
  
PROPERTIES
  ImplementsListing
  ListCatchesUp
  RefreshCatchesUp
  PageRunsAreHourly
VIEW PartView
CHECK_DEADLOCK FALSE
