SPECIFICATION MerchantSpec
CONSTANTS
  f = f
  v1 = v1
  v2 = v2
  s = s
  Family = f
  Variants <- MCVariants
  Plain = s
  Requests <- MCRequests
  MaxDeltaPct = 20
  MaxDisturbances = 2
  MaxChanges = 2
  Amount <- MCAmount
  ProductOf <- MCProductOf
  Stock <- MCStock
  Segments <- MCSegments
  LowStock = 1
  SlowDays = 3
  Days <- MCDays
  MonthStarts <- MCMonthStarts
  Windows <- MCWindows
  ChartedDaily = 3
  DelayedAfter = 3
  Limit = 1
  MaxMoves = 1
  Shelf <- MCShelf
  SalesChannels = {"web"}
  Transports = {"mcp", "rest"}
  Plans <- MCPlans
  Initial = {"p1", "p2"}
  PageSize = 1
  MaxEdits = 2
  MaxLost = 1
  Changes = {"c1", "c2"}
  MaxTurns = 3
  Connections = {"a", "b"}
  Requested = "auto"
  Menus <- MCMenus
  Bare = {"empty"}
  MaxFaults = 2
INVARIANTS
  NothingLeftBehind
  ChartAddsUp
  PreviewForesees
  VerdictsAreTrue
  RefreshMissesOnlyBehindRemoved
  NothingSlipsPast
  ToolsFindAWarmBackend
PROPERTIES
  FamilyRepriced
  ShownIsWritten
  MissedOnlyBehindNewer
  AppliedWasApproved
