CONSTANTS
  Vols = {10, 20, 30}
  Drawdowns <- DrawdownValues
  Trends <- TrendValues
  Breadths = {45, 55}
  MaxRefreshes = 2
  MaxRuns = 3
  Tickers = {a, b}
  Qtys = {1, 2}
  Prices = {2, 5}
  MaxEntries = 3
  MaxTime = 3
  Capitals = {0, 10}
  MaxOpenPositions = 1
  MaxSymbolPct = 40
  MaxGrossPct = 60
  MaxDrawdownPct = 20
  Candidates = {1, 2, 3}
  Strategies = {1, 2}
  StrategyOf <- StrategyTable
  MaxBase = 2
  BasePositions = 3
  BaseGross = 3
  BaseCap = 2
  MaxLive = 2
  SleevePositions <- SleeveSlots
  SleeveGross <- SleeveNotional
  Labels = {"RISK_ON", "NEUTRAL", "RISK_OFF", "missing"}
SPECIFICATION BooksSpec
SYMMETRY Alike
INVARIANTS ControlsFollowLedger RiskIsMonotone BookFollowsEntries PassWithinBudgets SleevesHoldByTheTable
CHECK_DEADLOCK FALSE
