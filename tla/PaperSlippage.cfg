SPECIFICATION Spec
CONSTANTS
  btc = btc
  eth = eth
  Symbols <- MCSymbols
  SymbolOrder <- MCOrder
  Clusters <- MCClusters
  ClusterOf <- MCClusterOf
  ClusterCap <- MCClusterCap
  TierEnabled <- MCTierEnabled
  TierNotional <- MCTierNotional
  GrossSoft = 40
  GrossHard = 300
  SymbolCap = 35
  MaxOpenPositions = 1
  DailySoft <- MCDailySoft
  GateSoft <- MCGateSoft
  DailyHard <- MCDailyHard
  WeeklyHard <- MCWeeklyHard
  RiskDefault = 35
  RiskMax = 75
  BracketBuffer = 80
  NoCap = NoCap
  Prices = {880, 1000, 1015}
  NoFeature = NoFeature
  Candidates <- MCCandidates
  FundingRates = {1}
  InitialBalance = 4000000
  Slippage = 1
  FeeBps = 4
  FundingInterval = 2
  Cooldown = 1
  MaxHold = 3
  StopLoss = 15
  TakeProfit = 20
  TrailingStop = 25
  DustLimit = 2000
  Never = Never
  MaxCycles = 4
CHECK_DEADLOCK FALSE
INVARIANT PositionCap
PROPERTIES
  FillsPreserveEquity
