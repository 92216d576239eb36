SPECIFICATION FairSpec
CONSTANTS
  btc = btc
  eth = eth
  sol = sol
  NoCap = NoCap
  NoOrders = "none"
  Mode = "live_micro"
  Symbols <- MCSymbols
  Core <- MCCore
  LiquidAlt <- MCLiquidAlt
  Experimental <- MCExperimental
  Clusters <- MCClusters
  ClusterOf <- MCClusterOf
  ClusterCap <- MCClusterCap
  TierEnabled <- MCTierEnabled
  TierNotional <- MCTierNotional
  DailySoft <- MCDailySoft
  DailyHard <- MCDailyHard
  WeeklyHard <- MCWeeklyHard
  GrossSoft = 125
  GrossHard = 300
  SymbolCap = 35
  MaxOpenPositions = 4
  RiskDefault = 35
  RiskMax = 75
  BracketBuffer = 80
  Candidates <- MCCandidates
  Exchanges <- MCExchanges
  EntryPrice <- MCEntryPrice
  MaxChanges = 3
  MaxRestarts = 1
INVARIANTS
  OverridesOnlyTighten
  LiveMicroLimits
  ApprovalsRestOnRepeatedView
PROPERTIES
  OutageHalts
  VetoEnds
