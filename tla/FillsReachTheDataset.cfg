SPECIFICATION Spec
CONSTANTS
  btc = btc
  eth = eth
  stop = stop
  Symbols <- MCSymbols
  SymbolOrder <- MCOrder
  Reasons <- MCReasons
  NoId = NoId
  NotRead = NotRead
  MaxCycles = 2
  MaxFaults = 2
CHECK_DEADLOCK FALSE
INVARIANT FillsReachTheDataset
