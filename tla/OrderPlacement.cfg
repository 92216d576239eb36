SPECIFICATION Spec
CONSTANTS
  btc = btc
  Symbols <- MCSymbols
  Filters <- MCFilters
  Requests <- MCRequests
  Marks <- MCMarks
  Entries <- MCEntries
  StopDistance = 4
  DefaultTick = 1
  DefaultStep = 2
  None = None
INVARIANTS
  SentWithinRules
  ResendIsStable
  StopBeyondEntry
PROPERTIES
  StopIsSent
