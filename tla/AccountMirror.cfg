SPECIFICATION Spec
CONSTANTS
  btc = btc
  usdt = usdt
  o1 = o1
  stop1 = stop1
  Positions <- MCPositions
  Assets <- MCAssets
  Orders = {}
  Algos <- MCAlgos
  StopFor <- MCStopFor
  Values = {0, 1, 2}
  Zero = 0
  Marks = {m1}
  NoMark = no_mark
  Statuses = {"NEW", "CANCELED"}
  MessageLimit = 3
  MaxEvents = 2
  MaxDrops = 2
CHECK_DEADLOCK FALSE
PROPERTY ImplementsMirror
