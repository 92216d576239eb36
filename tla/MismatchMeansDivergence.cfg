SPECIFICATION Spec
CONSTANTS
  btc = btc
  usdt = usdt
  o1 = o1
  stop1 = stop1
  Positions <- MCPositions
  Assets = {}
  Orders <- MCOrders
  Algos <- MCAlgos
  StopFor <- MCStopFor
  Values = {0, 1}
  Zero = 0
  Marks = {m1, m2}
  NoMark = no_mark
  Statuses = {"NEW", "CANCELED"}
  MessageLimit = 3
  MaxEvents = 3
  MaxDrops = 2
CHECK_DEADLOCK FALSE
PROPERTY MismatchMeansDivergence
