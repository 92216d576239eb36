-------------------------- MODULE MCOrderPlacement --------------------------
(* Filters that are all there, hardly there, zero, and of a halted symbol, and *)
(* requests around every limit.                                               *)
EXTENDS OrderPlacement

CONSTANT btc

MCSymbols == {btc}

Full ==
  [ tick |-> 5, minPrice |-> 20, maxPrice |-> 200, step |-> 2, minQty |-> 4,
    marketStep |-> 3, marketMinQty |-> 3, marketMaxQty |-> 12, minNotional |-> 320,
    percentUp |-> 110, percentDown |-> 90, takeBound |-> 5, trading |-> TRUE ]
Sparse == [f \in DOMAIN Full |-> IF f = "trading" THEN TRUE ELSE None]
Zeros == [f \in DOMAIN Full |-> IF f = "trading" THEN TRUE ELSE 0]
ZeroMarket ==
  [Full EXCEPT !.marketStep = 0, !.marketMinQty = 0, !.marketMaxQty = 0]
Halted == [Full EXCEPT !.trading = FALSE]

MCFilters == {Full, Sparse, Zeros, ZeroMarket, Halted}
MCMarks == {None, 0, 50, 100}
MCEntries == {1, 7, 100, 103, 261}

Shape(types, quantities, prices, triggers, flags) ==
  [ symbol : {btc}, side : {"BUY"}, type : types, quantity : quantities,
    price : prices, trigger : triggers, activate : {None}, reduceOnly : flags,
    closePosition : flags, positionSide : {"BOTH", "LONG"} ]

\* Regular orders, conditional ones, and a trailing stop.
MCRequests ==
  Shape({"LIMIT", "MARKET"}, {None, 3, 7, 8, 14}, {None, 0, 19, 54, 107, 203}, {None}, BOOLEAN)
  \cup Shape({"STOP", "STOP_MARKET"}, {None, 9}, {None, 104}, {97}, BOOLEAN)
  \cup {[r EXCEPT !.activate = 93] :
           r \in Shape({"TRAILING_STOP_MARKET"}, {9}, {None}, {None}, {FALSE})}
=============================================================================
