--------------------------- MODULE OrderPlacement ---------------------------
(***************************************************************************)
(* From an order request to what the exchange is sent: the symbol rules    *)
(* that are built from the exchange's filters at the start, the            *)
(* PreTradeValidator, the OrderRouter, and the requests that the           *)
(* ProtectionOrchestrator makes for disaster stops.                        *)
(*                                                                         *)
(* Prices and quantities are whole numbers of the exchange's finest unit,  *)
(* a notional is their product; Decimal is exact on them.  Shares are in   *)
(* percent.  Which of several refusals is raised is left out: any of them  *)
(* ends place() before the call.                                           *)
(***************************************************************************)
EXTENDS Integers

CONSTANTS
  Symbols,
  Filters,        \* per symbol, what exchange_info may say: a set of records
  Requests,       \* what callers of place() ask for
  Marks,          \* mark prices they pass, None for none
  Entries,        \* entry prices of positions that get a disaster stop
  StopDistance,   \* default_stop_distance_pct
  DefaultTick, DefaultStep,  \* where a filter is missing
  None

OrderTypes == {"LIMIT", "MARKET", "STOP", "STOP_MARKET", "TAKE_PROFIT",
               "TAKE_PROFIT_MARKET", "TRAILING_STOP_MARKET"}
AlgoOrderTypes == OrderTypes \ {"LIMIT", "MARKET"}
Optional == Nat \cup {None}

\* What exchange_info says of a symbol; a filter that is not there is None.
ExchangeFilter ==
  [ tick : Optional, minPrice : Optional, maxPrice : Optional, step : Optional,
    minQty : Optional, marketStep : Optional, marketMinQty : Optional,
    marketMaxQty : Optional, minNotional : Optional, percentUp : Optional,
    percentDown : Optional, takeBound : Optional, trading : BOOLEAN ]

OrderRequest ==
  [ symbol : Symbols, side : {"BUY", "SELL"}, type : OrderTypes, quantity : Optional,
    price : Optional, trigger : Optional, activate : Optional, reduceOnly : BOOLEAN,
    closePosition : BOOLEAN, positionSide : {"BOTH", "LONG", "SHORT"} ]

ASSUME PlacementAssumption ==
  /\ None \notin Int
  /\ Filters \subseteq ExchangeFilter
  /\ Requests \subseteq OrderRequest
  /\ Marks \subseteq Optional
  /\ Entries \subseteq Nat \ {0}
  /\ StopDistance \in 1..99
  /\ DefaultTick \in Nat \ {0} /\ DefaultStep \in Nat \ {0}

VARIABLES
  symbolRules,  \* validator.symbol_rules, None for a symbol that has none
  pc,           \* "start", "idle", "sending"
  asked, mark,  \* the request and the mark price of the call that waits
  payload,      \* what is on its way to the exchange
  outcome       \* how the last call ended: "none", "raised", or its route

vars == <<symbolRules, pc, asked, mark, payload, outcome>>

-----------------------------------------------------------------------------
(* build_symbol_rules *)

Default(value, default) == IF value = None THEN default ELSE value

\* A market filter that is missing is the one for all orders; a missing maximum
\* is no maximum.
SymbolRule(f) ==
  [ tick |-> Default(f.tick, DefaultTick),
    minPrice |-> Default(f.minPrice, 0), maxPrice |-> f.maxPrice,
    step |-> Default(f.step, DefaultStep), minQty |-> Default(f.minQty, 0),
    marketStep |-> Default(f.marketStep, Default(f.step, DefaultStep)),
    marketMinQty |-> Default(f.marketMinQty, Default(f.minQty, 0)),
    marketMaxQty |-> f.marketMaxQty,
    minNotional |-> Default(f.minNotional, 0),
    percentUp |-> f.percentUp, percentDown |-> f.percentDown,
    takeBound |-> f.takeBound, trading |-> f.trading ]

SymbolRules ==
  [ tick : Nat, minPrice : Nat, maxPrice : Optional, step : Nat, minQty : Nat,
    marketStep : Nat, marketMinQty : Nat, marketMaxQty : Optional, minNotional : Nat,
    percentUp : Optional, percentDown : Optional, takeBound : Optional,
    trading : BOOLEAN ]

-----------------------------------------------------------------------------
(* PreTradeValidator.validate *)

\* floor_to_step of a value that may be missing.
FloorToStep(value, step) == IF value = None THEN None ELSE (value \div step) * step

\* A zero among the market's rules is no rule.
QtyStep(r, rules) ==
  IF r.type = "MARKET" /\ rules.marketStep # 0 THEN rules.marketStep ELSE rules.step
QtyMin(r, rules) ==
  IF r.type = "MARKET" /\ rules.marketMinQty # 0 THEN rules.marketMinQty ELSE rules.minQty
QtyMax(r, rules) ==
  IF r.type = "MARKET" /\ rules.marketMaxQty # 0 THEN rules.marketMaxQty ELSE None

Normalized(r, rules) ==
  [r EXCEPT !.quantity = FloorToStep(@, QtyStep(r, rules)),
            !.price    = FloorToStep(@, rules.tick),
            !.trigger  = FloorToStep(@, rules.tick),
            !.activate = FloorToStep(@, rules.tick)]

\* Steps that a value to be rounded can be divided by.
Steppable(r, rules) ==
  /\ r.quantity # None => QtyStep(r, rules) > 0
  /\ (r.price # None \/ r.trigger # None \/ r.activate # None) => rules.tick > 0

\* closePosition and reduceOnly in the combinations the exchange takes.
FlagsAllowed(r) ==
  /\ r.type \in AlgoOrderTypes /\ r.closePosition => r.quantity = None /\ ~ r.reduceOnly
  /\ r.reduceOnly => r.positionSide = "BOTH"

\* Mutant of QuantityAllowed: every order has a quantity.
QuantityRequired(n, rules) ==
  /\ n.quantity # None /\ n.quantity >= QtyMin(n, rules)
  /\ QtyMax(n, rules) # None => n.quantity <= QtyMax(n, rules)

QuantityAllowed(n, rules) ==
  n.quantity # None =>
    /\ n.quantity >= QtyMin(n, rules)
    /\ QtyMax(n, rules) # None => n.quantity <= QtyMax(n, rules)

PriceAllowed(n, rules) ==
  n.price # None =>
    /\ n.price >= rules.minPrice
    /\ rules.maxPrice # None => n.price <= rules.maxPrice

\* The reference price is the mark price unless there is none, or it is zero.
Reference(n, m) == IF m # None /\ m # 0 THEN m ELSE n.price

\* Mutant of NotionalAllowed: the mark price alone is looked at.
NotionalAllowedAtMark(n, rules, m) ==
  n.quantity # None /\ m # None => m * n.quantity >= rules.minNotional

NotionalAllowed(n, rules, m) ==
  n.quantity # None =>
    /\ n.price # None => n.price * n.quantity >= rules.minNotional
    /\ Reference(n, m) # None => Reference(n, m) * n.quantity >= rules.minNotional

\* marketTakeBound and PERCENT_PRICE.
DistanceAllowed(n, rules, m) ==
  n.price # None /\ m # None =>
    /\ n.type = "MARKET" /\ n.quantity # None /\ rules.takeBound # None =>
         /\ 100 * n.price <= m * (100 + rules.takeBound)
         /\ 100 * n.price >= m * (100 - rules.takeBound)
    /\ rules.percentUp # None => 100 * n.price <= m * rules.percentUp
    /\ rules.percentDown # None => 100 * n.price >= m * rules.percentDown

\* Mutant of Valid: the order is checked as it was asked for.
ValidUnrounded(r, rules, m) ==
  /\ rules # None /\ rules.trading /\ FlagsAllowed(r) /\ Steppable(r, rules)
  /\ QuantityAllowed(r, rules) /\ PriceAllowed(r, rules)
  /\ NotionalAllowed(r, rules, m) /\ DistanceAllowed(r, rules, m)

\* validate() returns Normalized, and raises otherwise.
Valid(r, rules, m) ==
  /\ rules # None
  /\ rules.trading
  /\ FlagsAllowed(r)
  /\ Steppable(r, rules)
  /\ LET n == Normalized(r, rules)
     IN  /\ QuantityAllowed(n, rules)
         /\ PriceAllowed(n, rules)
         /\ NotionalAllowed(n, rules, m)
         /\ DistanceAllowed(n, rules, m)

-----------------------------------------------------------------------------
(* Disaster stops *)

\* Mutant of TriggerPrice: the stop of a short is below its entry.
TriggerPriceBelow(direction, entry) == entry - (entry * StopDistance) \div 100

\* _build_trigger_price: in the code a Decimal, which validate() rounds down to
\* a tick; rounding it down to the finest unit first makes no difference.
TriggerPrice(direction, entry) ==
  IF direction = "LONG" THEN (entry * (100 - StopDistance)) \div 100
  ELSE (entry * (100 + StopDistance)) \div 100

\* build_plan and build_disaster_stop_request for an open position.
DisasterStop(s, direction, entry) ==
  [ symbol |-> s, side |-> IF direction = "SHORT" THEN "BUY" ELSE "SELL",
    type |-> "STOP_MARKET", quantity |-> None, price |-> None,
    trigger |-> TriggerPrice(direction, entry), activate |-> None,
    reduceOnly |-> FALSE, closePosition |-> TRUE, positionSide |-> "BOTH" ]

-----------------------------------------------------------------------------
(* OrderRouter *)

Init ==
  /\ symbolRules = [s \in Symbols |-> None]
  /\ pc = "start"
  /\ asked = None /\ mark = None /\ payload = None
  /\ outcome = "none"

\* Once, before the first order.  A symbol that exchange_info does not name has
\* no rules.
LoadRules(info) ==
  /\ pc = "start"
  /\ symbolRules' = [s \in Symbols |-> IF info[s] = None THEN None ELSE SymbolRule(info[s])]
  /\ pc' = "idle"
  /\ UNCHANGED <<asked, mark, payload, outcome>>

Route(r) == IF r.type \in AlgoOrderTypes THEN "algo" ELSE "normal"

\* place() up to its await.  A field of the payload that is None or FALSE is not
\* sent.  Calls share nothing but the rules, so one at a time is enough.
Place(r, m) ==
  LET rules == symbolRules[r.symbol]
  IN  /\ pc = "idle"
      /\ IF Valid(r, rules, m)
         THEN /\ pc' = "sending"
              /\ asked' = r /\ mark' = m
              /\ payload' = Normalized(r, rules)
              /\ outcome' = "none"
         ELSE /\ outcome' = "raised"
              /\ UNCHANGED <<pc, asked, mark, payload>>
      /\ UNCHANGED symbolRules

\* place_disaster_stop passes no mark price.  The plan's trigger is positive for
\* a positive entry price and a distance below it.
PlaceStop(s, direction, entry) == Place(DisasterStop(s, direction, entry), None)

\* new_order or new_algo_order returns, or raises.
Return(result) ==
  /\ pc = "sending"
  /\ pc' = "idle"
  /\ outcome' = result
  /\ asked' = None /\ mark' = None /\ payload' = None
  /\ UNCHANGED symbolRules

Answered == pc = "sending" /\ Return(Route(payload))
CallFails == Return("raised")

Next ==
  \/ \E info \in [Symbols -> Filters \cup {None}] : LoadRules(info)
  \/ \E r \in Requests, m \in Marks : Place(r, m)
  \/ \E s \in Symbols, direction \in {"LONG", "SHORT"}, entry \in Entries :
        PlaceStop(s, direction, entry)
  \/ Answered
  \/ CallFails

Spec == Init /\ [][Next]_vars

-----------------------------------------------------------------------------
(* Properties *)

TypeOK ==
  /\ symbolRules \in [Symbols -> SymbolRules \cup {None}]
  /\ pc \in {"start", "idle", "sending"}
  /\ asked \in OrderRequest \cup {None}
  /\ mark \in Optional
  /\ payload \in OrderRequest \cup {None}
  /\ outcome \in {"none", "raised", "algo", "normal"}
  /\ pc = "sending" => asked \in OrderRequest /\ payload \in OrderRequest

Sending == pc = "sending"
Rules == symbolRules[payload.symbol]

OnGrid(value, step) == value # None => value % step = 0

\* What is on its way is on the exchange's grid and within its limits, rounded
\* as it is: at least the smallest quantity and notional, at the mark price and
\* at its own.  The checks are made on the rounded order, not on the one asked for.
SentWithinRules ==
  Sending =>
    /\ OnGrid(payload.quantity, QtyStep(payload, Rules))
    /\ OnGrid(payload.price, Rules.tick)
    /\ OnGrid(payload.trigger, Rules.tick) /\ OnGrid(payload.activate, Rules.tick)
    /\ payload.quantity # None =>
         /\ payload.quantity >= QtyMin(payload, Rules)
         /\ payload.price # None => payload.price * payload.quantity >= Rules.minNotional
         /\ mark \notin {None, 0} => mark * payload.quantity >= Rules.minNotional

\* Placing again what was sent, at the same mark price, sends the same: a caller
\* that keeps the normalized order and tries again does not change it.
ResendIsStable ==
  Sending => Valid(payload, Rules, mark) /\ Normalized(payload, Rules) = payload

\* Rounding never asks for more than the caller did, and gives up less than a step.
NeverEnlarged ==
  Sending /\ payload.quantity # None =>
    /\ payload.quantity <= asked.quantity
    /\ asked.quantity - payload.quantity < QtyStep(payload, Rules)

\* A disaster stop is refused only where the symbol cannot be traded by the rules
\* at hand: neither the size of the position nor the distance of the stop counts.
StopIsSent ==
  [][\A s \in Symbols, direction \in {"LONG", "SHORT"}, entry \in Entries :
       PlaceStop(s, direction, entry) /\ symbolRules[s] # None =>
         (symbolRules[s].trading /\ symbolRules[s].tick > 0 <=> pc' = "sending")]_vars

\* The stop that is sent is on the losing side of the entry although its trigger
\* is rounded down to a tick, provided a tick is not more than the distance of
\* the stop: the stop of a short is not rounded to its entry.
StopBeyondEntry ==
  Sending =>
    \A direction \in {"LONG", "SHORT"}, entry \in Entries :
      /\ asked = DisasterStop(asked.symbol, direction, entry)
      /\ 100 * Rules.tick <= entry * StopDistance
      => IF direction = "LONG" THEN payload.trigger < entry ELSE payload.trigger > entry
=============================================================================
