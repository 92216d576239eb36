------------------------ MODULE OrderPlacementProofs ------------------------
(***************************************************************************)
(* What is on its way to the exchange, for all filters, requests and       *)
(* prices.                                                                 *)
(*                                                                         *)
(* The argument: while a call waits, what it sends is the rounded form of  *)
(* a request that the validator accepted under the rules that are still    *)
(* there.  The rest is what rounding down does, and that rounding twice is *)
(* rounding once.                                                          *)
(***************************************************************************)
EXTENDS OrderPlacement, TLAPS

-----------------------------------------------------------------------------
(* Rounding down *)

LEMMA Division ==
  ASSUME NEW n \in Nat, NEW d \in Nat \ {0}
  PROVE  /\ n \div d \in Nat /\ n % d \in Nat
         /\ n = d * (n \div d) + (n % d)
         /\ n % d < d
  OBVIOUS

\* The quotient of a multiple.
LEMMA Multiple ==
  ASSUME NEW q \in Nat, NEW d \in Nat \ {0}
  PROVE  (q * d) \div d = q /\ (q * d) % d = 0
<1> DEFINE n == q * d
           p == n \div d
           r == n % d
<1>1. n \in Nat
  OBVIOUS
<1>2. p \in Nat /\ r \in Nat /\ n = d * p + r /\ r < d
  <2> HIDE DEF n
  <2> QED
    BY <1>1, Division
<1>3. d * (q - p) = r
  <2> HIDE DEF p, r
  <2> QED
    BY <1>2
<1>4. q - p < 1
  <2>1. SUFFICES ASSUME q - p >= 1 PROVE FALSE
    BY <1>2
  <2>2. d * (q - p) >= d
    <3> DEFINE k == q - p
    <3>1. k \in Nat \ {0}
      <4> HIDE DEF p
      <4> QED
        BY <1>2, <2>1
    <3>2. d * k >= d
      <4> HIDE DEF k
      <4> QED
        BY <3>1
    <3> QED
      BY <3>2
  <2> QED
    BY <1>2, <1>3, <2>2
<1>5. q - p > -1
  <2>1. SUFFICES ASSUME p - q >= 1 PROVE FALSE
    <3> HIDE DEF p
    <3> QED
      BY <1>2
  <2>2. d * (p - q) >= d
    <3> DEFINE k == p - q
    <3>1. k \in Nat \ {0}
      <4> HIDE DEF p
      <4> QED
        BY <1>2, <2>1
    <3>2. d * k >= d
      <4> HIDE DEF k
      <4> QED
        BY <3>1
    <3> QED
      BY <3>2
  <2>3. d * (p - q) = - r
    <3> HIDE DEF p, r
    <3> QED
      BY <1>2, <1>3
  <2> QED
    BY <1>2, <2>2, <2>3
<1>6. p = q
  <2> HIDE DEF p
  <2> QED
    BY <1>2, <1>4, <1>5
<1>7. r = 0
  <2> HIDE DEF p, r
  <2> QED
    BY <1>2, <1>3, <1>6
<1> QED
  BY <1>6, <1>7

LEMMA Rounded ==
  ASSUME NEW v \in Optional, NEW step \in Nat, v # None => step > 0
  PROVE  /\ FloorToStep(v, step) \in Optional
         /\ FloorToStep(v, step) = None <=> v = None
         /\ FloorToStep(FloorToStep(v, step), step) = FloorToStep(v, step)
         /\ v # None => /\ FloorToStep(v, step) % step = 0
                        /\ FloorToStep(v, step) <= v
                        /\ v - FloorToStep(v, step) < step
<1>1. CASE v = None
  BY <1>1 DEF FloorToStep, Optional
<1>2. CASE v # None
  <2> DEFINE q == v \div step
             f == q * step
  <2>1. v \in Nat /\ step \in Nat \ {0}
    BY <1>2 DEF Optional
  <2>2. q \in Nat /\ v % step \in Nat /\ v = step * q + (v % step) /\ v % step < step
    BY <2>1, Division
  <2>3. f \in Nat /\ f <= v /\ v - f < step
    <3> HIDE DEF q
    <3> QED
      BY <2>1, <2>2
  <2>4. f % step = 0 /\ f \div step = q
    <3> HIDE DEF q
    <3> QED
      BY <2>1, <2>2, Multiple
  <2>5. f # None
    BY <2>3, PlacementAssumption
  <2>6. FloorToStep(v, step) = f
    BY <1>2 DEF FloorToStep
  <2>7. FloorToStep(f, step) = f
    <3> HIDE DEF q
    <3> QED
      BY <2>4, <2>5 DEF FloorToStep
  <2> HIDE DEF f
  <2> QED
    BY <1>2, <2>3, <2>4, <2>5, <2>6, <2>7 DEF Optional
<1> QED
  BY <1>1, <1>2

-----------------------------------------------------------------------------
(* Rules and requests *)

LEMMA RuleTyped ==
  ASSUME NEW f \in ExchangeFilter
  PROVE  SymbolRule(f) \in SymbolRules
<1>1. \A v \in Optional, default \in Nat : Default(v, default) \in Nat
  BY DEF Default, Optional
<1>2. /\ f.tick \in Optional /\ f.minPrice \in Optional /\ f.maxPrice \in Optional
      /\ f.step \in Optional /\ f.minQty \in Optional /\ f.marketStep \in Optional
      /\ f.marketMinQty \in Optional /\ f.marketMaxQty \in Optional
      /\ f.minNotional \in Optional /\ f.percentUp \in Optional
      /\ f.percentDown \in Optional /\ f.takeBound \in Optional /\ f.trading \in BOOLEAN
  BY DEF ExchangeFilter
<1>3. DefaultTick \in Nat /\ DefaultStep \in Nat
  BY PlacementAssumption
<1> QED
  BY <1>1, <1>2, <1>3 DEF SymbolRule, SymbolRules

LEMMA StopTyped ==
  ASSUME NEW s \in Symbols, NEW direction, NEW entry \in Entries
  PROVE  DisasterStop(s, direction, entry) \in OrderRequest
<1>1. entry \in Nat /\ StopDistance \in 1..99
  BY PlacementAssumption
<1>2. /\ entry * (100 - StopDistance) \in Nat
      /\ entry * (100 + StopDistance) \in Nat
  BY <1>1
<1>3. \A n \in Nat : n \div 100 \in Nat
  OBVIOUS
<1>4. TriggerPrice(direction, entry) \in Nat
  BY <1>2, <1>3 DEF TriggerPrice
<1> QED
  BY <1>4 DEF DisasterStop, OrderRequest, OrderTypes, Optional

\* The fields of a rounded order.
LEMMA NormalizedFields ==
  ASSUME NEW r \in OrderRequest, NEW rules
  PROVE  LET n == Normalized(r, rules)
         IN  /\ n.quantity = FloorToStep(r.quantity, QtyStep(r, rules))
             /\ n.price = FloorToStep(r.price, rules.tick)
             /\ n.trigger = FloorToStep(r.trigger, rules.tick)
             /\ n.activate = FloorToStep(r.activate, rules.tick)
             /\ n.symbol = r.symbol /\ n.side = r.side /\ n.type = r.type
             /\ n.reduceOnly = r.reduceOnly /\ n.closePosition = r.closePosition
             /\ n.positionSide = r.positionSide
             /\ n = [r EXCEPT !.quantity = n.quantity, !.price = n.price,
                              !.trigger = n.trigger, !.activate = n.activate]
  BY DEF Normalized, OrderRequest

\* What a record of ten fields is but for the four that are rounded.
LEMMA Respelled ==
  ASSUME NEW r \in OrderRequest
  PROVE  r = [r EXCEPT !.quantity = r.quantity, !.price = r.price,
                       !.trigger = r.trigger, !.activate = r.activate]
  BY DEF OrderRequest

LEMMA StepTyped ==
  ASSUME NEW r, NEW rules \in SymbolRules
  PROVE  QtyStep(r, rules) \in Nat /\ QtyMin(r, rules) \in Nat /\ rules.tick \in Nat
  BY DEF QtyStep, QtyMin, SymbolRules

\* Each rounded field is on its grid and stays there when it is rounded again.
LEMMA NormalizedRounded ==
  ASSUME NEW r \in OrderRequest, NEW rules \in SymbolRules, Steppable(r, rules)
  PROVE  LET n == Normalized(r, rules)
         IN  /\ n \in OrderRequest
             /\ QtyStep(n, rules) = QtyStep(r, rules)
             /\ QtyMin(n, rules) = QtyMin(r, rules)
             /\ OnGrid(n.quantity, QtyStep(n, rules))
             /\ OnGrid(n.price, rules.tick)
             /\ OnGrid(n.trigger, rules.tick) /\ OnGrid(n.activate, rules.tick)
             /\ Normalized(n, rules) = n
             /\ Steppable(n, rules)
             /\ n.quantity # None => /\ r.quantity # None
                                     /\ n.quantity <= r.quantity
                                     /\ r.quantity - n.quantity < QtyStep(n, rules)
<1> DEFINE n == Normalized(r, rules)
           step == QtyStep(r, rules)
<1>1. /\ r.quantity \in Optional /\ r.price \in Optional
      /\ r.trigger \in Optional /\ r.activate \in Optional
  BY DEF OrderRequest
<1>2. step \in Nat /\ rules.tick \in Nat
  BY StepTyped
<1>3. /\ r.quantity # None => step > 0
      /\ r.price # None => rules.tick > 0
      /\ r.trigger # None => rules.tick > 0
      /\ r.activate # None => rules.tick > 0
  BY DEF Steppable
<1>4. /\ n.quantity = FloorToStep(r.quantity, step)
      /\ n.price = FloorToStep(r.price, rules.tick)
      /\ n.trigger = FloorToStep(r.trigger, rules.tick)
      /\ n.activate = FloorToStep(r.activate, rules.tick)
      /\ n.symbol = r.symbol /\ n.side = r.side /\ n.type = r.type
      /\ n.reduceOnly = r.reduceOnly /\ n.closePosition = r.closePosition
      /\ n.positionSide = r.positionSide
      /\ n = [r EXCEPT !.quantity = n.quantity, !.price = n.price,
                       !.trigger = n.trigger, !.activate = n.activate]
  BY NormalizedFields
<1> HIDE DEF n
<1>5. /\ n.quantity \in Optional /\ n.price \in Optional
      /\ n.trigger \in Optional /\ n.activate \in Optional
  BY <1>1, <1>2, <1>3, <1>4, Rounded
<1>6. n \in OrderRequest
  BY <1>4, <1>5 DEF OrderRequest
<1>7. QtyStep(n, rules) = step /\ QtyMin(n, rules) = QtyMin(r, rules)
  BY <1>4 DEF QtyStep, QtyMin
<1>8. /\ n.quantity = None <=> r.quantity = None
      /\ n.price = None <=> r.price = None
      /\ n.trigger = None <=> r.trigger = None
      /\ n.activate = None <=> r.activate = None
  BY <1>1, <1>2, <1>3, <1>4, Rounded
<1>9. Steppable(n, rules)
  BY <1>3, <1>7, <1>8 DEF Steppable
<1>10. /\ OnGrid(n.quantity, step) /\ OnGrid(n.price, rules.tick)
       /\ OnGrid(n.trigger, rules.tick) /\ OnGrid(n.activate, rules.tick)
  <2>1. n.quantity # None => n.quantity % step = 0
    BY <1>1, <1>2, <1>3, <1>4, <1>8, Rounded
  <2>2. n.price # None => n.price % rules.tick = 0
    BY <1>1, <1>2, <1>3, <1>4, <1>8, Rounded
  <2>3. n.trigger # None => n.trigger % rules.tick = 0
    BY <1>1, <1>2, <1>3, <1>4, <1>8, Rounded
  <2>4. n.activate # None => n.activate % rules.tick = 0
    BY <1>1, <1>2, <1>3, <1>4, <1>8, Rounded
  <2> QED
    BY <2>1, <2>2, <2>3, <2>4 DEF OnGrid
<1>11. Normalized(n, rules) = n
  <2>1. /\ FloorToStep(n.quantity, step) = n.quantity
        /\ FloorToStep(n.price, rules.tick) = n.price
        /\ FloorToStep(n.trigger, rules.tick) = n.trigger
        /\ FloorToStep(n.activate, rules.tick) = n.activate
    BY <1>1, <1>2, <1>3, <1>4, Rounded
  <2>2. Normalized(n, rules) =
          [n EXCEPT !.quantity = n.quantity, !.price = n.price,
                    !.trigger = n.trigger, !.activate = n.activate]
    BY <1>7, <2>1 DEF Normalized
  <2> QED
    BY <1>6, <2>2, Respelled
<1>12. n.quantity # None => /\ n.quantity <= r.quantity
                            /\ r.quantity - n.quantity < step
  BY <1>1, <1>2, <1>3, <1>4, <1>8, Rounded
<1> QED
  BY <1>6, <1>7, <1>8, <1>9, <1>10, <1>11, <1>12 DEF n

-----------------------------------------------------------------------------
(* The invariant *)

\* A call that waits sends the rounded form of a valid request.
Accepted ==
  Sending =>
    LET rules == symbolRules[asked.symbol]
    IN  rules # None /\ Valid(asked, rules, mark) /\ payload = Normalized(asked, rules)

PlacementInv == TypeOK /\ Accepted

\* What a waiting call is about, in terms the properties use.
LEMMA InSending ==
  ASSUME PlacementInv, Sending
  PROVE  /\ asked \in OrderRequest /\ mark \in Optional
         /\ payload = Normalized(asked, Rules)
         /\ Rules \in SymbolRules /\ Rules # None
         /\ Valid(asked, Rules, mark)
         /\ Steppable(asked, Rules)
<1> DEFINE rules == symbolRules[asked.symbol]
<1>1. asked \in OrderRequest /\ mark \in Optional
  BY DEF PlacementInv, TypeOK, Sending
<1>2. asked.symbol \in Symbols
  BY <1>1 DEF OrderRequest
<1>3. /\ rules # None /\ Valid(asked, rules, mark)
      /\ payload = Normalized(asked, rules)
  BY DEF PlacementInv, Accepted
<1>4. rules \in SymbolRules
  BY <1>2, <1>3 DEF PlacementInv, TypeOK
<1>5. payload.symbol = asked.symbol
  BY <1>1, <1>3, NormalizedFields
<1>6. Rules = rules
  BY <1>5 DEF Rules
<1> QED
  BY <1>1, <1>3, <1>4, <1>6 DEF Valid

LEMMA PlacementInvInit == Init => PlacementInv
<1> SUFFICES ASSUME Init PROVE PlacementInv
  OBVIOUS
<1>1. TypeOK
  BY DEF Init, TypeOK, Optional
<1>2. Accepted
  BY DEF Init, Accepted, Sending
<1> QED
  BY <1>1, <1>2 DEF PlacementInv

LEMMA PlaceKeepsInv ==
  ASSUME PlacementInv, NEW r \in OrderRequest, NEW m \in Optional, Place(r, m)
  PROVE  PlacementInv'
<1> DEFINE rules == symbolRules[r.symbol]
<1>0. TypeOK
  BY DEF PlacementInv
<1>1. symbolRules' = symbolRules /\ pc = "idle"
  BY DEF Place
<1>2. CASE Valid(r, rules, m)
  <2>1. /\ pc' = "sending" /\ asked' = r /\ mark' = m
        /\ payload' = Normalized(r, rules) /\ outcome' = "none"
    BY <1>2 DEF Place
  <2>2. r.symbol \in Symbols
    BY DEF OrderRequest
  <2>3. rules # None /\ Steppable(r, rules)
    BY <1>2 DEF Valid
  <2>4. rules \in SymbolRules
    BY <1>0, <2>2, <2>3 DEF TypeOK
  <2>5. Normalized(r, rules) \in OrderRequest
    BY <2>3, <2>4, NormalizedRounded
  <2>6. TypeOK'
    BY <1>0, <1>1, <2>1, <2>5 DEF TypeOK
  <2>7. Accepted'
    BY <1>1, <1>2, <2>1, <2>3 DEF Accepted
  <2> QED
    BY <2>6, <2>7 DEF PlacementInv
<1>3. CASE ~ Valid(r, rules, m)
  <2>1. outcome' = "raised" /\ UNCHANGED <<pc, asked, mark, payload>>
    BY <1>3 DEF Place
  <2> QED
    BY <1>0, <1>1, <2>1 DEF PlacementInv, TypeOK, Accepted, Sending
<1> QED
  BY <1>2, <1>3

LEMMA PlacementInvStep == PlacementInv /\ [Next]_vars => PlacementInv'
<1> SUFFICES ASSUME PlacementInv, [Next]_vars PROVE PlacementInv'
  OBVIOUS
<1>0. TypeOK
  BY DEF PlacementInv
<1>1. ASSUME NEW info \in [Symbols -> Filters \cup {None}], LoadRules(info)
      PROVE  PlacementInv'
  <2>1. \A s \in Symbols : info[s] # None => SymbolRule(info[s]) \in SymbolRules
    BY RuleTyped, PlacementAssumption
  <2>2. symbolRules' \in [Symbols -> SymbolRules \cup {None}]
    BY <1>1, <2>1 DEF LoadRules
  <2> QED
    BY <1>0, <1>1, <2>2 DEF LoadRules, PlacementInv, TypeOK, Accepted, Sending
<1>2. ASSUME NEW r \in Requests, NEW m \in Marks, Place(r, m)
      PROVE  PlacementInv'
  BY <1>2, PlaceKeepsInv, PlacementAssumption
<1>3. ASSUME NEW s \in Symbols, NEW direction \in {"LONG", "SHORT"}, NEW entry \in Entries,
             PlaceStop(s, direction, entry)
      PROVE  PlacementInv'
  <2>1. DisasterStop(s, direction, entry) \in OrderRequest /\ None \in Optional
    BY StopTyped DEF Optional
  <2> QED
    BY <1>3, <2>1, PlaceKeepsInv DEF PlaceStop
<1>4. CASE Answered
  <2>1. Route(payload) \in {"algo", "normal"}
    BY DEF Route
  <2> QED
    BY <1>0, <1>4, <2>1 DEF Answered, Return, PlacementInv, TypeOK, Accepted, Sending, Optional
<1>5. CASE CallFails
  BY <1>0, <1>5 DEF CallFails, Return, PlacementInv, TypeOK, Accepted, Sending, Optional
<1>6. CASE UNCHANGED vars
  BY <1>0, <1>6 DEF vars, PlacementInv, TypeOK, Accepted, Sending
<1> QED
  BY <1>1, <1>2, <1>3, <1>4, <1>5, <1>6 DEF Next

\* The router's state keeps its types; while a call waits there is a request and
\* what is sent of it.
THEOREM PlacementTypeCorrect == Spec => []TypeOK
<1>1. PlacementInv => TypeOK
  BY DEF PlacementInv
<1> QED
  BY PlacementInvInit, PlacementInvStep, <1>1, PTL DEF Spec

LEMMA SentWithinRulesNow == PlacementInv => SentWithinRules
<1> SUFFICES ASSUME PlacementInv, Sending PROVE SentWithinRules
  BY DEF SentWithinRules
<1>1. /\ asked \in OrderRequest /\ mark \in Optional
      /\ payload = Normalized(asked, Rules) /\ Rules \in SymbolRules
      /\ Valid(asked, Rules, mark) /\ Steppable(asked, Rules)
  BY InSending
<1>2. /\ OnGrid(payload.quantity, QtyStep(payload, Rules))
      /\ OnGrid(payload.price, Rules.tick)
      /\ OnGrid(payload.trigger, Rules.tick) /\ OnGrid(payload.activate, Rules.tick)
  BY <1>1, NormalizedRounded
<1>3. QuantityAllowed(payload, Rules) /\ NotionalAllowed(payload, Rules, mark)
  BY <1>1 DEF Valid
<1>4. ASSUME payload.quantity # None
      PROVE  /\ payload.quantity >= QtyMin(payload, Rules)
             /\ payload.price # None => payload.price * payload.quantity >= Rules.minNotional
             /\ mark \notin {None, 0} => mark * payload.quantity >= Rules.minNotional
  <2>1. payload.quantity >= QtyMin(payload, Rules)
    BY <1>3, <1>4 DEF QuantityAllowed
  <2>2. payload.price # None => payload.price * payload.quantity >= Rules.minNotional
    BY <1>3, <1>4 DEF NotionalAllowed
  <2>3. mark \notin {None, 0} => Reference(payload, mark) = mark
    BY DEF Reference
  <2>4. mark \notin {None, 0} => mark * payload.quantity >= Rules.minNotional
    BY <1>3, <1>4, <2>3 DEF NotionalAllowed
  <2> QED
    BY <2>1, <2>2, <2>4
<1> QED
  BY <1>2, <1>4 DEF SentWithinRules

\* Whatever the filters and the request, what is sent is on the exchange's grid and
\* not below its smallest quantity and notional.
THEOREM SentWithinRulesAlways == Spec => []SentWithinRules
BY PlacementInvInit, PlacementInvStep, SentWithinRulesNow, PTL DEF Spec

LEMMA ResendIsStableNow == PlacementInv => ResendIsStable
<1> SUFFICES ASSUME PlacementInv, Sending PROVE ResendIsStable
  BY DEF ResendIsStable
<1>1. /\ asked \in OrderRequest /\ payload = Normalized(asked, Rules)
      /\ Rules \in SymbolRules /\ Valid(asked, Rules, mark) /\ Steppable(asked, Rules)
  BY InSending
<1>2. Normalized(payload, Rules) = payload /\ Steppable(payload, Rules)
  BY <1>1, NormalizedRounded
<1>3. /\ payload.type = asked.type /\ payload.reduceOnly = asked.reduceOnly
      /\ payload.closePosition = asked.closePosition
      /\ payload.positionSide = asked.positionSide
      /\ payload.quantity = FloorToStep(asked.quantity, QtyStep(asked, Rules))
  BY <1>1, NormalizedFields
<1>4. asked.quantity = None => payload.quantity = None
  BY <1>3 DEF FloorToStep
<1>5. FlagsAllowed(payload)
  BY <1>1, <1>3, <1>4 DEF Valid, FlagsAllowed
<1> QED
  BY <1>1, <1>2, <1>5 DEF Valid, ResendIsStable

\* An order that was accepted once is accepted again in its rounded form, and is
\* not rounded any further, at any step and tick.
THEOREM ResendIsStableAlways == Spec => []ResendIsStable
BY PlacementInvInit, PlacementInvStep, ResendIsStableNow, PTL DEF Spec

LEMMA NeverEnlargedNow == PlacementInv => NeverEnlarged
  BY InSending, NormalizedRounded DEF NeverEnlarged

\* Rounding never asks for more than the caller did and gives up less than a step.
THEOREM NeverEnlargedAlways == Spec => []NeverEnlarged
BY PlacementInvInit, PlacementInvStep, NeverEnlargedNow, PTL DEF Spec

-----------------------------------------------------------------------------
(* Disaster stops *)

\* The order that place_disaster_stop asks for, and its rounded form.
LEMMA StopFields ==
  ASSUME NEW s \in Symbols, NEW direction, NEW entry \in Entries, NEW rules
  PROVE  LET r == DisasterStop(s, direction, entry)
             n == Normalized(r, rules)
         IN  /\ r \in OrderRequest
             /\ r.trigger = TriggerPrice(direction, entry) /\ r.trigger \in Nat
             /\ n.trigger = FloorToStep(r.trigger, rules.tick)
             /\ r.quantity = None /\ r.price = None /\ r.activate = None
             /\ n.quantity = None /\ n.price = None
             /\ r.type = "STOP_MARKET" /\ ~ r.reduceOnly /\ r.closePosition
<1> DEFINE r == DisasterStop(s, direction, entry)
           n == Normalized(r, rules)
<1>1. r \in OrderRequest
  BY StopTyped
<1>2. /\ r.trigger = TriggerPrice(direction, entry)
      /\ r.quantity = None /\ r.price = None /\ r.activate = None
      /\ r.type = "STOP_MARKET" /\ ~ r.reduceOnly /\ r.closePosition
  BY DEF DisasterStop
<1>3. r.trigger \in Nat
  <2>1. entry \in Nat /\ StopDistance \in 1..99
    BY PlacementAssumption
  <2>2. entry * (100 - StopDistance) \in Nat /\ entry * (100 + StopDistance) \in Nat
    BY <2>1
  <2>3. \A k \in Nat : k \div 100 \in Nat
    OBVIOUS
  <2> QED
    BY <1>2, <2>2, <2>3 DEF TriggerPrice
<1> HIDE DEF r
<1>4. /\ n.quantity = FloorToStep(r.quantity, QtyStep(r, rules))
      /\ n.price = FloorToStep(r.price, rules.tick)
      /\ n.trigger = FloorToStep(r.trigger, rules.tick)
  BY <1>1, NormalizedFields
<1>5. n.quantity = None /\ n.price = None
  BY <1>2, <1>4 DEF FloorToStep
<1> QED
  BY <1>1, <1>2, <1>3, <1>4, <1>5 DEF r

\* A disaster stop is valid wherever the symbol trades and has a tick.
LEMMA StopValid ==
  ASSUME NEW s \in Symbols, NEW direction, NEW entry \in Entries,
         NEW rules \in SymbolRules, rules # None
  PROVE  Valid(DisasterStop(s, direction, entry), rules, None)
           <=> rules.trading /\ rules.tick > 0
<1> DEFINE r == DisasterStop(s, direction, entry)
           n == Normalized(r, rules)
<1>1. /\ r.trigger \in Nat /\ r.quantity = None
      /\ n.quantity = None /\ n.price = None
      /\ r.type = "STOP_MARKET" /\ ~ r.reduceOnly /\ r.closePosition
  BY StopFields
<1> HIDE DEF r, n
<1>2. r.trigger # None
  BY <1>1, PlacementAssumption
<1>3. FlagsAllowed(r)
  BY <1>1 DEF FlagsAllowed, AlgoOrderTypes, OrderTypes
<1>4. Steppable(r, rules) <=> rules.tick > 0
  BY <1>1, <1>2 DEF Steppable
<1>5. /\ QuantityAllowed(n, rules) /\ PriceAllowed(n, rules)
      /\ NotionalAllowed(n, rules, None) /\ DistanceAllowed(n, rules, None)
  BY <1>1 DEF QuantityAllowed, PriceAllowed, NotionalAllowed, DistanceAllowed
<1> QED
  BY <1>3, <1>4, <1>5 DEF Valid, r, n

StopIsSentNow ==
  \A s \in Symbols, direction \in {"LONG", "SHORT"}, entry \in Entries :
    PlaceStop(s, direction, entry) /\ symbolRules[s] # None =>
      (symbolRules[s].trading /\ symbolRules[s].tick > 0 <=> pc' = "sending")

LEMMA StopIsSentStep == PlacementInv => StopIsSentNow
<1> SUFFICES ASSUME PlacementInv,
                    NEW s \in Symbols, NEW direction \in {"LONG", "SHORT"},
                    NEW entry \in Entries,
                    PlaceStop(s, direction, entry), symbolRules[s] # None
             PROVE  symbolRules[s].trading /\ symbolRules[s].tick > 0 <=> pc' = "sending"
  BY DEF StopIsSentNow
<1> DEFINE r == DisasterStop(s, direction, entry)
           rules == symbolRules[s]
<1>1. r.symbol = s
  BY DEF DisasterStop
<1>2. rules \in SymbolRules
  BY DEF PlacementInv, TypeOK
<1>3. Valid(r, rules, None) <=> rules.trading /\ rules.tick > 0
  BY <1>2, StopValid
<1> HIDE DEF r
<1>4. pc' = "sending" <=> Valid(r, rules, None)
  BY <1>1 DEF PlaceStop, Place, r
<1> QED
  BY <1>3, <1>4

\* A disaster stop is refused only where the symbol does not trade or has no tick:
\* the size of the position and the distance of the stop do not count.
THEOREM StopIsSentAlways == Spec => StopIsSent
<1>1. PlacementInv /\ [Next]_vars => [StopIsSentNow]_vars
  BY StopIsSentStep
<1> QED
  BY PlacementInvInit, PlacementInvStep, <1>1, PTL DEF Spec, StopIsSent, StopIsSentNow

LEMMA StopBeyondEntryNow == PlacementInv => StopBeyondEntry
<1> SUFFICES ASSUME PlacementInv, Sending,
                    NEW direction \in {"LONG", "SHORT"}, NEW entry \in Entries,
                    asked = DisasterStop(asked.symbol, direction, entry),
                    100 * Rules.tick <= entry * StopDistance
             PROVE  IF direction = "LONG" THEN payload.trigger < entry
                    ELSE payload.trigger > entry
  BY DEF StopBeyondEntry
<1> DEFINE T == TriggerPrice(direction, entry)
           tick == Rules.tick
           D == entry * StopDistance
<1>1. /\ asked \in OrderRequest /\ payload = Normalized(asked, Rules)
      /\ Rules \in SymbolRules /\ Steppable(asked, Rules)
  BY InSending
<1>2. asked.symbol \in Symbols /\ tick \in Nat
  BY <1>1 DEF OrderRequest, SymbolRules
<1>3. asked.trigger = T /\ T \in Nat /\ payload.trigger = FloorToStep(T, tick)
  BY <1>1, <1>2, StopFields
<1>4. T # None /\ tick > 0
  BY <1>1, <1>3, PlacementAssumption DEF Steppable
<1>5. /\ payload.trigger \in Int /\ payload.trigger <= T
      /\ T - payload.trigger < tick
  <2>1. payload.trigger # None
    BY <1>2, <1>3, <1>4, Rounded DEF Optional
  <2> QED
    BY <1>2, <1>3, <1>4, <2>1, Rounded DEF Optional
<1>6. entry \in Nat \ {0} /\ StopDistance \in 1..99
  BY PlacementAssumption
<1>7. /\ D \in Nat /\ D > 0
      /\ entry * (100 - StopDistance) = 100 * entry - D
      /\ entry * (100 + StopDistance) = 100 * entry + D
      /\ 100 * entry - D \in Nat
  BY <1>6
<1>8. CASE direction = "LONG"
  <2> DEFINE n == 100 * entry - D
  <2>1. T = n \div 100
    BY <1>7, <1>8 DEF TriggerPrice
  <2>2. 100 * T <= n
    <3> HIDE DEF n
    <3>1. n \in Nat
      BY <1>7 DEF n
    <3> QED
      BY <2>1, <3>1, Division
  <2> HIDE DEF T, D
  <2> QED
    BY <1>3, <1>5, <1>6, <1>7, <1>8, <2>2
<1>9. CASE direction # "LONG"
  <2> DEFINE n == 100 * entry + D
  <2>1. T = n \div 100
    BY <1>7, <1>9 DEF TriggerPrice
  <2>2. 100 * T > n - 100
    <3> HIDE DEF n
    <3>1. n \in Nat
      BY <1>6, <1>7 DEF n
    <3> QED
      BY <2>1, <3>1, Division
  <2>3. 100 * tick <= D
    OBVIOUS
  <2> HIDE DEF T, D, tick
  <2>4. T - payload.trigger <= tick - 1
    BY <1>2, <1>3, <1>5
  <2> QED
    BY <1>2, <1>3, <1>5, <1>6, <1>7, <1>9, <2>2, <2>3, <2>4
<1> QED
  BY <1>8, <1>9

\* The stop that is sent lies on the losing side of the entry price, for any tick
\* that is not more than the distance of the stop.
THEOREM StopBeyondEntryAlways == Spec => []StopBeyondEntry
BY PlacementInvInit, PlacementInvStep, StopBeyondEntryNow, PTL DEF Spec
=============================================================================
