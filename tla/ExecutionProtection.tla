------------------------- MODULE ExecutionProtection -------------------------
(***************************************************************************)
(* From a fill to a protective stop: ExecutionService.handle_order_update, *)
(* the ProtectionOrchestrator, the stop and heartbeat halves of the        *)
(* PositionGuardian, and the way OrderRouter.place() ends.                 *)
(*                                                                         *)
(* User events are applied to the AccountState as they arrive; every order *)
(* event also becomes a call of handle_order_update, and the calls run one *)
(* after the other.  The placement of a stop is the await in the middle of *)
(* such a call: events go on being applied while the REST answer is out,   *)
(* and the exchange's ALGO_UPDATE races that answer.                       *)
(*                                                                         *)
(* The account is in one-way mode (position side BOTH), so a position is   *)
(* known by its symbol.  The exchange is external.                         *)
(***************************************************************************)
EXTENDS Naturals, Sequences

CONSTANTS
  Symbols,
  StopIds,           \* algo order ids
  AccountFirst,      \* TRUE: of one fill, ACCOUNT_UPDATE precedes
                     \* ORDER_TRADE_UPDATE; FALSE: they come in either order
  PlacementMayFail,  \* TRUE: new_algo_order may raise, with or without effect
  MaxEvents,         \* bound: fills and ends of stops on the exchange
  MaxBeats,          \* bound: heartbeats
  MaxGuardianStops   \* 0: the guardian is never shut down; 1: by stop() and
                     \* stop_all_auto_cancel()

\* "none" stands for the symbol of an order id that no stop has yet.
ASSUME ConstantsAssumption ==
  /\ "none" \notin Symbols
  /\ AccountFirst \in BOOLEAN
  /\ PlacementMayFail \in BOOLEAN
  /\ MaxEvents \in Nat
  /\ MaxBeats \in Nat
  /\ MaxGuardianStops \in Nat

Directions == {"LONG", "SHORT"}
PositionStates == Directions \cup {"FLAT"}
Sides == {"BUY", "SELL"}

\* OrderLifecycleStatus of a closePosition stop, and the groups the code forms.
StopStatuses == {"NEW", "TRIGGERED", "CANCELED", "EXPIRED", "REJECTED"}
ActiveStop == {"NEW", "PARTIALLY_FILLED"}
FailedStop == {"REJECTED", "CANCELED", "EXPIRED"}

NoStop == [symbol |-> "none", side |-> "none", status |-> "none"]
Stop == [symbol : Symbols, side : Sides, status : StopStatuses]

ExitSide(direction) == IF direction = "SHORT" THEN "BUY" ELSE "SELL"

VARIABLES
  exPosition,   \* the exchange: position of every symbol
  exStops,      \* the exchange: the stops
  events,       \* changes on the exchange so far
  queue,        \* user events sent and not yet applied, FIFO
  positions,    \* AccountState.positions
  orders,       \* AccountState.orders: the stops it knows
  killReason,   \* AccountState.last_kill_switch_reason, "none" before the first
  calls,        \* order states waiting for, or in, handle_order_update
  pc,           \* "idle", or where the running call is
  exitSide,     \* side of the stop being placed
  heartbeat,    \* per symbol: "off" (no task), "due", "sleeping", "ended"
  failures,     \* PositionGuardian._heartbeat_failures
  running,      \* PositionGuardian._running
  beats         \* heartbeats so far

exchange == <<exPosition, exStops, events>>
account  == <<positions, orders, killReason>>
service  == <<calls, pc, exitSide>>
hearts   == <<heartbeat, failures, running, beats>>
vars     == <<exchange, queue, account, service, hearts>>

killSwitchActive == killReason # "none"

\* What handle_order_update is given: a fill of a regular order, an entry or a
\* reduce-only exit, or a protective stop with its status.
OrderUpdates ==
  [kind : {"entry", "exit"}, symbol : Symbols, status : {"PARTIALLY_FILLED", "FILLED"}]
  \cup [kind : {"stop"}, id : StopIds, stop : Stop]

AccountUpdates == [kind : {"account"}, symbol : Symbols, position : PositionStates]

TypeOK ==
  /\ exPosition \in [Symbols -> PositionStates]
  /\ exStops \in [StopIds -> Stop \cup {NoStop}]
  /\ events \in 0..MaxEvents
  /\ queue \in Seq(OrderUpdates \cup AccountUpdates)
  /\ positions \in [Symbols -> PositionStates]
  /\ orders \in [StopIds -> Stop \cup {NoStop}]
  /\ killReason \in {"none", "missing stop", "stop failed", "heartbeat"}
  /\ calls \in Seq(OrderUpdates)
  /\ pc \in {"idle", "placing", "placed", "raised"}
  /\ exitSide \in Sides \cup {"none"}
  /\ heartbeat \in [Symbols -> {"off", "due", "sleeping", "ended"}]
  /\ failures \in [Symbols -> Nat]
  /\ running \in BOOLEAN
  /\ beats \in 0..MaxBeats

\* A flat account and a fresh process.
Init ==
  /\ exPosition = [s \in Symbols |-> "FLAT"]
  /\ exStops = [i \in StopIds |-> NoStop]
  /\ events = 0
  /\ queue = <<>>
  /\ positions = [s \in Symbols |-> "FLAT"]
  /\ orders = [i \in StopIds |-> NoStop]
  /\ killReason = "none"
  /\ calls = <<>>
  /\ pc = "idle"
  /\ exitSide = "none"
  /\ heartbeat = [s \in Symbols |-> "off"]
  /\ failures = [s \in Symbols |-> 0]
  /\ running = TRUE
  /\ beats = 0

-----------------------------------------------------------------------------
(* Reading a table of stops *)

ActiveIn(table, s) == \E i \in StopIds : table[i].symbol = s /\ table[i].status \in ActiveStop

\* PositionGuardian.find_unprotected_positions with has_active_protection.
FindUnprotected(view, table) == {s \in Symbols : view[s] # "FLAT" /\ ~ ActiveIn(table, s)}

-----------------------------------------------------------------------------
(* The exchange *)

ExchangeEvent(messages) ==
  /\ events < MaxEvents
  /\ events' = events + 1
  /\ queue' = queue \o messages
  /\ UNCHANGED <<account, service, hearts>>

\* The two messages of one fill.
FillMessages(s, position, order) ==
  LET change == [kind |-> "account", symbol |-> s, position |-> position]
  IN  {<<change, order>>} \cup (IF AccountFirst THEN {} ELSE {<<order, change>>})

\* An entry order opens, enlarges or turns a position.
EntryFills(s, direction, status) ==
  /\ exPosition' = [exPosition EXCEPT ![s] = direction]
  /\ \E messages \in FillMessages(s, direction,
                       [kind |-> "entry", symbol |-> s, status |-> status]) :
       ExchangeEvent(messages)
  /\ UNCHANGED exStops

\* A reduce-only order closes the position.
ExitFills(s) ==
  /\ exPosition[s] # "FLAT"
  /\ exPosition' = [exPosition EXCEPT ![s] = "FLAT"]
  /\ \E messages \in FillMessages(s, "FLAT",
                       [kind |-> "exit", symbol |-> s, status |-> "FILLED"]) :
       ExchangeEvent(messages)
  /\ UNCHANGED exStops

StopUpdate(i, stop) == [kind |-> "stop", id |-> i, stop |-> stop]

\* An active stop is canceled or expires, or triggers and closes the position
\* its side fits.
StopEnds(i, status) ==
  /\ exStops[i].status \in ActiveStop
  /\ LET ended == [exStops[i] EXCEPT !.status = status]
         s == exStops[i].symbol
     IN  /\ exStops' = [exStops EXCEPT ![i] = ended]
         /\ IF status = "TRIGGERED"
            THEN /\ exPosition[s] # "FLAT" /\ exStops[i].side = ExitSide(exPosition[s])
                 /\ exPosition' = [exPosition EXCEPT ![s] = "FLAT"]
                 /\ \E messages \in FillMessages(s, "FLAT", StopUpdate(i, ended)) :
                      ExchangeEvent(messages)
            ELSE /\ ExchangeEvent(<<StopUpdate(i, ended)>>)
                 /\ UNCHANGED exPosition

-----------------------------------------------------------------------------
(* User events reach the AccountState (BinanceUserEventHandler.apply) *)

Apply ==
  /\ queue # <<>>
  /\ LET m == Head(queue)
     IN  IF m.kind = "account"
         THEN /\ positions' = [positions EXCEPT ![m.symbol] = m.position]
              /\ UNCHANGED <<orders, calls>>
         ELSE /\ orders' = IF m.kind = "stop" THEN [orders EXCEPT ![m.id] = m.stop]
                                              ELSE orders
              /\ calls' = Append(calls, m)
              /\ UNCHANGED positions
  /\ queue' = Tail(queue)
  /\ UNCHANGED <<exchange, killReason, pc, exitSide, hearts>>

-----------------------------------------------------------------------------
(* handle_order_update *)

SymbolOf(order) == IF order.kind = "stop" THEN order.stop.symbol ELSE order.symbol

\* ProtectionOrchestrator.build_plan: a completely filled entry, of a position
\* that is known to be open and has no active stop in the local view.
HasPlan(order) ==
  /\ order.kind = "entry"
  /\ order.status = "FILLED"
  /\ positions[order.symbol] # "FLAT"
  /\ ~ ActiveIn(orders, order.symbol)

\* PositionGuardian.handle_protection_order_update.
StopFailed(order) ==
  /\ order.kind = "stop"
  /\ order.stop.status \in FailedStop
  /\ positions[order.stop.symbol] # "FLAT"

\* start_auto_cancel: nothing happens while the symbol has a task, even a
\* finished one.
Started(s) == IF heartbeat[s] = "off" THEN [heartbeat EXCEPT ![s] = "due"] ELSE heartbeat

\* Mutant of Finish: only stops that ended are alerted, missing ones are not.
FinishWithoutSearch(order, hearts1) ==
  LET s == SymbolOf(order)
  IN  /\ killReason' = IF StopFailed(order) THEN "stop failed" ELSE killReason
      /\ heartbeat' = IF positions[s] # "FLAT" THEN hearts1
                      ELSE [hearts1 EXCEPT ![s] = "off"]
      /\ calls' = Tail(calls) /\ pc' = "idle" /\ exitSide' = "none"
      /\ UNCHANGED <<exchange, queue, positions, orders, failures, running, beats>>

\* Mutant of Finish: the heartbeat is stopped by exits only.
FinishStopsOnExit(order, hearts1) ==
  LET s == SymbolOf(order)
  IN  /\ killReason' = IF FindUnprotected(positions, orders) # {} THEN "missing stop"
                       ELSE IF StopFailed(order) THEN "stop failed"
                       ELSE killReason
      /\ heartbeat' = IF positions[s] # "FLAT" \/ order.kind # "exit" THEN hearts1
                      ELSE [hearts1 EXCEPT ![s] = "off"]
      /\ calls' = Tail(calls) /\ pc' = "idle" /\ exitSide' = "none"
      /\ UNCHANGED <<exchange, queue, positions, orders, failures, running, beats>>

\* stop_auto_cancel, the alerts and the return, in one turn of the event loop.
Finish(order, hearts1) ==
  LET s == SymbolOf(order)
  IN  /\ killReason' = IF FindUnprotected(positions, orders) # {} THEN "missing stop"
                       ELSE IF StopFailed(order) THEN "stop failed"
                       ELSE killReason
      /\ heartbeat' = IF positions[s] # "FLAT" THEN hearts1
                      ELSE [hearts1 EXCEPT ![s] = "off"]
      /\ calls' = Tail(calls)
      /\ pc' = "idle"
      /\ exitSide' = "none"
      /\ UNCHANGED <<exchange, queue, positions, orders, failures, running, beats>>

\* A call that places nothing runs to its end without an await.
HandleWithoutPlacement ==
  /\ pc = "idle"
  /\ calls # <<>>
  /\ ~ HasPlan(Head(calls))
  /\ Finish(Head(calls), heartbeat)

\* await router.place(): the request leaves, with the side that closes the
\* position as it is known now.
BeginPlacement ==
  /\ pc = "idle"
  /\ calls # <<>>
  /\ HasPlan(Head(calls))
  /\ pc' = "placing"
  /\ exitSide' = ExitSide(positions[Head(calls).symbol])
  /\ UNCHANGED <<exchange, queue, account, calls, hearts>>

\* The exchange takes the stop and announces it; the answer may get lost.  The
\* client id of the request depends on the symbol alone and must be unique
\* among open orders: a second stop of a symbol is refused.
StopAccepted(i, answer) ==
  LET s == SymbolOf(Head(calls))
      stop == [symbol |-> s, side |-> exitSide, status |-> "NEW"]
  IN  /\ pc = "placing"
      /\ ~ ActiveIn(exStops, s)
      /\ exStops[i] = NoStop
      /\ exStops' = [exStops EXCEPT ![i] = stop]
      /\ queue' = Append(queue, StopUpdate(i, stop))
      /\ pc' = answer
      /\ UNCHANGED <<exPosition, events, account, calls, exitSide, hearts>>

StopRefused ==
  /\ pc = "placing"
  /\ PlacementMayFail \/ ActiveIn(exStops, SymbolOf(Head(calls)))
  /\ pc' = "raised"
  /\ UNCHANGED <<exchange, queue, account, calls, exitSide, hearts>>

\* The answer arrives: heartbeat, alerts, end of the call.
HandlePlaced ==
  /\ pc = "placed"
  /\ Finish(Head(calls), Started(SymbolOf(Head(calls))))

\* Mutant of HandleRaised: the heartbeat is started in a finally block.
HandleRaisedStarts ==
  /\ pc = "raised"
  /\ pc' = "idle" /\ exitSide' = "none" /\ calls' = Tail(calls)
  /\ heartbeat' = Started(SymbolOf(Head(calls)))
  /\ UNCHANGED <<exchange, queue, account, failures, running, beats>>

\* The exception leaves handle_order_update: no alert, no heartbeat.  Whoever
\* called goes on with the next update.
HandleRaised ==
  /\ pc = "raised"
  /\ pc' = "idle"
  /\ exitSide' = "none"
  /\ calls' = Tail(calls)
  /\ UNCHANGED <<exchange, queue, account, hearts>>

-----------------------------------------------------------------------------
(* Heartbeats: one task per symbol (maintain_auto_cancel) *)

\* Mutant of Beat: one failure more is tolerated.
BeatLate(s, succeeds) ==
  /\ heartbeat[s] = "due" /\ running /\ beats < MaxBeats
  /\ beats' = beats + 1
  /\ failures' = [failures EXCEPT ![s] = IF succeeds THEN 0 ELSE @ + 1]
  /\ killReason' = IF ~ succeeds /\ failures[s] >= 2 THEN "heartbeat" ELSE killReason
  /\ heartbeat' = [heartbeat EXCEPT ![s] = "sleeping"]
  /\ UNCHANGED <<exchange, queue, positions, orders, service, running>>

\* countdown_cancel_all() succeeds, or raises; the second failure in a row
\* halts the account.  The count survives the task.
Beat(s, succeeds) ==
  /\ heartbeat[s] = "due"
  /\ running
  /\ beats < MaxBeats
  /\ beats' = beats + 1
  /\ failures' = [failures EXCEPT ![s] = IF succeeds THEN 0 ELSE @ + 1]
  /\ killReason' = IF ~ succeeds /\ failures[s] + 1 >= 2 THEN "heartbeat" ELSE killReason
  /\ heartbeat' = [heartbeat EXCEPT ![s] = "sleeping"]
  /\ UNCHANGED <<exchange, queue, positions, orders, service, running>>

\* asyncio.sleep(heartbeat_seconds) is over: the loop condition again.
Wake(s) ==
  /\ heartbeat[s] = "sleeping"
  /\ heartbeat' = [heartbeat EXCEPT ![s] = "due"]
  /\ UNCHANGED <<exchange, queue, account, service, failures, running, beats>>

\* The loop ends because the guardian was stopped; the task stays in the table.
LeaveLoop(s) ==
  /\ heartbeat[s] = "due"
  /\ ~ running
  /\ heartbeat' = [heartbeat EXCEPT ![s] = "ended"]
  /\ UNCHANGED <<exchange, queue, account, service, failures, running, beats>>

\* PositionGuardian.stop().
GuardianStop ==
  /\ MaxGuardianStops > 0
  /\ running
  /\ running' = FALSE
  /\ UNCHANGED <<exchange, queue, account, service, heartbeat, failures, beats>>

\* stop_all_auto_cancel(), with which the daemon ends, takes one task after the
\* other and waits for its end in between.
StopAutoCancel(s) ==
  /\ MaxGuardianStops > 0
  /\ heartbeat[s] # "off"
  /\ heartbeat' = [heartbeat EXCEPT ![s] = "off"]
  /\ UNCHANGED <<exchange, queue, account, service, failures, running, beats>>

-----------------------------------------------------------------------------
Exchange ==
  \/ \E s \in Symbols, direction \in Directions, status \in {"PARTIALLY_FILLED", "FILLED"} :
       EntryFills(s, direction, status)
  \/ \E s \in Symbols : ExitFills(s)
  \/ \E i \in StopIds, status \in StopStatuses \ {"NEW"} : StopEnds(i, status)

\* The exchange answers a placement.
Answer ==
  \/ \E i \in StopIds : StopAccepted(i, "placed")
  \/ PlacementMayFail /\ \E i \in StopIds : StopAccepted(i, "raised")
  \/ StopRefused

Handle == HandleWithoutPlacement \/ BeginPlacement \/ HandlePlaced \/ HandleRaised

Heartbeats ==
  \E s \in Symbols :
    \/ Wake(s)
    \/ LeaveLoop(s)
    \/ StopAutoCancel(s)
    \/ \E ok \in BOOLEAN : Beat(s, ok)

Next == Exchange \/ Apply \/ Handle \/ Answer \/ Heartbeats \/ GuardianStop

Spec == Init /\ [][Next]_vars

\* Delivered events are applied, waiting calls run, and a placement is answered
\* or times out; nothing is assumed of the exchange's own changes.
FairSpec == Spec /\ WF_vars(Apply) /\ WF_vars(Handle) /\ WF_vars(Answer)

-----------------------------------------------------------------------------
(* Properties *)

\* Every event sent has been applied and every call has returned.
Quiet == queue = <<>> /\ calls = <<>>

Naked(s) == exPosition[s] # "FLAT" /\ ~ ActiveIn(exStops, s)

\* Once quiet, an open position has an active stop on the exchange or the
\* account is halted.  It takes both assumptions: position news before fill
\* news, and placements that do not fail.
QuietMeansCovered == Quiet => \A s \in Symbols : Naked(s) => killSwitchActive

\* Once quiet, no heartbeat is kept up for a flat symbol, whatever closed the
\* position and wherever the call was when it happened.
HeartbeatEnds ==
  Quiet => \A s \in Symbols : exPosition[s] = "FLAT" => heartbeat[s] = "off"

\* A heartbeat is only kept up where a stop has really been placed: an answer
\* that never came starts none.
HeartbeatAfterStop ==
  \A s \in Symbols : heartbeat[s] # "off" => \E i \in StopIds : exStops[i].symbol = s

\* Two failed heartbeats of a symbol without a success between them have halted
\* the account, also across a stop and a restart of its task.
FailuresHalt == \A s \in Symbols : failures[s] >= 2 => killSwitchActive

\* A position that stays without an active stop halts the account in the end.
NakedEventuallyHalts == \A s \in Symbols : <>[]Naked(s) => <>killSwitchActive

-----------------------------------------------------------------------------
(* What the code and the documents say and the code does not do *)

\* The alert "missing active protective stop" is about a position that has
\* none, even in the call that has just placed its stop.
AlarmIsTrue ==
  [][ /\ pc = "placed" /\ positions = exPosition
      /\ killReason = "none" /\ killReason' = "missing stop"
      => \E s \in Symbols : Naked(s) ]_vars

\* Every open position can be traced to a stop that closes it, not to one on
\* the side that closes the opposite position.
QuietMeansRightSide ==
  Quiet /\ ~ killSwitchActive => \A s \in Symbols : exPosition[s] # "FLAT" =>
    \E i \in StopIds : /\ exStops[i].symbol = s
                       /\ exStops[i].status \in ActiveStop
                       /\ exStops[i].side = ExitSide(exPosition[s])

\* An open position that is not halted has its countdown heartbeat.
HeartbeatCoversPosition ==
  Quiet /\ ~ killSwitchActive => \A s \in Symbols :
    exPosition[s] # "FLAT" => heartbeat[s] \in {"due", "sleeping"}
=============================================================================
