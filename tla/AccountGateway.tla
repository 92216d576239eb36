--------------------------- MODULE AccountGateway ---------------------------
(***************************************************************************)
(* The private user stream of the websocket gateway and the local account  *)
(* view it maintains.                                                      *)
(*                                                                         *)
(* Binance pushes absolute account rows and order states over a websocket; *)
(* the gateway applies them to an AccountState without looking at any      *)
(* sequence number.  On every (re)connection a hook first rebuilds the     *)
(* view from three REST reads, during which messages pile up unread in the *)
(* socket.  After each private message the guardian looks for positions    *)
(* without a protective stop.                                              *)
(*                                                                         *)
(* The exchange and the socket are external: they are modelled from what   *)
(* the gateway reads.  The queue of a connection is FIFO; messages sent    *)
(* while there is no connection, and those in flight when it breaks, are   *)
(* lost.                                                                   *)
(***************************************************************************)
EXTENDS Naturals, Sequences

CONSTANTS
  Positions,     \* keys (symbol, positionSide) of AccountState.positions
  Assets,        \* keys of AccountState.balances
  Values,        \* what an event and a snapshot both carry: quantity and
                 \* entry price, wallet and cross wallet balance
  Zero,          \* the flat position, the empty balance
  Marks,         \* price levels: what mark price, notional, PnL and available
                 \* balance depend on, and events do not carry
  NoMark,        \* the default of those fields in a row made from an event
  Orders,        \* identities of regular orders
  Algos,         \* identities of closePosition stops (algo orders)
  StopFor,       \* the position each stop closes
  Statuses,      \* status strings the exchange uses, "NEW" among them
  MessageLimit,  \* consume() leaves its loop after this many messages
  MaxEvents,     \* bound: changes of the account on the exchange
  MaxDrops       \* bound: broken connections

Rows == Positions \cup Assets
OrderIds == Orders \cup Algos

ASSUME ConstantsAssumption ==
  /\ Zero \in Values
  /\ NoMark \notin Marks
  /\ Orders \cap Algos = {}
  /\ StopFor \in [Algos -> Positions]
  /\ "NEW" \in Statuses
  /\ MessageLimit \in Nat \ {0}
  /\ MaxEvents \in Nat
  /\ MaxDrops \in Nat

-----------------------------------------------------------------------------
(* Statuses and orders *)

OrderLifecycleStatus ==
  { "NEW", "PARTIALLY_FILLED", "FILLED", "CANCELED", "EXPIRED", "REJECTED",
    "TRIGGERED", "UNKNOWN" }

\* Mutant of ParseStatus: no fallback for a string outside the enum.
ParseStatusNoFallback(wire) == wire

\* A status string that is no member of the enum becomes UNKNOWN.
ParseStatus(wire) == IF wire \in OrderLifecycleStatus THEN wire ELSE "UNKNOWN"

\* Absence from the exchange's or the local order table.
Absent == "ABSENT"

OpenStatus == {"NEW", "PARTIALLY_FILLED", "TRIGGERED"}
ActiveStop == {"NEW", "PARTIALLY_FILLED"}
FailedStop == {"REJECTED", "CANCELED", "EXPIRED"}

\* A row of the local view.  A row that is not in the dict counts as Zero.
Row(value, mark) == [value |-> value, mark |-> mark]
NoRow == Row(Zero, "UNLISTED")
LocalRow == [value : Values, mark : Marks \cup {NoMark, "UNLISTED"}]

\* An empty table of rows.
Nothing == [r \in Rows |-> NoRow]

IsOpen(view, p) == view[p].value # Zero
Protected(table, p) == \E a \in Algos : StopFor[a] = p /\ table[a] \in ActiveStop

\* The rows a GET /fapi/v3/account answer lists: flat ones are left out.
Listed(value, mark) == IF value = Zero THEN NoRow ELSE Row(value, mark)

-----------------------------------------------------------------------------
VARIABLES
  exValue,      \* the exchange: value of every row
  exMark,       \* the exchange: the current price level
  exStatus,     \* the exchange: wire status of every order and stop
  link,         \* the websocket: "up" or "lost"
  queue,        \* messages received or in flight, not yet handled
  events,       \* number of changes so far
  drops,        \* number of broken connections so far
  launch,       \* "module": run as a script, "import": main() called by others
  pc,           \* where the private consumer is
  count,        \* messages handled by consume()
  snapshot,     \* rows read by the running reconcile()
  balancesAndPositions,  \* AccountState.balances and .positions
  orders,       \* AccountState.orders
  stateMismatchCount,
  reconcileFailureCount,
  killSwitchReason       \* "none" while the kill switch is inactive

exchange == <<exValue, exMark, exStatus, events>>
socket   == <<link, queue, drops>>
control  == <<launch, count>>
account  == <<balancesAndPositions, orders, stateMismatchCount,
              reconcileFailureCount, killSwitchReason>>
vars == <<exchange, socket, control, pc, snapshot, account>>

KillReasons == {"none", "mismatch", "reconcile", "missing stop", "stop failed"}
killSwitchActive == killSwitchReason # "none"

Reading == {"read_account", "read_risk", "read_orders"}
Stopped == {"done", "crashed"}

Messages ==
  [type : {"ACCOUNT_UPDATE"}, rows : UNION {[S -> Values] : S \in SUBSET Rows}]
  \cup [type : {"ORDER_TRADE_UPDATE"}, order : Orders, status : Statuses]
  \cup [type : {"ALGO_UPDATE"}, order : Algos, status : Statuses]

TypeOK ==
  /\ exValue \in [Rows -> Values]
  /\ exMark \in Marks
  /\ exStatus \in [OrderIds -> Statuses \cup {Absent}]
  /\ link \in {"up", "lost"}
  /\ queue \in Seq(Messages)
  /\ events \in 0..MaxEvents
  /\ drops \in 0..MaxDrops
  /\ launch \in {"module", "import"}
  /\ pc \in {"down", "sleeping", "stream"} \cup Reading \cup Stopped
  /\ count \in 0..MessageLimit
  /\ snapshot \in [Rows -> LocalRow]
  /\ balancesAndPositions \in [Rows -> LocalRow]
  /\ orders \in [OrderIds -> OrderLifecycleStatus \cup {Absent}]
  /\ stateMismatchCount \in Nat
  /\ reconcileFailureCount \in Nat
  /\ killSwitchReason \in KillReasons

\* The gateway starts on an account in any state, with an empty view.
Init ==
  /\ exValue \in [Rows -> Values]
  /\ exMark \in Marks
  /\ exStatus \in [OrderIds -> {"NEW", Absent}]
  /\ link = "lost"
  /\ queue = <<>>
  /\ events = 0
  /\ drops = 0
  /\ launch \in {"module", "import"}
  /\ pc = "down"
  /\ count = 0
  /\ snapshot = Nothing
  /\ balancesAndPositions = Nothing
  /\ orders = [o \in OrderIds |-> Absent]
  /\ stateMismatchCount = 0
  /\ reconcileFailureCount = 0
  /\ killSwitchReason = "none"

-----------------------------------------------------------------------------
(* The exchange and the socket *)

\* The exchange sends to the connection there is, if there is one.
Publish(m) ==
  /\ events < MaxEvents
  /\ events' = events + 1
  /\ queue' = IF link = "up" THEN Append(queue, m) ELSE queue
  /\ UNCHANGED <<link, drops, control, pc, snapshot, account, exMark>>

\* A fill, a transfer or a funding fee sets some rows to new values; one
\* ACCOUNT_UPDATE carries all of them.
AccountChanges(rows) ==
  /\ exValue' = [r \in Rows |-> IF r \in DOMAIN rows THEN rows[r] ELSE exValue[r]]
  /\ UNCHANGED exStatus
  /\ Publish([type |-> "ACCOUNT_UPDATE", rows |-> rows])

\* An order is created, or an open one moves to another status.
OrderChanges(o, status) ==
  /\ \/ exStatus[o] = Absent
     \/ ParseStatus(exStatus[o]) \in OpenStatus /\ status # exStatus[o]
  /\ exStatus' = [exStatus EXCEPT ![o] = status]
  /\ UNCHANGED exValue
  /\ Publish([type |-> IF o \in Algos THEN "ALGO_UPDATE" ELSE "ORDER_TRADE_UPDATE",
              order |-> o, status |-> status])

\* Prices move; the user stream says nothing of it.
PriceMoves ==
  /\ exMark' \in Marks \ {exMark}
  /\ UNCHANGED <<exValue, exStatus, events, socket, control, pc, snapshot, account>>

\* The connection breaks or is closed; the messages in flight are lost.
LoseConnection ==
  /\ link = "up"
  /\ drops < MaxDrops
  /\ drops' = drops + 1
  /\ link' = "lost"
  /\ \E n \in 0..Len(queue) : queue' = SubSeq(queue, 1, n)
  /\ UNCHANGED <<exchange, control, pc, snapshot, account>>

-----------------------------------------------------------------------------
(* The stream: connect, rebuild, receive, reconnect *)

\* Mutant of Connect: the loop ends after the first connection.
ConnectOnce ==
  /\ pc = "down" /\ drops = 0
  /\ link' = "up" /\ queue' = <<>> /\ pc' = "read_account"
  /\ UNCHANGED <<exchange, drops, control, snapshot, account>>

\* Mutant of Connect: no connect hook, the old view is kept.
ConnectNoHook ==
  /\ pc = "down"
  /\ link' = "up" /\ queue' = <<>> /\ pc' = "stream"
  /\ UNCHANGED <<exchange, drops, control, snapshot, account>>

\* Mutant of Connect: a new connection starts from an empty view.
ConnectOnEmptyView ==
  /\ pc = "down"
  /\ link' = "up" /\ queue' = <<>> /\ pc' = "read_account"
  /\ balancesAndPositions' = Nothing /\ orders' = [o \in OrderIds |-> Absent]
  /\ UNCHANGED <<exchange, drops, control, snapshot, stateMismatchCount,
                 reconcileFailureCount, killSwitchReason>>

\* websockets.connect answers: the connect hook starts to rebuild.
Connect ==
  /\ pc = "down"
  /\ link' = "up"
  /\ queue' = <<>>
  /\ pc' = "read_account"
  /\ UNCHANGED <<exchange, drops, control, snapshot, account>>

\* websockets.connect raises: there is no connect hook to fail and nothing is
\* counted, the disconnect hook says so in the log and the loop sleeps.
ConnectFails ==
  /\ pc = "down"
  /\ pc' = "sleeping"
  /\ UNCHANGED <<exchange, socket, control, snapshot, account>>

\* Two seconds later the loop tries again.
WakeUp ==
  /\ pc = "sleeping"
  /\ pc' = "down"
  /\ UNCHANGED <<exchange, socket, control, snapshot, account>>

\* await get_account_info(): quantities and balances.
ReadAccount ==
  /\ pc = "read_account"
  /\ snapshot' = [r \in Rows |-> Listed(exValue[r], exMark)]
  /\ pc' = "read_risk"
  /\ UNCHANGED <<exchange, socket, control, account>>

\* await get_position_risk(): the valuation of the positions already read; a
\* position that is flat by now has none.
ReadRisk ==
  /\ pc = "read_risk"
  /\ snapshot' = [r \in Rows |->
       IF r \in Positions /\ snapshot[r] # NoRow
       THEN Row(snapshot[r].value, IF exValue[r] = Zero THEN NoMark ELSE exMark)
       ELSE snapshot[r]]
  /\ pc' = "read_orders"
  /\ UNCHANGED <<exchange, socket, control, account>>

\* GET /fapi/v1/openOrders lists open regular orders, and no algo orders.
OpenOrders ==
  [o \in OrderIds |->
     IF o \in Orders /\ ParseStatus(exStatus[o]) \in OpenStatus
     THEN ParseStatus(exStatus[o]) ELSE Absent]

HasExistingState ==
  \/ \E r \in Rows : balancesAndPositions[r] # NoRow
  \/ \E o \in OrderIds : orders[o] # Absent

IsMismatch(newRows, newOrders) ==
  balancesAndPositions # newRows \/ orders # newOrders

\* Mutant of ReadOrdersAndReplace: what arrived during the reads is thrown away
\* as superseded by the snapshot.
ReplaceAndFlush ==
  /\ pc = "read_orders"
  /\ balancesAndPositions' = snapshot /\ orders' = OpenOrders
  /\ stateMismatchCount' = 0 /\ reconcileFailureCount' = 0
  /\ snapshot' = Nothing /\ queue' = <<>> /\ pc' = "stream"
  /\ UNCHANGED <<exchange, link, drops, control, killSwitchReason>>

\* Mutant of ReadOrdersAndReplace: known orders that are not in the answer stay.
ReplaceByMerge ==
  /\ pc = "read_orders"
  /\ balancesAndPositions' = snapshot
  /\ orders' = [o \in OrderIds |->
                  IF OpenOrders[o] # Absent THEN OpenOrders[o] ELSE orders[o]]
  /\ stateMismatchCount' = 0 /\ reconcileFailureCount' = 0
  /\ snapshot' = Nothing /\ pc' = "stream"
  /\ UNCHANGED <<exchange, socket, control, killSwitchReason>>

\* Mutant of ReadOrdersAndReplace: the stops of the old view are kept.
ReplaceKeepsStops ==
  /\ pc = "read_orders"
  /\ balancesAndPositions' = snapshot
  /\ orders' = [o \in OrderIds |-> IF o \in Algos THEN orders[o] ELSE OpenOrders[o]]
  /\ stateMismatchCount' = 0 /\ reconcileFailureCount' = 0
  /\ snapshot' = Nothing /\ pc' = "stream"
  /\ UNCHANGED <<exchange, socket, control, killSwitchReason>>

\* await get_open_orders(), then comparison and replacement without an await.
ReadOrdersAndReplace ==
  /\ pc = "read_orders"
  /\ IF HasExistingState /\ IsMismatch(snapshot, OpenOrders)
     THEN /\ stateMismatchCount' = stateMismatchCount + 1
          /\ killSwitchReason' = IF stateMismatchCount + 1 >= 2
                                 THEN "mismatch" ELSE killSwitchReason
     ELSE /\ stateMismatchCount' = 0
          /\ UNCHANGED killSwitchReason
  /\ balancesAndPositions' = snapshot
  /\ orders' = OpenOrders
  /\ reconcileFailureCount' = 0
  /\ snapshot' = Nothing
  /\ pc' = "stream"
  /\ UNCHANGED <<exchange, socket, control>>

\* Mutant of RebuildFails: off by one in the threshold.
RebuildFailsLate ==
  /\ pc \in Reading
  /\ reconcileFailureCount' = reconcileFailureCount + 1
  /\ killSwitchReason' = IF reconcileFailureCount >= 2
                         THEN "reconcile" ELSE killSwitchReason
  /\ snapshot' = Nothing /\ pc' = "stream"
  /\ UNCHANGED <<exchange, socket, control, balancesAndPositions, orders,
                 stateMismatchCount>>

\* Any of the reads raises: the failure is recorded, the exception is logged
\* by the stream, and messages are handled on the view as it was.
RebuildFails ==
  /\ pc \in Reading
  /\ reconcileFailureCount' = reconcileFailureCount + 1
  /\ killSwitchReason' = IF reconcileFailureCount + 1 >= 2
                         THEN "reconcile" ELSE killSwitchReason
  /\ snapshot' = Nothing
  /\ pc' = "stream"
  /\ UNCHANGED <<exchange, socket, control, balancesAndPositions, orders,
                 stateMismatchCount>>

\* The socket is exhausted: the stream connects again at once after a clean close,
\* and after two seconds when the connection broke.
EndOfStream ==
  /\ pc = "stream"
  /\ link = "lost"
  /\ queue = <<>>
  /\ pc' \in {"down", "sleeping"}
  /\ UNCHANGED <<exchange, socket, control, snapshot, account>>

-----------------------------------------------------------------------------
(* One private message: the user event handler, then the guardian *)

Upserted(m) ==
  IF m.type = "ACCOUNT_UPDATE"
  THEN [r \in Rows |-> IF r \in DOMAIN m.rows THEN Row(m.rows[r], NoMark)
                       ELSE balancesAndPositions[r]]
  ELSE balancesAndPositions

UpsertedOrders(m) ==
  IF m.type = "ACCOUNT_UPDATE" THEN orders
  ELSE [orders EXCEPT ![m.order] = ParseStatus(m.status)]

FindUnprotected(view, table) ==
  {p \in Positions : IsOpen(view, p) /\ ~ Protected(table, p)}

\* handle_protection_order_update: a stop died while its position is open.
StopFailed(m, view, table) ==
  /\ m.type = "ALGO_UPDATE"
  /\ table[m.order] \in FailedStop
  /\ IsOpen(view, StopFor[m.order])

\* Mutant of GuardianReason: positions are only checked on stop updates.
GuardianOnAlgoOnly(m, view, table) ==
  IF m.type = "ALGO_UPDATE" /\ FindUnprotected(view, table) # {} THEN "missing stop"
  ELSE IF StopFailed(m, view, table) THEN "stop failed"
  ELSE killSwitchReason

\* The last alert names the reason.
GuardianReason(m, view, table) ==
  IF FindUnprotected(view, table) # {} THEN "missing stop"
  ELSE IF StopFailed(m, view, table) THEN "stop failed"
  ELSE killSwitchReason

ApplyEvent ==
  /\ balancesAndPositions' = Upserted(Head(queue))
  /\ orders' = UpsertedOrders(Head(queue))
  /\ UNCHANGED <<stateMismatchCount, reconcileFailureCount>>

\* After MessageLimit messages consume() breaks out and the socket is closed.
HandleMessage ==
  /\ pc = "stream"
  /\ queue # <<>>
  /\ launch = "import"
  /\ ApplyEvent
  /\ killSwitchReason' =
       GuardianReason(Head(queue), balancesAndPositions', orders')
  /\ count' = count + 1
  /\ IF count + 1 >= MessageLimit
     THEN pc' = "done" /\ link' = "lost" /\ queue' = <<>>
     ELSE pc' = pc /\ link' = link /\ queue' = Tail(queue)
  /\ UNCHANGED <<exchange, drops, launch, snapshot>>

\* Run as a script, main() is started on a line above the definition of
\* _collect_guardian_alerts: the name does not exist yet, and the NameError
\* ends the consumer and, through gather(), the program.
HandleMessageNameError ==
  /\ pc = "stream"
  /\ queue # <<>>
  /\ launch = "module"
  /\ ApplyEvent
  /\ pc' = "crashed"
  /\ link' = "lost"
  /\ queue' = <<>>
  /\ UNCHANGED <<exchange, drops, control, snapshot, killSwitchReason>>

-----------------------------------------------------------------------------
Exchange ==
  \/ \E S \in SUBSET Rows \ {{}} : \E rows \in [S -> Values] : AccountChanges(rows)
  \/ \E o \in OrderIds, status \in Statuses : OrderChanges(o, status)
  \/ PriceMoves

Rebuild == ReadAccount \/ ReadRisk \/ ReadOrdersAndReplace \/ RebuildFails

Receive == HandleMessage \/ HandleMessageNameError

Gateway ==
  Connect \/ ConnectFails \/ WakeUp \/ Rebuild \/ EndOfStream \/ Receive

\* What happens on the exchange after the consumer has ended is nobody's news.
Next ==
  \/ pc \notin Stopped /\ Exchange
  \/ LoseConnection
  \/ Gateway

Spec == Init /\ [][Next]_vars

\* The event loop runs every ready task, REST calls end (httpx has a timeout)
\* and the reconnect loop has no exit: the gateway takes a step whenever one
\* is possible.  Of the network one thing is assumed: an endpoint that is tried
\* again and again answers in the end, however often it refused before.  The
\* connection may break again, and nothing is assumed of the exchange.
FairSpec == Spec /\ WF_vars(Gateway) /\ SF_vars(Connect)

-----------------------------------------------------------------------------
(* Properties *)

\* The gateway has handled everything its connection delivered, on top of a
\* view whose last rebuild succeeded.
Settled ==
  /\ pc = "stream"
  /\ link = "up"
  /\ queue = <<>>
  /\ reconcileFailureCount = 0

\* Incremental and full results agree in the end (LM-205): whatever the
\* interleaving of the three reads, the buffered messages and lost
\* connections, a settled view has the exchange's quantities and balances.
ValuesConverge ==
  Settled => \A r \in Rows : balancesAndPositions[r].value = exValue[r]

\* The same of the regular orders that are open.
OrdersConverge ==
  Settled => \A o \in Orders :
    (orders[o] \in OpenStatus) = (ParseStatus(exStatus[o]) \in OpenStatus)

\* A settled view never believes in a stop the exchange no longer works:
\* replace_orders forgets the stops an outage may have ended.
NoPhantomStop ==
  Settled => \A a \in Algos :
    orders[a] \in ActiveStop => ParseStatus(exStatus[a]) \in ActiveStop

\* Two consecutive failures, or two consecutive mismatches, have halted the
\* account (record_reconcile_failure, record_state_mismatch, threshold 2).
ThresholdHalts ==
  (stateMismatchCount >= 2 \/ reconcileFailureCount >= 2) => killSwitchActive

\* A position is open on the exchange and no stop of it is active there.
NakedOnExchange ==
  \E p \in Positions :
    /\ exValue[p] # Zero
    /\ \A a \in Algos : StopFor[a] = p => ParseStatus(exStatus[a]) \notin ActiveStop

\* A position that is open on the exchange without an active stop halts the
\* account at the latest with the message that settles the view.
NakedPositionHalts ==
  [][count' # count /\ Settled' /\ NakedOnExchange' => killSwitchActive']_vars

\* An outage is over in the end, however many attempts it takes: the loop never
\* gives up before the endpoint answers, unless the consumer has ended for another
\* reason (connectors must reconnect).
Reconnects == (link = "lost") ~> (link = "up" \/ pc \in Stopped)

\* The view does not drift for good (LM-206): where connections are not refused
\* for good, it equals the exchange's account in the end, or the last rebuild has
\* failed and says so.
EventuallyTrueView ==
  <>[]( \/ pc \in Stopped
        \/ reconcileFailureCount > 0
        \/ \A r \in Rows : balancesAndPositions[r].value = exValue[r] )

-----------------------------------------------------------------------------
(* The view as a mirror of the account *)

\* Values of a row that messages in the queue carry.
Told(r) ==
  { queue[i].rows[r] : i \in { k \in DOMAIN queue : /\ queue[k].type = "ACCOUNT_UPDATE"
                                                 /\ r \in DOMAIN queue[k].rows } }

\* What the running rebuild will bring: the value it will read, or has read.
Brought(r) ==
  CASE pc = "read_account" -> {exValue[r]}
    [] pc \in {"read_risk", "read_orders"} -> {snapshot[r].value}
    [] OTHER -> {}

\* No message is lost since the last rebuild, and that has not failed.
Sound ==
  /\ link = "up"
  /\ pc \in Reading \/ (pc = "stream" /\ reconcileFailureCount = 0)

Mirror == INSTANCE AccountMirror WITH
  truth <- exValue, view <- [r \in Rows |-> balancesAndPositions[r].value],
  news <- [r \in Rows |-> Told(r) \cup Brought(r)], sound <- Sound

\* The view never shows a value that the exchange had only before the connection or
\* never had: rows keep what they show until something newer is read or pushed, and
\* none is blanked while a rebuild reads or when it fails.
ImplementsMirror == Mirror!Spec

-----------------------------------------------------------------------------
(* What the documents say and the code does not do *)

\* LM-206: a reconnect restores the truth about conditional orders too.
StopsRestored ==
  Settled => \A a \in Algos :
    ParseStatus(exStatus[a]) \in ActiveStop => orders[a] \in ActiveStop

\* The mismatch counter counts divergence of the incremental state: a value or
\* the set of open regular orders differs from the snapshot.
MismatchMeansDivergence ==
  [][ stateMismatchCount' > stateMismatchCount =>
        \/ \E r \in Rows : balancesAndPositions[r].value # snapshot[r].value
        \/ \E o \in Orders :
             (orders[o] \in OpenStatus) # (OpenOrders[o] \in OpenStatus) ]_vars

\* LM-304: the guardian stays resident and keeps recognising missing stops.
GuardianSurvives == pc # "crashed"
=============================================================================
