# TLA+ models of nofx-cats-py

`nofx-cats-py` trades Binance futures on NOFX data in three modes (`shadow`, `paper`,
`live_micro`). These modules model the parts whose correctness depends on the order of events:
the account view behind the websocket gateway, the placement of orders and the protection of filled
positions, the life of the listen key, the data, the book and the journal of the decision loop, its
branch without a paper book, and the arithmetic of the risk kernel.

All code paths below are relative to `src/cats_py/`.

## 1. Inventory

### Live account view
| part | state | operations | what makes it correct |
|---|---|---|---|
| `apps/run_websocket_gateways.py` | message count, the process | start, `consume()` per stream, guardian alerts per private message, end | the guardian stays alive; naked positions halt |
| `connectors/binance/ws_base.py` | one connection | connect, connect hook, read, reconnect after 2 s | every outage ends; the hook runs before the first message |
| `services/user_state.py` | none (writes `AccountState`) | `ACCOUNT_UPDATE`, `ORDER_TRADE_UPDATE`, `ALGO_UPDATE` | absolute rows replace rows; unknown statuses are not open |
| `services/reconciliation.py`, `recovery.py` | none (writes `AccountState`) | three REST reads, comparison, replacement, failure | the view converges; two failures or mismatches in a row halt |
| `domain/models.py` `AccountState` | balances, positions, orders, two counters, kill switch | upsert, replace, record, snapshot | one consistent view for the risk kernel |
| `connectors/binance/user_stream.py` | listen key, keepalive task | start, keepalive loop, close | the key lives as long as the gateway |

The hook, the consumer and the handler share one event loop; the interleavings come from the
awaits (three reads) and from the exchange and the network, which change and drop things at any time.

### Execution and protection
| part | state | operations | what makes it correct |
|---|---|---|---|
| `execution/service.py` | none | `handle_order_update` | each fill ends with a stop, or an alert and a halt |
| `execution/protection.py` | none | whether a fill needs a stop, and which | no second stop; the right side |
| `execution/guardian.py` | heartbeat tasks, failure counts, running flag | find unprotected, failed stops, start/stop heartbeat, beat | heartbeats for open positions only; two failures halt |
| `execution/order_router.py`, `validator.py` | symbol rules, loaded once | build rules, round, check, place | what is sent is within the symbol's rules, or nothing is sent |

`ExecutionService` is wired in the execution daemon demo and in tests; the model connects it the
way the daemon does, one order update after the other. `router.place()` is the await in the middle.

### Decisions
| part | state | operations | what makes it correct |
|---|---|---|---|
| `services/decision_runtime.py`, data half | response cache, cycle locals | cached reads by concurrent jobs, feature, stale gates | bounded cache, bounded data age, cycles end |
| `services/decision_runtime.py`, book half | cycle locals | mark, exits, gates, decisions | each decision sees the fills before it |
| `services/paper_execution.py` | positions, metadata, cash, funding times, session high | mark to market, funding, fill, cooldown, snapshot | money is neither made nor lost by booking |
| `exits/evaluator.py` | none | stop loss, profit target, trailing stop, time | no position survives beyond its rules |
| `services/decision_engine.py`, `risk/kernel.py` | none | choose a candidate, veto, size | caps hold; nothing opens while halted |
| `features/`, `regime/`, `strategies/`, `services/meta_allocator.py` | none | scores | numeric, no state |
| `services/decision_runtime.py`, shadow and live_micro | the reconciler's `AccountState` | reconcile, snapshot, decisions, previews | an approval rests on a true view of the account |
| `app/bootstrap.py` | none | tiers, refusals, overrides of a mode | a mode only tightens what is configured |
| `apps/run_decision_engine.py` | none | loop, log an exception, sleep | failures of cycles add up to a halt |

### Journal and dataset
| part | state | operations | what makes it correct |
|---|---|---|---|
| `infra/storage.py`, `journal/recorder.py` | files of JSON lines | append, read a stream | a row is there or not |
| `services/paper_dataset.py`, `apps/run_paper_export.py` | none | read three streams, join, summarise | each decision with its fill and account |

### Around it
The NOFX collector and universe (fetch and store), REST clients and signing, logging, and an event
bus and a cache that no app uses.

### Hard behaviours
Snapshot reads racing pushed events; lost messages; failed reads; an await between check and act;
events in an order the handler does not expect; answers that get lost; tasks that end unnoticed;
stale cached data; fills of a cycle changing the account its later decisions read; rounding and
slippage in the book; a journal that is written while it is read, by a process that may be killed;
orders that are checked before or after they are rounded; reads of an account that moves; an endpoint that refuses. `PROJECT.json` lists each at its line with the properties that cover it.

## 2. Modules

| module | models | state and actions |
|---|---|---|
| `AccountGateway` | gateway, connector, event handler, reconciler, guardian search | `exValue`/`exStatus`/`exMark` the exchange; `queue`, `link` the socket; `balancesAndPositions`, `orders`, counters, `killSwitchReason` the `AccountState`; `pc` where the consumer is. `ReadAccount`, `ReadRisk`, `ReadOrdersAndReplace` are the three reads, the last with all that follows without an await; `ConnectFails` is an attempt that raises, after which the loop is `sleeping` until `WakeUp`; `HandleMessage` is one message with the guardian's search |
| `AccountMirror` | nothing of its own | abstract: `truth` the account, `view` the local table, `news` what is still to be heard of each row, `sound` whether all later changes will be heard of; `Change`, `Attach`, `Hear` |
| `AccountGatewayProofs` | | theorems about both parts of the gateway process, `AccountGateway` and `ListenKeySession`; it extends both, which share no name |
| `ExecutionProtection` | execution service, orchestrator, guardian tasks | `calls` are waiting order updates, `pc` the running one. `BeginPlacement`, `StopAccepted`/`StopRefused`, `HandlePlaced`/`HandleRaised` are the two halves of the call around the await |
| `ProtectionProofs` | | theorems |
| `OrderPlacement` | validator, router, disaster stop requests | `symbolRules` as built from the filters; `Place` is `place()` up to its await (`Valid`, `Normalized`), `Answered`/`CallFails` the rest; `PlaceStop` the guardian's request |
| `OrderPlacementProofs` | | theorems |
| `ListenKeySession` | `UserStreamSession` and the end of `main()` | time in ticks; `main` where the process is; `task`, `timer`, `latency` |
| `FeatureFeed` | data half of the decision loop | a job per symbol and one for the global lists; `Call`, `Answer`, `CallFails`, `Reuse`; `Decide` applies both stale gates |
| `FeatureFeedProofs` | | theorems |
| `RiskKernel` | `RiskKernel.evaluate`, the constitution's caps | operators on a snapshot and a signal, exact integers |
| `RiskKernelProofs` | | theorem, the lemmas on division and on sums over finite sets |
| `PaperTrading` | book half of the decision loop in paper mode | `BeginCycle` (features, marks, funding, exit list), `ApplyExit`, `StartDecisions`, `DecideSymbol`, `EndCycle`; extends `RiskKernel` |
| `TradeSlots` | nothing of its own | abstract: who is held, who rests for how long, whether the book has tripped; `Take`, `LetGo`, `Tick` |
| `PaperTradingProofs` | | theorems |
| `LiveCycle` | `run_cycle` with a real account, `AccountReconciler`, the overrides of `bootstrap()`, the app's loop | `exchange`, `reachable` outside; `view`, counters, `killSwitch` the `AccountState`; `ReadAccount`, `ReadRisk`, `ReadOrdersAndReplace`, `ReadFails` one `reconcile()`; `HasExistingState` whether the old view has a row to compare with; `DecideSymbol` a decision with its preview; `JournalFails` an append that ends the cycle before its reads or with a decision. Extends `RiskKernel` as configured, and instantiates it again with the policy of the mode (`Runtime`) |
| `LiveCycleProofs` | | theorems |
| `PaperJournal` | the records of a paper cycle, `JsonlStorage`, `PaperDatasetService` | `log`, `broken` the files; `writes` what the running call has yet to append; `seen` how much the export has read of each stream; `AppendRecord`, `AppendFails`, `Restart`, `ReadStream`; `ExitUnfilled`, `EntryUnfilled` decisions whose price is not positive |
| `PaperJournalProofs` | | theorems |
| `MC*` | constants and definitions for TLC | |

Every module carries, next to a definition, the mutated forms used to see whether a property
notices the bug ("Mutant of ..."); no specification uses them.

`AccountGateway` implements `AccountMirror` under the mapping `Mirror`: the news of a row are the values that queued
messages carry (`Told`) and the value that a running rebuild will read or has read (`Brought`); the view is sound while the link
is up and the last rebuild has not failed. `Connect` is `Attach`, a change of the account is `Change`, the replacement at the
end of a rebuild, a failed rebuild, a handled message and a lost connection are `Hear`, and the reads themselves stutter. Between two settled
views a row may show an older value for a while (the snapshot replaces it and queued messages are applied on top), and the
mapping says which: one the account had since the connection, never a blank or an older one.

`PaperTrading` implements `TradeSlots` under the mapping `Slots`: the symbols with a position are
held, what is left of the cooldown is the wait, the kill switch is the trip. What the mapping shows
is that nothing a fill can do (turn a position, leave a remainder, come out as zero) takes a slot that is not free, shortens
a rest or opens after a halt.

### What is abstracted
* **AccountGateway**: what an event and a snapshot both carry is one value per row; what only
  snapshots carry (mark price, PnL, available balance) is one mark. Regular orders and
  `closePosition` stops are identities with a status string. The connection is a FIFO queue.
* **ExecutionProtection**: one-way mode, so a position is its symbol with LONG, SHORT or FLAT;
  quantity and stop price are left out. Alerts are the kill switch reason they lead to. An
  exception in a call is caught by whoever made it, which goes on with the next update.
* **FeatureFeed**: payload contents are left out; the times of fetch and content are kept. The event
  loop runs everything ready before time passes. Permits are granted in any order (the code: FIFO).
* **RiskKernel/PaperTrading**: floats are integers with explicit rounding; quantity is in quanta,
  price in ticks, money in their product. Leverage is left out: no notional depends on it.
  Features are reference prices; what strategies propose is an input, already ordered by score
  and free of scores at or below zero. Reading is one step: FeatureFeed has its inside.
* **OrderPlacement**: prices and quantities are whole numbers of the finest unit, on which `Decimal`
  is exact. Which refusal is raised is left out: each ends the call. Calls share only the rules, which never
  change after the start, so one call at a time is all there is to see.
* **LiveCycle**: an account is a wallet, a quantity and a mark per symbol and the list of orders as
  one value; features and strategies are an input. An answer lists what is not
  flat, so an account without wallet, position and order is an answer without rows, as is one whose fields are no lists.
  The counters stop at their threshold, where the kill switch is pulled and nothing reads more of them. `previous` is a
  history variable.
* **PaperJournal**: the book is the set of open symbols and a number that each mark and fill changes.
  A torn line makes its stream unreadable, so what follows in it is left out.

## 3. Runs

| run | shows |
|---|---|
| `AccountGateway` | a *settled* view (connected, queue drained, last rebuild successful) has the exchange's values and open regular orders, and believes in no dead stop; two failures or mismatches halt; a naked position halts with the message that settles the view; outages end and the view stops drifting (fair gateway, and an endpoint that answers in the end); the view implements `AccountMirror`: no row is blanked by an outage or a rebuild, and each value it takes was still to be heard |
| `ProtectionOrderly` | position news first, no failing placement: quiet means covered or halted, no heartbeat for a flat symbol, and a position that stays naked halts the account (fair delivery, calls, answers) |
| `ProtectionFaults` | any order of news, refused or unanswered placements, failing heartbeats, the guardian shut down |
| `ListenKeyFaults` | latencies alone never lose the key; a failed keepalive surfaces at the end |
| `FeatureFeed` | bounded cache, no part beyond its TTL, the idle stale gate, the exact bound on a candidate's price age; a cycle ends (fair calls) |
| `PaperExact` | no slippage: exits leave nothing beyond its rules, no entry under a halt, entries fit the gross cap, no fill enlarges an open position; the book implements `TradeSlots` |
| `PaperSlippage` | one slot for two symbols: fills keep the equity but for fees; no second position |
| `PaperJournal` | every row of an export has an account, whatever fails while it reads; after a cycle that returned, a summary ends with the engine's equity; the fill of an entry has its decision on record |
| `OrderPlacement` | what is sent is on the grid and within the limits after rounding; sending it again changes nothing; a disaster stop is sent whenever the symbol trades, beyond the entry if a tick is not more than its distance |
| `LiveCycle` | in `live_micro`: what is approved the configured policy approves too; the mode's limits; approvals rest on two equal sets of reads, unless the earlier was none or had no row; a lasting outage halts; the mismatch veto ends when the account rests |

Runs that end in a counterexample, where the code disagrees with its documents or its own tests:

| run | what the code does |
|---|---|
| `StopsRestored` | a rebuild forgets conditional orders and never reads them |
| `FillsReachTheDataset` | the export looks for the decision id where no record has it: no row carries its fill |

Further configurations that end in a counterexample, kept beside the runs for whoever changes this code:

| configuration (module) | what the code does |
|---|---|
| `MismatchMeansDivergence` (MCAccountGateway) | the mismatch counter counts views that have not diverged |
| `GuardianSurvives` (MCAccountGateway) | launched as a module, the gateway dies at the first private message |
| `SilentFailure` (ExecutionProtection) | a placement that raises leaves no stop, no alert, no halt |
| `FalseAlarm` (ExecutionProtection) | the call that placed a stop reports it missing and halts |
| `FillBeforePosition` (ExecutionProtection) | a fill handled before its position is never looked at again |
| `WrongSideStop` (ExecutionProtection) | a stop of the opposite direction counts as protection |
| `NoHeartbeat` (ExecutionProtection) | a position that meets an active stop gets no heartbeat |
| `KeyExpires` (ListenKeySession) | one failed keepalive ends keepalives for good |
| `StalePrice` (MCFeatureFeed) | a young heatmap hides an old price from both stale gates |
| `ExitLeavesDust` (MCPaperTrading) | with slippage an exit leaves or turns a remainder that keeps its slot |
| `TooManyApprovals` (MCLiveCycle) | a cycle outside paper mode approves more symbols than the policy has slots |

A type invariant that a theorem establishes for every value of the constants is not run again
(`ListenKeySession`, `FeatureFeed`, `OrderPlacement`, `ExecutionProtection`); those of `PaperTrading`,
`PaperJournal` and `LiveCycle` (`Typed`) hold in the configurations above when added to them. `AccountMirror.cfg` (MCAccountGateway)
checks the refinement of the run `AccountGateway` again for a position and a balance, and passes.

### Bounds
* Gateway: one position, one order and one stop; 3 account changes, 2 outages, 3 messages (the
  code's own limit). One row is enough for these properties, which speak of rows one by one, and a balance is a row
  like a position without a stop; two outages are what a second mismatch or failure in a row needs.
  The theorems remove the bounds.
* `AccountMirror.cfg`: a position and a balance, so that a message may carry one row or both while the other waits; three values, so that
  an old, a read and a pushed value differ; 2 account changes and 2 outages, so that a view that is not empty meets
  a second connection; no regular orders, which the mapping does not show.
* Protection: one symbol and two stops where stops of a symbol follow each other, two symbols where
  failure counts and calls interleave; 2 to 4 fills or ends of stops (open, close, reopen, stop
  ends), 2 heartbeats (the threshold). `CHECK_DEADLOCK FALSE` everywhere: the bounded
  environment stops.
* Listen key: 10 and 15 ticks stand for 50 and 60 minutes with 2 ticks of latency; three intervals.
* Feed: TTL 2 for price and heatmap, 5 for funding against a limit of 3, as 30 s, 180 s and 120 s
  relate in `configs/app.example.yaml`; time 4, so that a price of the first cycle expires and a funding
  rate outlives the limit; outside paper mode, where the account is awaited (paper mode decides at
  once, which the awaited account may do too); cache of 4 for 8 keys, so that eviction happens. The bound in `PriceAgeBounded` is attained.
* Paper: two symbols, one or two slots, prices at, above and below every threshold, 3 or 4 cycles (enter, hold,
  exit by time, cool down, enter again).
* Orders: five sets of filters (complete, hardly any, all zero, zero market filters, halted), requests
  below, at and above every minimum, maximum and step, entries where the stop's distance is below, at
  and above a tick. The theorems remove the bounds.
* Live cycle: three symbols, one of them in two lists; three changes, so that each gap between reads of
  a set may see one and the account may move between sets; one restart. One of the accounts
  has no rows, so that a set of reads may follow one that counts as no state. Two failures in a row and two
  mismatches in a row both happen. Deadlock is checked.
* Journal: two symbols, two cycles, two faults, so that a failure may follow a restart and a cycle may
  follow both; the export runs beside all of it.

### Fairness
`FairSpec` of AccountGateway is `WF(Gateway)` and `SF(Connect)`. The first: one event loop runs what is ready, REST calls
time out (httpx) and the reconnect loop has no exit. The second is an assumption on the network that the code cannot
give: an endpoint that is tried every two seconds answers in the end, however often it refused (`ConnectFails`). It is
needed. While the endpoint refuses, no connect hook runs and nothing is counted (`ws_base.py:40`): the view goes stale
for good, with `reconcile_failure_count` as it was, and both `Reconnects` and `EventuallyTrueView` fail. A connection that is up
may break at any time within the bound on outages, and nothing is assumed of the exchange. No safety property needs any of this.
ExecutionProtection: `WF(Apply)`, `WF(Handle)`, `WF(Answer)`: delivered events are applied,
waiting calls run, a placement is answered or times out. FeatureFeed: `WF(Cycle)`: calls end (the NOFX client's
timeout), ready coroutines run. LiveCycle: `WF(Cycle)`: the loop of
`run_decision_engine` has no exit, and REST calls time out; and `SF(ReadAccount \/ ReadFails)`: a journal that refuses appends
again and again (`JournalFails`) lets a cycle come to its reads again and again. Nothing counts the cycles a journal ends,
so with a disk that stays full `OutageHalts` would fail. No fairness on ticks or changes of the exchange.

## 4. Proofs

| theorem | states |
|---|---|
| `AccountGatewayProofs`: `TypeCorrect`, `ValuesConvergeAlways`, `OrdersConvergeAlways`, `NoPhantomStopAlways`, `ThresholdHaltsAlways`, `NakedPositionHaltsAlways` | every safety property of the run `AccountGateway`, for all constants |
| the same: `MirrorImplemented` | every step of the gateway maps to a step of `AccountMirror` or a stutter, for any rows, values and bounds |
| the same: `SessionTypeCorrect`, `OnlyFailureLosesKeyAlways`, `FailureSurfacesAlways` | all of `ListenKeyFaults` |
| `RiskKernelProofs`: `ApprovalWithinCaps` | an approved notional is within every cap, with a free slot and no halt, for all integer inputs |
| `PaperTradingProofs`: `PositionCapAlways`, `NoEntryWhenHaltedAlways`, `SlotsImplemented` | the two account limits of the paper book; every step of it maps to a step of `TradeSlots` or a stutter |
| the same: `PaperTypesAlways`, `FillsOnlyReduceAlways`, `EntriesFitTheCapAlways`, `FillsPreserveEquityAlways`, `SurvivorsWithinRulesAlways` | the money of the book: types, no pyramiding, the gross cap after an entry, the equity across a fill, for any slippage up to a half; without slippage, no position beyond its exit rules |
| `OrderPlacementProofs`: `PlacementTypeCorrect`, `SentWithinRulesAlways`, `ResendIsStableAlways`, `NeverEnlargedAlways`, `StopIsSentAlways`, `StopBeyondEntryAlways` | everything `OrderPlacement` runs, and that rounding never enlarges an order, for all filters and requests |
| `ProtectionProofs`: `ProtectionTypeCorrect`, `HeartbeatAfterStopAlways`, `FailuresHaltAlways`, `HeartbeatEndsAlways`, `QuietMeansCoveredAlways` | all of `ProtectionFaults` in any order of news; when position news precedes fill news, no heartbeat outlives its position, with failing placements too, and an account at rest is covered or halted, unless placements fail for want of a connection |
| `LiveCycleProofs`: `TypedAlways`, `RepeatedViewAlways`, `OverridesTightenAlways`, `LiveMicroLimitsAlways` | types and the safety properties of `LiveCycle`, for every policy, account and list of symbols |
| `FeatureFeedProofs`: `FeedTypeCorrect`, `CacheBoundedAlways`, `PartsWithinTtlAlways`, `StaleGateIdleAlways`, `PriceAgeBoundedAlways` | every safety property of `FeatureFeed`: the cache limit and the ages the feed guarantees, for any number of symbols and all TTLs, latencies and limits |
| `PaperJournalProofs`: `JournalTypeCorrect`, `RowsHaveAccountsAlways`, `SummaryIsCurrentAlways`, `EntriesAreExplainedAlways` | every property of the run `PaperJournal`: what an export finds on disk, for any symbols, reasons and numbers of cycles and faults |

Assumptions are the named ones in the modules: types of constants, and for the listen key that interval
plus two latencies is below the lifetime (50 min + 2 x 10 s < 60 min), and for
the paper book that no symbol has two turns in a cycle (`configured_symbols` removes duplicates,
`services/decision_runtime.py:125`). The theorems on the book's money have one further hypothesis,
`ModestSlippage`: slippage is at most half of the price (shipped: 5 basis points). Above it a fill price of
one tick rounds to zero and the quantity bought at it is undefined, in the code a division by zero.
`SurvivorsWithinRulesAlways` is about no slippage at all; with it the property is false (`ExitLeavesDust`).

*Gateway.* Convergence is not inductive: between reads the view is old and during reads the
snapshot mixes times. The strengthening says, for every row, that replaying the queued messages on
what is or will be the view yields the exchange's value: a change is visible in the snapshot, or
its message is still in the queue, because messages queue from the connection on and the reads start after it. The
same is stated for orders and stops (a stop the replayed view believes in is active). The
naked-position property then follows from the search the same message runs.

The refinement rests on the same invariant. A handled message takes its value out of the news, and the replacement takes the value read;
that a row with no news left is true is `ViewTrue` after the step. Lemmas on what a queue tells of a row, when a
message is added, handled or lost, carry the rest.

*Listen key.* The key's age is tied to what is left to sleep and the running call's time.

*Risk kernel.* Division lemmas bound each rounded cap; the notional is the smallest of them.

*Sums.* Equity, exposure and wallet are sums over finite sets (`SumFunctionOnSet`, a fold, so a
recursive function). What every sum needs (it is an integer, a member can be split off, it follows a change of one
term, it depends on the terms alone) is proved by a least counterexample: were there a set without
the property, one of its subsets of least cardinality would have none either, yet each of its proper subsets has it.

*Paper book.* `BookInv` adds to the cap the shape of the tables and that symbols waiting for an exit
are open. An exit may close or turn but opens no slot; an entry passed the kernel, which counted the positions
left by the fills before it.

The refinement needs in addition that exit times are times (`Timed`): a fill maps to `Take`, to
`LetGo` or to a step that leaves the slots alone, by the sign of the quantity before and after it.

The money needs the types, hence `PaperInv`: `BookInv`, types, `ExitsMarked` (a position that waits for an
exit is marked at the price the exit will be filled near) and `OpenKnown` (while exits run, what the
evaluation saw open is what is open, or has just been closed). Half-even rounding of notional over price
moves less than half a price (`HalfEvenBound`), so an exit never leaves more than it met, and at the reference
price it leaves nothing (`HalfEvenExact`). An entry never meets a position: the kernel refuses a
symbol that is open and no symbol has two turns. One term of each sum changes with a fill, so the sum lemmas turn
the equity and the cap into statements about that term.

*Orders.* `PlacementInv` says what the waiting call is about: its payload is the rounded form of a
request that was valid under the rules. That rounding down is idempotent, keeps what is on the grid
and loses less than a step are lemmas on division; validity of the rounded form follows check by check,
since each is made on rounded values. A stop has neither quantity nor price, so no limit but the tick applies to it.

*Protection.* The exchange never forgets a stop, and a task starts in a call whose placement was
answered. For the end of a heartbeat `NewsInv` says that replaying the queue on the view gives the
exchange's positions, and `EndsInv` that a task of a flat symbol has an exit or a stop update before it,
in the queue or among the calls. Such a call places nothing, so no exception can skip its end, and it
stops the task; it is needed because a raised entry call stops nothing.
For the cover of an account at rest, `StopNews` and `OpenNews` say that replaying the queue on the view gives
the exchange's working stops and open positions, and `CoverInv` that a naked position of an account not halted has
an order update before it after which the view knows it as naked. The call for that update cannot raise without
halting, because a placement is refused only for a stop that works; so an empty queue and no call leave no such position.

*Live cycle.* `LiveInv` ties the mismatch count to the history: a count of zero means that the last
view equals the one before it, or that the one before it had no row; and an approval of this cycle was made on the
cycle's snapshot, which does not change before the cycle ends. A view without rows is the one a process starts with
(`RowlessIsEmpty`, since what is not listed has no values), which is how the property names it. `ModeTightens` compares two kernels
argument by argument: each cap is monotone in its limit, and the limits of a mode are minima. That
comparison is between integers, because the sums over a view are: `CycleInv` carries the types.

*Feature feed.* A running call belongs to its job's phase and was made since the cycle began
(`Calling`); stamps in the cache are honest and in the past (`Stored`); what a symbol has collected
was within its TTL at the start of the cycle (`Kept`). A feature is as young as its youngest part,
so one TTL within the limit keeps the first gate idle. The cache stays within its limit because an
answer makes its own room in the step that stores it. For the age of a price it takes the order of the
calls: price, funding and heatmap of a symbol follow each other without a rest (`Prompt`, `PromptAt`), so
what lies between a price and the end of the cycle is the age the regime check saw, the price's age in the cache,
and calls that were running, each within its latency.

*Paper journal.* A cycle appends its account before anything else, so a decision on record has its account
on record while that stream can be read (`Accounted`), and an export that reads the accounts after the decisions
finds it (`ReadInOrder`: what has been read stays where it is, rows are only added). `Settled`: the last
account, on record with none pending or the last one pending, is the engine's; it is lost only by a fault, which
leaves `outcome` other than *returned*. `FillsExplained` needs the decision that is still pending when an entry
is about to be applied. The joins are stated with the set of indices of a key and its maximum, as a `dict` keeps the last
row, so that they are within the provers' reach for rows of any length.

### Model-checked only
Liveness under fairness, which is out of the prover's reach: `Reconnects` and `EventuallyTrueView`,
`NakedEventuallyHalts`, `CycleEnds`, `OutageHalts`, `VetoEnds`. Every other property of a passing run is a theorem.

## 5. Not modelled
Logging, signing and HTTP, URL construction: pure I/O. Strategy, allocator, feature and regime arithmetic over
floats: inputs. Event bus and infra cache: unused. Public and market streams: only logged. The NOFX
collector: fetch and store. The aggregates of the dataset: sums of its rows. Leverage: nothing but labels
depends on it. The signal reversal exit: unreachable in the code's order of calls. Parsing of
configuration files: data. The stale-user-stream veto has its input fixed: no stream feeds the decision process,
and `user_stream_stale_seconds` is 0.0 without an event (`domain/models.py:371`); the drawdown
vetoes outside paper mode likewise (`services/decision_runtime.py:287`).

## 6. Plan
Done: the account view, order placement and the protection of fills, the listen key, the data, the
book and the journal of the decision loop, its branch for real accounts with the policies of the modes, the risk kernel, the
slots the paper book implements, and the mirror the gateway's view implements.

Proved: every safety property of the passing runs, and both refinements.

Next: the auto-cancel countdown of the exchange in ExecutionProtection (`guardian.py:72`).
