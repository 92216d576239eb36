----------------------------- MODULE LiveCycle ------------------------------
(***************************************************************************)
(* The decision process outside paper mode: run_cycle with a real account, *)
(* the AccountReconciler it owns, the policy that bootstrap() derives for  *)
(* the mode, and the loop of run_decision_engine around it.                *)
(*                                                                         *)
(* No user stream feeds this process.  Its AccountState is what the last   *)
(* three REST reads gave, and reconciliation compares one set of reads     *)
(* with the next.  The exchange changes at any time, between the reads     *)
(* too; what is approved is written to a journal and not submitted.        *)
(*                                                                         *)
(* The configured policy is RiskKernel's own constants; Runtime is the     *)
(* kernel with the policy of the mode.  Quantities, prices and money are   *)
(* integers, shares in percent.  Features are left out: what the           *)
(* strategies propose is an input, nothing where a feature is missing.     *)
(*                                                                         *)
(* An answer lists what is not flat: an empty wallet, a position of zero   *)
(* and no orders make no rows.  An answer whose field is no list is parsed *)
(* to no rows as well, and is the same as one of an account without any.   *)
(***************************************************************************)
EXTENDS RiskKernel, Sequences, FiniteSets, Functions

CONSTANTS
  Mode,               \* runtime mode: "shadow" or "live_micro"
  Core, LiquidAlt, Experimental,  \* configs/symbols.yaml: sequences of symbols
  Candidates,         \* what the strategies may propose in a cycle: a set of
                      \* functions from symbols to sequences of signals
  Exchanges,          \* what the exchange may hold: wallet, quantity and mark
                      \* price per symbol, open orders
  EntryPrice,         \* of the position in each symbol
  NoOrders,           \* the empty list of open orders
  MaxChanges,         \* bound: changes on the exchange
  MaxRestarts         \* bound: restarts of the process

\* build_runtime_mode_summary refuses live_micro without a core symbol; the
\* other refusals are about credentials and files that disagree.
ASSUME LiveAssumption ==
  /\ IsFiniteSet(Symbols)
  /\ Mode \in {"shadow", "live_micro"}
  /\ Core \in Seq(Symbols) /\ LiquidAlt \in Seq(Symbols) /\ Experimental \in Seq(Symbols)
  /\ Mode = "live_micro" => Core # <<>>
  /\ Candidates \subseteq [Symbols -> Seq(SignalCandidate)]
  /\ \A c \in Candidates, s \in Symbols : \A i \in DOMAIN c[s] : c[s][i].symbol = s
  /\ \A e \in Exchanges :
       /\ DOMAIN e = {"wallet", "quantity", "mark", "orders"}
       /\ e.wallet \in Int
       /\ e.quantity \in [Symbols -> Int]
       /\ e.mark \in [Symbols -> Nat \ {0}]
  /\ EntryPrice \in [Symbols -> Nat]
  /\ MaxChanges \in Nat /\ MaxRestarts \in Nat

-----------------------------------------------------------------------------
(* bootstrap: the policy of the mode *)

LiveMicro == Mode = "live_micro"

In(s, list) == \E i \in DOMAIN list : list[i] = s

\* symbol_tiers: the last list that names a symbol wins, and experimental is
\* the tier of one that is in none.
TierOf(s) ==
  IF In(s, Experimental) THEN "experimental"
  ELSE IF In(s, LiquidAlt) THEN "liquid_alt"
  ELSE IF In(s, Core) THEN "core" ELSE "experimental"

LiveMicroMaxOpenPositions == 1
LiveMicroMaxSymbolNotionalPct == 5
LiveMicroGrossSoft == 20
LiveMicroGrossHard == 35

\* Mutant of Tightened: the limit of the mode replaces the configured one.
TightenedReplacing(configured, limit) == IF LiveMicro THEN limit ELSE configured

\* A limit of live_micro next to the configured one.
Tightened(configured, limit) ==
  IF LiveMicro THEN Smaller(configured, limit) ELSE configured

\* Mutant of RuntimeTierEnabled: the tiers are left as they are configured.
RuntimeTierAsConfigured(s) == TierEnabled[s]

RuntimeTierEnabled(s) == TierEnabled[s] /\ (LiveMicro => TierOf(s) = "core")

RuntimeTierNotional(s) ==
  IF TierOf(s) = "core" THEN Tightened(TierNotional[s], LiveMicroMaxSymbolNotionalPct)
  ELSE TierNotional[s]

\* apply_runtime_risk_overrides.
Runtime == INSTANCE RiskKernel WITH
  GrossSoft <- Tightened(GrossSoft, LiveMicroGrossSoft),
  GrossHard <- Tightened(GrossHard, LiveMicroGrossHard),
  MaxOpenPositions <- Tightened(MaxOpenPositions, LiveMicroMaxOpenPositions),
  TierEnabled <- [s \in Symbols |-> RuntimeTierEnabled(s)],
  TierNotional <- [s \in Symbols |-> RuntimeTierNotional(s)]

\* configured_symbols: outside live_micro every symbol once, in the order of the
\* lists; in live_micro the core list as it is written.
ConfiguredSymbols ==
  IF LiveMicro THEN Core ELSE (Core \o LiquidAlt) \o Experimental
Repeated(i) ==
  ~ LiveMicro /\ \E j \in 1..(i - 1) : ConfiguredSymbols[j] = ConfiguredSymbols[i]

-----------------------------------------------------------------------------
VARIABLES
  exchange,     \* what it holds now
  reachable,    \* whether REST calls are answered
  changes,      \* changes on the exchange so far
  pc,           \* "idle", "account", "risk", "orders", "decide"
  candidates,   \* signals of the strategies in this cycle
  funds, risk,  \* what get_account_info and get_position_risk returned
  view,         \* AccountState: balances, positions and orders
  previous,     \* history: the view the last reconciliation replaced
  mismatches,   \* state_mismatch_count, counted up to Threshold
  failures,     \* reconcile_failure_count, likewise
  killSwitch,   \* kill_switch_active
  next,         \* index of the symbol to decide next
  approvals,    \* previews of this cycle: the signal and its notional
  restarts

outside      == <<exchange, reachable, changes>>
accountState == <<view, previous, mismatches, failures, killSwitch>>
locals       == <<pc, candidates, funds, risk, next, approvals>>
vars         == <<outside, accountState, locals, restarts>>

Threshold == 2
None0 == [mark |-> 0, notional |-> 0]
NoFunds == [wallet |-> 0, quantity |-> [s \in Symbols |-> 0], pnl |-> [s \in Symbols |-> 0]]
NoRisk == [s \in Symbols |-> None0]
NoSignals == [s \in Symbols |-> <<>>]

\* The AccountState of a process that has read nothing, or an account without rows.
EmptyView ==
  [ wallet |-> 0, quantity |-> NoFunds.quantity, pnl |-> NoFunds.pnl, risk |-> NoRisk,
    orders |-> NoOrders ]

\* A position that is not listed has no values.
Funds ==
  { f \in [wallet : Int, quantity : [Symbols -> Int], pnl : [Symbols -> Int]] :
      \A s \in Symbols : f.quantity[s] = 0 => f.pnl[s] = 0 }
RiskRows == [Symbols -> [mark : Nat, notional : Int]]
View ==
  { v \in [ wallet : Int, quantity : [Symbols -> Int], pnl : [Symbols -> Int],
            risk : RiskRows, orders : {e.orders : e \in Exchanges} \cup {NoOrders} ] :
      \A s \in Symbols : v.quantity[s] = 0 => v.pnl[s] = 0 /\ v.risk[s] = None0 }

TypeOK ==
  /\ exchange \in Exchanges
  /\ reachable \in BOOLEAN
  /\ changes \in 0..MaxChanges
  /\ pc \in {"idle", "account", "risk", "orders", "decide"}
  /\ candidates \in [Symbols -> Seq(SignalCandidate)]
  /\ funds \in Funds
  /\ risk \in RiskRows
  /\ view \in View
  /\ previous \in View
  /\ mismatches \in 0..Threshold
  /\ failures \in 0..Threshold
  /\ killSwitch \in BOOLEAN
  /\ mismatches = Threshold \/ failures = Threshold => killSwitch
  /\ next \in 1..(Len(ConfiguredSymbols) + 1)
  /\ approvals \subseteq [signal : SignalCandidate, notional : Int]
  /\ restarts \in 0..MaxRestarts

FreshProcess ==
  /\ pc = "idle" /\ candidates = NoSignals
  /\ funds = NoFunds /\ risk = NoRisk
  /\ view = EmptyView /\ previous = EmptyView
  /\ mismatches = 0 /\ failures = 0 /\ killSwitch = FALSE
  /\ next = 1 /\ approvals = {}

Init ==
  /\ exchange \in Exchanges
  /\ reachable = TRUE
  /\ changes = 0
  /\ FreshProcess
  /\ restarts = 0

-----------------------------------------------------------------------------
(* The exchange and the network *)

\* Fills, transfers, prices and orders: nothing of it comes from this process.
ExchangeChanges(new) ==
  /\ changes < MaxChanges
  /\ new # exchange
  /\ exchange' = new
  /\ changes' = changes + 1
  /\ UNCHANGED <<reachable, accountState, locals, restarts>>

NetworkChanges ==
  /\ reachable' = ~ reachable
  /\ UNCHANGED <<exchange, changes, accountState, locals, restarts>>

-----------------------------------------------------------------------------
(* run_cycle *)

\* The features of the cycle are read: a symbol whose calls fail has none.
BeginCycle(signals) ==
  /\ pc = "idle"
  /\ pc' = "account"
  /\ candidates' = signals
  /\ UNCHANGED <<outside, accountState, funds, risk, next, approvals, restarts>>

\* get_account_info: balances, and the positions that are open.
ReadAccount ==
  /\ pc = "account" /\ reachable
  /\ pc' = "risk"
  /\ funds' =
       [ wallet |-> exchange.wallet, quantity |-> exchange.quantity,
         pnl |-> [s \in Symbols |->
                    exchange.quantity[s] * (exchange.mark[s] - EntryPrice[s])] ]
  /\ UNCHANGED <<outside, accountState, candidates, risk, next, approvals, restarts>>

\* get_position_risk has a row for what is open by now.
ReadRisk ==
  /\ pc = "risk" /\ reachable
  /\ pc' = "orders"
  /\ risk' = [s \in Symbols |->
                IF exchange.quantity[s] = 0 THEN None0
                ELSE [ mark |-> exchange.mark[s],
                       notional |-> exchange.quantity[s] * exchange.mark[s] ]]
  /\ UNCHANGED <<outside, accountState, candidates, funds, next, approvals, restarts>>

\* The rows that the parsers make of the three answers: a risk row without a
\* position is dropped.
Parsed ==
  [ wallet |-> funds.wallet, quantity |-> funds.quantity, pnl |-> funds.pnl,
    risk |-> [s \in Symbols |-> IF funds.quantity[s] = 0 THEN None0 ELSE risk[s]],
    orders |-> exchange.orders ]

AtMostThreshold(n) == Smaller(n, Threshold)

Opened(v) == {s \in Symbols : v.quantity[s] # 0}

\* Mutant of HasExistingState: balances are no state.
HasExistingTrades == Opened(view) # {} \/ view.orders # NoOrders

\* _has_existing_state: a balance, a position or an order has a row.
HasExistingState == view.wallet # 0 \/ Opened(view) # {} \/ view.orders # NoOrders

\* Mutant of MismatchCount: a match leaves the count as it is.
MismatchCountKept(new) ==
  IF HasExistingState /\ view # new THEN AtMostThreshold(mismatches + 1) ELSE mismatches

\* _is_mismatch compares every value of the old rows with the new ones, where
\* there are old ones; a match, or nothing to compare with, starts the count anew.
MismatchCount(new) ==
  IF HasExistingState /\ view # new THEN AtMostThreshold(mismatches + 1) ELSE 0

\* get_open_orders, and the rest of reconcile(), which no await interrupts; then
\* the snapshot is taken and the decisions follow.
ReadOrdersAndReplace ==
  /\ pc = "orders" /\ reachable
  /\ pc' = "decide"
  /\ view' = Parsed
  /\ previous' = view
  /\ mismatches' = MismatchCount(Parsed)
  /\ killSwitch' = (killSwitch \/ mismatches' = Threshold)
  /\ failures' = 0
  /\ funds' = NoFunds /\ risk' = NoRisk
  /\ UNCHANGED <<outside, candidates, next, approvals, restarts>>

CycleOver ==
  /\ pc' = "idle"
  /\ candidates' = NoSignals
  /\ funds' = NoFunds /\ risk' = NoRisk
  /\ next' = 1
  /\ approvals' = {}

\* Mutant of ReadFails: only failures of one cycle are counted.
ReadFailsForgotten ==
  /\ pc \in {"account", "risk", "orders"} /\ ~ reachable
  /\ failures' = 1
  /\ killSwitch' = killSwitch
  /\ CycleOver
  /\ UNCHANGED <<outside, view, previous, mismatches, restarts>>

\* One of the three calls raises: it is counted and raised again, which ends
\* the cycle; the loop sleeps and goes on.
ReadFails ==
  /\ pc \in {"account", "risk", "orders"} /\ ~ reachable
  /\ failures' = AtMostThreshold(failures + 1)
  /\ killSwitch' = (killSwitch \/ failures' = Threshold)
  /\ CycleOver
  /\ UNCHANGED <<outside, view, previous, mismatches, restarts>>

\* A journal append raises: before the reads, where the diagnostic of the cycle or
\* the error of a symbol is recorded, or with a decision.  That ends the cycle in
\* the same way, and nothing counts it.
JournalFails ==
  /\ pc = "account" \/ (pc = "decide" /\ next <= Len(ConfiguredSymbols))
  /\ CycleOver
  /\ UNCHANGED <<outside, accountState, restarts>>

\* gross_notional: the entry price where the risk row is missing.
Notional(v, s) ==
  LET n == IF v.risk[s].notional # 0 THEN v.risk[s].notional
           ELSE v.quantity[s] * EntryPrice[s]
  IN  IF n < 0 THEN -n ELSE n

Gross(v, S) == SumFunctionOnSet([s \in Symbols |-> Notional(v, s)], S \cap Opened(v))
Equity(v) == v.wallet + SumFunctionOnSet(v.pnl, Opened(v))

\* to_snapshot() with the arguments of this branch: no drawdown, daily or weekly,
\* and a stream that never had an event is not stale.
ToSnapshot(v, mismatchCount, failureCount, killed) ==
  LET exposure(S) == IF Equity(v) > 0 THEN Gross(v, S) ELSE 0
  IN  [ equity |-> Equity(v), high |-> Equity(v), weekly |-> 0,
        gross |-> exposure(Symbols),
        symbol |-> [s \in Symbols |-> exposure({s})],
        cluster |-> [c \in Clusters |-> exposure({s \in Symbols : ClusterOf[s] = c})],
        open |-> Cardinality(Opened(v)), stale |-> 0, mismatch |-> mismatchCount > 0,
        failures |-> failureCount, killSwitch |-> killed ]

Snapshot == ToSnapshot(view, mismatches, failures, killSwitch)

\* The first candidate that the kernel approves.
Selected(s) ==
  {i \in DOMAIN candidates[s] :
     /\ Runtime!Approved(candidates[s][i], Snapshot)
     /\ \A j \in 1..(i - 1) : ~ Runtime!Approved(candidates[s][j], Snapshot)}

\* decide(), and the preview of the order in the journal.  The snapshot is that
\* of the cycle: what was approved a symbol ago is not in it.
DecideSymbol ==
  LET s == ConfiguredSymbols[next]
  IN  /\ pc = "decide"
      /\ next <= Len(ConfiguredSymbols)
      /\ approvals' = approvals \cup
           {[signal |-> candidates[s][i],
             notional |-> Runtime!ApprovedNotional(candidates[s][i], Snapshot)] :
              i \in IF Repeated(next) THEN {} ELSE Selected(s)}
      /\ next' = next + 1
      /\ UNCHANGED <<outside, accountState, pc, candidates, funds, risk, restarts>>

EndCycle ==
  /\ pc = "decide"
  /\ next > Len(ConfiguredSymbols)
  /\ CycleOver
  /\ UNCHANGED <<outside, accountState, restarts>>

\* A new process has a new AccountState.
Restart ==
  /\ restarts < MaxRestarts
  /\ restarts' = restarts + 1
  /\ pc' = "idle" /\ candidates' = NoSignals
  /\ funds' = NoFunds /\ risk' = NoRisk
  /\ view' = EmptyView /\ previous' = EmptyView
  /\ mismatches' = 0 /\ failures' = 0 /\ killSwitch' = FALSE
  /\ next' = 1 /\ approvals' = {}
  /\ UNCHANGED outside

Cycle ==
  \/ \E signals \in Candidates : BeginCycle(signals)
  \/ ReadAccount \/ ReadRisk \/ ReadOrdersAndReplace \/ ReadFails
  \/ DecideSymbol \/ EndCycle \/ JournalFails

Next ==
  \/ \E new \in Exchanges : ExchangeChanges(new)
  \/ NetworkChanges
  \/ Cycle
  \/ Restart

Spec == Init /\ [][Next]_vars

\* The loop never ends and REST calls time out.  Of the disk one thing is assumed:
\* however often the journal refuses an append, a cycle comes to its reads again.
FairSpec == Spec /\ WF_vars(Cycle) /\ SF_vars(ReadAccount \/ ReadFails)

-----------------------------------------------------------------------------
(* Properties *)

\* The sums over the rows of a view are amounts.
SumsTyped ==
  pc = "decide" =>
    Equity(view) \in Int /\ \A S \in SUBSET Symbols : Gross(view, S) \in Nat

Typed == TypeOK /\ SumsTyped

\* Whatever was approved in any mode, the configured policy approves too, and of
\* at least that size: deriving the policy of a mode loosens nothing.
OverridesOnlyTighten ==
  \A a \in approvals :
    Approved(a.signal, Snapshot) /\ a.notional <= ApprovedNotional(a.signal, Snapshot)

\* In live_micro an approval is for a core symbol, only beside no open position,
\* of at most five percent of the equity, and with what is held at most twenty.
LiveMicroLimits ==
  LiveMicro => \A a \in approvals :
    /\ In(a.signal.symbol, Core) /\ ~ In(a.signal.symbol, Experimental)
    /\ Opened(view) = {}
    /\ 100 * a.notional <= 5 * Equity(view)
    /\ 100 * (a.notional + Gross(view, Symbols)) <= 20 * Equity(view)

\* Nothing is approved on an account that moved: an approval rests on a set of reads
\* that equals the set before it, and changes in between the three reads of a set are
\* changes.  The exception is a set after none, or after one without a single row,
\* which the process cannot tell from none.
ApprovalsRestOnRepeatedView ==
  approvals # {} => previous \in {EmptyView, view}

\* An exchange that stays out of reach halts the process: failures are counted
\* across the cycles they end.
OutageHalts == <>[](~ reachable) => <>[]killSwitch

\* Once the account rests, the mismatch veto ends, unless it has become a halt.
VetoEnds == <>[](killSwitch \/ mismatches = 0)

-----------------------------------------------------------------------------
(* What the documents and names say and the code does not do *)

\* A mode's greatest number of open positions bounds what a cycle approves.
ApprovalsFitTogether ==
  approvals # {} =>
    Cardinality(approvals) + Cardinality(Opened(view))
      <= Tightened(MaxOpenPositions, LiveMicroMaxOpenPositions)
=============================================================================
