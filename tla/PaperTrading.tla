---------------------------- MODULE PaperTrading ----------------------------
(***************************************************************************)
(* The decision loop in paper mode: DecisionRuntimeService.run_cycle, the  *)
(* PaperExecutionService and its account, the PositionExitEvaluator, and   *)
(* DecisionEngine.decide from the candidates on.                           *)
(*                                                                         *)
(* A cycle reads the features of all symbols, marks the book to market,    *)
(* closes what an exit rule demands, and then decides symbol by symbol on  *)
(* an account that the previous fill has just changed.  Reading is the     *)
(* only await; a read that fails leaves the symbol without a feature.      *)
(*                                                                         *)
(* Quantities are whole quanta (1e-8 in the code), prices whole ticks,     *)
(* money is ticks times quanta: products are exact and divisions rounded   *)
(* as the code rounds them.  Time is in cycles.                            *)
(***************************************************************************)
EXTENDS RiskKernel, Sequences, FiniteSets, Functions

CONSTANTS
  SymbolOrder,        \* configured_symbols(), every symbol once
  Prices,             \* reference prices
  NoFeature,          \* the features of a symbol could not be read
  Candidates,         \* what the strategies may propose in a cycle: a set of
                      \* functions from symbols to sequences of signals
  FundingRates,       \* in basis points
  InitialBalance,
  Slippage,           \* paper_fill_slippage, in tenths of a percent
  FeeBps,
  FundingInterval, Cooldown, MaxHold,
  StopLoss, TakeProfit, TrailingStop,  \* ExitConfig, in tenths of a percent
  GateSoft,           \* RiskPolicy().daily_drawdown_soft_pct: the default,
                      \* whatever DailySoft is configured
  DustLimit,          \* entry notional below which no exit is considered
  Never,              \* no such time
  MaxCycles           \* bound: cycles

ASSUME PaperAssumption ==
  /\ IsFiniteSet(Symbols)
  /\ SymbolOrder \in Seq(Symbols)
  /\ \A s \in Symbols : \E i \in 1..Len(SymbolOrder) : SymbolOrder[i] = s
  /\ \A i, j \in 1..Len(SymbolOrder) : SymbolOrder[i] = SymbolOrder[j] => i = j
  /\ Prices \subseteq Nat \ {0}
  /\ NoFeature \notin Int /\ Never \notin Int
  /\ Candidates \subseteq [Symbols -> Seq(SignalCandidate)]
  /\ \A c \in Candidates, s \in Symbols : \A i \in DOMAIN c[s] : c[s][i].symbol = s
  /\ FundingRates \subseteq Int
  /\ InitialBalance \in Nat
  /\ Slippage \in 0..999
  /\ FeeBps \in Nat
  /\ FundingInterval \in Nat /\ Cooldown \in Nat /\ MaxHold \in Nat
  /\ StopLoss \in Nat /\ TakeProfit \in Nat /\ TrailingStop \in Nat
  /\ GateSoft \in Int
  /\ DustLimit \in Nat
  /\ MaxCycles \in Nat

VARIABLES
  now,           \* cycle_started_at
  pc,            \* "idle", "exits", "decide": the loops of run_cycle
  price,         \* reference price of the features of this cycle
  candidates,    \* signals of the strategies in this cycle
  exits,         \* exit decisions not yet applied
  next,          \* index of the symbol to decide next
  openSymbols,   \* open when the decisions began
  gateClosed,    \* the drawdown was beyond GateSoft when they began
  position,      \* state.positions: quantity, entry and mark price
  meta,          \* position_metadata: time of entry and peak price
  lastFunding,   \* last_funding_applied_at
  lastExit,      \* last_exit_time
  realizedPnl, feesPaid, fundingPnl,
  sessionHigh,   \* session_high_equity
  killSwitch     \* state.kill_switch_active

cycle  == <<pc, price, candidates, exits, next, openSymbols, gateClosed>>
book   == <<position, meta, lastExit>>
ledger == <<realizedPnl, feesPaid, fundingPnl>>
vars   == <<now, cycle, book, lastFunding, ledger, sessionHigh, killSwitch>>

NoMeta == [since |-> Never, peak |-> 0]
Flat == [quantity |-> 0, entry |-> 0, mark |-> 0]

TypeOK ==
  /\ now \in 0..MaxCycles
  /\ pc \in {"idle", "exits", "decide"}
  /\ price \in [Symbols -> Prices \cup {NoFeature}]
  /\ candidates \in [Symbols -> Seq(SignalCandidate)]
  /\ exits \subseteq Symbols
  /\ next \in 1..(Len(SymbolOrder) + 1)
  /\ openSymbols \subseteq Symbols
  /\ gateClosed \in BOOLEAN
  /\ position \in [Symbols -> [quantity : Int, entry : Int, mark : Int]]
  /\ meta \in [Symbols -> [since : 0..MaxCycles \cup {Never}, peak : Int]]
  /\ lastFunding \in [Symbols -> 0..MaxCycles \cup {Never}]
  /\ lastExit \in [Symbols -> 0..MaxCycles \cup {Never}]
  /\ realizedPnl \in Int /\ feesPaid \in Int /\ fundingPnl \in Int
  /\ sessionHigh \in Int
  /\ killSwitch \in BOOLEAN

NoFeatures == [s \in Symbols |-> NoFeature]

Init ==
  /\ now = 0
  /\ pc = "idle"
  /\ price = NoFeatures
  /\ candidates = [s \in Symbols |-> <<>>]
  /\ exits = {}
  /\ next = 1
  /\ openSymbols = {}
  /\ gateClosed = FALSE
  /\ position = [s \in Symbols |-> Flat]
  /\ meta = [s \in Symbols |-> NoMeta]
  /\ lastFunding = [s \in Symbols |-> Never]
  /\ lastExit = [s \in Symbols |-> Never]
  /\ realizedPnl = 0
  /\ feesPaid = 0
  /\ fundingPnl = 0
  /\ sessionHigh = InitialBalance
  /\ killSwitch = FALSE

-----------------------------------------------------------------------------
(* Arithmetic *)

Magnitude(n) == IF n < 0 THEN -n ELSE n
Larger(m, n) == IF m >= n THEN m ELSE n
Sign(n) == IF n > 0 THEN 1 ELSE IF n < 0 THEN -1 ELSE 0

\* quantize(ROUND_HALF_UP): half away from zero.
HalfUp(n, d) == Sign(n) * ((2 * Magnitude(n) + d) \div (2 * d))

\* quantize() with the default context, ROUND_HALF_EVEN; n is not negative.
HalfEven(n, d) ==
  LET q == n \div d
      r == 2 * (n % d)
  IN  IF r > d \/ (r = d /\ q % 2 = 1) THEN q + 1 ELSE q

-----------------------------------------------------------------------------
(* The account *)

IsOpen(s) == position[s].quantity # 0
OpenSymbols == {s \in Symbols : IsOpen(s)}

Unrealized(p) == (p.mark - p.entry) * p.quantity
GrossNotional(p) == Magnitude(p.quantity * p.mark)

\* _sync_balance: the wallet is the sum of the ledgers.
Wallet == InitialBalance + realizedPnl + fundingPnl - feesPaid
Equity == Wallet + SumFunctionOnSet([s \in Symbols |-> Unrealized(position[s])], Symbols)

GrossOf(S) == SumFunctionOnSet([s \in Symbols |-> GrossNotional(position[s])], S)

\* account_state().to_snapshot(): nothing mismatches, no stream is stale, and
\* nobody computes a weekly drawdown.  Exposures are zero without equity.
Snapshot ==
  LET exposure(S) == IF Equity > 0 THEN GrossOf(S) ELSE 0
  IN  [ equity |-> Equity, high |-> sessionHigh, weekly |-> 0,
        gross |-> exposure(Symbols),
        symbol |-> [s \in Symbols |-> exposure({s})],
        cluster |-> [c \in Clusters |-> exposure({s \in Symbols : ClusterOf[s] = c})],
        open |-> Cardinality(OpenSymbols), stale |-> 0, mismatch |-> FALSE,
        failures |-> 0, killSwitch |-> killSwitch ]

\* account_state() raises the high watermark, _sync_balance trips on a wallet
\* that is spent.
Settle(synced) ==
  /\ sessionHigh' = Larger(sessionHigh, Equity')
  /\ killSwitch' = (killSwitch \/ (synced /\ Wallet' <= 0))

-----------------------------------------------------------------------------
(* mark_to_market and the exit rules *)

Marked(s, p) == [position[s] EXCEPT !.mark = p]

\* The peak follows the price in favour of the position.
Peaked(s, p) ==
  [meta[s] EXCEPT !.peak = IF position[s].quantity > 0 THEN Larger(@, p) ELSE Smaller(@, p)]

\* The first interval of a symbol begins when its funding is first seen.
FundingDue(s, rate) ==
  /\ rate # 0
  /\ \/ FundingInterval = 0
     \/ lastFunding[s] # Never /\ now' - lastFunding[s] >= FundingInterval

FundingSeen(s, rate) ==
  rate # 0 /\ (FundingInterval = 0 \/ lastFunding[s] = Never \/ FundingDue(s, rate))

FundingDelta(s, p, rate) ==
  IF FundingDue(s, rate)
  THEN - HalfUp(Magnitude(position[s].quantity * p) * rate * Sign(position[s].quantity), 10000)
  ELSE 0

\* _check_exit on a marked position.  The scores that _signal_reversal reads
\* are still zero here: only decide() computes them.
ExitDue(p, m, time) ==
  LET entryNotional == Magnitude(p.entry * p.quantity)
      retrace == IF p.quantity > 0 THEN m.peak - p.mark ELSE p.mark - m.peak
  IN  /\ entryNotional >= DustLimit
      /\ \/ 1000 * Unrealized(p) <= - StopLoss * entryNotional
         \/ 1000 * Unrealized(p) >= TakeProfit * entryNotional
         \/ m # NoMeta /\ time - m.since >= MaxHold
         \/ m # NoMeta /\ m.peak > 0 /\ 1000 * retrace >= TrailingStop * m.peak

\* The reads of a cycle, mark_to_market and evaluate(), which runs on the
\* marked book before any exit is applied.
BeginCycle(prices, signals, rate) ==
  LET marked == {s \in OpenSymbols : prices[s] # NoFeature}
  IN  /\ pc = "idle"
      /\ now < MaxCycles
      /\ now' = now + 1
      /\ price' = prices
      /\ candidates' = signals
      /\ position' = [s \in Symbols |-> IF s \in marked THEN Marked(s, prices[s])
                                        ELSE position[s]]
      /\ meta' = [s \in Symbols |-> IF s \in marked /\ meta[s] # NoMeta
                                    THEN Peaked(s, prices[s]) ELSE meta[s]]
      /\ lastFunding' = [s \in Symbols |-> IF s \in marked /\ FundingSeen(s, rate)
                                           THEN now' ELSE lastFunding[s]]
      /\ exits' = {s \in marked : ExitDue(position'[s], meta'[s], now')}
      /\ pc' = "exits"
      /\ UNCHANGED <<next, openSymbols, gateClosed, lastExit, realizedPnl, feesPaid>>
      /\ LET delta == SumFunctionOnSet([s \in marked |-> FundingDelta(s, prices[s], rate)], marked)
         IN  fundingPnl' = fundingPnl + delta /\ Settle(delta # 0)

-----------------------------------------------------------------------------
(* apply_decision *)

\* _apply_slippage: a buyer pays more, a seller gets less.
FillPrice(s, side) ==
  HalfUp(price[s] * (IF side = "BUY" THEN 1000 + Slippage ELSE 1000 - Slippage), 1000)

\* Mutant of NewEntry: what turns a position keeps its entry price.
NewEntryKept(old, signed, fill) ==
  IF old.quantity = 0 THEN fill
  ELSE IF Magnitude(signed) = Magnitude(old.quantity) THEN 0 ELSE old.entry

\* Entry price after a fill: weighted when it adds, the old one when it
\* reduces, none when it closes, the fill price when it turns the position.
NewEntry(old, signed, fill) ==
  LET m == Magnitude(old.quantity)
      n == Magnitude(signed)
  IN  IF old.quantity = 0 \/ old.quantity * signed > 0
      THEN IF m + n = 0 THEN 0 ELSE HalfUp(m * old.entry + n * fill, m + n)
      ELSE IF n < m THEN old.entry ELSE IF n = m THEN 0 ELSE fill

RealizedDelta(old, signed, fill) ==
  IF old.quantity = 0 \/ old.quantity * signed > 0 THEN 0
  ELSE (fill - old.entry) * Smaller(Magnitude(old.quantity), Magnitude(signed))
       * Sign(old.quantity)

Fill(s, side, notional) ==
  LET fill == FillPrice(s, side)
      quantity == HalfEven(notional, fill)
      signed == IF side = "BUY" THEN quantity ELSE - quantity
      old == position[s]
      total == old.quantity + signed
  IN  /\ position' = [position EXCEPT ![s] =
           [quantity |-> total, entry |-> NewEntry(old, signed, fill), mark |-> fill]]
      /\ meta' = [meta EXCEPT ![s] =
           IF total = 0 THEN NoMeta
           ELSE IF old.quantity = 0 THEN [since |-> now, peak |-> fill] ELSE @]
      /\ lastExit' = [lastExit EXCEPT ![s] = IF total = 0 THEN now ELSE @]
      /\ realizedPnl' = realizedPnl + RealizedDelta(old, signed, fill)
      /\ feesPaid' = feesPaid + HalfUp(quantity * fill * FeeBps, 10000)
      /\ UNCHANGED fundingPnl
      /\ Settle(TRUE)

-----------------------------------------------------------------------------
(* The exits, then the decisions *)

ClosingSide(s) == IF position[s].quantity > 0 THEN "SELL" ELSE "BUY"

\* Mutant of ApplyExit: the notional is taken at the entry price.
ApplyExitAtEntry(s) ==
  /\ pc = "exits" /\ s \in exits
  /\ Fill(s, ClosingSide(s), Magnitude(position[s].entry * position[s].quantity))
  /\ exits' = exits \ {s}
  /\ UNCHANGED <<now, pc, price, candidates, next, openSymbols, gateClosed, lastFunding>>

\* An exit decision asks for the position's value at its mark price.  The order
\* of the exits is that of the positions dict.
ApplyExit(s) ==
  /\ pc = "exits"
  /\ s \in exits
  /\ Fill(s, ClosingSide(s), GrossNotional(position[s]))
  /\ exits' = exits \ {s}
  /\ UNCHANGED <<now, pc, price, candidates, next, openSymbols, gateClosed, lastFunding>>

\* The exits are done: what the loop over the symbols knows beforehand.
StartDecisions ==
  /\ pc = "exits"
  /\ exits = {}
  /\ pc' = "decide"
  /\ next' = 1
  /\ openSymbols' = OpenSymbols
  /\ gateClosed' = DrawdownReached(Snapshot, GateSoft)
  /\ UNCHANGED <<now, price, candidates, exits, book, lastFunding, ledger,
                 sessionHigh, killSwitch>>

InCooldown(s) == lastExit[s] # Never /\ now - lastExit[s] < Cooldown

\* Mutant of MayEnter: what is already open is left to the risk caps.
MayEnterAgain(s) ==
  /\ price[s] # NoFeature
  /\ ~ InCooldown(s)
  /\ ~ (openSymbols # {} /\ gateClosed)

\* Mutant of MayEnter: no cooldown.
MayEnterWarm(s) ==
  /\ price[s] # NoFeature
  /\ s \notin openSymbols
  /\ ~ (openSymbols # {} /\ gateClosed)

MayEnter(s) ==
  /\ price[s] # NoFeature
  /\ ~ InCooldown(s)
  /\ s \notin openSymbols
  /\ ~ (openSymbols # {} /\ gateClosed)

\* The candidates decide() may execute; the first of them is taken.
Approvals(s) == {i \in DOMAIN candidates[s] : Approved(candidates[s][i], Snapshot)}
Selected(s) == candidates[s][CHOOSE i \in Approvals(s) : \A j \in Approvals(s) : i <= j]

\* Mutant of Enter: the snapshot counts the positions of the cycle's beginning.
EnterOnOldSnapshot(s) ==
  LET old == [Snapshot EXCEPT !.open = Cardinality(openSymbols)]
      approvals == {i \in DOMAIN candidates[s] : Approved(candidates[s][i], old)}
  IN  /\ MayEnter(s)
      /\ \E i \in approvals :
           Fill(s, candidates[s][i].side, ApprovedNotional(candidates[s][i], old))

Enter(s) ==
  /\ MayEnter(s)
  /\ Approvals(s) # {}
  /\ Fill(s, Selected(s).side, ApprovedNotional(Selected(s), Snapshot))

NoTrade(s) ==
  /\ ~ (MayEnter(s) /\ Approvals(s) # {})
  /\ UNCHANGED <<book, ledger, sessionHigh, killSwitch>>

DecideSymbol ==
  /\ pc = "decide"
  /\ next <= Len(SymbolOrder)
  /\ Enter(SymbolOrder[next]) \/ NoTrade(SymbolOrder[next])
  /\ next' = next + 1
  /\ UNCHANGED <<now, pc, price, candidates, exits, openSymbols, gateClosed, lastFunding>>

\* run_cycle returns and the loop sleeps; the locals of the cycle are gone.
EndCycle ==
  /\ pc = "decide"
  /\ next > Len(SymbolOrder)
  /\ pc' = "idle"
  /\ price' = NoFeatures
  /\ candidates' = [s \in Symbols |-> <<>>]
  /\ next' = 1
  /\ openSymbols' = {}
  /\ gateClosed' = FALSE
  /\ UNCHANGED <<now, exits, book, lastFunding, ledger, sessionHigh, killSwitch>>

Next ==
  \/ \E prices \in [Symbols -> Prices \cup {NoFeature}], signals \in Candidates,
        rate \in FundingRates : BeginCycle(prices, signals, rate)
  \/ \E s \in Symbols : ApplyExit(s)
  \/ StartDecisions
  \/ DecideSymbol
  \/ EndCycle

Spec == Init /\ [][Next]_vars

-----------------------------------------------------------------------------
(* Properties *)

\* Never more open positions than the policy allows, however many symbols get
\* a signal in the same cycle: each decision sees the fills before it.
PositionCap == Cardinality(OpenSymbols) <= MaxOpenPositions

Opens(s) == position[s].quantity = 0 /\ position'[s].quantity # 0

\* Whatever the signals, nothing is opened while the account is halted by its
\* kill switch or by a hard drawdown that fills of this very cycle may have
\* brought about.
NoEntryWhenHalted ==
  [][\A s \in Symbols : Opens(s) =>
       ~ killSwitch /\ ~ DrawdownReached(Snapshot, DailyHard)]_vars

\* The book never outgrows the soft gross cap by an entry; half a quantum is
\* the rounding of the fill.
EntriesFitTheCap ==
  [][\A s \in Symbols : Opens(s) =>
       100 * GrossOf(Symbols)' <= GrossSoft * Equity + 100 * position'[s].mark]_vars

\* A fill costs its fee and revalues what was held before at the fill price; it
\* neither makes nor loses money otherwise, whether it opens, reduces, closes
\* or turns the position.
FillsPreserveEquity ==
  [][\A s \in Symbols : position'[s].quantity # position[s].quantity =>
       Equity' = Equity - (feesPaid' - feesPaid)
                 + position[s].quantity * (position'[s].mark - position[s].mark)]_vars

\* No pyramiding: a fill on an open position leaves less of it.
FillsOnlyReduce ==
  [][\A s \in Symbols : IsOpen(s) =>
       Magnitude(position'[s].quantity) <= Magnitude(position[s].quantity)]_vars

\* Once the exits of a cycle are applied, no position that could be priced is
\* beyond its stop loss, its profit target, its trailing stop or its time.
SurvivorsWithinRules ==
  pc = "decide" => \A s \in openSymbols :
    price[s] # NoFeature => ~ ExitDue(position[s], meta[s], now)

-----------------------------------------------------------------------------
(* The book as an implementation of its slots *)

\* Cycles for which is_in_cooldown keeps a symbol out yet.
RestLeft(s) == IF lastExit[s] = Never THEN 0 ELSE Larger(0, Cooldown - (now - lastExit[s]))

Slots == INSTANCE TradeSlots WITH
  Cap <- MaxOpenPositions, Rest <- Cooldown,
  held <- OpenSymbols, wait <- [s \in Symbols |-> RestLeft(s)], tripped <- killSwitch

\* Every step of the book, the fills that turn, reduce or leave a remainder and the
\* cycle that marks and collects funding included, is one the slots allow.
ImplementsSlots == Slots!Spec

-----------------------------------------------------------------------------
(* What the code says and does not do *)

\* An exit decision is for "closing" the position.
ExitCloses == [][\A s \in exits : s \notin exits' => ~ IsOpen(s)']_vars
=============================================================================
