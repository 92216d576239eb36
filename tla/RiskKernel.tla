----------------------------- MODULE RiskKernel -----------------------------
(***************************************************************************)
(* RiskKernel.evaluate: what a candidate trade may risk of an account.     *)
(*                                                                         *)
(* Money is an integer; exposures, which the code keeps as fractions of    *)
(* the equity, are amounts of money here, and a comparison of a fraction   *)
(* with a cap is one of amounts.  Caps and conviction are in percent,      *)
(* drawdowns in tenths of a percent, risk and stop distance in basis       *)
(* points.  Amounts are rounded down where the code has a float.           *)
(***************************************************************************)
EXTENDS Integers

CONSTANTS
  Symbols,
  Clusters,
  ClusterOf,         \* symbol_clusters
  ClusterCap,        \* policy.cluster_caps, NoCap for a cluster not in it
  TierEnabled,       \* of the tier of each symbol
  TierNotional,      \* max_symbol_notional_pct of the tier of each symbol
  GrossSoft, GrossHard, SymbolCap, MaxOpenPositions,
  DailySoft, DailyHard, WeeklyHard,
  RiskDefault, RiskMax,
  BracketBuffer,     \* share of a leverage bracket that may be used
  NoCap              \* None where a cap is optional

ASSUME PolicyAssumption ==
  /\ ClusterOf \in [Symbols -> Clusters]
  /\ ClusterCap \in [Clusters -> Nat \cup {NoCap}]
  /\ NoCap \notin Int
  /\ TierEnabled \in [Symbols -> BOOLEAN]
  /\ TierNotional \in [Symbols -> Nat]
  /\ GrossSoft \in Nat /\ GrossHard \in Nat /\ SymbolCap \in Nat
  /\ MaxOpenPositions \in Nat
  /\ DailySoft \in Int /\ DailyHard \in Int /\ WeeklyHard \in Int
  /\ RiskDefault \in Nat /\ RiskMax \in Nat
  /\ BracketBuffer \in Nat

Sides == {"BUY", "SELL"}

\* strategy.generate(): the stop distance is at least 0.6 percent in all three.
SignalCandidate ==
  [ symbol : Symbols, side : Sides, conviction : 0..100, stop : Nat \ {0},
    bracketCap : Nat \cup {NoCap} ]

\* Exposures are amounts; high is what the drawdown is measured from.
AccountSnapshot ==
  [ equity : Int, high : Int, weekly : Int, gross : Nat, symbol : [Symbols -> Nat],
    cluster : [Clusters -> Nat], open : Nat, stale : Nat, mismatch : BOOLEAN,
    failures : Nat, killSwitch : BOOLEAN ]

Smaller(m, n) == IF m <= n THEN m ELSE n
AtMost(n, cap) == IF cap = NoCap THEN n ELSE Smaller(n, cap)
Percent(p, n) == (p * n) \div 100

\* daily_drawdown_pct <= limit; without a high the drawdown is zero.
DrawdownReached(account, limit) ==
  IF account.high > 0
  THEN 1000 * (account.equity - account.high) <= limit * account.high
  ELSE 0 <= limit

\* No new risk whatever the signal.
Halted(account) ==
  \/ account.killSwitch
  \/ account.mismatch
  \/ account.failures > 0
  \/ account.stale > 90
  \/ DrawdownReached(account, DailyHard)
  \/ account.weekly <= WeeklyHard

\* Risk in basis points, halved in a soft drawdown.
TradeRiskBudget(signal, account) ==
  LET full == Smaller((RiskDefault * signal.conviction) \div 100, RiskMax)
  IN  IF DrawdownReached(account, DailySoft) THEN full \div 2 ELSE full

SizeAtRisk(signal, account) ==
  (account.equity * TradeRiskBudget(signal, account)) \div signal.stop

\* What is left of the soft gross cap, of the symbol's and of its cluster's.
GrossHeadroom(account) == Percent(GrossSoft, account.equity) - account.gross
SymbolHeadroom(account, s) == Percent(SymbolCap, account.equity) - account.symbol[s]
ClusterHeadroom(account, s) ==
  LET c == ClusterOf[s]
  IN  IF ClusterCap[c] = NoCap THEN NoCap
      ELSE Percent(ClusterCap[c], account.equity) - account.cluster[c]

BracketRoom(signal) ==
  IF signal.bracketCap = NoCap THEN NoCap ELSE Percent(BracketBuffer, signal.bracketCap)

\* Mutant of ApprovedNotional: the caps count the new position alone.
ApprovedNotionalPerTrade(signal, account) ==
  LET sized == Smaller(SizeAtRisk(signal, account),
                       Percent(TierNotional[signal.symbol], account.equity))
  IN  AtMost(Smaller(sized, Percent(GrossSoft, account.equity)), BracketRoom(signal))

\* The minimum of the caps.  Each of the early returns on an exhausted headroom
\* is a minimum that is not positive.
ApprovedNotional(signal, account) ==
  LET s == signal.symbol
      sized == Smaller(SizeAtRisk(signal, account),
                       Percent(TierNotional[s], account.equity))
      room  == Smaller(GrossHeadroom(account), SymbolHeadroom(account, s))
  IN  AtMost(AtMost(Smaller(sized, room), ClusterHeadroom(account, s)),
             BracketRoom(signal))

Rejected(signal, account) ==
  \/ 100 * account.gross >= GrossHard * account.equity
  \/ account.open >= MaxOpenPositions
  \/ ~ TierEnabled[signal.symbol]
  \/ ApprovedNotional(signal, account) <= 0

\* Mutant of Approved: only the signal is looked at, not the state of the account.
ApprovedUnlessRejected(signal, account) == ~ Rejected(signal, account)

\* evaluate() returns APPROVED, with ApprovedNotional.
Approved(signal, account) == ~ Halted(account) /\ ~ Rejected(signal, account)
=============================================================================
