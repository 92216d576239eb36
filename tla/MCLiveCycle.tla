---------------------------- MODULE MCLiveCycle -----------------------------
(* Two core symbols, one of them experimental too, whose configured share is *)
(* below and above that of live_micro.                                       *)
EXTENDS LiveCycle, TLC

CONSTANTS btc, eth, sol

MCSymbols == {btc, eth, sol}
MCCore == <<btc, eth, sol>>
MCLiquidAlt == <<>>
MCExperimental == <<sol>>
MCClusters == {"core", "experimental"}
MCClusterOf == [s \in MCSymbols |-> IF s = sol THEN "experimental" ELSE "core"]
MCClusterCap == [c \in MCClusters |-> IF c = "core" THEN 80 ELSE NoCap]
MCTierEnabled == [s \in MCSymbols |-> TRUE]
MCTierNotional == [s \in MCSymbols |-> IF s = eth THEN 3 ELSE 25]
MCDailySoft == -15
MCDailyHard == -30
MCWeeklyHard == -60

Signal(s, stop) ==
  [stop |-> stop, symbol |-> s, side |-> "BUY", conviction |-> 95, bracketCap |-> NoCap]

MCCandidates == {[s \in MCSymbols |-> <<Signal(s, 80)>>]}
MCEntryPrice == [s \in MCSymbols |-> 100]

At(wallet, quantity, mark, orders) ==
  [ wallet |-> wallet, quantity |-> [s \in MCSymbols |-> IF s = btc THEN quantity ELSE 0],
    mark |-> [s \in MCSymbols |-> IF s = btc THEN mark ELSE 100], orders |-> orders ]

\* One of the symbols is held or not, at two prices; a loss; an order; an account
\* without rows.
MCExchanges ==
  { At(10000, 0, 100, "none"), At(10000, 0, 100, "one"), At(10000, 3, 100, "one"),
    At(10000, 3, 110, "one"), At(9000, 0, 110, "none"), At(0, 0, 100, "none") }
=============================================================================
