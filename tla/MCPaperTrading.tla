--------------------------- MODULE MCPaperTrading ---------------------------
(* Two core symbols, the shares and periods of configs/*.example.yaml scaled *)
(* to a session of a few cycles.                                             *)
EXTENDS PaperTrading, TLC

CONSTANTS btc, eth

MCSymbols == {btc, eth}
MCOrder == <<btc, eth>>
MCClusters == {"core"}
MCClusterOf == [s \in MCSymbols |-> "core"]
MCClusterCap == [c \in MCClusters |-> 80]
MCTierEnabled == [s \in MCSymbols |-> TRUE]
MCTierNotional == [s \in MCSymbols |-> 25]
MCDailySoft == -15
MCGateSoft == -15
MCDailyHard == -30
MCWeeklyHard == -60

Signal(s, side, stop) ==
  [side |-> side, stop |-> stop, symbol |-> s, conviction |-> 95, bracketCap |-> NoCap]

\* Nothing, a wide and a tight long for both, and a short for the second.
MCCandidates ==
  { [s \in MCSymbols |-> <<>>],
    [s \in MCSymbols |-> <<Signal(s, "BUY", 80), Signal(s, "SELL", 200)>>],
    btc :> <<>> @@ eth :> <<Signal(eth, "SELL", 400)>> }
=============================================================================
