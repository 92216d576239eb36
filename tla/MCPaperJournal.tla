--------------------------- MODULE MCPaperJournal ---------------------------
(* Two symbols and one reason to close a position.                           *)
EXTENDS PaperJournal

CONSTANTS btc, eth, stop

MCSymbols == {btc, eth}
MCOrder == <<btc, eth>>
MCReasons == {stop}
=============================================================================
