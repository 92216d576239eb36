----------------------------- MODULE TradeSlots -----------------------------
(***************************************************************************)
(* What the paper book promises about its slots, whatever the prices, the  *)
(* signals, the slippage and the exits are: a bounded number of symbols is *)
(* held, a symbol that was let go rests for a number of cycles, and a book *)
(* that has tripped takes nothing new.  PaperTrading implements it.        *)
(***************************************************************************)
EXTENDS Naturals, FiniteSets

CONSTANTS Symbols, Cap, Rest

VARIABLES
  held,     \* symbols with a position
  wait,     \* cycles for which a symbol rests yet
  tripped   \* the kill switch

slots == <<held, wait, tripped>>

Init ==
  /\ held = {}
  /\ wait = [s \in Symbols |-> 0]
  /\ tripped = FALSE

\* A cycle begins: time passes for all of them.
Tick ==
  /\ wait' = [s \in Symbols |-> IF wait[s] = 0 THEN 0 ELSE wait[s] - 1]
  /\ UNCHANGED held

Take(s) ==
  /\ s \notin held
  /\ wait[s] = 0
  /\ ~ tripped
  /\ Cardinality(held) < Cap
  /\ held' = held \cup {s}
  /\ UNCHANGED wait

\* Letting go starts the rest; so does an order too small to hold anything.
LetGo(s) ==
  /\ s \in held \/ wait[s] = 0
  /\ held' = held \ {s}
  /\ wait' = [wait EXCEPT ![s] = Rest]

\* Whatever happens in the book, a switch that tripped stays.
Next ==
  /\ \/ Tick
     \/ \E s \in Symbols : Take(s) \/ LetGo(s)
     \/ UNCHANGED <<held, wait>>
  /\ tripped => tripped'

Spec == Init /\ [][Next]_slots
=============================================================================
