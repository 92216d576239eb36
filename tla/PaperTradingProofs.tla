------------------------- MODULE PaperTradingProofs -------------------------
(***************************************************************************)
(* What a cycle of paper trading may open, for every policy, every set of  *)
(* symbols and candidates, all prices and any slippage; and what a fill    *)
(* does to the position, the exposure and the equity.                      *)
(*                                                                         *)
(* The first part uses nothing of the amounts: marking keeps the           *)
(* quantities, an exit is applied to a symbol that is open, and an entry   *)
(* is approved on the account as the fill before it has left it.  So only  *)
(* an entry opens a symbol, one at a time, and the kernel has counted the  *)
(* open ones just before.                                                  *)
(*                                                                         *)
(* The second part is about the amounts: every sum over the book is one,   *)
(* a pending exit is of a position marked at the price it is filled near,  *)
(* and an entry never meets a position, because no symbol has two turns.   *)
(***************************************************************************)
EXTENDS PaperTrading, RiskKernelProofs, SequenceTheorems

Shaped ==
  /\ DOMAIN position = Symbols
  /\ \A s \in Symbols : "quantity" \in DOMAIN position[s]

\* Exits are pending of open positions, and only until the decisions begin.
ExitsOpen ==
  /\ exits \subseteq OpenSymbols
  /\ pc # "exits" => exits = {}

BookInv == Shaped /\ ExitsOpen /\ PositionCap

\* What a fill trades, and what it leaves.
Signed(s, side, notional) ==
  IF side = "BUY" THEN HalfEven(notional, FillPrice(s, side))
                  ELSE - HalfEven(notional, FillPrice(s, side))
Total(s, side, notional) == position[s].quantity + Signed(s, side, notional)
Filled(s, side, notional) ==
  [ quantity |-> Total(s, side, notional),
    entry |-> NewEntry(position[s], Signed(s, side, notional), FillPrice(s, side)),
    mark |-> FillPrice(s, side) ]

LEMMA FillShape ==
  ASSUME NEW s, NEW side, NEW notional, Fill(s, side, notional)
  PROVE  /\ position' = [position EXCEPT ![s] = Filled(s, side, notional)]
         /\ lastExit' = [lastExit EXCEPT ![s] = IF Total(s, side, notional) = 0 THEN now
                                                ELSE lastExit[s]]
         /\ killSwitch => killSwitch'
<1>1. position' = [position EXCEPT ![s] = Filled(s, side, notional)]
  BY DEF Fill, Filled, Total, Signed
<1>2. lastExit' = [lastExit EXCEPT ![s] = IF Total(s, side, notional) = 0 THEN now
                                         ELSE lastExit[s]]
  BY DEF Fill, Total, Signed
<1>3. killSwitch => killSwitch'
  <2>1. killSwitch' = (killSwitch \/ (TRUE /\ Wallet' <= 0))
    BY DEF Fill, Settle
  <2> QED
    BY Zenon, <2>1
<1> QED
  BY <1>1, <1>2, <1>3

\* A fill changes the position of its symbol and no other.
LEMMA FillElsewhere ==
  ASSUME Shaped, NEW s, NEW side, NEW notional, Fill(s, side, notional)
  PROVE  /\ Shaped'
         /\ \A x \in Symbols : x # s => position'[x] = position[x]
<1> DEFINE new == Filled(s, side, notional)
<1>1. position' = [position EXCEPT ![s] = new]
  BY FillShape
<1>2. "quantity" \in DOMAIN new
  BY DEF Filled
<1> HIDE DEF new
<1>3. DOMAIN position' = Symbols /\ \A x \in Symbols : x # s => position'[x] = position[x]
  BY <1>1 DEF Shaped
<1>4. \A x \in Symbols : x = s => position'[x] = new
  BY <1>1 DEF Shaped
<1> QED
  BY <1>2, <1>3, <1>4 DEF Shaped

\* Marking to market leaves every quantity as it is.
LEMMA BeginKeepsQuantities ==
  ASSUME Shaped, NEW prices, NEW signals, NEW rate, BeginCycle(prices, signals, rate)
  PROVE  /\ Shaped'
         /\ \A s \in Symbols : position'[s].quantity = position[s].quantity
         /\ ExitsOpen'
<1> DEFINE marked == {s \in OpenSymbols : prices[s] # NoFeature}
<1>1. position' = [s \in Symbols |-> IF s \in marked THEN Marked(s, prices[s]) ELSE position[s]]
  BY DEF BeginCycle
<1>2. exits' \subseteq marked
  BY DEF BeginCycle
<1>3. \A s \in Symbols : /\ position'[s].quantity = position[s].quantity
                         /\ "quantity" \in DOMAIN position'[s]
  BY <1>1 DEF Marked, Shaped
<1>4. OpenSymbols' = OpenSymbols
  BY <1>3 DEF OpenSymbols, IsOpen
<1>5. pc' = "exits"
  BY DEF BeginCycle
<1> QED
  BY <1>1, <1>2, <1>3, <1>4, <1>5 DEF Shaped, ExitsOpen

\* The risk kernel approves an entry only of an account that is not halted and
\* has a position left to open.
LEMMA EntryApproved ==
  ASSUME NEW s, Enter(s)
  PROVE  ~ Halted(Snapshot) /\ ~ (Snapshot.open >= MaxOpenPositions)
<1>1. PICK i \in DOMAIN candidates[s] : Approved(candidates[s][i], Snapshot)
  BY DEF Enter, Approvals
<1> QED
  BY <1>1 DEF Approved, Rejected

LEMMA SnapshotFields ==
  /\ Snapshot.open = Cardinality(OpenSymbols)
  /\ Snapshot.killSwitch = killSwitch
  BY DEF Snapshot

LEMMA OpenFinite == IsFiniteSet(OpenSymbols) /\ Cardinality(OpenSymbols) \in Nat
<1>1. OpenSymbols \subseteq Symbols
  BY DEF OpenSymbols
<1> QED
  BY <1>1, PaperAssumption, FS_Subset, FS_CardinalityType

\* A step that opens nothing keeps within the cap.
LEMMA ShrinkingKeepsCap ==
  ASSUME PositionCap, OpenSymbols' \subseteq OpenSymbols
  PROVE  PositionCap'
<1>1. Cardinality(OpenSymbols') <= Cardinality(OpenSymbols)
  BY OpenFinite, FS_Subset
<1>2. Cardinality(OpenSymbols') \in Nat
  BY OpenFinite, FS_Subset, FS_CardinalityType
<1> QED
  BY <1>1, <1>2, OpenFinite, PolicyAssumption DEF PositionCap

LEMMA EntryKeepsCap ==
  ASSUME Shaped, NEW s, Enter(s)
  PROVE  Shaped' /\ PositionCap'
<1>1. PICK side, notional : Fill(s, side, notional)
  BY DEF Enter
<1>2. Shaped' /\ OpenSymbols' \subseteq OpenSymbols \cup {s}
  BY <1>1, FillElsewhere DEF OpenSymbols, IsOpen
<1>3. Cardinality(OpenSymbols) < MaxOpenPositions
  BY EntryApproved, SnapshotFields, OpenFinite, PolicyAssumption
<1>4. /\ IsFiniteSet(OpenSymbols \cup {s})
      /\ Cardinality(OpenSymbols \cup {s}) <= Cardinality(OpenSymbols) + 1
      /\ Cardinality(OpenSymbols \cup {s}) \in Nat
  BY OpenFinite, FS_AddElement, FS_CardinalityType
<1>5. /\ Cardinality(OpenSymbols') <= Cardinality(OpenSymbols \cup {s})
      /\ Cardinality(OpenSymbols') \in Nat
  BY <1>2, <1>4, FS_Subset, FS_CardinalityType
<1> QED
  BY <1>2, <1>3, <1>4, <1>5, OpenFinite, PolicyAssumption DEF PositionCap

LEMMA BookInvInit == Init => BookInv
<1> SUFFICES ASSUME Init PROVE BookInv
  OBVIOUS
<1>1. Shaped
  BY DEF Init, Flat, Shaped
<1>2. OpenSymbols = {}
  BY DEF Init, Flat, OpenSymbols, IsOpen
<1>3. PositionCap
  BY <1>2, FS_EmptySet, PolicyAssumption DEF PositionCap
<1>4. ExitsOpen
  BY DEF Init, ExitsOpen
<1> QED
  BY <1>1, <1>3, <1>4 DEF BookInv

LEMMA BookInvStep == BookInv /\ [Next]_vars => BookInv'
<1> SUFFICES ASSUME BookInv, [Next]_vars PROVE BookInv'
  OBVIOUS
<1>0. Shaped /\ ExitsOpen /\ PositionCap
  BY DEF BookInv
<1>1. ASSUME NEW prices \in [Symbols -> Prices \cup {NoFeature}],
             NEW signals \in Candidates, NEW rate \in FundingRates,
             BeginCycle(prices, signals, rate)
      PROVE  BookInv'
  <2>1. Shaped' /\ ExitsOpen' /\ \A s \in Symbols : position'[s].quantity = position[s].quantity
    BY <1>0, <1>1, BeginKeepsQuantities
  <2>2. OpenSymbols' \subseteq OpenSymbols
    BY <2>1 DEF OpenSymbols, IsOpen
  <2> QED
    BY <1>0, <2>1, <2>2, ShrinkingKeepsCap DEF BookInv
<1>2. ASSUME NEW s \in Symbols, ApplyExit(s) PROVE BookInv'
  <2>1. /\ s \in exits /\ exits' = exits \ {s}
        /\ Fill(s, ClosingSide(s), GrossNotional(position[s]))
        /\ pc = "exits" /\ pc' = pc
    BY <1>2 DEF ApplyExit
  <2>2. Shaped' /\ \A x \in Symbols : x # s => position'[x] = position[x]
    BY <1>0, <2>1, FillElsewhere
  <2>3. OpenSymbols' \subseteq OpenSymbols
    BY <1>0, <2>1, <2>2 DEF ExitsOpen, OpenSymbols, IsOpen
  <2>4. ExitsOpen'
    BY <1>0, <2>1, <2>2 DEF ExitsOpen, OpenSymbols, IsOpen
  <2> QED
    BY <1>0, <2>2, <2>3, <2>4, ShrinkingKeepsCap DEF BookInv
<1>3. CASE StartDecisions
  <2>1. UNCHANGED <<position, exits>> /\ exits = {}
    BY <1>3 DEF StartDecisions, book
  <2> QED
    BY <1>0, <2>1 DEF BookInv, Shaped, ExitsOpen, PositionCap, OpenSymbols, IsOpen
<1>4. CASE DecideSymbol
  <2> DEFINE s == SymbolOrder[next]
  <2>1. pc = "decide" /\ pc' = pc /\ exits' = exits
    BY <1>4 DEF DecideSymbol
  <2>2. CASE Enter(s)
    <3>1. Shaped' /\ PositionCap'
      BY <1>0, <2>2, EntryKeepsCap
    <3>2. ExitsOpen'
      BY <1>0, <2>1 DEF ExitsOpen
    <3> QED
      BY <3>1, <3>2 DEF BookInv
  <2>3. CASE NoTrade(s)
    <3>1. UNCHANGED <<position, exits, pc>>
      BY <2>1, <2>3 DEF NoTrade, book
    <3> QED
      BY <1>0, <3>1 DEF BookInv, Shaped, ExitsOpen, PositionCap, OpenSymbols, IsOpen
  <2> QED
    BY <1>4, <2>2, <2>3 DEF DecideSymbol
<1>5. CASE EndCycle
  <2>1. UNCHANGED <<position, exits>> /\ exits = {}
    BY <1>0, <1>5 DEF EndCycle, book, ExitsOpen
  <2> QED
    BY <1>0, <2>1 DEF BookInv, Shaped, ExitsOpen, PositionCap, OpenSymbols, IsOpen
<1>6. CASE UNCHANGED vars
  <2>1. UNCHANGED <<position, exits, pc>>
    BY <1>6 DEF vars, book, cycle
  <2> QED
    BY <1>0, <2>1 DEF BookInv, Shaped, ExitsOpen, PositionCap, OpenSymbols, IsOpen
<1> QED
  BY <1>1, <1>2, <1>3, <1>4, <1>5, <1>6 DEF Next

\* The paper book never holds more positions than the policy allows, however
\* many symbols get a signal in one cycle.
THEOREM PositionCapAlways == Spec => []PositionCap
<1>1. BookInv => PositionCap
  BY DEF BookInv
<1> QED
  BY BookInvInit, BookInvStep, <1>1, PTL DEF Spec

HaltedEntry == \E s \in Symbols :
  Opens(s) /\ (killSwitch \/ DrawdownReached(Snapshot, DailyHard))

LEMMA HaltedEntryImpossible == BookInv /\ [Next]_vars => ~ HaltedEntry
<1> SUFFICES ASSUME BookInv, [Next]_vars PROVE ~ HaltedEntry
  OBVIOUS
<1>0. Shaped /\ ExitsOpen
  BY DEF BookInv
<1>1. ASSUME NEW prices \in [Symbols -> Prices \cup {NoFeature}],
             NEW signals \in Candidates, NEW rate \in FundingRates,
             BeginCycle(prices, signals, rate)
      PROVE  ~ HaltedEntry
  BY <1>0, <1>1, BeginKeepsQuantities DEF HaltedEntry, Opens
<1>2. ASSUME NEW s \in Symbols, ApplyExit(s) PROVE ~ HaltedEntry
  <2>1. s \in exits /\ Fill(s, ClosingSide(s), GrossNotional(position[s]))
    BY <1>2 DEF ApplyExit
  <2>2. \A x \in Symbols : x # s => position'[x] = position[x]
    BY <1>0, <2>1, FillElsewhere
  <2>3. position[s].quantity # 0
    BY <1>0, <2>1 DEF ExitsOpen, OpenSymbols, IsOpen
  <2> QED
    BY <2>2, <2>3 DEF HaltedEntry, Opens
<1>3. CASE StartDecisions
  BY <1>3 DEF StartDecisions, book, HaltedEntry, Opens
<1>4. CASE DecideSymbol
  <2> DEFINE s == SymbolOrder[next]
  <2>1. CASE Enter(s)
    <3>1. ~ Halted(Snapshot)
      BY <2>1, EntryApproved
    <3> QED
      BY <3>1, SnapshotFields DEF Halted, HaltedEntry
  <2>2. CASE NoTrade(s)
    BY <2>2 DEF NoTrade, book, HaltedEntry, Opens
  <2> QED
    BY <1>4, <2>1, <2>2 DEF DecideSymbol
<1>5. CASE EndCycle
  BY <1>5 DEF EndCycle, book, HaltedEntry, Opens
<1>6. CASE UNCHANGED vars
  BY <1>6 DEF vars, book, HaltedEntry, Opens
<1> QED
  BY <1>1, <1>2, <1>3, <1>4, <1>5, <1>6 DEF Next

\* Nothing is opened while the kill switch or a hard drawdown halts the account,
\* the state the fills of this very cycle have left included.
THEOREM NoEntryWhenHaltedAlways == Spec => NoEntryWhenHalted
<1>1. ~ HaltedEntry <=> \A s \in Symbols : Opens(s) =>
        ~ killSwitch /\ ~ DrawdownReached(Snapshot, DailyHard)
  BY DEF HaltedEntry
<1>2. BookInv /\ [Next]_vars => [\A s \in Symbols : Opens(s) =>
        ~ killSwitch /\ ~ DrawdownReached(Snapshot, DailyHard)]_vars
  BY <1>1, HaltedEntryImpossible
<1> QED
  BY BookInvInit, BookInvStep, <1>2, PTL DEF Spec, NoEntryWhenHalted

-----------------------------------------------------------------------------
(* The book implements its slots.  Beside BookInv the mapping needs that the  *)
(* times of exits are times, and that the decisions run over symbols.         *)

Timed ==
  /\ now \in Nat
  /\ next \in Nat \ {0}
  /\ lastExit \in [Symbols -> Nat \cup {Never}]

SlotInv == BookInv /\ Timed

LEMMA TimedInit == Init => Timed
  BY DEF Init, Timed

LEMMA FillKeepsTimes ==
  ASSUME Timed, NEW s, NEW side, NEW notional, Fill(s, side, notional), now' = now
  PROVE  lastExit' \in [Symbols -> Nat \cup {Never}]
<1>1. \/ lastExit' = [lastExit EXCEPT ![s] = now]
      \/ lastExit' = [lastExit EXCEPT ![s] = lastExit[s]]
  BY FillShape
<1>2. now \in Nat \cup {Never} /\ lastExit \in [Symbols -> Nat \cup {Never}]
  BY DEF Timed
<1>3. CASE lastExit' = [lastExit EXCEPT ![s] = now]
  BY <1>2, <1>3
<1>4. CASE lastExit' = [lastExit EXCEPT ![s] = lastExit[s]]
  BY <1>2, <1>4
<1> QED
  BY <1>1, <1>3, <1>4

LEMMA TimedStep == Timed /\ [Next]_vars => Timed'
<1> SUFFICES ASSUME Timed, [Next]_vars PROVE Timed'
  OBVIOUS
<1>1. ASSUME NEW prices \in [Symbols -> Prices \cup {NoFeature}],
             NEW signals \in Candidates, NEW rate \in FundingRates,
             BeginCycle(prices, signals, rate)
      PROVE  Timed'
  BY <1>1 DEF BeginCycle, Timed
<1>2. ASSUME NEW s \in Symbols, ApplyExit(s) PROVE Timed'
  BY <1>2, FillKeepsTimes DEF ApplyExit, Timed
<1>3. CASE StartDecisions
  BY <1>3 DEF StartDecisions, book, Timed
<1>4. CASE DecideSymbol
  <2> DEFINE s == SymbolOrder[next]
  <2>1. now' = now /\ next' = next + 1
    BY <1>4 DEF DecideSymbol
  <2>2. CASE Enter(s)
    BY <2>1, <2>2, FillKeepsTimes DEF Enter, Timed
  <2>3. CASE NoTrade(s)
    BY <2>1, <2>3 DEF NoTrade, book, Timed
  <2> QED
    BY <1>4, <2>2, <2>3 DEF DecideSymbol
<1>5. CASE EndCycle
  BY <1>5 DEF EndCycle, book, Timed
<1>6. CASE UNCHANGED vars
  BY <1>6 DEF vars, book, cycle, Timed
<1> QED
  BY <1>1, <1>2, <1>3, <1>4, <1>5, <1>6 DEF Next

\* The instance counts with a copy of Cardinality.
LEMMA SlotsCount == \A S : Slots!Cardinality(S) = Cardinality(S)
  BY DEF Slots!Cardinality, Cardinality

\* The time of an exit is the time of the fill that left nothing.
LEMMA FillExitTime ==
  ASSUME Shaped, Timed, NEW s \in Symbols, NEW side, NEW notional, Fill(s, side, notional)
  PROVE  lastExit' = IF position'[s].quantity = 0 THEN [lastExit EXCEPT ![s] = now]
                                                  ELSE lastExit
<1> DEFINE q == Total(s, side, notional)
<1>1. lastExit' = [lastExit EXCEPT ![s] = IF q = 0 THEN now ELSE lastExit[s]]
  BY FillShape
<1>2. position'[s].quantity = q
  <2>1. position'[s] = Filled(s, side, notional)
    BY FillShape DEF Shaped
  <2> QED
    BY <2>1 DEF Filled
<1>3. lastExit = [lastExit EXCEPT ![s] = lastExit[s]]
  BY DEF Timed
<1> QED
  BY <1>1, <1>2, <1>3

\* A fill that closes lets the slot go; one that opens takes it, if it was free to
\* be taken; any other leaves the slots as they are.
LEMMA FillIsSlotStep ==
  ASSUME Shaped, Timed, NEW s \in Symbols, NEW side, NEW notional,
         Fill(s, side, notional), now' = now,
         IsOpen(s) \/ (RestLeft(s) = 0 /\ ~ killSwitch
                         /\ Cardinality(OpenSymbols) < MaxOpenPositions)
  PROVE  Slots!Next
<1> DEFINE wait == [x \in Symbols |-> RestLeft(x)]
<1>1. killSwitch => killSwitch'
  BY FillShape
<1>0. \A x \in Symbols : lastExit[x] \in Nat \cup {Never} /\ now \in Nat /\ Cooldown \in Nat
  BY PaperAssumption DEF Timed
<1>2. Shaped' /\ \A x \in Symbols : x # s => position'[x] = position[x]
  BY FillElsewhere
<1>3. CASE ~ IsOpen(s)'
  <2>1. position'[s].quantity = 0
    BY <1>3 DEF IsOpen
  <2>2. lastExit' = [lastExit EXCEPT ![s] = now]
    BY <2>1, FillExitTime
  <2>3. wait' = [wait EXCEPT ![s] = Cooldown]
    <3>1. RestLeft(s)' = Cooldown
      <4>1. lastExit'[s] = now
        BY <2>2 DEF Timed
      <4>2. now # Never
        BY <1>0, PaperAssumption
      <4>3. RestLeft(s)' = Larger(0, Cooldown - (now - now))
        BY <4>1, <4>2 DEF RestLeft, Larger
      <4> QED
        BY <1>0, <4>3 DEF Larger
    <3>2. \A x \in Symbols : x # s => RestLeft(x)' = RestLeft(x)
      <4>1. \A x \in Symbols : x # s => lastExit'[x] = lastExit[x]
        BY <2>2 DEF Timed
      <4> QED
        BY <4>1 DEF RestLeft, Larger
    <3> QED
      BY <3>1, <3>2
  <2>4. OpenSymbols' = OpenSymbols \ {s}
    BY <1>2, <1>3 DEF OpenSymbols, IsOpen
  <2>5. Slots!LetGo(s)
    BY <2>3, <2>4 DEF Slots!LetGo, OpenSymbols
  <2> QED
    BY <1>1, <2>5 DEF Slots!Next
<1>4. CASE IsOpen(s)'
  <2>1. position'[s].quantity # 0
    BY <1>4 DEF IsOpen
  <2>2. lastExit' = lastExit
    BY <2>1, FillExitTime
  <2>3. wait' = wait
    BY <2>2 DEF RestLeft, Larger
  <2>4. CASE IsOpen(s)
    <3>1. OpenSymbols' = OpenSymbols
      BY <1>2, <1>4, <2>4 DEF OpenSymbols, IsOpen
    <3> QED
      BY <1>1, <2>3, <3>1 DEF Slots!Next
  <2>5. CASE ~ IsOpen(s)
    <3>1. OpenSymbols' = OpenSymbols \cup {s} /\ s \notin OpenSymbols
      BY <1>2, <1>4, <2>5 DEF OpenSymbols, IsOpen
    <3>2. RestLeft(s) = 0 /\ ~ killSwitch /\ Cardinality(OpenSymbols) < MaxOpenPositions
      BY <2>5
    <3>3. wait[s] = 0
      BY <3>2
    <3>4. Slots!Take(s)
      BY <2>3, <3>1, <3>2, <3>3, SlotsCount DEF Slots!Take
    <3> QED
      BY <1>1, <3>4 DEF Slots!Next
  <2> QED
    BY <2>4, <2>5
<1> QED
  BY <1>3, <1>4

\* A step that leaves positions, exit times and the clock alone.
LEMMA IdleIsSlotStep ==
  ASSUME UNCHANGED <<position, lastExit, now>>, killSwitch => killSwitch'
  PROVE  Slots!Next
<1>1. OpenSymbols' = OpenSymbols
  BY DEF OpenSymbols, IsOpen
<1>2. \A s : RestLeft(s)' = RestLeft(s)
  BY DEF RestLeft, Larger
<1> QED
  BY <1>1, <1>2 DEF Slots!Next

LEMMA BeginIsTick ==
  ASSUME Shaped, Timed, NEW prices, NEW signals, NEW rate, BeginCycle(prices, signals, rate)
  PROVE  Slots!Next
<1> DEFINE wait == [x \in Symbols |-> RestLeft(x)]
<1>1. OpenSymbols' = OpenSymbols
  BY BeginKeepsQuantities DEF OpenSymbols, IsOpen
<1>2. now' = now + 1 /\ lastExit' = lastExit
  BY DEF BeginCycle
<1>3. killSwitch => killSwitch'
  BY DEF BeginCycle, Settle
<1>4. ASSUME NEW s \in Symbols
      PROVE  RestLeft(s)' = IF RestLeft(s) = 0 THEN 0 ELSE RestLeft(s) - 1
  <2>1. lastExit[s] \in Nat \cup {Never} /\ now \in Nat /\ Cooldown \in Nat /\ Never \notin Int
    BY PaperAssumption DEF Timed
  <2>2. RestLeft(s)' = IF lastExit[s] = Never THEN 0
                       ELSE Larger(0, Cooldown - ((now + 1) - lastExit[s]))
    BY <1>2 DEF RestLeft, Larger
  <2>3. CASE lastExit[s] = Never
    BY <2>2, <2>3 DEF RestLeft
  <2>4. CASE lastExit[s] # Never
    <3>1. /\ RestLeft(s) = Larger(0, Cooldown - (now - lastExit[s]))
          /\ RestLeft(s)' = Larger(0, Cooldown - ((now + 1) - lastExit[s]))
      BY <2>2, <2>4 DEF RestLeft
    <3> QED
      BY <2>1, <2>4, <3>1 DEF Larger
  <2> QED
    BY <2>3, <2>4
<1>5. wait' = [s \in Symbols |-> IF wait[s] = 0 THEN 0 ELSE wait[s] - 1]
  BY <1>4
<1> QED
  BY <1>1, <1>3, <1>5 DEF Slots!Next, Slots!Tick

LEMMA SlotsInit == Init => Slots!Init
<1> SUFFICES ASSUME Init PROVE Slots!Init
  OBVIOUS
<1>1. OpenSymbols = {}
  BY DEF Init, Flat, OpenSymbols, IsOpen
<1>2. \A s \in Symbols : RestLeft(s) = 0
  BY DEF Init, RestLeft
<1> QED
  BY <1>1, <1>2 DEF Slots!Init, Init

LEMMA SlotsStep == SlotInv /\ [Next]_vars => [Slots!Next]_(Slots!slots)
<1> SUFFICES ASSUME SlotInv, [Next]_vars PROVE Slots!Next
  OBVIOUS
<1>0. Shaped /\ ExitsOpen /\ Timed
  BY DEF SlotInv, BookInv
<1>1. ASSUME NEW prices \in [Symbols -> Prices \cup {NoFeature}],
             NEW signals \in Candidates, NEW rate \in FundingRates,
             BeginCycle(prices, signals, rate)
      PROVE  Slots!Next
  BY <1>0, <1>1, BeginIsTick
<1>2. ASSUME NEW s \in Symbols, ApplyExit(s) PROVE Slots!Next
  <2>1. s \in exits /\ Fill(s, ClosingSide(s), GrossNotional(position[s])) /\ now' = now
    BY <1>2 DEF ApplyExit
  <2>2. IsOpen(s)
    BY <1>0, <2>1 DEF ExitsOpen, OpenSymbols
  <2> QED
    BY <1>0, <2>1, <2>2, FillIsSlotStep
<1>3. CASE StartDecisions
  BY <1>3, IdleIsSlotStep DEF StartDecisions, book
<1>4. CASE DecideSymbol
  <2> DEFINE s == SymbolOrder[next]
  <2>1. now' = now
    BY <1>4 DEF DecideSymbol
  <2>2. s \in Symbols
    BY <1>0, <1>4, PaperAssumption DEF DecideSymbol, Timed
  <2>3. CASE Enter(s)
    <3>1. PICK side, notional : Fill(s, side, notional)
      BY <2>3 DEF Enter
    <3>2. ~ killSwitch /\ Cardinality(OpenSymbols) < MaxOpenPositions
      BY <2>3, EntryApproved, SnapshotFields, OpenFinite, PolicyAssumption DEF Halted
    <3>3. RestLeft(s) = 0
      <4>1. ~ InCooldown(s)
        BY <2>3 DEF Enter, MayEnter
      <4> HIDE DEF s
      <4>2. lastExit[s] \in Nat \cup {Never} /\ now \in Nat /\ Cooldown \in Nat
        BY <1>0, <2>2, PaperAssumption DEF Timed
      <4>3. CASE lastExit[s] # Never
        <5>1. ~ (now - lastExit[s] < Cooldown)
          BY <4>1, <4>3 DEF InCooldown
        <5> QED
          BY <4>2, <4>3, <5>1 DEF RestLeft, Larger
      <4> QED
        BY <4>3 DEF RestLeft
    <3> HIDE DEF s
    <3> QED
      BY <1>0, <2>1, <2>2, <3>1, <3>2, <3>3, FillIsSlotStep
  <2>4. CASE NoTrade(s)
    BY <2>1, <2>4, IdleIsSlotStep DEF NoTrade, book
  <2> QED
    BY <1>4, <2>3, <2>4 DEF DecideSymbol
<1>5. CASE EndCycle
  BY <1>5, IdleIsSlotStep DEF EndCycle, book
<1>6. CASE UNCHANGED vars
  BY <1>6, IdleIsSlotStep DEF vars, book
<1> QED
  BY <1>1, <1>2, <1>3, <1>4, <1>5, <1>6 DEF Next

\* The paper book implements its slots: every behaviour of the decision loop in paper
\* mode is one of a bounded number of slots with a rest after each, whatever
\* prices, signals, slippage and funding do.
THEOREM SlotsImplemented == Spec => ImplementsSlots
<1>1. Init => SlotInv
  BY BookInvInit, TimedInit DEF SlotInv
<1>2. SlotInv /\ [Next]_vars => SlotInv'
  BY BookInvStep, TimedStep DEF SlotInv
<1> QED
  BY <1>1, <1>2, SlotsInit, SlotsStep, PTL DEF Spec, ImplementsSlots, Slots!Spec

-----------------------------------------------------------------------------
(* Rounding *)

LEMMA DivMod ==
  ASSUME NEW n \in Int, NEW d \in Nat \ {0}
  PROVE  /\ n \div d \in Int /\ n % d \in Int
         /\ 0 <= n % d /\ n % d < d
         /\ n = d * (n \div d) + (n % d)
<1>1. n \div d \in Int /\ n % d \in Int
  OBVIOUS
<1>2. 0 <= n % d /\ n % d < d
  OBVIOUS
<1>3. n = d * (n \div d) + (n % d)
  OBVIOUS
<1> QED
  BY <1>1, <1>2, <1>3

LEMMA ProductStrict ==
  ASSUME NEW d \in Nat \ {0}, NEW m \in Int, NEW n \in Int, d * m <= d * n
  PROVE  m <= n
<1>1. SUFFICES ASSUME n + 1 <= m PROVE FALSE
  OBVIOUS
<1>2. d * (n + 1) <= d * m
  BY <1>1, ProductMonotone
<1>3. d * (n + 1) = d * n + d /\ d * n \in Int /\ d * m \in Int
  OBVIOUS
<1> QED
  BY <1>2, <1>3

\* A quotient and a remainder are the ones.
LEMMA QuotientUnique ==
  ASSUME NEW d \in Nat \ {0}, NEW q \in Int, NEW r \in Int, 0 <= r, r < d
  PROVE  (d * q + r) \div d = q
<1> DEFINE n == d * q + r
           k == n \div d
           t == n % d
           dk == d * k
           dq == d * q
<1>1. n \in Int /\ dq \in Int /\ n = dq + r
  OBVIOUS
<1> HIDE DEF n
<1>2. k \in Int /\ t \in Int /\ 0 <= t /\ t < d /\ n = dk + t
  BY <1>1, DivMod
<1>3. dk \in Int
  BY <1>2
<1>4. k < q => dk + d <= dq
  <2>1. d * (k + 1) = dk + d
    BY <1>2
  <2>2. k < q => d * (k + 1) <= dq
    <3> HIDE DEF k
    <3> QED
      BY <1>2, ProductMonotone
  <2> QED
    BY <2>1, <2>2
<1>5. q < k => dq + d <= dk
  <2>1. d * (q + 1) = dq + d
    OBVIOUS
  <2>2. q < k => d * (q + 1) <= dk
    <3> HIDE DEF k
    <3> QED
      BY <1>2, ProductMonotone
  <2> QED
    BY <2>1, <2>2
<1> HIDE DEF k, t, dk, dq
<1>6. k = q
  BY <1>1, <1>2, <1>3, <1>4, <1>5
<1> QED
  BY <1>6 DEF k, n

\* HALF_EVEN: the nearest whole number.  It is off by less than one, a whole quotient
\* is exact, and it does not exceed a whole number that the quotient does not.
LEMMA HalfEvenBound ==
  ASSUME NEW n \in Nat, NEW d \in Nat \ {0}
  PROVE  /\ HalfEven(n, d) \in Nat
         /\ d * HalfEven(n, d) <= n + d
         /\ \A m \in Nat : n <= d * m => HalfEven(n, d) <= m
<1> DEFINE q == n \div d
           r == n % d
           h == HalfEven(n, d)
           dq == d * q
<1>1. q \in Int /\ r \in Int /\ 0 <= r /\ r < d /\ n = dq + r
  BY DivMod
<1>2. dq \in Int
  BY <1>1
<1>3. h = q \/ (h = q + 1 /\ 2 * r >= d)
  BY <1>1 DEF HalfEven
<1>4. q \in Nat
  <2>1. SUFFICES ASSUME q + 1 <= 0 PROVE FALSE
    BY <1>1
  <2>2. d * (q + 1) <= d * 0
    BY <1>1, <2>1, ProductMonotone
  <2>3. d * (q + 1) = dq + d /\ d * 0 = 0
    BY <1>1
  <2> HIDE DEF dq, q, r
  <2> QED
    BY <1>1, <1>2, <2>2, <2>3
<1>5. d * (q + 1) = dq + d
  BY <1>1
<1>6. d * h <= n + d
  <2>1. CASE h = q
    <3>1. d * h = dq
      BY <2>1
    <3> HIDE DEF h, dq, q, r
    <3> QED
      BY <1>1, <1>2, <3>1
  <2>2. CASE h = q + 1
    <3>1. d * h = dq + d
      BY <1>5, <2>2
    <3> HIDE DEF h, dq, q, r
    <3> QED
      BY <1>1, <1>2, <3>1
  <2> QED
    BY <1>3, <2>1, <2>2
<1>7. ASSUME NEW m \in Nat, n <= d * m
      PROVE  h <= m
  <2> DEFINE dm == d * m
  <2>1. dm \in Int /\ n <= dm
    BY <1>7
  <2>2. q <= m
    <3>1. dq <= dm
      <4> HIDE DEF dq, dm, q, r
      <4> QED
        BY <1>1, <1>2, <2>1
    <3> HIDE DEF q
    <3> QED
      BY <1>4, <3>1, ProductStrict
  <2>3. r > 0 => q + 1 <= m
    <3>1. SUFFICES ASSUME r > 0, q = m PROVE FALSE
      BY <1>4, <2>2
    <3>2. dq = dm
      BY <3>1
    <3> HIDE DEF dq, dm, q, r
    <3> QED
      BY <1>1, <1>2, <2>1, <3>1, <3>2
  <2> HIDE DEF h, q, r, dq, dm
  <2> QED
    BY <1>1, <1>3, <1>4, <2>2, <2>3
<1>8. h \in Nat
  <2> HIDE DEF h, q, r, dq
  <2> QED
    BY <1>3, <1>4
<1> QED
  BY <1>6, <1>7, <1>8

LEMMA HalfEvenExact ==
  ASSUME NEW d \in Nat \ {0}, NEW q \in Nat
  PROVE  HalfEven(d * q, d) = q
<1> DEFINE n == d * q
           k == n \div d
           r == n % d
<1>1. n \in Int /\ k = q
  <2>1. (d * q + 0) \div d = q
    BY QuotientUnique
  <2> QED
    BY <2>1
<1>2. r = 0
  <2>1. k \in Int /\ r \in Int /\ n = d * k + r
    <3> HIDE DEF n
    <3> QED
      BY <1>1, DivMod
  <2>2. n = d * q /\ d * k = d * q
    BY <1>1
  <2> HIDE DEF k, r
  <2>3. r = n - n
    BY <1>1, <2>1, <2>2
  <2> HIDE DEF n
  <2> QED
    BY <1>1, <2>3
<1> HIDE DEF k, r
<1>3. HalfEven(n, d) = IF 2 * r > d \/ (2 * r = d /\ k % 2 = 1) THEN k + 1 ELSE k
  BY DEF HalfEven, k, r
<1> QED
  BY <1>1, <1>2, <1>3

\* HALF_UP of a whole quotient that is not negative.
LEMMA HalfUpType ==
  ASSUME NEW n \in Int, NEW d \in Nat \ {0}
  PROVE  HalfUp(n, d) \in Int
<1> DEFINE m == 2 * Magnitude(n) + d
           e == 2 * d
<1>1. m \in Int /\ e \in Nat \ {0}
  BY DEF Magnitude
<1>2. m \div e \in Int
  <2> HIDE DEF m, e
  <2> QED
    BY <1>1, DivMod
<1>3. Sign(n) \in {-1, 0, 1}
  BY DEF Sign
<1> HIDE DEF m, e
<1>4. HalfUp(n, d) = Sign(n) * (m \div e)
  BY DEF HalfUp, m, e
<1> QED
  BY <1>2, <1>3, <1>4

LEMMA HalfUpExact ==
  ASSUME NEW d \in Nat \ {0}, NEW q \in Nat
  PROVE  HalfUp(d * q, d) = q
<1> DEFINE n == d * q
           e == 2 * d
<1>1. n \in Nat /\ (n = 0 <=> q = 0)
  <2>1. n \in Nat
    OBVIOUS
  <2>2. q = 0 => n = 0
    OBVIOUS
  <2>3. q # 0 => n # 0
    <3>1. q # 0 => d * 1 <= d * q
      BY ProductMonotone
    <3> QED
      BY <3>1
  <2> QED
    BY <2>1, <2>2, <2>3
<1>2. Magnitude(n) = n
  <2> HIDE DEF n
  <2> QED
    BY <1>1 DEF Magnitude
<1>3. e \in Nat \ {0} /\ 0 <= d /\ d < e /\ e * q = 2 * n
  OBVIOUS
<1>4. (2 * n + d) \div e = q
  <2>1. (e * q + d) \div e = q
    <3> HIDE DEF e
    <3> QED
      BY <1>3, QuotientUnique
  <2> HIDE DEF n, e
  <2> QED
    BY <1>3, <2>1
<1>5. HalfUp(n, d) = Sign(n) * q
  <2> HIDE DEF n
  <2> QED
    BY <1>2, <1>4 DEF HalfUp, e
<1>6. Sign(n) = IF q = 0 THEN 0 ELSE 1
  <2> HIDE DEF n
  <2> QED
    BY <1>1 DEF Sign
<1> QED
  BY <1>5, <1>6

-----------------------------------------------------------------------------
(* Amounts: the book has the type of its rows, and sums over it are amounts.   *)
(* A fill price that rounds to nothing would leave the quantity undefined, so  *)
(* the slippage is taken to be at most a half.                                 *)

ModestSlippage == Slippage <= 500

Position == [quantity : Int, entry : Int, mark : Int]

\* The fill is at least half of the reference price, and it without slippage.
LEMMA FillPriceBound ==
  ASSUME ModestSlippage, NEW s, NEW side, price[s] \in Nat \ {0}
  PROVE  /\ FillPrice(s, side) \in Nat \ {0}
         /\ price[s] <= 2 * FillPrice(s, side)
         /\ Slippage = 0 => FillPrice(s, side) = price[s]
<1> DEFINE p == price[s]
           k == IF side = "BUY" THEN 1000 + Slippage ELSE 1000 - Slippage
           x == p * k
           f == HalfUp(x, 1000)
<1>1. k \in Nat /\ 500 <= k
  BY PaperAssumption DEF ModestSlippage
<1>2. p \in Nat \ {0}
  OBVIOUS
<1> HIDE DEF p, k
<1>3. x \in Int /\ 500 * p <= x
  <2>1. p * 500 <= p * k
    BY <1>1, <1>2, ProductMonotone
  <2> QED
    BY <1>1, <1>2, <2>1
<1> HIDE DEF x
<1>4. f = (2 * x + 1000) \div 2000
  BY <1>2, <1>3 DEF HalfUp, Sign, Magnitude
<1>5. f \in Nat \ {0} /\ p <= 2 * f
  <2> HIDE DEF f
  <2> QED
    BY <1>2, <1>3, <1>4
<1>6. f = FillPrice(s, side)
  BY DEF FillPrice, x, p, k
<1>7. Slippage = 0 => f = p
  <2>1. Slippage = 0 => k = 1000
    BY DEF k
  <2>2. Slippage = 0 => x = 1000 * p
    BY <1>2, <2>1 DEF x
  <2>3. HalfUp(1000 * p, 1000) = p
    BY <1>2, HalfUpExact
  <2> QED
    BY <2>2, <2>3
<1> HIDE DEF f
<1> QED
  BY <1>5, <1>6, <1>7 DEF p

\* The value of the positions beyond their entry, and what is held of a set of them.
ValueOf(p) == SumFunctionOnSet([s \in Symbols |-> Unrealized(p[s])], Symbols)
HeldOf(p, S) == SumFunctionOnSet([s \in Symbols |-> GrossNotional(p[s])], S)

LEMMA PositionAmounts ==
  ASSUME NEW p \in Position
  PROVE  Unrealized(p) \in Int /\ GrossNotional(p) \in Nat
<1>1. p.quantity \in Int /\ p.entry \in Int /\ p.mark \in Int
  BY DEF Position
<1>2. p.quantity * p.mark \in Int /\ (p.mark - p.entry) * p.quantity \in Int
  BY <1>1
<1> DEFINE x == p.quantity * p.mark
<1> HIDE DEF x
<1>3. GrossNotional(p) = Magnitude(x)
  BY DEF GrossNotional, x
<1>4. x \in Int
  BY <1>2 DEF x
<1> QED
  BY <1>2, <1>3, <1>4 DEF Unrealized, Magnitude

LEMMA SumsTyped ==
  ASSUME NEW p \in [Symbols -> Position]
  PROVE  /\ ValueOf(p) \in Int
         /\ \A S \in SUBSET Symbols : HeldOf(p, S) \in Nat
<1> DEFINE f == [s \in Symbols |-> Unrealized(p[s])]
           g == [s \in Symbols |-> GrossNotional(p[s])]
<1>1. IsFiniteSet(Symbols)
  BY PaperAssumption
<1>2. \A s \in Symbols : f[s] \in Int /\ g[s] \in Nat
  BY PositionAmounts
<1>3. ValueOf(p) = SumFunctionOnSet(f, Symbols) /\ \A S : HeldOf(p, S) = SumFunctionOnSet(g, S)
  BY DEF ValueOf, HeldOf
<1> HIDE DEF f, g
<1>4. ValueOf(p) \in Int
  BY <1>1, <1>2, <1>3, SumType
<1>5. ASSUME NEW S \in SUBSET Symbols PROVE HeldOf(p, S) \in Nat
  <2>1. IsFiniteSet(S) /\ \A s \in S : g[s] \in Nat
    BY <1>1, <1>2, FS_Subset
  <2> QED
    BY <1>3, <2>1, SumNat
<1> QED
  BY <1>4, <1>5

\* One position that changes changes the sums by as much.
LEMMA SumsChange ==
  ASSUME NEW p \in [Symbols -> Position], NEW s \in Symbols, NEW new \in Position
  PROVE  LET q == [p EXCEPT ![s] = new]
         IN  /\ q \in [Symbols -> Position]
             /\ ValueOf(q) = ValueOf(p) + (Unrealized(new) - Unrealized(p[s]))
             /\ HeldOf(q, Symbols) = HeldOf(p, Symbols) + (GrossNotional(new) - GrossNotional(p[s]))
<1> DEFINE q == [p EXCEPT ![s] = new]
           f == [x \in Symbols |-> Unrealized(p[x])]
           g == [x \in Symbols |-> Unrealized(q[x])]
           m == [x \in Symbols |-> GrossNotional(p[x])]
           n == [x \in Symbols |-> GrossNotional(q[x])]
<1>1. q \in [Symbols -> Position] /\ q[s] = new /\ \A x \in Symbols : x # s => q[x] = p[x]
  OBVIOUS
<1> HIDE DEF q
<1>2. ASSUME NEW x \in Symbols
      PROVE  /\ f[x] \in Int /\ g[x] \in Int /\ m[x] \in Int /\ n[x] \in Int
             /\ x # s => f[x] = g[x] /\ m[x] = n[x]
  <2>1. p[x] \in Position /\ q[x] \in Position
    BY <1>1
  <2>2. /\ Unrealized(p[x]) \in Int /\ GrossNotional(p[x]) \in Int
        /\ Unrealized(q[x]) \in Int /\ GrossNotional(q[x]) \in Int
    BY <2>1, PositionAmounts
  <2> QED
    BY <1>1, <2>2
<1>3. /\ f[s] = Unrealized(p[s]) /\ g[s] = Unrealized(new)
      /\ m[s] = GrossNotional(p[s]) /\ n[s] = GrossNotional(new)
  BY <1>1
<1>4. /\ ValueOf(p) = SumFunctionOnSet(f, Symbols) /\ ValueOf(q) = SumFunctionOnSet(g, Symbols)
      /\ HeldOf(p, Symbols) = SumFunctionOnSet(m, Symbols)
      /\ HeldOf(q, Symbols) = SumFunctionOnSet(n, Symbols)
  BY DEF ValueOf, HeldOf
<1>5. IsFiniteSet(Symbols)
  BY PaperAssumption
<1> HIDE DEF f, g, m, n
<1>6. SumFunctionOnSet(g, Symbols) = SumFunctionOnSet(f, Symbols) + (g[s] - f[s])
  <2>1. /\ \A x \in Symbols : f[x] \in Int /\ g[x] \in Int
        /\ \A x \in Symbols : x # s => f[x] = g[x]
    BY <1>2
  <2> QED
    BY <1>5, <2>1, SumChange
<1>7. SumFunctionOnSet(n, Symbols) = SumFunctionOnSet(m, Symbols) + (n[s] - m[s])
  <2>1. /\ \A x \in Symbols : m[x] \in Int /\ n[x] \in Int
        /\ \A x \in Symbols : x # s => m[x] = n[x]
    BY <1>2
  <2> QED
    BY <1>5, <2>1, SumChange
<1> QED
  BY <1>1, <1>3, <1>4, <1>6, <1>7 DEF q

LEMMA Amounts ==
  /\ Equity = Wallet + ValueOf(position)
  /\ \A S : GrossOf(S) = HeldOf(position, S)
  /\ Equity' = Wallet' + ValueOf(position')
  /\ \A S : GrossOf(S)' = HeldOf(position', S)
<1>1. Equity = Wallet + ValueOf(position) /\ \A S : GrossOf(S) = HeldOf(position, S)
  BY DEF Equity, GrossOf, ValueOf, HeldOf
<1>2. Equity' = Wallet' + ValueOf(position')
  BY DEF Equity, ValueOf
<1>3. \A S : GrossOf(S)' = HeldOf(position', S)
  BY DEF GrossOf, HeldOf
<1> QED
  BY <1>1, <1>2, <1>3

\* What the kernel is given is a snapshot of an account.
LEMMA SnapshotTyped ==
  ASSUME TypeOK
  PROVE  /\ Snapshot \in AccountSnapshot
         /\ Snapshot.equity = Equity
         /\ Equity > 0 => Snapshot.gross = GrossOf(Symbols)
<1> DEFINE exposure(S) == IF Equity > 0 THEN GrossOf(S) ELSE 0
           bySymbol == [s \in Symbols |-> exposure({s})]
           byCluster == [c \in Clusters |-> exposure({s \in Symbols : ClusterOf[s] = c})]
           open == Cardinality(OpenSymbols)
<1>1. position \in [Symbols -> Position]
  BY DEF TypeOK, Position
<1>2. \A S \in SUBSET Symbols : exposure(S) \in Nat
  BY <1>1, SumsTyped, Amounts
<1>3. Equity \in Int
  <2>1. Wallet \in Int
    BY PaperAssumption DEF TypeOK, Wallet
  <2> QED
    BY <1>1, <2>1, SumsTyped, Amounts
<1>4. Snapshot =
        [ equity |-> Equity, high |-> sessionHigh, weekly |-> 0, gross |-> exposure(Symbols),
          symbol |-> bySymbol, cluster |-> byCluster, open |-> open, stale |-> 0,
          mismatch |-> FALSE, failures |-> 0, killSwitch |-> killSwitch ]
  BY DEF Snapshot
<1>5. exposure(Symbols) = IF Equity > 0 THEN GrossOf(Symbols) ELSE 0
  OBVIOUS
<1>6. open \in Nat
  BY OpenFinite
<1> HIDE DEF exposure, open
<1>7. bySymbol \in [Symbols -> Nat] /\ byCluster \in [Clusters -> Nat]
  BY <1>2
<1>8. exposure(Symbols) \in Nat
  BY <1>2
<1>9. sessionHigh \in Int /\ killSwitch \in BOOLEAN /\ FALSE \in BOOLEAN
  BY DEF TypeOK
<1> HIDE DEF bySymbol, byCluster
<1>10. Snapshot \in AccountSnapshot
  BY <1>3, <1>4, <1>6, <1>7, <1>8, <1>9 DEF AccountSnapshot
<1> QED
  BY <1>4, <1>5, <1>10

\* An entry is for a candidate of the symbol that the kernel approves, and for what
\* it approves of it.
LEMMA EntryFills ==
  ASSUME TypeOK, NEW s \in Symbols, Enter(s)
  PROVE  /\ MayEnter(s)
         /\ \E signal \in SignalCandidate :
              /\ Approved(signal, Snapshot)
              /\ ApprovedNotional(signal, Snapshot) \in Nat
              /\ Fill(s, signal.side, ApprovedNotional(signal, Snapshot))
<1> DEFINE A == Approvals(s)
<1>1. MayEnter(s) /\ A # {} /\ Fill(s, Selected(s).side, ApprovedNotional(Selected(s), Snapshot))
  BY DEF Enter
<1>2. candidates[s] \in Seq(SignalCandidate)
  BY DEF TypeOK
<1>3. A \subseteq DOMAIN candidates[s] /\ \A i \in A : Approved(candidates[s][i], Snapshot)
  BY DEF Approvals
<1>4. A \subseteq Nat
  BY <1>2, <1>3, LenProperties
<1> HIDE DEF A
<1>5. \E i \in A : \A j \in A : i <= j
  <2>1. PICK i \in A : \A j \in A : ~ (<<j, i>> \in OpToRel(<, Nat))
    BY <1>1, <1>4, NatLessThanWellFounded, WFMin
  <2>2. \A j \in A : ~ (j < i)
    BY <1>4, <2>1 DEF OpToRel
  <2> QED
    BY <1>4, <2>2
<1> DEFINE first == CHOOSE i \in A : \A j \in A : i <= j
           signal == candidates[s][first]
<1>6. first \in A
  BY <1>5
<1>7. Selected(s) = signal
  BY DEF Selected, A
<1> HIDE DEF first
<1>8. signal \in SignalCandidate /\ Approved(signal, Snapshot)
  <2>1. first \in DOMAIN candidates[s]
    BY <1>3, <1>6
  <2> QED
    BY <1>2, <1>3, <1>6, <2>1, ElementOfSeq, LenProperties
<1> HIDE DEF signal
<1>9. ApprovedNotional(signal, Snapshot) \in Nat
  <2>1. ApprovedNotional(signal, Snapshot) \in Int
    BY <1>8, SnapshotTyped, NotionalBound
  <2>2. ~ (ApprovedNotional(signal, Snapshot) <= 0)
    BY <1>8 DEF Approved, Rejected
  <2> QED
    BY <2>1, <2>2
<1> QED
  BY <1>1, <1>7, <1>8, <1>9

-----------------------------------------------------------------------------
(* Types: every variable keeps its type.                                       *)

\* The other assignments of a fill.
LEMMA FillLedger ==
  ASSUME NEW s, NEW side, NEW notional, Fill(s, side, notional)
  PROVE  /\ realizedPnl' = realizedPnl
              + RealizedDelta(position[s], Signed(s, side, notional), FillPrice(s, side))
         /\ feesPaid' = feesPaid
              + HalfUp(HalfEven(notional, FillPrice(s, side)) * FillPrice(s, side) * FeeBps, 10000)
         /\ fundingPnl' = fundingPnl
         /\ sessionHigh' = Larger(sessionHigh, Equity')
         /\ killSwitch' = (killSwitch \/ (TRUE /\ Wallet' <= 0))
         /\ meta' = [meta EXCEPT ![s] =
              IF Total(s, side, notional) = 0 THEN NoMeta
              ELSE IF position[s].quantity = 0 THEN [since |-> now, peak |-> FillPrice(s, side)]
              ELSE meta[s]]
<1>1. realizedPnl' = realizedPnl
        + RealizedDelta(position[s], Signed(s, side, notional), FillPrice(s, side))
  BY DEF Fill, Signed
<1>2. /\ feesPaid' = feesPaid
           + HalfUp(HalfEven(notional, FillPrice(s, side)) * FillPrice(s, side) * FeeBps, 10000)
      /\ fundingPnl' = fundingPnl
  BY DEF Fill
<1>3. /\ sessionHigh' = Larger(sessionHigh, Equity')
      /\ killSwitch' = (killSwitch \/ (TRUE /\ Wallet' <= 0))
  BY DEF Fill, Settle
<1>4. meta' = [meta EXCEPT ![s] =
        IF Total(s, side, notional) = 0 THEN NoMeta
        ELSE IF position[s].quantity = 0 THEN [since |-> now, peak |-> FillPrice(s, side)]
        ELSE meta[s]]
  BY DEF Fill, Total, Signed
<1> QED
  BY <1>1, <1>2, <1>3, <1>4

LEMMA NewEntryTyped ==
  ASSUME NEW old \in Position, NEW signed \in Int, NEW fill \in Int
  PROVE  NewEntry(old, signed, fill) \in Int
<1> DEFINE m == Magnitude(old.quantity)
           n == Magnitude(signed)
           x == m * old.entry + n * fill
<1>1. m \in Nat /\ n \in Nat /\ old.entry \in Int
  BY DEF Magnitude, Position
<1>2. x \in Int
  BY <1>1
<1>3. m + n # 0 => HalfUp(x, m + n) \in Int
  <2> HIDE DEF m, n, x
  <2> QED
    BY <1>1, <1>2, HalfUpType
<1> HIDE DEF m, n, x
<1>4. NewEntry(old, signed, fill) =
        IF old.quantity = 0 \/ old.quantity * signed > 0
        THEN IF m + n = 0 THEN 0 ELSE HalfUp(x, m + n)
        ELSE IF n < m THEN old.entry ELSE IF n = m THEN 0 ELSE fill
  BY DEF NewEntry, m, n, x
<1> QED
  BY <1>1, <1>3, <1>4

LEMMA RealizedTyped ==
  ASSUME NEW old \in Position, NEW signed \in Int, NEW fill \in Int
  PROVE  RealizedDelta(old, signed, fill) \in Int
<1> DEFINE k == Smaller(Magnitude(old.quantity), Magnitude(signed))
           sign == Sign(old.quantity)
           gain == (fill - old.entry) * k * sign
<1>1. old.quantity \in Int /\ old.entry \in Int
  BY DEF Position
<1>2. k \in Int /\ sign \in Int
  BY <1>1 DEF Smaller, Magnitude, Sign
<1>3. gain \in Int
  <2> HIDE DEF k, sign
  <2> QED
    BY <1>1, <1>2
<1> HIDE DEF gain
<1>4. RealizedDelta(old, signed, fill) =
        IF old.quantity = 0 \/ old.quantity * signed > 0 THEN 0 ELSE gain
  BY DEF RealizedDelta, gain
<1> QED
  BY <1>3, <1>4

\* The equity of a book of amounts is one.
LEMMA EquityNext ==
  ASSUME position' \in [Symbols -> Position],
         realizedPnl' \in Int, fundingPnl' \in Int, feesPaid' \in Int
  PROVE  Wallet' \in Int /\ Equity' \in Int
<1>1. Wallet' \in Int
  BY PaperAssumption DEF Wallet
<1>2. ValueOf(position') \in Int
  BY SumsTyped
<1> QED
  BY <1>1, <1>2, Amounts

\* What a fill is made of: a price, a quantity of that price, a row.
LEMMA FillAmounts ==
  ASSUME TypeOK, ModestSlippage, NEW s \in Symbols, NEW side, NEW notional \in Nat,
         price[s] # NoFeature
  PROVE  /\ FillPrice(s, side) \in Nat \ {0}
         /\ price[s] \in Nat \ {0}
         /\ HalfEven(notional, FillPrice(s, side)) \in Nat
         /\ Signed(s, side, notional) \in Int
         /\ Magnitude(Signed(s, side, notional)) = HalfEven(notional, FillPrice(s, side))
         /\ position[s] \in Position
         /\ Total(s, side, notional) \in Int
         /\ Filled(s, side, notional) \in Position
<1> DEFINE fill == FillPrice(s, side)
           quantity == HalfEven(notional, fill)
           signed == Signed(s, side, notional)
<1>1. price[s] \in Nat \ {0}
  <2>1. price \in [Symbols -> Prices \cup {NoFeature}] /\ Prices \subseteq Nat \ {0}
    BY PaperAssumption DEF TypeOK
  <2> QED
    BY <2>1
<1>2. fill \in Nat \ {0}
  BY <1>1, FillPriceBound
<1>3. quantity \in Nat
  <2> HIDE DEF fill
  <2> QED
    BY <1>2, HalfEvenBound
<1>4. signed = IF side = "BUY" THEN quantity ELSE - quantity
  BY DEF Signed
<1>5. position[s] \in Position /\ position[s].quantity \in Int
  BY DEF TypeOK, Position
<1> HIDE DEF fill, quantity, signed
<1>6. signed \in Int /\ Magnitude(signed) = quantity
  BY <1>3, <1>4 DEF Magnitude
<1>7. Total(s, side, notional) \in Int
  BY <1>5, <1>6 DEF Total, signed
<1>8. NewEntry(position[s], signed, fill) \in Int
  BY <1>2, <1>5, <1>6, NewEntryTyped
<1>9. Filled(s, side, notional) \in Position
  BY <1>2, <1>7, <1>8 DEF Filled, Position, signed, fill
<1> QED
  BY <1>1, <1>2, <1>3, <1>5, <1>6, <1>7, <1>9 DEF fill, quantity, signed

LEMMA FillTyped ==
  ASSUME TypeOK, ModestSlippage, NEW s \in Symbols, NEW side, NEW notional \in Nat,
         price[s] # NoFeature, Fill(s, side, notional)
  PROVE  /\ position' \in [Symbols -> Position]
         /\ meta' \in [Symbols -> [since : 0..MaxCycles \cup {Never}, peak : Int]]
         /\ lastExit' \in [Symbols -> 0..MaxCycles \cup {Never}]
         /\ realizedPnl' \in Int /\ feesPaid' \in Int /\ fundingPnl' \in Int
         /\ sessionHigh' \in Int /\ killSwitch' \in BOOLEAN
<1> DEFINE fill == FillPrice(s, side)
           quantity == HalfEven(notional, fill)
           signed == Signed(s, side, notional)
           new == Filled(s, side, notional)
           fee == quantity * fill * FeeBps
<1>1. /\ fill \in Nat \ {0} /\ quantity \in Nat /\ signed \in Int
      /\ position[s] \in Position /\ new \in Position
  BY FillAmounts
<1>2. position' \in [Symbols -> Position]
  <2>1. position' = [position EXCEPT ![s] = new]
    BY FillShape
  <2>2. position \in [Symbols -> Position]
    BY DEF TypeOK, Position
  <2> HIDE DEF new
  <2> QED
    BY <1>1, <2>1, <2>2
<1>3. meta' \in [Symbols -> [since : 0..MaxCycles \cup {Never}, peak : Int]]
  <2> DEFINE M == [since : 0..MaxCycles \cup {Never}, peak : Int]
             row == IF Total(s, side, notional) = 0 THEN NoMeta
                    ELSE IF position[s].quantity = 0 THEN [since |-> now, peak |-> fill]
                    ELSE meta[s]
  <2>1. meta' = [meta EXCEPT ![s] = row]
    BY FillLedger
  <2>2. meta \in [Symbols -> M] /\ now \in 0..MaxCycles
    BY DEF TypeOK
  <2> HIDE DEF fill
  <2>3. row \in M
    BY <1>1, <2>2 DEF NoMeta
  <2> HIDE DEF row, M
  <2>4. meta' \in [Symbols -> M]
    BY <2>1, <2>2, <2>3
  <2> QED
    BY <2>4 DEF M
<1>4. lastExit' \in [Symbols -> 0..MaxCycles \cup {Never}]
  <2> DEFINE time == IF Total(s, side, notional) = 0 THEN now ELSE lastExit[s]
  <2>1. lastExit' = [lastExit EXCEPT ![s] = time]
    BY FillShape
  <2>2. lastExit \in [Symbols -> 0..MaxCycles \cup {Never}] /\ now \in 0..MaxCycles
    BY DEF TypeOK
  <2>3. time \in 0..MaxCycles \cup {Never}
    BY <2>2
  <2> HIDE DEF time
  <2> QED
    BY <2>1, <2>2, <2>3
<1>5. realizedPnl' \in Int
  <2>1. realizedPnl' = realizedPnl + RealizedDelta(position[s], signed, fill)
    BY FillLedger
  <2> HIDE DEF fill, signed
  <2>2. RealizedDelta(position[s], signed, fill) \in Int /\ realizedPnl \in Int
    BY <1>1, RealizedTyped DEF TypeOK
  <2> QED
    BY <2>1, <2>2
<1>6. feesPaid' \in Int /\ fundingPnl' \in Int
  <2>1. feesPaid' = feesPaid + HalfUp(fee, 10000) /\ fundingPnl' = fundingPnl
    BY FillLedger
  <2> HIDE DEF fill, quantity
  <2>2. fee \in Int
    BY <1>1, PaperAssumption
  <2> HIDE DEF fee
  <2>3. HalfUp(fee, 10000) \in Int /\ feesPaid \in Int /\ fundingPnl \in Int
    BY <2>2, HalfUpType DEF TypeOK
  <2> QED
    BY <2>1, <2>3
<1>7. Wallet' \in Int /\ Equity' \in Int
  BY <1>2, <1>5, <1>6, EquityNext
<1>8. sessionHigh' \in Int /\ killSwitch' \in BOOLEAN
  <2>1. sessionHigh' = Larger(sessionHigh, Equity') /\ sessionHigh \in Int
    BY FillLedger DEF TypeOK
  <2>2. killSwitch' = (killSwitch \/ (TRUE /\ Wallet' <= 0))
    BY FillLedger
  <2>3. killSwitch' \in BOOLEAN
    BY Zenon, <2>2
  <2> QED
    BY <1>7, <2>1, <2>3 DEF Larger
<1> QED
  BY <1>2, <1>3, <1>4, <1>5, <1>6, <1>8

\* Marking to market.
LEMMA BeginTyped ==
  ASSUME TypeOK, NEW prices \in [Symbols -> Prices \cup {NoFeature}],
         NEW signals \in Candidates, NEW rate \in FundingRates,
         BeginCycle(prices, signals, rate)
  PROVE  TypeOK'
<1> DEFINE marked == {s \in OpenSymbols : prices[s] # NoFeature}
           M == [since : 0..MaxCycles \cup {Never}, peak : Int]
<1>0. \A s \in marked : s \in Symbols /\ prices[s] \in Nat \ {0}
  <2> SUFFICES ASSUME NEW s \in marked PROVE s \in Symbols /\ prices[s] \in Nat \ {0}
    OBVIOUS
  <2>1. s \in Symbols /\ prices[s] # NoFeature
    BY DEF OpenSymbols
  <2>2. prices[s] \in Prices
    BY <2>1
  <2> QED
    BY <2>1, <2>2, PaperAssumption
<1>1. now' \in 0..MaxCycles
  <2>1. now \in 0..MaxCycles /\ MaxCycles \in Nat /\ now < MaxCycles /\ now' = now + 1
    BY PaperAssumption DEF BeginCycle, TypeOK
  <2> QED
    BY <2>1
<1>2. position' \in [Symbols -> Position]
  <2>1. position' = [s \in Symbols |-> IF s \in marked THEN Marked(s, prices[s]) ELSE position[s]]
    BY DEF BeginCycle
  <2>2. \A s \in Symbols : position[s] \in Position
    BY DEF TypeOK, Position
  <2>3. \A s \in marked : Marked(s, prices[s]) \in Position
    <3> SUFFICES ASSUME NEW s \in marked PROVE Marked(s, prices[s]) \in Position
      OBVIOUS
    <3>1. position[s] \in Position /\ prices[s] \in Int
      BY <1>0, <2>2
    <3> QED
      BY <3>1 DEF Marked, Position
  <2> HIDE DEF marked
  <2> QED
    BY <2>1, <2>2, <2>3
<1>3. meta' \in [Symbols -> M]
  <2>1. meta' = [s \in Symbols |-> IF s \in marked /\ meta[s] # NoMeta
                                   THEN Peaked(s, prices[s]) ELSE meta[s]]
    BY DEF BeginCycle
  <2>2. \A s \in Symbols : meta[s] \in M
    BY DEF TypeOK
  <2>3. \A s \in marked : Peaked(s, prices[s]) \in M
    <3> SUFFICES ASSUME NEW s \in marked PROVE Peaked(s, prices[s]) \in M
      OBVIOUS
    <3> DEFINE peak == IF position[s].quantity > 0 THEN Larger(meta[s].peak, prices[s])
                       ELSE Smaller(meta[s].peak, prices[s])
    <3>1. meta[s] \in M /\ prices[s] \in Int
      BY <1>0, <2>2
    <3>2. peak \in Int
      BY <3>1 DEF Larger, Smaller
    <3>3. Peaked(s, prices[s]) = [meta[s] EXCEPT !.peak = peak]
      BY DEF Peaked
    <3> HIDE DEF peak
    <3> QED
      BY <3>1, <3>2, <3>3
  <2> HIDE DEF marked, M
  <2> QED
    BY <2>1, <2>2, <2>3
<1>4. lastFunding' \in [Symbols -> 0..MaxCycles \cup {Never}]
  <2>1. lastFunding' = [s \in Symbols |-> IF s \in marked /\ FundingSeen(s, rate)
                                          THEN now' ELSE lastFunding[s]]
    BY DEF BeginCycle
  <2>2. lastFunding \in [Symbols -> 0..MaxCycles \cup {Never}]
    BY DEF TypeOK
  <2> QED
    BY <1>1, <2>1, <2>2
<1> DEFINE f == [s \in marked |-> FundingDelta(s, prices[s], rate)]
           delta == SumFunctionOnSet(f, marked)
<1>5. delta \in Int
  <2>1. ASSUME NEW s \in marked PROVE f[s] \in Int
    <3> DEFINE q == position[s].quantity
               x == Magnitude(q * prices[s])
               paid == x * rate * Sign(q)
    <3>1. q \in Int /\ prices[s] \in Int /\ rate \in Int
      BY <1>0, PaperAssumption DEF TypeOK
    <3>2. x \in Int
      <4> DEFINE y == q * prices[s]
      <4>1. y \in Int
        BY <3>1
      <4> HIDE DEF y
      <4>2. Magnitude(y) \in Int
        BY <4>1 DEF Magnitude
      <4> QED
        BY <4>2 DEF y
    <3>3. paid \in Int
      <4>1. Sign(q) \in Int
        BY DEF Sign
      <4> HIDE DEF x, q
      <4> QED
        BY <3>1, <3>2, <4>1
    <3> HIDE DEF paid
    <3>4. HalfUp(paid, 10000) \in Int
      BY <3>3, HalfUpType
    <3>5. FundingDelta(s, prices[s], rate) = IF FundingDue(s, rate) THEN - HalfUp(paid, 10000) ELSE 0
      BY DEF FundingDelta, paid
    <3> QED
      BY <3>4, <3>5
  <2>2. IsFiniteSet(marked)
    <3>1. marked \subseteq Symbols
      BY DEF OpenSymbols
    <3> QED
      BY <3>1, PaperAssumption, FS_Subset
  <2> HIDE DEF f, marked
  <2> QED
    BY <2>1, <2>2, SumType
<1>6. fundingPnl' = fundingPnl + delta /\ Settle(delta # 0)
  BY DEF BeginCycle
<1> HIDE DEF delta
<1>7. /\ realizedPnl' \in Int /\ feesPaid' \in Int /\ fundingPnl' \in Int
  BY <1>5, <1>6 DEF BeginCycle, TypeOK
<1>8. Equity' \in Int
  BY <1>2, <1>7, EquityNext
<1>9. sessionHigh' \in Int
  BY <1>6, <1>8 DEF Settle, Larger, TypeOK
<1>10. killSwitch' \in BOOLEAN
  <2>1. killSwitch' = (killSwitch \/ (delta # 0 /\ Wallet' <= 0))
    BY <1>6 DEF Settle
  <2> QED
    BY Zenon, <2>1
<1>11. /\ pc' = "exits" /\ price' = prices /\ candidates' = signals
       /\ exits' \subseteq Symbols
       /\ UNCHANGED <<next, openSymbols, gateClosed, lastExit>>
  BY DEF BeginCycle, OpenSymbols
<1>12. candidates' \in [Symbols -> Seq(SignalCandidate)]
  BY <1>11, PaperAssumption
<1> QED
  BY <1>1, <1>2, <1>3, <1>4, <1>7, <1>9, <1>10, <1>11, <1>12 DEF TypeOK, Position

-----------------------------------------------------------------------------
(* What is pending, and what the decisions may find open.                      *)

\* A pending exit is of a position that this cycle has marked.
ExitsMarked ==
  pc = "exits" => \A s \in exits : price[s] # NoFeature /\ position[s].mark = price[s]

\* What is open was so when the decisions began, or has been decided since.
OpenKnown ==
  pc = "decide" => \A s \in OpenSymbols :
    s \in openSymbols \/ \E i \in 1..(next - 1) : SymbolOrder[i] = s

PaperInv == TypeOK /\ BookInv /\ ExitsMarked /\ OpenKnown

\* The symbol whose turn it is is one of the symbols.
LEMMA TurnTyped ==
  ASSUME TypeOK, next <= Len(SymbolOrder)
  PROVE  next \in 1..Len(SymbolOrder) /\ SymbolOrder[next] \in Symbols
<1>1. SymbolOrder \in Seq(Symbols) /\ Len(SymbolOrder) \in Nat
  BY PaperAssumption, LenProperties
<1>2. next \in 1..Len(SymbolOrder)
  BY <1>1 DEF TypeOK
<1> QED
  BY <1>1, <1>2, ElementOfSeq

\* An entry never meets a position: no symbol has two turns in a cycle.
LEMMA EntryFlat ==
  ASSUME PaperInv, pc = "decide", next <= Len(SymbolOrder), MayEnter(SymbolOrder[next])
  PROVE  ~ IsOpen(SymbolOrder[next])
<1> DEFINE s == SymbolOrder[next]
<1>1. next \in 1..Len(SymbolOrder) /\ s \in Symbols /\ Len(SymbolOrder) \in Nat
  BY TurnTyped, PaperAssumption, LenProperties DEF PaperInv
<1>2. SUFFICES ASSUME IsOpen(s) PROVE FALSE
  OBVIOUS
<1>3. s \notin openSymbols
  BY DEF MayEnter
<1> HIDE DEF s
<1>4. PICK i \in 1..(next - 1) : SymbolOrder[i] = s
  BY <1>1, <1>2, <1>3 DEF PaperInv, OpenKnown, OpenSymbols
<1>5. i \in 1..Len(SymbolOrder) /\ i # next
  BY <1>1, <1>4
<1> QED
  BY <1>1, <1>4, <1>5, PaperAssumption DEF s

\* What fills there are: of a pending exit, and of an entry.
LEMMA ExitFills ==
  ASSUME PaperInv, NEW s \in Symbols, ApplyExit(s)
  PROVE  /\ IsOpen(s) /\ price[s] # NoFeature /\ position[s].mark = price[s]
         /\ GrossNotional(position[s]) \in Nat
         /\ Fill(s, ClosingSide(s), GrossNotional(position[s]))
<1>1. pc = "exits" /\ s \in exits /\ Fill(s, ClosingSide(s), GrossNotional(position[s]))
  BY DEF ApplyExit
<1>2. IsOpen(s)
  BY <1>1 DEF PaperInv, BookInv, ExitsOpen, OpenSymbols
<1>3. price[s] # NoFeature /\ position[s].mark = price[s]
  BY <1>1 DEF PaperInv, ExitsMarked
<1>4. position[s] \in Position
  BY DEF PaperInv, TypeOK, Position
<1> QED
  BY <1>1, <1>2, <1>3, <1>4, PositionAmounts

LEMMA DecideFills ==
  ASSUME PaperInv, DecideSymbol
  PROVE  \/ UNCHANGED <<book, ledger, sessionHigh, killSwitch>>
         \/ LET s == SymbolOrder[next]
            IN  /\ s \in Symbols /\ ~ IsOpen(s) /\ price[s] # NoFeature
                /\ \E signal \in SignalCandidate :
                     /\ Approved(signal, Snapshot)
                     /\ ApprovedNotional(signal, Snapshot) \in Nat
                     /\ Fill(s, signal.side, ApprovedNotional(signal, Snapshot))
<1> DEFINE s == SymbolOrder[next]
<1>1. pc = "decide" /\ next <= Len(SymbolOrder) /\ (Enter(s) \/ NoTrade(s))
  BY DEF DecideSymbol
<1>2. TypeOK /\ s \in Symbols
  BY <1>1, TurnTyped DEF PaperInv
<1>3. CASE NoTrade(s)
  BY <1>3 DEF NoTrade
<1>4. CASE Enter(s)
  <2>1. MayEnter(s) /\ \E signal \in SignalCandidate :
          /\ Approved(signal, Snapshot)
          /\ ApprovedNotional(signal, Snapshot) \in Nat
          /\ Fill(s, signal.side, ApprovedNotional(signal, Snapshot))
    <3> HIDE DEF s
    <3> QED
      BY <1>2, <1>4, EntryFills
  <2>2. ~ IsOpen(s) /\ price[s] # NoFeature
    BY <1>1, <2>1, EntryFlat DEF MayEnter
  <2> QED
    BY <1>2, <2>1, <2>2
<1> QED
  BY <1>1, <1>3, <1>4

LEMMA PaperInvInit == Init => PaperInv
<1> SUFFICES ASSUME Init PROVE PaperInv
  OBVIOUS
<1>1. BookInv
  BY BookInvInit
<1>2. pc = "idle" /\ ExitsMarked /\ OpenKnown
  BY DEF Init, ExitsMarked, OpenKnown
<1>3. TypeOK
  <2>1. Len(SymbolOrder) \in Nat /\ MaxCycles \in Nat /\ InitialBalance \in Int
    BY PaperAssumption, LenProperties
  <2>2. now \in 0..MaxCycles /\ next \in 1..(Len(SymbolOrder) + 1)
    BY <2>1 DEF Init
  <2>3. candidates \in [Symbols -> Seq(SignalCandidate)]
    BY EmptySeq DEF Init
  <2>4. price \in [Symbols -> Prices \cup {NoFeature}]
    BY DEF Init, NoFeatures
  <2>5. position \in [Symbols -> [quantity : Int, entry : Int, mark : Int]]
    BY DEF Init, Flat
  <2>6. meta \in [Symbols -> [since : 0..MaxCycles \cup {Never}, peak : Int]]
    BY DEF Init, NoMeta
  <2>7. /\ lastFunding \in [Symbols -> 0..MaxCycles \cup {Never}]
        /\ lastExit \in [Symbols -> 0..MaxCycles \cup {Never}]
    BY DEF Init
  <2>8. /\ realizedPnl \in Int /\ feesPaid \in Int /\ fundingPnl \in Int /\ sessionHigh \in Int
        /\ exits \subseteq Symbols /\ openSymbols \subseteq Symbols
    BY <2>1 DEF Init
  <2>9. killSwitch \in BOOLEAN /\ gateClosed \in BOOLEAN
    BY DEF Init
  <2> QED
    BY <1>2, <2>2, <2>3, <2>4, <2>5, <2>6, <2>7, <2>8, <2>9 DEF TypeOK
<1> QED
  BY <1>1, <1>2, <1>3 DEF PaperInv

LEMMA PaperInvStep ==
  ASSUME ModestSlippage, PaperInv, [Next]_vars
  PROVE  PaperInv'
<1>0. TypeOK /\ BookInv /\ ExitsMarked /\ OpenKnown /\ Shaped
  BY DEF PaperInv, BookInv
<1>t. /\ now \in 0..MaxCycles /\ pc \in {"idle", "exits", "decide"}
      /\ price \in [Symbols -> Prices \cup {NoFeature}]
      /\ candidates \in [Symbols -> Seq(SignalCandidate)]
      /\ exits \subseteq Symbols /\ next \in 1..(Len(SymbolOrder) + 1)
      /\ openSymbols \subseteq Symbols /\ gateClosed \in BOOLEAN
      /\ lastFunding \in [Symbols -> 0..MaxCycles \cup {Never}]
  BY <1>0 DEF TypeOK
<1>l. Len(SymbolOrder) \in Nat
  BY PaperAssumption, LenProperties
<1>b. BookInv'
  BY <1>0, BookInvStep
<1>1. ASSUME NEW prices \in [Symbols -> Prices \cup {NoFeature}],
             NEW signals \in Candidates, NEW rate \in FundingRates,
             BeginCycle(prices, signals, rate)
      PROVE  PaperInv'
  <2>1. TypeOK'
    BY <1>0, <1>1, BeginTyped
  <2>2. ExitsMarked' /\ OpenKnown'
    <3> DEFINE marked == {s \in OpenSymbols : prices[s] # NoFeature}
    <3>1. /\ pc' = "exits" /\ price' = prices /\ exits' \subseteq marked
          /\ position' = [s \in Symbols |-> IF s \in marked THEN Marked(s, prices[s])
                                            ELSE position[s]]
      BY <1>1 DEF BeginCycle
    <3>2. ASSUME NEW s \in exits' PROVE price'[s] # NoFeature /\ position'[s].mark = price'[s]
      <4>1. s \in Symbols /\ s \in marked /\ prices[s] # NoFeature
        BY <3>1 DEF OpenSymbols
      <4>2. position'[s] = Marked(s, prices[s])
        BY <3>1, <4>1
      <4>3. position[s] \in Position
        BY <1>0, <4>1 DEF TypeOK, Position
      <4> QED
        BY <3>1, <4>1, <4>2, <4>3 DEF Marked, Position
    <3> QED
      BY <3>1, <3>2 DEF ExitsMarked, OpenKnown
  <2> QED
    BY <1>b, <2>1, <2>2 DEF PaperInv
<1>2. ASSUME NEW s \in Symbols, ApplyExit(s) PROVE PaperInv'
  <2>1. /\ price[s] # NoFeature /\ GrossNotional(position[s]) \in Nat
        /\ Fill(s, ClosingSide(s), GrossNotional(position[s]))
    BY <1>2, ExitFills
  <2>2. /\ pc = "exits" /\ exits' = exits \ {s}
        /\ UNCHANGED <<now, pc, price, candidates, next, openSymbols, gateClosed, lastFunding>>
    BY <1>2 DEF ApplyExit
  <2>3. /\ position' \in [Symbols -> Position]
        /\ meta' \in [Symbols -> [since : 0..MaxCycles \cup {Never}, peak : Int]]
        /\ lastExit' \in [Symbols -> 0..MaxCycles \cup {Never}]
        /\ realizedPnl' \in Int /\ feesPaid' \in Int /\ fundingPnl' \in Int
        /\ sessionHigh' \in Int /\ killSwitch' \in BOOLEAN
    BY <1>0, <2>1, FillTyped
  <2>4. TypeOK'
    BY <1>t, <2>2, <2>3 DEF TypeOK, Position
  <2>5. \A x \in Symbols : x # s => position'[x] = position[x]
    BY <1>0, <2>1, FillElsewhere
  <2>6. ExitsMarked'
    BY <1>0, <1>t, <2>2, <2>5 DEF ExitsMarked
  <2>7. OpenKnown'
    BY <2>2 DEF OpenKnown
  <2> QED
    BY <1>b, <2>4, <2>6, <2>7 DEF PaperInv
<1>3. CASE StartDecisions
  <2>1. /\ pc' = "decide" /\ next' = 1 /\ openSymbols' = OpenSymbols /\ exits' = exits
        /\ gateClosed' = DrawdownReached(Snapshot, GateSoft)
        /\ UNCHANGED <<now, price, candidates, position, meta, lastExit, lastFunding,
                       realizedPnl, feesPaid, fundingPnl, sessionHigh, killSwitch>>
    BY <1>3 DEF StartDecisions, book, ledger
  <2>2. gateClosed' \in BOOLEAN
    <3> DEFINE account == Snapshot
               reached == 1000 * (account.equity - account.high) <= GateSoft * account.high
               zero == 0 <= GateSoft
    <3>1. reached \in BOOLEAN /\ zero \in BOOLEAN
      <4> HIDE DEF account
      <4> QED
        OBVIOUS
    <3>2. gateClosed' = IF account.high > 0 THEN reached ELSE zero
      BY <2>1 DEF DrawdownReached
    <3> HIDE DEF reached, zero
    <3> QED
      BY Zenon, <3>1, <3>2
  <2>3. next' \in 1..(Len(SymbolOrder) + 1) /\ openSymbols' \subseteq Symbols
    BY <1>l, <2>1 DEF OpenSymbols
  <2>4. TypeOK'
    BY <1>0, <2>1, <2>2, <2>3 DEF TypeOK
  <2>5. ExitsMarked' /\ OpenKnown'
    BY <2>1 DEF ExitsMarked, OpenKnown, OpenSymbols, IsOpen
  <2> QED
    BY <1>b, <2>4, <2>5 DEF PaperInv
<1>4. CASE DecideSymbol
  <2> DEFINE s == SymbolOrder[next]
  <2>1. /\ pc = "decide" /\ next <= Len(SymbolOrder) /\ next' = next + 1
        /\ UNCHANGED <<now, pc, price, candidates, exits, openSymbols, gateClosed, lastFunding>>
    BY <1>4 DEF DecideSymbol
  <2>2. next' \in 1..(Len(SymbolOrder) + 1)
    BY <1>t, <1>l, <2>1
  <2>3. ExitsMarked'
    BY <2>1 DEF ExitsMarked
  <2>4. CASE UNCHANGED <<book, ledger, sessionHigh, killSwitch>>
    <3>1. UNCHANGED <<position, meta, lastExit, realizedPnl, feesPaid, fundingPnl,
                      sessionHigh, killSwitch>>
      BY <2>4 DEF book, ledger
    <3>2. TypeOK'
      BY <1>0, <2>1, <2>2, <3>1 DEF TypeOK
    <3>3. OpenSymbols' = OpenSymbols
      BY <3>1 DEF OpenSymbols, IsOpen
    <3>4. OpenKnown'
      BY <1>0, <1>t, <1>l, <2>1, <3>3 DEF OpenKnown
    <3> QED
      BY <1>b, <2>3, <3>2, <3>4 DEF PaperInv
  <2>5. ASSUME s \in Symbols, price[s] # NoFeature,
               NEW signal \in SignalCandidate, NEW notional \in Nat,
               Fill(s, signal.side, notional)
        PROVE  PaperInv'
    <3>1. /\ position' \in [Symbols -> Position]
          /\ meta' \in [Symbols -> [since : 0..MaxCycles \cup {Never}, peak : Int]]
          /\ lastExit' \in [Symbols -> 0..MaxCycles \cup {Never}]
          /\ realizedPnl' \in Int /\ feesPaid' \in Int /\ fundingPnl' \in Int
          /\ sessionHigh' \in Int /\ killSwitch' \in BOOLEAN
      <4> HIDE DEF s
      <4> QED
        BY <1>0, <2>5, FillTyped
    <3>2. TypeOK'
      BY <1>t, <2>1, <2>2, <3>1 DEF TypeOK, Position
    <3>3. \A x \in Symbols : x # s => position'[x] = position[x]
      BY <1>0, <2>5, FillElsewhere
    <3>4. OpenSymbols' \subseteq OpenSymbols \cup {s}
      BY <3>3 DEF OpenSymbols, IsOpen
    <3>5. OpenKnown'
      <4> SUFFICES ASSUME NEW x \in OpenSymbols'
                   PROVE  x \in openSymbols \/ \E i \in 1..next : SymbolOrder[i] = x
        BY <1>t, <1>l, <2>1 DEF OpenKnown
      <4>1. CASE x = s
        BY <1>t, <1>l, <4>1
      <4>2. CASE x # s
        <5>1. x \in openSymbols \/ \E i \in 1..(next - 1) : SymbolOrder[i] = x
          BY <1>0, <2>1, <3>4, <4>2 DEF OpenKnown
        <5> QED
          BY <1>t, <1>l, <5>1
      <4> QED
        BY <4>1, <4>2
    <3> QED
      BY <1>b, <2>3, <3>2, <3>5 DEF PaperInv
  <2>6. \/ UNCHANGED <<book, ledger, sessionHigh, killSwitch>>
        \/ /\ s \in Symbols /\ price[s] # NoFeature
           /\ \E signal \in SignalCandidate, notional \in Nat : Fill(s, signal.side, notional)
    BY <1>4, DecideFills
  <2> HIDE DEF s
  <2> QED
    BY <2>4, <2>5, <2>6
<1>5. CASE EndCycle
  <2>1. /\ pc' = "idle" /\ price' = NoFeatures /\ candidates' = [s \in Symbols |-> <<>>]
        /\ next' = 1 /\ openSymbols' = {} /\ gateClosed' = FALSE
        /\ UNCHANGED <<now, exits, position, meta, lastExit, lastFunding,
                       realizedPnl, feesPaid, fundingPnl, sessionHigh, killSwitch>>
    BY <1>5 DEF EndCycle, book, ledger
  <2>2. next' \in 1..(Len(SymbolOrder) + 1) /\ gateClosed' \in BOOLEAN
    <3>1. gateClosed' \in BOOLEAN
      BY <2>1
    <3> QED
      BY <1>l, <2>1, <3>1
  <2>3. /\ price' \in [Symbols -> Prices \cup {NoFeature}]
        /\ candidates' \in [Symbols -> Seq(SignalCandidate)]
    BY <2>1, EmptySeq DEF NoFeatures
  <2>4. TypeOK'
    BY <1>0, <2>1, <2>2, <2>3 DEF TypeOK
  <2> QED
    BY <1>b, <2>1, <2>4 DEF PaperInv, ExitsMarked, OpenKnown
<1>6. CASE UNCHANGED vars
  <2>1. UNCHANGED <<now, pc, price, candidates, exits, next, openSymbols, gateClosed,
                    position, meta, lastExit, lastFunding, realizedPnl, feesPaid, fundingPnl,
                    sessionHigh, killSwitch>>
    BY <1>6 DEF vars, cycle, book, ledger
  <2>2. TypeOK'
    BY <1>0, <2>1 DEF TypeOK
  <2>3. ExitsMarked' /\ OpenKnown'
    BY <1>0, <2>1 DEF ExitsMarked, OpenKnown, OpenSymbols, IsOpen
  <2> QED
    BY <1>b, <2>2, <2>3 DEF PaperInv
<1> QED
  BY <1>1, <1>2, <1>3, <1>4, <1>5, <1>6 DEF Next

\* Every variable of the paper book keeps its type.
THEOREM PaperTypesAlways == ModestSlippage => (Spec => []TypeOK)
<1> SUFFICES ASSUME ModestSlippage PROVE Spec => []TypeOK
  OBVIOUS
<1>1. PaperInv /\ [Next]_vars => PaperInv'
  BY PaperInvStep
<1>2. PaperInv => TypeOK
  BY DEF PaperInv
<1> QED
  BY PaperInvInit, <1>1, <1>2, PTL DEF Spec

-----------------------------------------------------------------------------
(* What a fill does to the position, to the gross exposure and to the equity.  *)

\* The three kinds of steps: the quantities stay, an exit is applied, an entry is.
FillOf(s, side, notional) ==
  s \in Symbols /\ price[s] # NoFeature /\ notional \in Nat /\ Fill(s, side, notional)

ExitStep == \E s \in Symbols :
  /\ FillOf(s, ClosingSide(s), GrossNotional(position[s]))
  /\ IsOpen(s) /\ position[s].mark = price[s]

EntryStep == \E s \in Symbols, signal \in SignalCandidate :
  /\ FillOf(s, signal.side, ApprovedNotional(signal, Snapshot))
  /\ ~ IsOpen(s) /\ Approved(signal, Snapshot)

QuantitiesKept == \A s \in Symbols : position'[s].quantity = position[s].quantity

LEMMA StepKinds ==
  ASSUME PaperInv, [Next]_vars
  PROVE  QuantitiesKept \/ ExitStep \/ EntryStep
<1>1. ASSUME NEW prices \in [Symbols -> Prices \cup {NoFeature}],
             NEW signals \in Candidates, NEW rate \in FundingRates,
             BeginCycle(prices, signals, rate)
      PROVE  QuantitiesKept
  BY <1>1, BeginKeepsQuantities DEF PaperInv, BookInv, QuantitiesKept
<1>2. ASSUME NEW s \in Symbols, ApplyExit(s) PROVE ExitStep
  BY <1>2, ExitFills DEF ExitStep, FillOf
<1>3. CASE StartDecisions
  BY <1>3 DEF StartDecisions, book, QuantitiesKept
<1>4. CASE DecideSymbol
  <2>1. CASE UNCHANGED <<book, ledger, sessionHigh, killSwitch>>
    BY <2>1 DEF book, QuantitiesKept
  <2>2. CASE ~ UNCHANGED <<book, ledger, sessionHigh, killSwitch>>
    <3> DEFINE s == SymbolOrder[next]
    <3>1. /\ s \in Symbols /\ ~ IsOpen(s) /\ price[s] # NoFeature
          /\ \E signal \in SignalCandidate :
               /\ Approved(signal, Snapshot)
               /\ ApprovedNotional(signal, Snapshot) \in Nat
               /\ Fill(s, signal.side, ApprovedNotional(signal, Snapshot))
      BY <1>4, <2>2, DecideFills
    <3> HIDE DEF s
    <3> QED
      BY <3>1 DEF EntryStep, FillOf
  <2> QED
    BY <2>1, <2>2
<1>5. CASE EndCycle
  BY <1>5 DEF EndCycle, book, QuantitiesKept
<1>6. CASE UNCHANGED vars
  BY <1>6 DEF vars, book, QuantitiesKept
<1> QED
  BY <1>1, <1>2, <1>3, <1>4, <1>5, <1>6 DEF Next

\* The value of a marked position is its price times its size.
LEMMA GrossAtMark ==
  ASSUME NEW p \in Position, p.mark \in Nat
  PROVE  GrossNotional(p) = p.mark * Magnitude(p.quantity)
<1> DEFINE q == p.quantity
           m == p.mark
<1>1. q \in Int /\ m \in Nat
  BY DEF Position
<1>2. GrossNotional(p) = Magnitude(q * m)
  BY DEF GrossNotional
<1> HIDE DEF q, m
<1>3. CASE q >= 0
  <2>1. m * 0 <= m * q
    BY <1>1, <1>3, ProductMonotone
  <2>2. q * m >= 0 /\ q * m = m * q /\ q * m \in Int
    BY <1>1, <2>1
  <2>3. Magnitude(q * m) = q * m /\ Magnitude(q) = q
    <3> DEFINE x == q * m
    <3>1. x \in Int /\ x >= 0
      BY <2>2
    <3> HIDE DEF x
    <3>2. Magnitude(x) = x
      BY <3>1 DEF Magnitude
    <3> QED
      BY <1>1, <1>3, <3>2 DEF Magnitude, x
  <2> QED
    BY <1>2, <2>2, <2>3 DEF q, m
<1>4. CASE q < 0
  <2>1. m * 0 <= m * (-q)
    <3>1. -q \in Int /\ 0 <= -q
      BY <1>1, <1>4
    <3> QED
      BY <1>1, <3>1, ProductMonotone
  <2>2. q * m <= 0 /\ m * (-q) = -(q * m) /\ q * m \in Int
    BY <1>1, <2>1
  <2>3. Magnitude(q * m) = -(q * m) /\ Magnitude(q) = -q
    <3> DEFINE x == q * m
    <3>1. x \in Int /\ x <= 0
      BY <2>2
    <3> HIDE DEF x
    <3>2. Magnitude(x) = -x
      BY <3>1 DEF Magnitude
    <3> QED
      BY <1>1, <1>4, <3>2 DEF Magnitude, x
  <2> QED
    BY <1>2, <2>2, <2>3 DEF q, m
<1> QED
  BY <1>1, <1>3, <1>4

\* What a fill leaves in its symbol.
LEMMA FillLeaves ==
  ASSUME TypeOK, ModestSlippage, NEW s, NEW side, NEW notional, FillOf(s, side, notional)
  PROVE  /\ position'[s] = Filled(s, side, notional)
         /\ position'[s].quantity = position[s].quantity + Signed(s, side, notional)
         /\ position'[s].mark = FillPrice(s, side)
         /\ position'[s].entry =
              NewEntry(position[s], Signed(s, side, notional), FillPrice(s, side))
         /\ position'[s] \in Position
         /\ \A x \in Symbols : x # s => position'[x] = position[x]
<1>1. s \in Symbols /\ Fill(s, side, notional)
  BY DEF FillOf
<1>2. position' = [position EXCEPT ![s] = Filled(s, side, notional)]
  BY <1>1, FillShape
<1>3. DOMAIN position = Symbols
  BY DEF TypeOK
<1>4. position'[s] = Filled(s, side, notional)
        /\ \A x \in Symbols : x # s => position'[x] = position[x]
  BY <1>1, <1>2, <1>3
<1>5. Filled(s, side, notional) \in Position
  BY FillAmounts DEF FillOf
<1> QED
  BY <1>4, <1>5 DEF Filled, Total

\* An exit trades at most twice what is held, so what is left is no more.
LEMMA ExitReduces ==
  ASSUME TypeOK, ModestSlippage, NEW s,
         FillOf(s, ClosingSide(s), GrossNotional(position[s])),
         position[s].mark = price[s]
  PROVE  Magnitude(position'[s].quantity) <= Magnitude(position[s].quantity)
<1> DEFINE q == position[s].quantity
           m == Magnitude(q)
           p == price[s]
           side == ClosingSide(s)
           notional == GrossNotional(position[s])
           fill == FillPrice(s, side)
           h == HalfEven(notional, fill)
           signed == Signed(s, side, notional)
<1>1. /\ fill \in Nat \ {0} /\ p \in Nat \ {0} /\ h \in Nat /\ notional \in Nat
      /\ position[s] \in Position /\ q \in Int
  BY FillAmounts DEF FillOf, Position
<1>2. p <= 2 * fill
  BY <1>1, FillPriceBound
<1>3. m \in Nat
  BY <1>1 DEF Magnitude
<1>4. notional = p * m
  BY <1>1, GrossAtMark
<1>5. position'[s].quantity = q + signed
  BY FillLeaves
<1>6. signed = IF q > 0 THEN - h ELSE h
  BY DEF Signed, ClosingSide
<1> HIDE DEF q, m, p, fill, h, notional, signed
<1>7. h <= 2 * m
  <2>1. m * p <= m * (2 * fill)
    BY <1>1, <1>2, <1>3, ProductMonotone
  <2>2. notional <= fill * (2 * m)
    BY <1>1, <1>3, <1>4, <2>1
  <2>3. 2 * m \in Nat
    BY <1>3
  <2> QED
    BY <1>1, <2>2, <2>3, HalfEvenBound DEF h
<1>8. Magnitude(q + signed) <= Magnitude(q)
  BY <1>1, <1>6, <1>7 DEF Magnitude, m
<1> QED
  BY <1>5, <1>8 DEF q

Reducing == \A s \in Symbols : IsOpen(s) =>
  Magnitude(position'[s].quantity) <= Magnitude(position[s].quantity)

LEMMA ReducingStep ==
  ASSUME ModestSlippage, PaperInv, [Next]_vars
  PROVE  Reducing
<1>0. TypeOK
  BY DEF PaperInv
<1>s. \A s \in Symbols : Magnitude(position[s].quantity) <= Magnitude(position[s].quantity)
  <2> SUFFICES ASSUME NEW s \in Symbols
               PROVE Magnitude(position[s].quantity) <= Magnitude(position[s].quantity)
    OBVIOUS
  <2>1. position[s].quantity \in Int
    BY <1>0 DEF TypeOK
  <2> QED
    BY <2>1 DEF Magnitude
<1>1. CASE QuantitiesKept
  BY <1>s, <1>1 DEF QuantitiesKept, Reducing
<1>2. CASE ExitStep
  <2>1. PICK s \in Symbols : /\ FillOf(s, ClosingSide(s), GrossNotional(position[s]))
                             /\ position[s].mark = price[s]
    BY <1>2 DEF ExitStep
  <2>2. Magnitude(position'[s].quantity) <= Magnitude(position[s].quantity)
    BY <1>0, <2>1, ExitReduces
  <2>3. \A x \in Symbols : x # s => position'[x] = position[x]
    BY <1>0, <2>1, FillLeaves
  <2> QED
    BY <1>s, <2>2, <2>3 DEF Reducing
<1>3. CASE EntryStep
  <2>1. PICK s \in Symbols, signal \in SignalCandidate :
          FillOf(s, signal.side, ApprovedNotional(signal, Snapshot)) /\ ~ IsOpen(s)
    BY <1>3 DEF EntryStep
  <2>2. \A x \in Symbols : x # s => position'[x] = position[x]
    BY <1>0, <2>1, FillLeaves
  <2> QED
    BY <1>s, <2>1, <2>2 DEF Reducing
<1> QED
  BY <1>1, <1>2, <1>3, StepKinds

\* No pyramiding: whatever the slippage up to a half, a fill on an open position, be it
\* one that turns the position, never leaves more of it.
THEOREM FillsOnlyReduceAlways == ModestSlippage => (Spec => FillsOnlyReduce)
<1> SUFFICES ASSUME ModestSlippage PROVE Spec => FillsOnlyReduce
  OBVIOUS
<1>1. PaperInv /\ [Next]_vars => PaperInv'
  BY PaperInvStep
<1>2. PaperInv /\ [Next]_vars => [\A s \in Symbols : IsOpen(s) =>
        Magnitude(position'[s].quantity) <= Magnitude(position[s].quantity)]_vars
  BY ReducingStep DEF Reducing
<1> QED
  BY PaperInvInit, <1>1, <1>2, PTL DEF Spec, FillsOnlyReduce

\* What an entry adds to the gross exposure is what the kernel approved, but for the
\* rounding of the quantity.
LEMMA EntryFits ==
  ASSUME TypeOK, ModestSlippage, NEW s, NEW signal \in SignalCandidate,
         FillOf(s, signal.side, ApprovedNotional(signal, Snapshot)),
         ~ IsOpen(s), Approved(signal, Snapshot)
  PROVE  100 * GrossOf(Symbols)' <= GrossSoft * Equity + 100 * position'[s].mark
<1> DEFINE n == ApprovedNotional(signal, Snapshot)
           side == signal.side
           fill == FillPrice(s, side)
           h == HalfEven(n, fill)
           old == position[s]
           new == Filled(s, side, n)
           held == HeldOf(position, Symbols)
           limit == GrossSoft * Equity
           grown == HeldOf(position', Symbols)
<1>1. /\ s \in Symbols /\ n \in Nat /\ fill \in Nat \ {0} /\ h \in Nat
      /\ old \in Position /\ new \in Position /\ old.quantity = 0
      /\ Magnitude(Signed(s, side, n)) = h /\ Signed(s, side, n) \in Int
  BY FillAmounts DEF FillOf, IsOpen
<1>2. 100 * (GrossOf(Symbols) + n) <= limit /\ limit \in Int
  <2>1. /\ Snapshot \in AccountSnapshot /\ Snapshot.equity = Equity
        /\ Equity > 0 => Snapshot.gross = GrossOf(Symbols)
    BY SnapshotTyped
  <2>2. Equity > 0 /\ 100 * (Snapshot.gross + n) <= limit
    BY <2>1, ApprovalWithinCaps DEF WithinCaps
  <2>3. Equity \in Int
    BY <2>1 DEF AccountSnapshot
  <2> QED
    BY <2>1, <2>2, <2>3, PolicyAssumption
<1>3. GrossOf(Symbols) = held /\ GrossOf(Symbols)' = grown /\ position'[s].mark = fill
  BY Amounts, FillLeaves
<1>4. grown = held + (GrossNotional(new) - GrossNotional(old))
  <2>1. position' = [position EXCEPT ![s] = new] /\ position \in [Symbols -> Position]
    BY FillShape DEF FillOf, TypeOK, Position
  <2> HIDE DEF new
  <2> QED
    BY <1>1, <2>1, SumsChange
<1>5. GrossNotional(old) = 0
  <2>1. old.quantity * old.mark = 0
    BY <1>1 DEF Position
  <2> QED
    BY <2>1 DEF GrossNotional, Magnitude
<1>6. GrossNotional(new) = fill * h
  <2>1. new.mark = fill /\ new.quantity = Signed(s, side, n)
    BY <1>1 DEF Filled, Total
  <2> QED
    BY <1>1, <2>1, GrossAtMark
<1>7. fill * h <= n + fill /\ fill * h \in Int
  <2> HIDE DEF fill, n
  <2>1. fill * h <= n + fill
    BY <1>1, HalfEvenBound
  <2> QED
    BY <1>1, <2>1
<1>8. held \in Nat
  BY SumsTyped DEF TypeOK, Position
<1> DEFINE bought == fill * h
<1>9. bought <= n + fill /\ bought \in Int /\ grown = held + (bought - 0)
  BY <1>4, <1>5, <1>6, <1>7
<1>10. 100 * (held + n) <= limit /\ limit \in Int
  BY <1>2, <1>3
<1> HIDE DEF held, grown, bought, n, fill, limit
<1>11. 100 * grown <= limit + 100 * fill
  BY <1>1, <1>8, <1>9, <1>10
<1> QED
  BY <1>3, <1>11 DEF limit

Fitting == \A s \in Symbols : Opens(s) =>
  100 * GrossOf(Symbols)' <= GrossSoft * Equity + 100 * position'[s].mark

LEMMA FittingStep ==
  ASSUME ModestSlippage, PaperInv, [Next]_vars
  PROVE  Fitting
<1>0. TypeOK
  BY DEF PaperInv
<1>1. CASE QuantitiesKept
  BY <1>1 DEF QuantitiesKept, Fitting, Opens
<1>2. CASE ExitStep
  <2>1. PICK s \in Symbols : /\ FillOf(s, ClosingSide(s), GrossNotional(position[s]))
                             /\ IsOpen(s)
    BY <1>2 DEF ExitStep
  <2>2. \A x \in Symbols : x # s => position'[x] = position[x]
    BY <1>0, <2>1, FillLeaves
  <2> QED
    BY <2>1, <2>2 DEF Fitting, Opens, IsOpen
<1>3. CASE EntryStep
  <2>1. PICK s \in Symbols, signal \in SignalCandidate :
          /\ FillOf(s, signal.side, ApprovedNotional(signal, Snapshot))
          /\ ~ IsOpen(s) /\ Approved(signal, Snapshot)
    BY <1>3 DEF EntryStep
  <2>2. 100 * GrossOf(Symbols)' <= GrossSoft * Equity + 100 * position'[s].mark
    BY <1>0, <2>1, EntryFits
  <2>3. \A x \in Symbols : x # s => position'[x] = position[x]
    BY <1>0, <2>1, FillLeaves
  <2> QED
    BY <2>2, <2>3 DEF Fitting, Opens
<1> QED
  BY <1>1, <1>2, <1>3, StepKinds

\* By an entry the book never outgrows the soft gross cap of the equity as the fill
\* before has left it, but for one quantum: the kernel is asked about the book it is.
THEOREM EntriesFitTheCapAlways == ModestSlippage => (Spec => EntriesFitTheCap)
<1> SUFFICES ASSUME ModestSlippage PROVE Spec => EntriesFitTheCap
  OBVIOUS
<1>1. PaperInv /\ [Next]_vars => PaperInv'
  BY PaperInvStep
<1>2. PaperInv /\ [Next]_vars => [\A s \in Symbols : Opens(s) =>
        100 * GrossOf(Symbols)' <= GrossSoft * Equity + 100 * position'[s].mark]_vars
  BY FittingStep DEF Fitting
<1> QED
  BY PaperInvInit, <1>1, <1>2, PTL DEF Spec, EntriesFitTheCap

\* A fill of old at a price: what it realizes and how it revalues the rest make up the
\* revaluation of what was held.
LEMMA FillMoney ==
  ASSUME NEW old \in Position, NEW signed \in Int, NEW fill \in Nat,
         \/ old.quantity = 0
         \/ old.quantity > 0 /\ signed <= 0
         \/ old.quantity < 0 /\ signed >= 0,
         NEW new \in Position,
         new.quantity = old.quantity + signed, new.mark = fill,
         new.entry = NewEntry(old, signed, fill)
  PROVE  RealizedDelta(old, signed, fill) + (Unrealized(new) - Unrealized(old))
           = old.quantity * (fill - old.mark)
<1> DEFINE q == old.quantity
           g == fill - old.entry
           u == old.mark - old.entry
           n == Magnitude(signed)
           m == Magnitude(q)
<1>1. q \in Int /\ old.entry \in Int /\ old.mark \in Int /\ g \in Int /\ u \in Int
  BY DEF Position
<1>2. n \in Nat /\ m \in Nat
  BY <1>1 DEF Magnitude
<1>3. Unrealized(old) = u * q /\ Unrealized(new) = (fill - new.entry) * (q + signed)
  BY DEF Unrealized
<1>4. q * (fill - old.mark) = q * g - u * q
  <2> DEFINE e == old.entry
             k == old.mark
  <2>1. q * (fill - k) = q * (fill - e) - (k - e) * q
    <3> HIDE DEF q, e, k
    <3> QED
      BY <1>1 DEF e, k
  <2> QED
    BY <2>1
<1>5. CASE q = 0
  <2>1. RealizedDelta(old, signed, fill) = 0
    BY <1>5 DEF RealizedDelta
  <2>2. (fill - new.entry) * (q + signed) = 0
    <3>1. CASE n = 0
      BY <1>1, <1>5, <3>1 DEF Magnitude, Position
    <3>2. CASE n # 0
      <4>1. new.entry = HalfUp(m * old.entry + n * fill, m + n)
        BY <1>1, <1>2, <1>5, <3>2 DEF NewEntry
      <4>2. m = 0
        BY <1>5 DEF Magnitude
      <4>3. m * old.entry + n * fill = n * fill /\ m + n = n
        BY <1>1, <1>2, <4>2
      <4>4. HalfUp(n * fill, n) = fill
        BY <1>2, <3>2, HalfUpExact
      <4>5. new.entry = fill
        BY <4>1, <4>3, <4>4
      <4> QED
        BY <1>1, <4>5
    <3> QED
      BY <3>1, <3>2
  <2>3. u * q = 0 /\ q * g = 0
    BY <1>1, <1>5
  <2> HIDE DEF g, u, q
  <2> QED
    BY <1>3, <1>4, <2>1, <2>2, <2>3 DEF q
<1>6. CASE q > 0 /\ signed <= 0
  <2>1. m = q /\ n = - signed /\ Sign(q) = 1
    BY <1>1, <1>6 DEF Magnitude, Sign
  <2>2. ~ (q = 0 \/ q * signed > 0)
    <3>1. q * signed <= q * 0
      BY <1>1, <1>6, ProductMonotone
    <3> QED
      BY <1>1, <1>6, <3>1
  <2>3. RealizedDelta(old, signed, fill) = g * Smaller(q, n)
    <3>1. RealizedDelta(old, signed, fill) = g * Smaller(m, n) * 1
      BY <2>1, <2>2 DEF RealizedDelta
    <3>2. Smaller(m, n) \in Int
      BY <1>2 DEF Smaller
    <3> HIDE DEF g, q, m, n
    <3> QED
      BY <1>1, <2>1, <3>1, <3>2
  <2>4. new.entry = IF n < m THEN old.entry ELSE IF n = m THEN 0 ELSE fill
    BY <2>2 DEF NewEntry
  <2>5. CASE n < m
    <3>1. Unrealized(new) = g * (q - n)
      BY <1>1, <1>3, <2>1, <2>4, <2>5
    <3>2. RealizedDelta(old, signed, fill) = g * n
      BY <1>1, <1>2, <2>1, <2>3, <2>5 DEF Smaller
    <3>3. g * (q - n) = q * g - g * n /\ q * g \in Int /\ g * n \in Int /\ u * q \in Int
      <4> HIDE DEF g, q, n, u
      <4> QED
        BY <1>1, <1>2
    <3> HIDE DEF g, u, q, n
    <3> QED
      BY <1>3, <1>4, <3>1, <3>2, <3>3 DEF q
  <2>6. CASE n = m
    <3>1. Unrealized(new) = 0
      BY <1>1, <1>3, <2>1, <2>4, <2>6
    <3>2. RealizedDelta(old, signed, fill) = q * g
      BY <1>1, <1>2, <2>1, <2>3, <2>6 DEF Smaller
    <3>3. q * g \in Int /\ u * q \in Int
      <4> HIDE DEF g, q, u
      <4> QED
        BY <1>1
    <3> HIDE DEF g, u, q
    <3> QED
      BY <1>3, <1>4, <3>1, <3>2, <3>3 DEF q
  <2>7. CASE n > m
    <3>1. Unrealized(new) = 0
      <4>1. new.entry = fill
        BY <1>2, <2>4, <2>7
      <4> QED
        BY <1>1, <1>3, <4>1
    <3>2. RealizedDelta(old, signed, fill) = q * g
      BY <1>1, <1>2, <2>1, <2>3, <2>7 DEF Smaller
    <3>3. q * g \in Int /\ u * q \in Int
      <4> HIDE DEF g, q, u
      <4> QED
        BY <1>1
    <3> HIDE DEF g, u, q
    <3> QED
      BY <1>3, <1>4, <3>1, <3>2, <3>3 DEF q
  <2> HIDE DEF m, n
  <2> QED
    BY <1>2, <2>5, <2>6, <2>7
<1>7. CASE q < 0 /\ signed >= 0
  <2>1. m = - q /\ n = signed /\ Sign(q) = -1
    BY <1>1, <1>7 DEF Magnitude, Sign
  <2>2. ~ (q = 0 \/ q * signed > 0)
    <3>1. signed * q <= signed * 0
      BY <1>1, <1>7, ProductMonotone
    <3> QED
      BY <1>1, <1>7, <3>1
  <2>3. RealizedDelta(old, signed, fill) = - (g * Smaller(m, n))
    <3>1. RealizedDelta(old, signed, fill) = g * Smaller(m, n) * (-1)
      BY <2>1, <2>2 DEF RealizedDelta
    <3>2. Smaller(m, n) \in Int
      BY <1>2 DEF Smaller
    <3> HIDE DEF g, q, m, n
    <3> QED
      BY <1>1, <3>1, <3>2
  <2>4. new.entry = IF n < m THEN old.entry ELSE IF n = m THEN 0 ELSE fill
    BY <2>2 DEF NewEntry
  <2>5. CASE n < m
    <3>1. Unrealized(new) = g * (q + n)
      BY <1>1, <1>3, <2>1, <2>4, <2>5
    <3>2. RealizedDelta(old, signed, fill) = - (g * n)
      BY <1>1, <1>2, <2>1, <2>3, <2>5 DEF Smaller
    <3>3. g * (q + n) = q * g + g * n /\ q * g \in Int /\ g * n \in Int /\ u * q \in Int
      <4> HIDE DEF g, q, n, u
      <4> QED
        BY <1>1, <1>2
    <3> HIDE DEF g, u, q, n
    <3> QED
      BY <1>3, <1>4, <3>1, <3>2, <3>3 DEF q
  <2>6. CASE n >= m
    <3>1. Unrealized(new) = 0
      <4>1. CASE n = m
        BY <1>1, <1>3, <2>1, <2>4, <4>1
      <4>2. CASE n > m
        <5>1. new.entry = fill
          BY <1>2, <2>4, <4>2
        <5> QED
          BY <1>1, <1>3, <5>1
      <4> QED
        BY <1>2, <2>6, <4>1, <4>2
    <3>2. RealizedDelta(old, signed, fill) = q * g
      <4>1. Smaller(m, n) = - q
        BY <1>2, <2>1, <2>6 DEF Smaller
      <4>2. - (g * (- q)) = q * g
        <5> HIDE DEF g, q
        <5> QED
          BY <1>1
      <4> QED
        BY <2>3, <4>1, <4>2
    <3>3. q * g \in Int /\ u * q \in Int
      <4> HIDE DEF g, q, u
      <4> QED
        BY <1>1
    <3> HIDE DEF g, u, q
    <3> QED
      BY <1>3, <1>4, <3>1, <3>2, <3>3 DEF q
  <2> HIDE DEF m, n
  <2> QED
    BY <1>2, <2>5, <2>6
<1> QED
  BY <1>5, <1>6, <1>7

\* A fill against a position, or beside none, preserves the equity but for the fee.
LEMMA FillPreserves ==
  ASSUME TypeOK, ModestSlippage, NEW s, NEW side, NEW notional, FillOf(s, side, notional),
         ~ IsOpen(s) \/ side = ClosingSide(s)
  PROVE  Equity' = Equity - (feesPaid' - feesPaid)
                   + position[s].quantity * (position'[s].mark - position[s].mark)
<1> DEFINE fill == FillPrice(s, side)
           signed == Signed(s, side, notional)
           h == HalfEven(notional, fill)
           old == position[s]
           new == Filled(s, side, notional)
           gain == RealizedDelta(old, signed, fill)
           before == ValueOf(position)
           after == ValueOf(position')
           moved == old.quantity * (fill - old.mark)
<1>1. /\ s \in Symbols /\ fill \in Nat /\ h \in Nat /\ signed \in Int
      /\ old \in Position /\ new \in Position
  BY FillAmounts DEF FillOf
<1>2. /\ position'[s] = new /\ new.quantity = old.quantity + signed /\ new.mark = fill
      /\ new.entry = NewEntry(old, signed, fill)
  BY FillLeaves DEF Filled, Total
<1>3. \/ old.quantity = 0
      \/ old.quantity > 0 /\ signed <= 0
      \/ old.quantity < 0 /\ signed >= 0
  <2>1. signed = IF side = "BUY" THEN h ELSE - h
    BY DEF Signed
  <2>2. old.quantity \in Int
    BY <1>1 DEF Position
  <2> HIDE DEF signed, h
  <2> QED
    BY <1>1, <2>1, <2>2 DEF IsOpen, ClosingSide
<1>4. gain + (Unrealized(new) - Unrealized(old)) = moved
  <2> HIDE DEF fill, signed, new, old
  <2> QED
    BY <1>1, <1>2, <1>3, FillMoney
<1>5. after = before + (Unrealized(new) - Unrealized(old))
  <2>1. position' = [position EXCEPT ![s] = new] /\ position \in [Symbols -> Position]
    BY FillShape DEF FillOf, TypeOK, Position
  <2> HIDE DEF new
  <2> QED
    BY <1>1, <2>1, SumsChange
<1>6. /\ realizedPnl' = realizedPnl + gain /\ fundingPnl' = fundingPnl
      /\ realizedPnl \in Int /\ fundingPnl \in Int /\ feesPaid \in Int /\ feesPaid' \in Int
  <2>1. realizedPnl' = realizedPnl + gain /\ fundingPnl' = fundingPnl
    BY FillLedger DEF FillOf
  <2>2. feesPaid' \in Int
    BY FillTyped DEF FillOf
  <2>3. realizedPnl \in Int /\ fundingPnl \in Int /\ feesPaid \in Int
    BY DEF TypeOK
  <2> QED
    BY <2>1, <2>2, <2>3
<1>7. gain \in Int
  <2> HIDE DEF fill, signed, old
  <2> QED
    BY <1>1, RealizedTyped
<1>8. /\ Equity = InitialBalance + realizedPnl + fundingPnl - feesPaid + before
      /\ Equity' = InitialBalance + realizedPnl' + fundingPnl' - feesPaid' + after
  BY Amounts DEF Wallet
<1>9. before \in Int
  BY SumsTyped DEF TypeOK, Position
<1>10. Unrealized(new) \in Int /\ Unrealized(old) \in Int /\ InitialBalance \in Int
  <2>1. InitialBalance \in Int
    BY PaperAssumption
  <2> HIDE DEF old, new
  <2>2. Unrealized(new) \in Int
    BY <1>1, PositionAmounts
  <2>3. Unrealized(old) \in Int
    BY <1>1, PositionAmounts
  <2> QED
    BY <2>1, <2>2, <2>3
<1> DEFINE rise == Unrealized(new) - Unrealized(old)
<1>11. gain + rise = moved /\ after = before + rise /\ rise \in Int
  BY <1>4, <1>5, <1>10
<1> HIDE DEF gain, rise, before, after, moved
<1>12. Equity' = Equity - (feesPaid' - feesPaid) + moved
  BY <1>6, <1>7, <1>8, <1>9, <1>10, <1>11
<1> QED
  BY <1>2, <1>12 DEF moved

Preserving == \A s \in Symbols : position'[s].quantity # position[s].quantity =>
  Equity' = Equity - (feesPaid' - feesPaid)
            + position[s].quantity * (position'[s].mark - position[s].mark)

LEMMA PreservingStep ==
  ASSUME ModestSlippage, PaperInv, [Next]_vars
  PROVE  Preserving
<1>0. TypeOK
  BY DEF PaperInv
<1>1. CASE QuantitiesKept
  BY <1>1 DEF QuantitiesKept, Preserving
<1>2. ASSUME NEW s, NEW side, NEW notional, FillOf(s, side, notional),
             ~ IsOpen(s) \/ side = ClosingSide(s)
      PROVE  Preserving
  <2>1. \A x \in Symbols : x # s => position'[x] = position[x]
    BY <1>0, <1>2, FillLeaves
  <2>2. Equity' = Equity - (feesPaid' - feesPaid)
                  + position[s].quantity * (position'[s].mark - position[s].mark)
    BY <1>0, <1>2, FillPreserves
  <2> QED
    BY <2>1, <2>2 DEF Preserving
<1>3. CASE ExitStep
  BY <1>2, <1>3 DEF ExitStep
<1>4. CASE EntryStep
  BY <1>2, <1>4 DEF EntryStep
<1> QED
  BY <1>1, <1>3, <1>4, StepKinds

\* A fill costs its fee and revalues what was held at the fill price, to the last unit:
\* realized profit, entry price and remainder always add up, whether the fill opens,
\* reduces, closes or turns the position.
THEOREM FillsPreserveEquityAlways == ModestSlippage => (Spec => FillsPreserveEquity)
<1> SUFFICES ASSUME ModestSlippage PROVE Spec => FillsPreserveEquity
  OBVIOUS
<1>1. PaperInv /\ [Next]_vars => PaperInv'
  BY PaperInvStep
<1>2. PaperInv /\ [Next]_vars =>
        [\A s \in Symbols : position'[s].quantity # position[s].quantity =>
           Equity' = Equity - (feesPaid' - feesPaid)
                     + position[s].quantity * (position'[s].mark - position[s].mark)]_vars
  BY PreservingStep DEF Preserving
<1> QED
  BY PaperInvInit, <1>1, <1>2, PTL DEF Spec, FillsPreserveEquity

-----------------------------------------------------------------------------
(* Without slippage an exit closes, so what is left are positions no rule       *)
(* demands an exit of; the entries of the cycle leave them alone.               *)

SurvivorInv ==
  /\ pc = "exits" => \A s \in OpenSymbols \ exits :
       price[s] # NoFeature => ~ ExitDue(position[s], meta[s], now)
  /\ SurvivorsWithinRules

LEMMA ExitClosesExactly ==
  ASSUME TypeOK, Slippage = 0, NEW s,
         FillOf(s, ClosingSide(s), GrossNotional(position[s])),
         position[s].mark = price[s]
  PROVE  /\ position'[s].quantity = 0
         /\ \A x \in Symbols : x # s => position'[x] = position[x] /\ meta'[x] = meta[x]
<1> DEFINE q == position[s].quantity
           m == Magnitude(q)
           p == price[s]
           side == ClosingSide(s)
           notional == GrossNotional(position[s])
           fill == FillPrice(s, side)
           h == HalfEven(notional, fill)
           signed == Signed(s, side, notional)
<1>0. ModestSlippage
  BY DEF ModestSlippage
<1>1. /\ fill \in Nat \ {0} /\ p \in Nat \ {0} /\ h \in Nat
      /\ position[s] \in Position /\ q \in Int
  BY <1>0, FillAmounts DEF FillOf, Position
<1>2. fill = p
  BY <1>0, <1>1, FillPriceBound
<1>3. m \in Nat
  BY <1>1 DEF Magnitude
<1>4. notional = p * m
  BY <1>1, GrossAtMark
<1>5. /\ position'[s].quantity = q + signed
      /\ \A x \in Symbols : x # s => position'[x] = position[x]
  BY <1>0, FillLeaves
<1>6. signed = IF q > 0 THEN - h ELSE h
  BY DEF Signed, ClosingSide
<1>7. \A x \in Symbols : x # s => meta'[x] = meta[x]
  <2>1. DOMAIN meta = Symbols
    BY DEF TypeOK
  <2>2. PICK row : meta' = [meta EXCEPT ![s] = row]
    BY FillLedger DEF FillOf
  <2> QED
    BY <2>1, <2>2
<1> HIDE DEF q, m, p, fill, h, notional, signed
<1>8. h = m
  <2>1. HalfEven(p * m, p) = m
    BY <1>1, <1>3, HalfEvenExact
  <2> QED
    BY <1>2, <1>4, <2>1 DEF h
<1>9. q + signed = 0
  BY <1>1, <1>6, <1>8 DEF Magnitude, m
<1> QED
  BY <1>5, <1>7, <1>9

LEMMA SurvivorInit == Init => SurvivorInv
  BY DEF Init, SurvivorInv, SurvivorsWithinRules

LEMMA SurvivorStep ==
  ASSUME Slippage = 0, PaperInv, SurvivorInv, [Next]_vars
  PROVE  SurvivorInv'
<1>0. TypeOK /\ Shaped
  BY DEF PaperInv, BookInv
<1>1. ASSUME NEW prices \in [Symbols -> Prices \cup {NoFeature}],
             NEW signals \in Candidates, NEW rate \in FundingRates,
             BeginCycle(prices, signals, rate)
      PROVE  SurvivorInv'
  <2> DEFINE marked == {s \in OpenSymbols : prices[s] # NoFeature}
  <2>1. /\ pc' = "exits" /\ price' = prices
        /\ exits' = {s \in marked : ExitDue(position'[s], meta'[s], now')}
    BY <1>1 DEF BeginCycle
  <2>2. OpenSymbols' = OpenSymbols
    BY <1>0, <1>1, BeginKeepsQuantities DEF OpenSymbols, IsOpen
  <2>3. \A s \in OpenSymbols' \ exits' :
          price'[s] # NoFeature => ~ ExitDue(position'[s], meta'[s], now')
    BY <2>1, <2>2
  <2>4. SurvivorsWithinRules'
    BY <2>1 DEF SurvivorsWithinRules
  <2>5. \A s \in OpenSymbols' \ exits' :
          price'[s] # NoFeature => ~ ExitDue(position[s], meta[s], now)'
    BY <2>3 DEF ExitDue, Unrealized
  <2> QED
    BY <2>4, <2>5 DEF SurvivorInv
<1>2. ASSUME NEW s \in Symbols, ApplyExit(s) PROVE SurvivorInv'
  <2>1. /\ FillOf(s, ClosingSide(s), GrossNotional(position[s]))
        /\ position[s].mark = price[s]
    BY <1>2, ExitFills DEF FillOf
  <2>2. /\ position'[s].quantity = 0
        /\ \A x \in Symbols : x # s => position'[x] = position[x] /\ meta'[x] = meta[x]
    BY <1>0, <2>1, ExitClosesExactly
  <2>3. pc = "exits" /\ pc' = pc /\ now' = now /\ price' = price /\ exits' = exits \ {s}
    BY <1>2 DEF ApplyExit
  <2>4. ASSUME NEW x \in OpenSymbols' \ exits', price'[x] # NoFeature
        PROVE  ~ ExitDue(position[x], meta[x], now)'
    <3>1. x \in Symbols /\ x # s
      BY <2>2, <2>4 DEF OpenSymbols, IsOpen
    <3>2. x \in OpenSymbols \ exits
      BY <2>2, <2>3, <3>1 DEF OpenSymbols, IsOpen
    <3>3. ~ ExitDue(position[x], meta[x], now)
      BY <2>3, <2>4, <3>2 DEF SurvivorInv
    <3> QED
      BY <2>2, <2>3, <3>1, <3>3 DEF ExitDue, Unrealized
  <2> QED
    BY <2>3, <2>4 DEF SurvivorInv, SurvivorsWithinRules
<1>3. CASE StartDecisions
  <2>1. /\ pc = "exits" /\ exits = {} /\ pc' = "decide" /\ openSymbols' = OpenSymbols
        /\ UNCHANGED <<now, price, position, meta>>
    BY <1>3 DEF StartDecisions, book
  <2>2. \A s \in OpenSymbols : price[s] # NoFeature => ~ ExitDue(position[s], meta[s], now)
    BY <2>1 DEF SurvivorInv
  <2> QED
    BY <2>1, <2>2 DEF SurvivorInv, SurvivorsWithinRules, ExitDue, Unrealized
<1>4. CASE DecideSymbol
  <2> DEFINE t == SymbolOrder[next]
  <2>1. /\ pc = "decide" /\ next <= Len(SymbolOrder) /\ (Enter(t) \/ NoTrade(t))
        /\ UNCHANGED <<now, pc, price, openSymbols>>
    BY <1>4 DEF DecideSymbol
  <2>2. \A s \in openSymbols : position'[s] = position[s] /\ meta'[s] = meta[s]
    <3>1. openSymbols \subseteq Symbols /\ DOMAIN meta = Symbols
      BY <1>0 DEF TypeOK
    <3>2. CASE NoTrade(t)
      BY <3>2 DEF NoTrade, book
    <3>3. CASE Enter(t)
      <4>1. PICK side, notional : Fill(t, side, notional)
        BY <3>3 DEF Enter
      <4>2. t \notin openSymbols
        BY <3>3 DEF Enter, MayEnter
      <4>3. \A x \in Symbols : x # t => position'[x] = position[x]
        BY <1>0, <4>1, FillElsewhere
      <4>4. PICK row : meta' = [meta EXCEPT ![t] = row]
        BY <4>1, FillLedger
      <4> HIDE DEF t
      <4> QED
        BY <3>1, <4>2, <4>3, <4>4
    <3> QED
      BY <2>1, <3>2, <3>3
  <2>3. \A s \in openSymbols : price[s] # NoFeature => ~ ExitDue(position[s], meta[s], now)
    BY <2>1 DEF SurvivorInv, SurvivorsWithinRules
  <2>4. \A s \in openSymbols' : price'[s] # NoFeature => ~ ExitDue(position[s], meta[s], now)'
    BY <2>1, <2>2, <2>3 DEF ExitDue, Unrealized
  <2> QED
    BY <2>1, <2>4 DEF SurvivorInv, SurvivorsWithinRules
<1>5. CASE EndCycle
  BY <1>5 DEF EndCycle, SurvivorInv, SurvivorsWithinRules
<1>6. CASE UNCHANGED vars
  <2>1. UNCHANGED <<now, pc, price, exits, openSymbols, position, meta>>
    BY <1>6 DEF vars, cycle, book
  <2>2. OpenSymbols' = OpenSymbols
    BY <2>1 DEF OpenSymbols, IsOpen
  <2> QED
    BY <2>1, <2>2 DEF SurvivorInv, SurvivorsWithinRules, ExitDue, Unrealized
<1> QED
  BY <1>1, <1>2, <1>3, <1>4, <1>5, <1>6 DEF Next

\* Where a fill is at the reference price, nothing that could be priced stays in the
\* book against an exit rule: an exit leaves no remainder, and the entries that follow
\* are of other symbols.
THEOREM SurvivorsWithinRulesAlways == Slippage = 0 => (Spec => []SurvivorsWithinRules)
<1> SUFFICES ASSUME Slippage = 0 PROVE Spec => []SurvivorsWithinRules
  OBVIOUS
<1>1. ModestSlippage
  BY DEF ModestSlippage
<1>2. PaperInv /\ [Next]_vars => PaperInv'
  BY <1>1, PaperInvStep
<1>3. PaperInv /\ SurvivorInv /\ [Next]_vars => SurvivorInv'
  BY SurvivorStep
<1>4. SurvivorInv => SurvivorsWithinRules
  BY DEF SurvivorInv
<1> QED
  BY PaperInvInit, SurvivorInit, <1>2, <1>3, <1>4, PTL DEF Spec
=============================================================================
