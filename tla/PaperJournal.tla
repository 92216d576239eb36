---------------------------- MODULE PaperJournal ----------------------------
(***************************************************************************)
(* What paper mode leaves on disk and what the export makes of it: the     *)
(* records that a decision cycle appends to its streams and the            *)
(* PaperDatasetService that joins them.                                    *)
(*                                                                         *)
(* The book is in memory only, the streams outlive the process.  A cycle   *)
(* changes the book and appends records, one at a time; an append may fail *)
(* (the cycle is abandoned, the process goes on) and the process may be    *)
(* killed and started again between any two steps.  The export is another  *)
(* process, which reads the streams one after the other while the first    *)
(* keeps appending.                                                        *)
(*                                                                         *)
(* The book is the set of open symbols and an equity, here the number of   *)
(* marks and fills since the start of the process: each gives a new value. *)
(***************************************************************************)
EXTENDS Naturals, Sequences, SequencesExt

CONSTANTS
  Symbols,
  SymbolOrder,     \* configured_symbols()
  Reasons,         \* why a position is closed, part of an exit's decision_id
  NoId,            \* the decision_id ""
  NotRead,         \* a stream the export has not read yet
  MaxCycles,       \* bound: cycles
  MaxFaults        \* bound: appends that fail and times the process is killed

ASSUME JournalAssumption ==
  /\ SymbolOrder \in Seq(Symbols)
  /\ NotRead \notin Nat
  /\ MaxCycles \in Nat /\ MaxFaults \in Nat

Decisions == "paper_decision_log"
Fills == "paper_fill_log"
Pnl == "paper_pnl_log"
Exits == "exit_decision_log"
Streams == {Decisions, Fills, Pnl, Exits}

VARIABLES
  log,         \* the rows of each stream
  broken,      \* streams with a line that is no JSON
  pc,          \* "idle", "exits", "decide", "enter"
  cycle,       \* cycle_id
  outcome,     \* of the last cycle: "none", "returned", "raised"
  features,    \* symbols with a feature in this cycle
  exits,       \* exit decisions not yet applied: symbol and reason
  next,        \* index of the symbol to decide next
  writes,      \* records the running call has yet to append
  holding,     \* symbols with an open position
  openSymbols, \* those open when the decisions began
  equity,
  seen,        \* rows of each stream the export has read
  faults

disk == <<log, broken>>
loop == <<pc, cycle, outcome, features, exits, next, openSymbols>>
book == <<holding, equity>>
vars == <<disk, loop, writes, book, seen, faults>>

Rows == Range(log[Decisions]) \cup Range(log[Fills])

\* No stream holds a row of a later cycle or of an unknown symbol, and no
\* record is pending unless a cycle runs.
TypeOK ==
  /\ \A r \in Rows : r.cycle_id \in 1..cycle /\ r.symbol \in Symbols
  /\ \A r \in Range(log[Pnl]) : r.cycle_id \in 1..cycle /\ r.equity \in Nat
  /\ broken \subseteq Streams
  /\ pc \in {"idle", "exits", "decide", "enter"}
  /\ cycle \in 0..MaxCycles
  /\ outcome \in {"none", "returned", "raised"}
  /\ features \subseteq Symbols /\ exits \subseteq Symbols \X Reasons
  /\ next \in 1..(Len(SymbolOrder) + 1)
  /\ pc = "idle" => writes = <<>> /\ exits = {}
  /\ holding \subseteq Symbols /\ openSymbols \subseteq Symbols
  /\ equity \in Nat
  /\ seen \in [{Decisions, Fills, Pnl} -> Nat \cup {NotRead}]
  /\ faults \in 0..MaxFaults

NothingSeen == [stream \in {Decisions, Fills, Pnl} |-> NotRead]

Init ==
  /\ log = [stream \in Streams |-> <<>>]
  /\ broken = {}
  /\ pc = "idle" /\ cycle = 0 /\ outcome = "none"
  /\ features = {} /\ exits = {} /\ next = 1 /\ openSymbols = {}
  /\ writes = <<>>
  /\ holding = {} /\ equity = 0
  /\ seen = NothingSeen
  /\ faults = 0

-----------------------------------------------------------------------------
(* The records *)

Record(stream, row) == [stream |-> stream, row |-> row]

\* _build_journal_entry: the id is a field of the entry itself.
Entry(id, s, status) ==
  [cycle_id |-> cycle, decision_id |-> id, symbol |-> s, decision_status |-> status]

FillRow(id, s) == [cycle_id |-> cycle, decision_id |-> id, symbol |-> s]
PnlRow(c, value) == [cycle_id |-> c, equity |-> value]

\* decide() draws a uuid for each decision; an exit is called by its reason.
EntryId(s) == <<cycle, s>>
ExitId(s, reason) == <<reason, s>>

-----------------------------------------------------------------------------
(* A cycle *)

\* mark_to_market revalues what is open and has a feature, and records the
\* account whether or not anything is open.
BeginCycle(read, due) ==
  /\ pc = "idle"
  /\ cycle < MaxCycles
  /\ \A e \in due : e[1] \in holding \cap read
  /\ \A e, f \in due : e[1] = f[1] => e = f
  /\ cycle' = cycle + 1
  /\ pc' = "exits"
  /\ features' = read
  /\ exits' = due
  /\ equity' = IF holding \cap read = {} THEN equity ELSE equity + 1
  /\ writes' = <<Record(Pnl, PnlRow(cycle', equity'))>>
  /\ UNCHANGED <<disk, outcome, next, openSymbols, holding, seen, faults>>

\* Mutant of FillRecords: the account is recorded before it is settled.
FillRecordsUnsettled(id, s) ==
  << Record(Fills, FillRow(id, s)), Record(Pnl, PnlRow(cycle, equity)) >>

\* What apply_decision records: the fill, then the account after it.
FillRecords(id, s) ==
  << Record(Fills, FillRow(id, s)), Record(Pnl, PnlRow(cycle, equity')) >>

\* An exit is applied first and explained afterwards, in two streams.  Slippage
\* may leave a remainder open.
ApplyExit(e, left) ==
  LET s  == e[1]
      id == ExitId(s, e[2])
  IN  /\ pc = "exits" /\ writes = <<>>
      /\ e \in exits
      /\ exits' = exits \ {e}
      /\ holding' = IF left THEN holding ELSE holding \ {s}
      /\ equity' = equity + 1
      /\ writes' = FillRecords(id, s)
                   \o << Record(Decisions, Entry(id, s, "EXECUTE")),
                         Record(Exits, Entry(id, s, "EXECUTE")) >>
      /\ UNCHANGED <<disk, pc, cycle, outcome, features, next, openSymbols, seen,
                     faults>>

\* Without a positive price there is no fill, and the exit is explained all the same.
ExitUnfilled(e) ==
  LET s  == e[1]
      id == ExitId(s, e[2])
  IN  /\ pc = "exits" /\ writes = <<>>
      /\ e \in exits
      /\ exits' = exits \ {e}
      /\ writes' = << Record(Decisions, Entry(id, s, "EXECUTE")),
                      Record(Exits, Entry(id, s, "EXECUTE")) >>
      /\ UNCHANGED <<disk, pc, cycle, outcome, features, next, openSymbols, book, seen,
                     faults>>

StartDecisions ==
  /\ pc = "exits" /\ writes = <<>> /\ exits = {}
  /\ pc' = "decide"
  /\ next' = 1
  /\ openSymbols' = holding
  /\ UNCHANGED <<disk, cycle, outcome, features, exits, writes, book, seen,
                 faults>>

Deciding == pc = "decide" /\ writes = <<>> /\ next <= Len(SymbolOrder)

\* Mutant of Decide: the entry is filled before it is explained.
DecideAfterFill(status) ==
  LET s == SymbolOrder[next]
  IN  /\ Deciding /\ s \in features
      /\ status = "EXECUTE" => s \notin openSymbols
      /\ writes' = IF status = "EXECUTE"
                   THEN FillRecordsUnsettled(EntryId(s), s)
                        \o << Record(Decisions, Entry(EntryId(s), s, status)) >>
                   ELSE << Record(Decisions, Entry(EntryId(s), s, status)) >>
      /\ next' = next + 1
      /\ UNCHANGED <<disk, pc, cycle, outcome, features, exits, openSymbols, book, seen,
                     faults>>

\* The decision about a symbol is recorded before it is applied; nothing is
\* entered in a symbol that was open.
Decide(status) ==
  LET s == SymbolOrder[next]
  IN  /\ Deciding
      /\ s \in features
      /\ status = "EXECUTE" => s \notin openSymbols
      /\ writes' = << Record(Decisions, Entry(EntryId(s), s, status)) >>
      /\ IF status = "EXECUTE" THEN pc' = "enter" /\ next' = next
         ELSE pc' = pc /\ next' = next + 1
      /\ UNCHANGED <<disk, cycle, outcome, features, exits, openSymbols, book, seen,
                     faults>>

\* apply_decision for the entry just recorded.
ApplyEntry ==
  LET s == SymbolOrder[next]
  IN  /\ pc = "enter" /\ writes = <<>>
      /\ holding' = holding \cup {s}
      /\ equity' = equity + 1
      /\ writes' = FillRecords(EntryId(s), s)
      /\ pc' = "decide"
      /\ next' = next + 1
      /\ UNCHANGED <<disk, cycle, outcome, features, exits, openSymbols, seen,
                     faults>>

\* The price of the feature is not positive: nothing is filled.
EntryUnfilled ==
  /\ pc = "enter" /\ writes = <<>>
  /\ pc' = "decide"
  /\ next' = next + 1
  /\ UNCHANGED <<disk, cycle, outcome, features, exits, openSymbols, writes, book, seen,
                 faults>>

\* A symbol without a feature leaves no record.
Skip ==
  /\ Deciding
  /\ SymbolOrder[next] \notin features
  /\ next' = next + 1
  /\ UNCHANGED <<disk, pc, cycle, outcome, features, exits, openSymbols, writes, book,
                 seen, faults>>

\* The locals of run_cycle are gone.
CycleOver(result) ==
  /\ pc' = "idle" /\ outcome' = result
  /\ features' = {} /\ exits' = {} /\ next' = 1 /\ openSymbols' = {}
  /\ writes' = <<>>

EndCycle ==
  /\ pc = "decide" /\ writes = <<>> /\ next > Len(SymbolOrder)
  /\ CycleOver("returned")
  /\ UNCHANGED <<disk, cycle, book, seen, faults>>

-----------------------------------------------------------------------------
(* Storage *)

\* JsonlStorage.append.  A broken stream is never read again, so what else it
\* holds is left out.
AppendRecord ==
  /\ writes # <<>>
  /\ LET w == Head(writes)
     IN  log' = IF w.stream \in broken THEN log
                ELSE [log EXCEPT ![w.stream] = Append(@, w.row)]
  /\ writes' = Tail(writes)
  /\ UNCHANGED <<broken, loop, book, seen, faults>>

\* An append that fails may leave a part of its line, which the next append
\* continues.  The exception ends the cycle; the book keeps what was applied.
AppendFails(partly) ==
  /\ writes # <<>>
  /\ faults < MaxFaults
  /\ faults' = faults + 1
  /\ broken' = IF partly THEN broken \cup {Head(writes).stream} ELSE broken
  /\ CycleOver("raised")
  /\ UNCHANGED <<log, cycle, book, seen>>

\* The process is killed, and started with an empty book.
Restart ==
  /\ faults < MaxFaults
  /\ faults' = faults + 1
  /\ holding' = {} /\ equity' = 0
  /\ CycleOver("none")
  /\ UNCHANGED <<disk, cycle, seen>>

-----------------------------------------------------------------------------
(* The export *)

ReadStream(stream) ==
  /\ stream \notin broken
  /\ seen[stream] = NotRead
  /\ seen' = [seen EXCEPT ![stream] = Len(log[stream])]
  /\ UNCHANGED <<disk, loop, writes, book, faults>>

\* Mutant of ReadFirst: the account first, the decisions last.
ReadPnlFirst(stream) ==
  CASE stream = Pnl -> TRUE
    [] stream = Fills -> seen[Pnl] # NotRead
    [] stream = Decisions -> seen[Fills] # NotRead

\* The order of the reads in build_dataset_rows.
ReadFirst(stream) ==
  CASE stream = Decisions -> TRUE
    [] stream = Fills -> seen[Decisions] # NotRead
    [] stream = Pnl -> seen[Fills] # NotRead

\* A stream with a broken line makes the read raise: the export ends.
ExportFails(stream) ==
  /\ stream \in broken
  /\ seen # NothingSeen
  /\ seen' = NothingSeen
  /\ UNCHANGED <<disk, loop, writes, book, faults>>

Exported == \A stream \in {Decisions, Fills, Pnl} : seen[stream] # NotRead

\* The files are written, which ends the export.
FinishExport ==
  /\ Exported
  /\ seen' = NothingSeen
  /\ UNCHANGED <<disk, loop, writes, book, faults>>

Read(stream) == SubSeq(log[stream], 1, seen[stream])

\* decision.get("decision", {}).get("decision_id") or "".
JoinKey(entry) ==
  IF "decision" \in DOMAIN entry THEN entry.decision.decision_id ELSE NoId

\* _group_by_decision_id, _group_last_by_key: the last of the rows at I, which
\* have one key, wins; << >> is none.
LastAt(rows, I) == IF I = {} THEN <<>> ELSE << rows[Max(I)] >>

FillOf(entry, fills) ==
  LastAt(fills, {i \in DOMAIN fills : fills[i].decision_id = JoinKey(entry)})

PnlOf(entry, pnls) ==
  LastAt(pnls, {i \in DOMAIN pnls : pnls[i].cycle_id = entry.cycle_id})

\* build_dataset_rows: a row for each decision, with its fill and its account.
DatasetRows(decisions, fills, pnls) ==
  [i \in DOMAIN decisions |->
     [decision |-> decisions[i], fill |-> FillOf(decisions[i], fills),
      pnl |-> PnlOf(decisions[i], pnls)]]

\* build_summary: ending_equity of rows that are not empty, <<>> is none.
EndingEquity(rows) ==
  IF Last(rows).pnl = <<>> THEN <<>> ELSE <<Last(rows).pnl[1].equity>>

Export ==
  \/ \E stream \in {Decisions, Fills, Pnl} :
        (ReadFirst(stream) /\ ReadStream(stream)) \/ ExportFails(stream)
  \/ FinishExport

Cycle ==
  \/ \E read \in SUBSET Symbols, due \in SUBSET (Symbols \X Reasons) :
        BeginCycle(read, due)
  \/ \E e \in Symbols \X Reasons, left \in BOOLEAN : ApplyExit(e, left)
  \/ \E e \in Symbols \X Reasons : ExitUnfilled(e)
  \/ StartDecisions
  \/ \E status \in {"EXECUTE", "NO_TRADE"} : Decide(status)
  \/ ApplyEntry \/ EntryUnfilled
  \/ Skip
  \/ EndCycle
  \/ AppendRecord

Next ==
  \/ Cycle
  \/ \E partly \in BOOLEAN : AppendFails(partly)
  \/ Restart
  \/ Export

Spec == Init /\ [][Next]_vars

-----------------------------------------------------------------------------
(* Properties *)

\* Whatever is killed or fails while the export reads, every row it builds has
\* an account: the account of a cycle is on disk before the cycle's first
\* decision, and is read after the decisions.
RowsHaveAccounts ==
  Exported =>
    LET rows == DatasetRows(Read(Decisions), Read(Fills), Read(Pnl))
    IN  \A i \in DOMAIN rows : rows[i].pnl # <<>>

\* When the last cycle returned and decided anything, the summary of an export
\* made now ends with the equity the engine has.
SummaryIsCurrent ==
  /\ pc = "idle" /\ outcome = "returned"
  /\ broken = {}
  /\ log[Decisions] # <<>> /\ Last(log[Decisions]).cycle_id = cycle
  => EndingEquity(DatasetRows(log[Decisions], log[Fills], log[Pnl])) = <<equity>>

\* The fill of an entry is explained before it is on record; only an exit's can
\* be on record without the decision behind it, when the process ends in between.
EntriesAreExplained ==
  Decisions \notin broken =>
    \A f \in Range(log[Fills]) :
      \/ \E d \in Range(log[Decisions]) : d.decision_id = f.decision_id
      \/ f.decision_id[1] \in Reasons

-----------------------------------------------------------------------------
(* What the tests say and the code does not do *)

\* The row of a decision whose fill is on record carries that fill.
FillsReachTheDataset ==
  LET rows == DatasetRows(log[Decisions], log[Fills], log[Pnl])
  IN  \A i \in DOMAIN rows :
        (\E f \in Range(log[Fills]) : f.decision_id = rows[i].decision.decision_id)
        => rows[i].fill # <<>>
=============================================================================
