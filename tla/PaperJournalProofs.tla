------------------------- MODULE PaperJournalProofs -------------------------
(***************************************************************************)
(* What an export finds on disk, for any symbols, reasons and bounds.      *)
(*                                                                         *)
(* The argument: a cycle appends its account before anything else, so a    *)
(* decision on record has the account of its cycle on record (Accounted),  *)
(* and an export that reads the accounts after the decisions reads it      *)
(* (ReadInOrder).  The last account, on record or still to be appended, is *)
(* the engine's (Settled).  A fill is pending only when its decision is on *)
(* record, or it is an exit's (Explained).                                 *)
(***************************************************************************)
EXTENDS PaperJournal, SequenceTheorems, TLAPS

Ids == (Nat \cup Reasons) \X Symbols
Entries == [cycle_id : Nat, decision_id : Ids, symbol : Symbols,
            decision_status : {"EXECUTE", "NO_TRADE"}]
FillRows == [cycle_id : Nat, decision_id : Ids, symbol : Symbols]
Accounts == [cycle_id : Nat, equity : Nat]
Pending ==
  [stream : {Decisions, Exits}, row : Entries]
    \cup [stream : {Fills}, row : FillRows] \cup [stream : {Pnl}, row : Accounts]

RowsOf(stream) ==
  IF stream = Fills THEN FillRows ELSE IF stream = Pnl THEN Accounts ELSE Entries

Logs ==
  /\ DOMAIN log = Streams
  /\ \A stream \in Streams : log[stream] \in Seq(RowsOf(stream))

\* No row on record is of a later cycle, and what is pending is of this one.
Dated ==
  /\ \A stream \in Streams : \A i \in 1..Len(log[stream]) :
        log[stream][i].cycle_id \in 1..cycle
  /\ \A k \in 1..Len(writes) : writes[k].row.cycle_id = cycle

Local ==
  /\ broken \subseteq Streams
  /\ pc \in {"idle", "exits", "decide", "enter"}
  /\ cycle \in 0..MaxCycles
  /\ outcome \in {"none", "returned", "raised"}
  /\ features \subseteq Symbols /\ exits \subseteq Symbols \X Reasons
  /\ next \in 1..(Len(SymbolOrder) + 1)
  /\ pc = "enter" => next \in 1..Len(SymbolOrder)
  /\ pc = "idle" => writes = <<>> /\ exits = {}
  /\ pc # "idle" => cycle # 0
  /\ holding \subseteq Symbols /\ openSymbols \subseteq Symbols
  /\ equity \in Nat
  /\ faults \in 0..MaxFaults

Progress ==
  /\ seen \in [{Decisions, Fills, Pnl} -> Nat \cup {NotRead}]
  /\ \A stream \in {Decisions, Fills, Pnl} :
        seen[stream] # NotRead => seen[stream] <= Len(log[stream])

JournalTypes == Logs /\ writes \in Seq(Pending) /\ Dated /\ Local /\ Progress

-----------------------------------------------------------------------------
(* The invariant *)

\* One of the first n accounts on record is of cycle c.
HasAccount(c, n) == \E j \in 1..n : log[Pnl][j].cycle_id = c

AccountNext == writes # <<>> /\ Head(writes).stream = Pnl

Accounted ==
  Pnl \notin broken =>
    /\ \A i \in 1..Len(log[Decisions]) :
          HasAccount(log[Decisions][i].cycle_id, Len(log[Pnl]))
    /\ pc # "idle" => HasAccount(cycle, Len(log[Pnl])) \/ AccountNext

ReadInOrder ==
  /\ seen[Fills] # NotRead => seen[Decisions] # NotRead
  /\ seen[Pnl] # NotRead =>
       /\ seen[Fills] # NotRead
       /\ \A i \in 1..seen[Decisions] :
             HasAccount(log[Decisions][i].cycle_id, seen[Pnl])

\* The engine's account is the last on record, with none pending, or it is the
\* last one pending.
OnRecord ==
  /\ \A k \in 1..Len(writes) : writes[k].stream # Pnl
  /\ Len(log[Pnl]) # 0
  /\ log[Pnl][Len(log[Pnl])] = PnlRow(cycle, equity)

InWriting ==
  \E k \in 1..Len(writes) :
    /\ writes[k] = Record(Pnl, PnlRow(cycle, equity))
    /\ \A m \in 1..Len(writes) : m > k => writes[m].stream # Pnl

Settled ==
  Pnl \notin broken /\ (pc # "idle" \/ outcome = "returned") => OnRecord \/ InWriting

\* What may be on record as the id of a fill.
Explained(id) ==
  \/ id[1] \in Reasons
  \/ \E i \in 1..Len(log[Decisions]) : log[Decisions][i].decision_id = id

DecisionNext(id) ==
  writes # <<>> /\ Head(writes).stream = Decisions /\ Head(writes).row.decision_id = id

FillsExplained ==
  Decisions \notin broken =>
    /\ \A i \in 1..Len(log[Fills]) : Explained(log[Fills][i].decision_id)
    /\ \A k \in 1..Len(writes) :
          writes[k].stream = Fills => Explained(writes[k].row.decision_id)
    /\ pc = "enter" => LET id == EntryId(SymbolOrder[next])
                       IN  Explained(id) \/ DecisionNext(id)

JournalInv ==
  JournalTypes /\ Accounted /\ ReadInOrder /\ Settled /\ FillsExplained

-----------------------------------------------------------------------------
(* Sequences *)

LEMMA PopFacts ==
  ASSUME NEW S, NEW q \in Seq(S), q # <<>>
  PROVE  /\ Len(q) \in Nat \ {0}
         /\ Head(q) = q[1] /\ q[1] \in S
         /\ Tail(q) \in Seq(S)
         /\ Len(Tail(q)) = Len(q) - 1
         /\ \A k \in 1..Len(Tail(q)) : Tail(q)[k] = q[k + 1]
  OBVIOUS

LEMMA PushFacts ==
  ASSUME NEW S, NEW q \in Seq(S), NEW x \in S
  PROVE  /\ Append(q, x) \in Seq(S)
         /\ Len(q) \in Nat /\ Len(Append(q, x)) = Len(q) + 1
         /\ Append(q, x)[Len(q) + 1] = x
         /\ \A k \in 1..Len(q) : Append(q, x)[k] = q[k]
  OBVIOUS

LEMMA OneTyped ==
  ASSUME NEW S, NEW a \in S
  PROVE  /\ <<a>> \in Seq(S) /\ Len(<<a>>) = 1 /\ <<a>>[1] = a
  OBVIOUS

LEMMA TwoTyped ==
  ASSUME NEW S, NEW a \in S, NEW b \in S
  PROVE  /\ <<a, b>> \in Seq(S) /\ Len(<<a, b>>) = 2
         /\ <<a, b>>[1] = a /\ <<a, b>>[2] = b
  OBVIOUS

LEMMA FourTyped ==
  ASSUME NEW S, NEW a \in S, NEW b \in S, NEW c \in S, NEW d \in S
  PROVE  LET q == <<a, b>> \o <<c, d>>
         IN  /\ q \in Seq(S) /\ Len(q) = 4
             /\ q[1] = a /\ q[2] = b /\ q[3] = c /\ q[4] = d
<1> DEFINE p == <<a, b>>
           r == <<c, d>>
<1>1. /\ p \in Seq(S) /\ Len(p) = 2 /\ p[1] = a /\ p[2] = b
      /\ r \in Seq(S) /\ Len(r) = 2 /\ r[1] = c /\ r[2] = d
  BY TwoTyped
<1> HIDE DEF p, r
<1>2. /\ p \o r \in Seq(S) /\ Len(p \o r) = 4
      /\ \A k \in 1..4 : (p \o r)[k] = IF k <= 2 THEN p[k] ELSE r[k - 2]
  <2>1. /\ p \o r \in Seq(S) /\ Len(p \o r) = Len(p) + Len(r)
        /\ \A i \in 1..(Len(p) + Len(r)) :
             (p \o r)[i] = IF i <= Len(p) THEN p[i] ELSE r[i - Len(p)]
    BY <1>1, ConcatProperties
  <2> QED
    BY <1>1, <2>1
<1>3. /\ (p \o r)[1] = p[1] /\ (p \o r)[2] = p[2]
      /\ (p \o r)[3] = r[1] /\ (p \o r)[4] = r[2]
  BY <1>2
<1> QED
  BY <1>1, <1>2, <1>3 DEF p, r

-----------------------------------------------------------------------------
(* Records *)

LEMMA StreamNames ==
  /\ Streams = {Decisions, Fills, Pnl, Exits}
  /\ Decisions # Fills /\ Decisions # Pnl /\ Decisions # Exits
  /\ Fills # Pnl /\ Fills # Exits /\ Pnl # Exits
  BY DEF Streams, Decisions, Fills, Pnl, Exits

LEMMA EntryRecord ==
  ASSUME cycle \in Nat, NEW id \in Ids, NEW s \in Symbols,
         NEW status \in {"EXECUTE", "NO_TRADE"}, NEW stream \in {Decisions, Exits}
  PROVE  /\ Record(stream, Entry(id, s, status)) \in Pending
         /\ Record(stream, Entry(id, s, status)).stream = stream
         /\ Record(stream, Entry(id, s, status)).row.cycle_id = cycle
         /\ Record(stream, Entry(id, s, status)).row.decision_id = id
  BY DEF Record, Entry, Pending, Entries

LEMMA FillRecord ==
  ASSUME cycle \in Nat, NEW id \in Ids, NEW s \in Symbols
  PROVE  /\ Record(Fills, FillRow(id, s)) \in Pending
         /\ Record(Fills, FillRow(id, s)).stream = Fills
         /\ Record(Fills, FillRow(id, s)).row.cycle_id = cycle
         /\ Record(Fills, FillRow(id, s)).row.decision_id = id
  BY DEF Record, FillRow, Pending, FillRows

LEMMA AccountRecord ==
  ASSUME NEW c \in Nat, NEW value \in Nat
  PROVE  /\ Record(Pnl, PnlRow(c, value)) \in Pending
         /\ Record(Pnl, PnlRow(c, value)).stream = Pnl
         /\ Record(Pnl, PnlRow(c, value)).row = PnlRow(c, value)
         /\ Record(Pnl, PnlRow(c, value)).row.cycle_id = c
  BY DEF Record, PnlRow, Pending, Accounts

LEMMA PendingShape ==
  ASSUME NEW w \in Pending
  PROVE  /\ w.stream \in Streams
         /\ w.row \in RowsOf(w.stream)
         /\ w.row.cycle_id \in Nat
  BY StreamNames DEF Pending, RowsOf, Entries, FillRows, Accounts

LEMMA IdTypes ==
  ASSUME cycle \in Nat, NEW s \in Symbols
  PROVE  /\ EntryId(s) \in Ids
         /\ \A reason \in Reasons : ExitId(s, reason) \in Ids /\ ExitId(s, reason)[1] \in Reasons
  BY DEF EntryId, ExitId, Ids

-----------------------------------------------------------------------------
(* What a step leaves to append *)

LEMMA BeginWrites ==
  ASSUME JournalTypes, NEW read \in SUBSET Symbols,
         NEW due \in SUBSET (Symbols \X Reasons), BeginCycle(read, due)
  PROVE  /\ equity' \in Nat /\ cycle' \in Nat /\ cycle' = cycle + 1
         /\ writes' \in Seq(Pending) /\ Len(writes') = 1
         /\ writes'[1] = Record(Pnl, PnlRow(cycle', equity'))
<1>1. equity' \in Nat /\ cycle' \in Nat /\ cycle' = cycle + 1
  BY JournalAssumption DEF JournalTypes, Local, BeginCycle
<1>2. writes' = <<Record(Pnl, PnlRow(cycle', equity'))>>
  BY DEF BeginCycle
<1>3. Record(Pnl, PnlRow(cycle', equity')) \in Pending
  BY <1>1, AccountRecord
<1> QED
  BY <1>1, <1>2, <1>3, OneTyped

LEMMA ExitWrites ==
  ASSUME JournalTypes, NEW e \in Symbols \X Reasons, NEW left \in BOOLEAN,
         ApplyExit(e, left)
  PROVE  /\ equity' \in Nat
         /\ writes' \in Seq(Pending) /\ Len(writes') = 4
         /\ writes'[1].stream = Fills /\ writes'[1].row.decision_id[1] \in Reasons
         /\ writes'[2] = Record(Pnl, PnlRow(cycle, equity'))
         /\ writes'[3].stream = Decisions /\ writes'[4].stream = Exits
         /\ \A k \in 1..4 : writes'[k].row.cycle_id = cycle
<1> DEFINE s == e[1]
           id == ExitId(s, e[2])
<1>1. cycle \in Nat /\ s \in Symbols /\ e[2] \in Reasons /\ id \in Ids /\ id[1] \in Reasons
  BY IdTypes, JournalAssumption DEF JournalTypes, Local
<1>2. equity' \in Nat
  BY DEF JournalTypes, Local, ApplyExit
<1>3. writes' = << Record(Fills, FillRow(id, s)), Record(Pnl, PnlRow(cycle, equity')) >>
                  \o << Record(Decisions, Entry(id, s, "EXECUTE")),
                        Record(Exits, Entry(id, s, "EXECUTE")) >>
  BY DEF ApplyExit, FillRecords
<1> HIDE DEF s, id
<1>4. /\ Record(Fills, FillRow(id, s)) \in Pending
      /\ Record(Fills, FillRow(id, s)).stream = Fills
      /\ Record(Fills, FillRow(id, s)).row.cycle_id = cycle
      /\ Record(Fills, FillRow(id, s)).row.decision_id = id
  BY <1>1, FillRecord
<1>5. /\ Record(Pnl, PnlRow(cycle, equity')) \in Pending
      /\ Record(Pnl, PnlRow(cycle, equity')).row.cycle_id = cycle
  BY <1>1, <1>2, AccountRecord
<1>6. \A stream \in {Decisions, Exits} :
        /\ Record(stream, Entry(id, s, "EXECUTE")) \in Pending
        /\ Record(stream, Entry(id, s, "EXECUTE")).stream = stream
        /\ Record(stream, Entry(id, s, "EXECUTE")).row.cycle_id = cycle
  BY <1>1, EntryRecord
<1> DEFINE a == Record(Fills, FillRow(id, s))
           b == Record(Pnl, PnlRow(cycle, equity'))
           c == Record(Decisions, Entry(id, s, "EXECUTE"))
           d == Record(Exits, Entry(id, s, "EXECUTE"))
<1>7. /\ a \in Pending /\ b \in Pending /\ c \in Pending /\ d \in Pending
      /\ a.stream = Fills /\ c.stream = Decisions /\ d.stream = Exits
      /\ a.row.decision_id = id
      /\ a.row.cycle_id = cycle /\ b.row.cycle_id = cycle
      /\ c.row.cycle_id = cycle /\ d.row.cycle_id = cycle
  BY <1>4, <1>5, <1>6
<1>8. writes' = <<a, b>> \o <<c, d>> /\ b = Record(Pnl, PnlRow(cycle, equity'))
  BY <1>3
<1> HIDE DEF a, b, c, d
<1>9. /\ writes' \in Seq(Pending) /\ Len(writes') = 4
      /\ writes'[1] = a /\ writes'[2] = b /\ writes'[3] = c /\ writes'[4] = d
  BY <1>7, <1>8, FourTyped
<1>10. \A k \in 1..4 : k = 1 \/ k = 2 \/ k = 3 \/ k = 4
  OBVIOUS
<1> QED
  BY <1>1, <1>2, <1>7, <1>8, <1>9, <1>10

LEMMA UnfilledWrites ==
  ASSUME JournalTypes, NEW e \in Symbols \X Reasons, ExitUnfilled(e)
  PROVE  /\ writes' \in Seq(Pending) /\ Len(writes') = 2
         /\ writes'[1].stream = Decisions /\ writes'[2].stream = Exits
         /\ writes'[1].row.cycle_id = cycle /\ writes'[2].row.cycle_id = cycle
<1> DEFINE s == e[1]
           id == ExitId(s, e[2])
           a == Record(Decisions, Entry(id, s, "EXECUTE"))
           b == Record(Exits, Entry(id, s, "EXECUTE"))
<1>1. cycle \in Nat /\ s \in Symbols /\ id \in Ids
  BY IdTypes, JournalAssumption DEF JournalTypes, Local
<1>2. writes' = <<a, b>>
  BY DEF ExitUnfilled
<1> HIDE DEF s, id
<1>3. /\ a \in Pending /\ a.stream = Decisions /\ a.row.cycle_id = cycle
      /\ b \in Pending /\ b.stream = Exits /\ b.row.cycle_id = cycle
  BY <1>1, EntryRecord
<1> HIDE DEF a, b
<1>4. writes' \in Seq(Pending) /\ Len(writes') = 2 /\ writes'[1] = a /\ writes'[2] = b
  BY <1>2, <1>3, TwoTyped
<1> QED
  BY <1>3, <1>4

LEMMA DecideWrites ==
  ASSUME JournalTypes, NEW status \in {"EXECUTE", "NO_TRADE"}, Decide(status)
  PROVE  /\ next \in 1..Len(SymbolOrder) /\ SymbolOrder[next] \in Symbols
         /\ writes' \in Seq(Pending) /\ Len(writes') = 1
         /\ writes'[1].stream = Decisions
         /\ writes'[1].row.cycle_id = cycle
         /\ writes'[1].row.decision_id = EntryId(SymbolOrder[next])
<1> DEFINE s == SymbolOrder[next]
           w == Record(Decisions, Entry(EntryId(s), s, status))
<1>1. next \in 1..Len(SymbolOrder) /\ s \in Symbols
  BY JournalAssumption DEF JournalTypes, Local, Decide, Deciding
<1>2. writes' = <<w>>
  BY DEF Decide
<1> HIDE DEF s
<1>3. cycle \in Nat /\ EntryId(s) \in Ids
  BY <1>1, IdTypes, JournalAssumption DEF JournalTypes, Local
<1>4. /\ w \in Pending /\ w.stream = Decisions /\ w.row.cycle_id = cycle
      /\ w.row.decision_id = EntryId(s)
  BY <1>1, <1>3, EntryRecord
<1> HIDE DEF w
<1>5. writes' \in Seq(Pending) /\ Len(writes') = 1 /\ writes'[1] = w
  BY <1>2, <1>4, OneTyped
<1> QED
  BY <1>1, <1>4, <1>5 DEF s

LEMMA EntryWrites ==
  ASSUME JournalTypes, ApplyEntry
  PROVE  /\ equity' \in Nat
         /\ next \in 1..Len(SymbolOrder) /\ SymbolOrder[next] \in Symbols
         /\ writes' \in Seq(Pending) /\ Len(writes') = 2
         /\ writes'[1].stream = Fills
         /\ writes'[1].row.decision_id = EntryId(SymbolOrder[next])
         /\ writes'[2] = Record(Pnl, PnlRow(cycle, equity'))
         /\ writes'[1].row.cycle_id = cycle /\ writes'[2].row.cycle_id = cycle
<1> DEFINE s == SymbolOrder[next]
           a == Record(Fills, FillRow(EntryId(s), s))
           b == Record(Pnl, PnlRow(cycle, equity'))
<1>1. next \in 1..Len(SymbolOrder) /\ s \in Symbols
  BY JournalAssumption DEF JournalTypes, Local, ApplyEntry
<1>2. equity' \in Nat
  BY DEF JournalTypes, Local, ApplyEntry
<1>3. writes' = <<a, b>>
  BY DEF ApplyEntry, FillRecords
<1> HIDE DEF s
<1>4. cycle \in Nat /\ EntryId(s) \in Ids
  BY <1>1, IdTypes, JournalAssumption DEF JournalTypes, Local
<1>5. /\ a \in Pending /\ a.stream = Fills /\ a.row.cycle_id = cycle
      /\ a.row.decision_id = EntryId(s)
  BY <1>1, <1>4, FillRecord
<1>6. b \in Pending /\ b.row.cycle_id = cycle
  BY <1>2, <1>4, AccountRecord
<1> HIDE DEF a, b
<1>7. /\ writes' \in Seq(Pending) /\ Len(writes') = 2
      /\ writes'[1] = a /\ writes'[2] = b
  BY <1>3, <1>5, <1>6, TwoTyped
<1> QED
  BY <1>1, <1>2, <1>5, <1>6, <1>7 DEF s, b

-----------------------------------------------------------------------------
(* Types *)

LEMMA RowTypes ==
  ASSUME JournalTypes, NEW stream \in Streams, NEW i \in 1..Len(log[stream])
  PROVE  /\ Len(log[stream]) \in Nat
         /\ log[stream][i] \in RowsOf(stream)
  BY DEF JournalTypes, Logs

\* A record that is appended is the new last row of its stream, if that can
\* still be read.
LEMMA AppendShape ==
  ASSUME JournalTypes, AppendRecord
  PROVE  /\ writes # <<>> /\ writes[1] \in Pending /\ writes[1] = Head(writes)
         /\ Len(writes) \in Nat \ {0}
         /\ writes' \in Seq(Pending) /\ Len(writes') = Len(writes) - 1
         /\ \A k \in 1..Len(writes') : writes'[k] = writes[k + 1]
         /\ DOMAIN log' = Streams
         /\ \A stream \in Streams :
              /\ Len(log[stream]) \in Nat /\ log'[stream] \in Seq(RowsOf(stream))
              /\ \A i \in 1..Len(log[stream]) : log'[stream][i] = log[stream][i]
              /\ stream # writes[1].stream \/ stream \in broken =>
                   log'[stream] = log[stream]
              /\ stream = writes[1].stream /\ stream \notin broken =>
                   /\ Len(log'[stream]) = Len(log[stream]) + 1
                   /\ log'[stream][Len(log[stream]) + 1] = writes[1].row
<1> DEFINE w == Head(writes)
<1>1. /\ writes # <<>> /\ w = writes[1] /\ w \in Pending
      /\ Len(writes) \in Nat \ {0}
      /\ writes' \in Seq(Pending) /\ Len(writes') = Len(writes) - 1
      /\ \A k \in 1..Len(writes') : writes'[k] = writes[k + 1]
  BY PopFacts DEF JournalTypes, AppendRecord
<1>2. log' = IF w.stream \in broken THEN log
             ELSE [log EXCEPT ![w.stream] = Append(@, w.row)]
  BY DEF AppendRecord
<1>3. /\ DOMAIN log = Streams
      /\ \A stream \in Streams : log[stream] \in Seq(RowsOf(stream))
  BY DEF JournalTypes, Logs
<1>4. w.stream \in Streams /\ w.row \in RowsOf(w.stream)
  BY <1>1, PendingShape
<1> HIDE DEF w
<1>5. DOMAIN log' = Streams
  BY <1>2, <1>3
<1>6. ASSUME NEW stream \in Streams
      PROVE  /\ Len(log[stream]) \in Nat /\ log'[stream] \in Seq(RowsOf(stream))
             /\ \A i \in 1..Len(log[stream]) : log'[stream][i] = log[stream][i]
             /\ stream # w.stream \/ stream \in broken => log'[stream] = log[stream]
             /\ stream = w.stream /\ stream \notin broken =>
                  /\ Len(log'[stream]) = Len(log[stream]) + 1
                  /\ log'[stream][Len(log[stream]) + 1] = w.row
  <2> DEFINE q == log[stream]
  <2>1. q \in Seq(RowsOf(stream))
    BY <1>3
  <2>2. CASE stream # w.stream \/ stream \in broken
    <3>1. log'[stream] = q
      BY <1>2, <1>3, <2>2
    <3> HIDE DEF q
    <3>2. Len(q) \in Nat
      BY <2>1
    <3> QED
      BY <2>1, <2>2, <3>1, <3>2 DEF q
  <2>3. CASE stream = w.stream /\ stream \notin broken
    <3>1. log'[stream] = Append(q, w.row)
      BY <1>2, <1>3, <2>3
    <3>2. w.row \in RowsOf(stream)
      BY <1>4, <2>3
    <3> HIDE DEF q
    <3>3. /\ Append(q, w.row) \in Seq(RowsOf(stream))
          /\ Len(q) \in Nat /\ Len(Append(q, w.row)) = Len(q) + 1
          /\ Append(q, w.row)[Len(q) + 1] = w.row
          /\ \A k \in 1..Len(q) : Append(q, w.row)[k] = q[k]
      BY <2>1, <3>2, PushFacts
    <3> QED
      BY <2>3, <3>1, <3>3 DEF q
  <2> QED
    BY <2>2, <2>3
<1> QED
  BY <1>1, <1>5, <1>6

\* What a step that leaves the disk and the export alone has to show.
LEMMA KeepRows ==
  ASSUME JournalTypes, UNCHANGED disk, UNCHANGED seen, cycle' \in Nat, cycle <= cycle',
         \A k \in 1..Len(writes') : writes'[k].row.cycle_id = cycle'
  PROVE  Logs' /\ Dated' /\ Progress'
<1>1. log' = log /\ cycle \in Nat
  BY JournalAssumption DEF JournalTypes, Local, disk
<1>2. Logs' /\ Progress'
  BY <1>1 DEF JournalTypes, Logs, Progress
<1>3. Dated'
  BY <1>1 DEF JournalTypes, Dated
<1> QED
  BY <1>2, <1>3

LEMMA NothingDated ==
  ASSUME writes' = <<>>
  PROVE  writes' \in Seq(Pending) /\ \A k \in 1..Len(writes') : writes'[k].row.cycle_id = cycle'
  OBVIOUS

LEMMA CycleTypes ==
  ASSUME JournalTypes, Cycle, ~ AppendRecord
  PROVE  JournalTypes'
<1>1. CASE \E read \in SUBSET Symbols, due \in SUBSET (Symbols \X Reasons) :
             BeginCycle(read, due)
  <2>1. PICK read \in SUBSET Symbols, due \in SUBSET (Symbols \X Reasons) :
          BeginCycle(read, due)
    BY <1>1
  <2>2. /\ equity' \in Nat /\ cycle' \in Nat /\ cycle' = cycle + 1
        /\ writes' \in Seq(Pending) /\ Len(writes') = 1
        /\ writes'[1] = Record(Pnl, PnlRow(cycle', equity'))
    BY <2>1, BeginWrites
  <2>3. writes'[1].row.cycle_id = cycle'
    BY <2>2, AccountRecord
  <2>4. \A k \in 1..Len(writes') : writes'[k].row.cycle_id = cycle'
    BY <2>2, <2>3
  <2>5. Local'
    BY <2>1, <2>2, JournalAssumption DEF JournalTypes, Local, BeginCycle, disk
  <2>6. UNCHANGED disk /\ UNCHANGED seen /\ cycle <= cycle'
    BY <2>1, <2>2, JournalAssumption DEF JournalTypes, Local, BeginCycle
  <2> QED
    BY <2>2, <2>4, <2>5, <2>6, KeepRows DEF JournalTypes
<1>2. CASE \E e \in Symbols \X Reasons, left \in BOOLEAN : ApplyExit(e, left)
  <2>1. PICK e \in Symbols \X Reasons, left \in BOOLEAN : ApplyExit(e, left)
    BY <1>2
  <2>2. /\ equity' \in Nat /\ writes' \in Seq(Pending) /\ Len(writes') = 4
        /\ \A k \in 1..4 : writes'[k].row.cycle_id = cycle
    BY <2>1, ExitWrites
  <2>3. cycle' = cycle /\ UNCHANGED disk /\ UNCHANGED seen
    BY <2>1 DEF ApplyExit
  <2>4. Local'
    BY <2>1, <2>2, <2>3 DEF JournalTypes, Local, ApplyExit, disk
  <2>5. cycle \in Nat
    BY JournalAssumption DEF JournalTypes, Local
  <2> QED
    BY <2>2, <2>3, <2>4, <2>5, KeepRows DEF JournalTypes
<1>7. CASE \E e \in Symbols \X Reasons : ExitUnfilled(e)
  <2>1. PICK e \in Symbols \X Reasons : ExitUnfilled(e)
    BY <1>7
  <2>2. /\ writes' \in Seq(Pending) /\ Len(writes') = 2
        /\ writes'[1].row.cycle_id = cycle /\ writes'[2].row.cycle_id = cycle
    BY <2>1, UnfilledWrites
  <2>3. cycle' = cycle /\ UNCHANGED disk /\ UNCHANGED seen
    BY <2>1 DEF ExitUnfilled
  <2>4. Local'
    BY <2>1, <2>2, <2>3 DEF JournalTypes, Local, ExitUnfilled, disk, book
  <2>5. cycle \in Nat
    BY JournalAssumption DEF JournalTypes, Local
  <2> QED
    BY <2>2, <2>3, <2>4, <2>5, KeepRows DEF JournalTypes
<1>3. CASE StartDecisions \/ Skip \/ EntryUnfilled
  <2>1. UNCHANGED <<disk, cycle, writes, seen>>
    BY <1>3 DEF StartDecisions, Skip, EntryUnfilled
  <2>2. Local'
    <3>1. CASE StartDecisions
      <4>1. 1 \in 1..(Len(SymbolOrder) + 1)
        BY JournalAssumption
      <4>2. /\ pc' = "decide" /\ pc # "idle" /\ next' = 1 /\ openSymbols' = holding
            /\ UNCHANGED <<broken, cycle, outcome, features, exits, holding, equity, faults>>
        BY <3>1 DEF StartDecisions, disk, book
      <4> QED
        BY <4>1, <4>2 DEF JournalTypes, Local
    <3>2. CASE Skip
      <4>1. next' \in 1..(Len(SymbolOrder) + 1)
        BY <3>2, JournalAssumption DEF JournalTypes, Local, Skip, Deciding
      <4>2. /\ pc' = "decide" /\ pc = "decide"
            /\ UNCHANGED <<broken, cycle, outcome, features, exits, openSymbols, holding,
                           equity, faults>>
        BY <3>2 DEF Skip, Deciding, disk, book
      <4> QED
        BY <4>1, <4>2 DEF JournalTypes, Local
    <3>3. CASE EntryUnfilled
      <4>1. next' \in 1..(Len(SymbolOrder) + 1)
        BY <3>3, JournalAssumption DEF JournalTypes, Local, EntryUnfilled
      <4>2. /\ pc' = "decide" /\ pc = "enter"
            /\ UNCHANGED <<broken, cycle, outcome, features, exits, openSymbols, holding,
                           equity, faults>>
        BY <3>3 DEF EntryUnfilled, disk, book
      <4> QED
        BY <4>1, <4>2 DEF JournalTypes, Local
    <3> QED
      BY <1>3, <3>1, <3>2, <3>3
  <2>3. cycle \in Nat
    BY JournalAssumption DEF JournalTypes, Local
  <2>4. \A k \in 1..Len(writes') : writes'[k].row.cycle_id = cycle'
    BY <2>1 DEF JournalTypes, Dated
  <2> QED
    BY <2>1, <2>2, <2>3, <2>4, KeepRows DEF JournalTypes
<1>4. CASE \E status \in {"EXECUTE", "NO_TRADE"} : Decide(status)
  <2>1. PICK status \in {"EXECUTE", "NO_TRADE"} : Decide(status)
    BY <1>4
  <2>2. /\ next \in 1..Len(SymbolOrder)
        /\ writes' \in Seq(Pending) /\ Len(writes') = 1
        /\ writes'[1].row.cycle_id = cycle
    BY <2>1, DecideWrites
  <2>3. cycle' = cycle /\ UNCHANGED disk /\ UNCHANGED seen
    BY <2>1 DEF Decide
  <2>4. Local'
    BY <2>1, <2>2, <2>3, JournalAssumption DEF JournalTypes, Local, Decide, Deciding, disk, book
  <2>5. cycle \in Nat
    BY JournalAssumption DEF JournalTypes, Local
  <2> QED
    BY <2>2, <2>3, <2>4, <2>5, KeepRows DEF JournalTypes
<1>5. CASE ApplyEntry
  <2>1. /\ equity' \in Nat /\ next \in 1..Len(SymbolOrder)
        /\ SymbolOrder[next] \in Symbols
        /\ writes' \in Seq(Pending) /\ Len(writes') = 2
        /\ writes'[1].row.cycle_id = cycle /\ writes'[2].row.cycle_id = cycle
    BY <1>5, EntryWrites
  <2>2. cycle' = cycle /\ UNCHANGED disk /\ UNCHANGED seen
    BY <1>5 DEF ApplyEntry
  <2>3. Local'
    BY <1>5, <2>1, <2>2, JournalAssumption DEF JournalTypes, Local, ApplyEntry, disk
  <2>4. cycle \in Nat
    BY JournalAssumption DEF JournalTypes, Local
  <2> QED
    BY <2>1, <2>2, <2>3, <2>4, KeepRows DEF JournalTypes
<1>6. CASE EndCycle
  <2>1. UNCHANGED <<disk, cycle, seen>> /\ writes' = <<>>
    BY <1>6 DEF EndCycle, CycleOver
  <2>2. Local'
    BY <1>6, JournalAssumption DEF JournalTypes, Local, EndCycle, CycleOver, disk, book
  <2>3. cycle \in Nat
    BY JournalAssumption DEF JournalTypes, Local
  <2> QED
    BY <2>1, <2>2, <2>3, NothingDated, KeepRows DEF JournalTypes
<1> QED
  BY <1>1, <1>2, <1>3, <1>4, <1>5, <1>6, <1>7 DEF Cycle

LEMMA AppendTypes ==
  ASSUME JournalTypes, AppendRecord
  PROVE  JournalTypes'
<1>1. Logs' /\ writes' \in Seq(Pending)
  BY AppendShape DEF Logs
<1>2. Local'
  BY DEF JournalTypes, Local, AppendRecord, loop, book
<1>3. UNCHANGED <<cycle, seen>>
  BY DEF AppendRecord, loop
<1>4. ASSUME NEW stream \in Streams, NEW i \in 1..Len(log'[stream])
      PROVE  log'[stream][i].cycle_id \in 1..cycle
  <2>1. CASE i \in 1..Len(log[stream])
    BY <2>1, AppendShape DEF JournalTypes, Dated
  <2>2. CASE i \notin 1..Len(log[stream])
    <3>1. Len(log[stream]) \in Nat /\ log'[stream] # log[stream]
      BY <2>2, AppendShape
    <3>2. stream = writes[1].stream /\ stream \notin broken
      BY <3>1, AppendShape
    <3>3. i = Len(log[stream]) + 1 /\ log'[stream][i] = writes[1].row
      BY <2>2, <3>1, <3>2, AppendShape
    <3>4. writes[1].row.cycle_id = cycle /\ pc # "idle"
      BY AppendShape DEF JournalTypes, Dated, Local
    <3>5. cycle \in 1..cycle
      BY <3>4, JournalAssumption DEF JournalTypes, Local
    <3> QED
      BY <3>3, <3>4, <3>5
  <2> QED
    BY <2>1, <2>2
<1>5. \A k \in 1..Len(writes') : writes'[k].row.cycle_id = cycle
  <2>1. /\ Len(writes) \in Nat /\ Len(writes') = Len(writes) - 1
        /\ \A k \in 1..Len(writes') : writes'[k] = writes[k + 1]
    BY AppendShape
  <2>2. \A k \in 1..Len(writes) : writes[k].row.cycle_id = cycle
    BY DEF JournalTypes, Dated
  <2>3. \A k \in 1..Len(writes') : k + 1 \in 1..Len(writes)
    BY <2>1
  <2> QED
    BY <2>1, <2>2, <2>3
<1>6. Dated'
  BY <1>3, <1>4, <1>5 DEF Dated
<1>7. \A stream \in Streams : Len(log[stream]) \in Nat /\ Len(log'[stream]) \in Nat
                              /\ Len(log[stream]) <= Len(log'[stream])
  BY AppendShape
<1>8. Progress'
  BY <1>3, <1>7, StreamNames, JournalAssumption DEF JournalTypes, Progress
<1> QED
  BY <1>1, <1>2, <1>6, <1>8 DEF JournalTypes

LEMMA FaultTypes ==
  ASSUME JournalTypes, (\E partly \in BOOLEAN : AppendFails(partly)) \/ Restart
  PROVE  JournalTypes'
<1>1. UNCHANGED <<log, cycle, seen>> /\ writes' = <<>>
  BY DEF AppendFails, Restart, CycleOver, disk
<1>2. broken' \subseteq Streams
  <2>1. ASSUME writes # <<>> PROVE Head(writes).stream \in Streams
    BY <2>1, PopFacts, PendingShape DEF JournalTypes
  <2> QED
    BY <2>1 DEF JournalTypes, Local, AppendFails, Restart, disk
<1>3. faults' \in 0..MaxFaults
  BY JournalAssumption DEF JournalTypes, Local, AppendFails, Restart
<1>4. Local'
  BY <1>1, <1>2, <1>3, JournalAssumption
     DEF JournalTypes, Local, AppendFails, Restart, CycleOver, book
<1>5. Logs' /\ Progress'
  BY <1>1 DEF JournalTypes, Logs, Progress
<1>6. Dated'
  BY <1>1 DEF JournalTypes, Dated
<1> QED
  BY <1>1, <1>4, <1>5, <1>6 DEF JournalTypes

LEMMA ExportTypes ==
  ASSUME JournalTypes, Export \/ UNCHANGED vars
  PROVE  JournalTypes'
<1>1. UNCHANGED <<disk, loop, writes, book, faults>>
  BY DEF Export, ReadStream, ExportFails, FinishExport, vars
<1>2. Logs' /\ writes' \in Seq(Pending) /\ Dated' /\ Local'
  BY <1>1 DEF JournalTypes, Logs, Dated, Local, disk, loop, book
<1>3. \A stream \in {Decisions, Fills, Pnl} : Len(log[stream]) \in Nat
  BY StreamNames DEF JournalTypes, Logs
<1>4. Progress'
  <2>1. CASE \E stream \in {Decisions, Fills, Pnl} : ReadStream(stream)
    BY <1>1, <1>3, <2>1 DEF JournalTypes, Progress, ReadStream, disk
  <2>2. CASE seen' = NothingSeen
    <3>1. \A stream \in {Decisions, Fills, Pnl} : seen'[stream] = NotRead
      BY <2>2 DEF NothingSeen
    <3>2. seen' \in [{Decisions, Fills, Pnl} -> Nat \cup {NotRead}]
      BY <2>2 DEF NothingSeen
    <3> QED
      BY <3>1, <3>2 DEF Progress
  <2>3. CASE UNCHANGED vars
    BY <1>1, <2>3 DEF JournalTypes, Progress, vars, disk
  <2> QED
    BY <2>1, <2>2, <2>3 DEF Export, ExportFails, FinishExport
<1> QED
  BY <1>2, <1>4 DEF JournalTypes

LEMMA TypesInit == Init => JournalTypes
<1> SUFFICES ASSUME Init PROVE JournalTypes
  OBVIOUS
<1>1. Logs
  <2>1. \A stream \in Streams : log[stream] = <<>>
    BY DEF Init
  <2> QED
    BY <2>1 DEF Init, Logs
<1>2. writes \in Seq(Pending) /\ Dated
  BY DEF Init, Dated
<1>3. Local
  <2>1. Len(SymbolOrder) \in Nat
    BY JournalAssumption
  <2> QED
    BY <2>1, JournalAssumption DEF Init, Local
<1>4. Progress
  BY DEF Init, Progress, NothingSeen
<1> QED
  BY <1>1, <1>2, <1>3, <1>4 DEF JournalTypes

-----------------------------------------------------------------------------
(* Steps *)

\* An account on record stays on record, at its place.
LEMMA AccountsStay ==
  ASSUME JournalTypes, AppendRecord
  PROVE  /\ Len(log[Pnl]) \in Nat /\ Len(log'[Pnl]) \in Nat
         /\ Len(log[Pnl]) <= Len(log'[Pnl])
         /\ \A n \in 0..Len(log[Pnl]) : \A c :
              HasAccount(c, n) => \E j \in 1..n : log'[Pnl][j].cycle_id = c
<1>1. /\ Len(log[Pnl]) \in Nat /\ Len(log'[Pnl]) \in Nat
      /\ Len(log[Pnl]) <= Len(log'[Pnl])
      /\ \A i \in 1..Len(log[Pnl]) : log'[Pnl][i] = log[Pnl][i]
  BY AppendShape, StreamNames
<1>2. ASSUME NEW n \in 0..Len(log[Pnl]), NEW c, HasAccount(c, n)
      PROVE  \E j \in 1..n : log'[Pnl][j].cycle_id = c
  <2>1. PICK j \in 1..n : log[Pnl][j].cycle_id = c
    BY <1>2 DEF HasAccount
  <2>2. j \in 1..Len(log[Pnl])
    BY <1>1
  <2> QED
    BY <1>1, <2>1, <2>2
<1> QED
  BY <1>1, <1>2

LEMMA CycleAccounted ==
  ASSUME JournalInv, Cycle, ~ AppendRecord
  PROVE  Accounted'
<1>1. UNCHANGED <<log, broken>>
  BY DEF Cycle, BeginCycle, ApplyExit, ExitUnfilled, StartDecisions, Decide,
         ApplyEntry, EntryUnfilled, Skip, EndCycle,
         disk
<1>2. ASSUME Pnl \notin broken, NEW i \in 1..Len(log[Decisions])
      PROVE  HasAccount(log[Decisions][i].cycle_id, Len(log[Pnl]))'
  BY <1>1, <1>2 DEF JournalInv, Accounted, HasAccount
<1>3. ASSUME Pnl \notin broken, pc' # "idle"
      PROVE  (HasAccount(cycle, Len(log[Pnl])) \/ AccountNext)'
  <2>1. CASE \E read \in SUBSET Symbols, due \in SUBSET (Symbols \X Reasons) :
               BeginCycle(read, due)
    <3>1. writes' = <<Record(Pnl, PnlRow(cycle', equity'))>>
      BY <2>1 DEF BeginCycle
    <3> QED
      BY <3>1 DEF AccountNext, Record
  <2>2. CASE pc # "idle" /\ writes = <<>> /\ cycle' = cycle
    BY <1>1, <1>3, <2>2 DEF JournalInv, Accounted, HasAccount, AccountNext
  <2> QED
    BY <1>3, <2>1, <2>2
       DEF Cycle, ApplyExit, ExitUnfilled, StartDecisions, Decide, Deciding, ApplyEntry,
           EntryUnfilled, Skip, EndCycle, CycleOver
<1> QED
  BY <1>1, <1>2, <1>3 DEF Accounted

LEMMA AppendAccounted ==
  ASSUME JournalInv, AppendRecord
  PROVE  Accounted'
<1> SUFFICES ASSUME Pnl \notin broken PROVE Accounted'
  BY DEF Accounted, AppendRecord
<1>1. /\ broken' = broken /\ pc' = pc /\ cycle' = cycle /\ JournalTypes
      /\ pc # "idle"
  BY AppendShape DEF AppendRecord, loop, JournalInv, JournalTypes, Local
<1>2. /\ Len(log[Pnl]) \in Nat /\ Len(log[Decisions]) \in Nat
  BY <1>1, AppendShape, StreamNames
<1>3. HasAccount(cycle, Len(log[Pnl]))'
  <2>1. CASE HasAccount(cycle, Len(log[Pnl]))
    <3>1. \E j \in 1..Len(log[Pnl]) : log'[Pnl][j].cycle_id = cycle
      BY <1>1, <1>2, <2>1, AccountsStay
    <3> QED
      BY <1>1, <3>1, AccountsStay DEF HasAccount
  <2>2. CASE writes[1].stream = Pnl
    <3>1. /\ Len(log'[Pnl]) = Len(log[Pnl]) + 1
          /\ log'[Pnl][Len(log[Pnl]) + 1] = writes[1].row
      BY <1>1, <2>2, AppendShape, StreamNames
    <3>2. writes[1].row.cycle_id = cycle
      BY <1>1, AppendShape DEF JournalTypes, Dated
    <3>3. Len(log[Pnl]) + 1 \in 1..Len(log'[Pnl])
      BY <1>2, <3>1
    <3> QED
      BY <1>1, <3>1, <3>2, <3>3 DEF HasAccount
  <2> QED
    BY <1>1, <2>1, <2>2, AppendShape DEF JournalInv, Accounted, AccountNext
<1>4. ASSUME NEW i \in 1..Len(log'[Decisions])
      PROVE  HasAccount(log[Decisions][i].cycle_id, Len(log[Pnl]))'
  <2>1. CASE i \in 1..Len(log[Decisions])
    <3>1. HasAccount(log[Decisions][i].cycle_id, Len(log[Pnl]))
      BY <2>1 DEF JournalInv, Accounted
    <3>2. log'[Decisions][i] = log[Decisions][i]
      BY <1>1, <2>1, AppendShape, StreamNames
    <3>3. \E j \in 1..Len(log[Pnl]) : log'[Pnl][j].cycle_id = log[Decisions][i].cycle_id
      BY <1>1, <1>2, <3>1, AccountsStay
    <3> QED
      BY <1>1, <3>2, <3>3, AccountsStay DEF HasAccount
  <2>2. CASE i \notin 1..Len(log[Decisions])
    <3>1. log'[Decisions] # log[Decisions]
      BY <2>2
    <3>2. writes[1].stream = Decisions /\ Decisions \notin broken
      BY <1>1, <3>1, AppendShape, StreamNames
    <3>3. i = Len(log[Decisions]) + 1 /\ log'[Decisions][i] = writes[1].row
      BY <1>1, <1>2, <2>2, <3>2, AppendShape, StreamNames
    <3>4. writes[1].row.cycle_id = cycle
      BY <1>1, AppendShape DEF JournalTypes, Dated
    <3> QED
      BY <1>1, <1>3, <3>3, <3>4
  <2> QED
    BY <2>1, <2>2
<1> QED
  BY <1>1, <1>3, <1>4 DEF Accounted

\* A cycle that ends by a fault or a kill keeps what is on record.
LEMMA FaultKeeps ==
  ASSUME (\E partly \in BOOLEAN : AppendFails(partly)) \/ Restart
  PROVE  /\ UNCHANGED <<log, cycle, seen>> /\ writes' = <<>> /\ pc' = "idle"
         /\ outcome' # "returned" /\ broken \subseteq broken'
  BY DEF AppendFails, Restart, CycleOver, disk

LEMMA ExportKeeps ==
  ASSUME Export \/ UNCHANGED vars
  PROVE  UNCHANGED <<log, broken, pc, cycle, outcome, next, writes, equity>>
  BY DEF Export, ReadStream, ExportFails, FinishExport, vars, disk, loop, book

LEMMA OtherAccounted ==
  ASSUME JournalInv,
         \/ (\E partly \in BOOLEAN : AppendFails(partly)) \/ Restart
         \/ Export \/ UNCHANGED vars
  PROVE  Accounted'
<1>1. CASE (\E partly \in BOOLEAN : AppendFails(partly)) \/ Restart
  BY <1>1, FaultKeeps DEF JournalInv, Accounted, HasAccount
<1>2. CASE Export \/ UNCHANGED vars
  BY <1>2, ExportKeeps DEF JournalInv, Accounted, HasAccount, AccountNext
<1> QED
  BY <1>1, <1>2

-----------------------------------------------------------------------------
(* What an export has read *)

LEMMA ReadStays ==
  ASSUME JournalInv, AppendRecord
  PROVE  ReadInOrder'
<1>1. JournalTypes /\ seen' = seen
  BY DEF JournalInv, AppendRecord
<1>2. ASSUME seen[Pnl] # NotRead, NEW i \in 1..seen[Decisions]
      PROVE  HasAccount(log[Decisions][i].cycle_id, seen[Pnl])'
  <2>1. /\ seen[Fills] # NotRead /\ seen[Decisions] # NotRead
        /\ HasAccount(log[Decisions][i].cycle_id, seen[Pnl])
    BY <1>2 DEF JournalInv, ReadInOrder
  <2>2. /\ seen[Decisions] \in Nat /\ seen[Decisions] <= Len(log[Decisions])
        /\ seen[Pnl] \in Nat /\ seen[Pnl] <= Len(log[Pnl])
    BY <1>1, <1>2, <2>1 DEF JournalTypes, Progress
  <2>3. log'[Decisions][i] = log[Decisions][i]
    <3>1. /\ Len(log[Decisions]) \in Nat
          /\ \A k \in 1..Len(log[Decisions]) : log'[Decisions][k] = log[Decisions][k]
      BY <1>1, AppendShape, StreamNames
    <3> QED
      BY <2>2, <3>1
  <2>4. seen[Pnl] \in 0..Len(log[Pnl])
    BY <1>1, <2>2, AccountsStay
  <2>5. \E j \in 1..seen[Pnl] : log'[Pnl][j].cycle_id = log[Decisions][i].cycle_id
    BY <1>1, <2>1, <2>4, AccountsStay
  <2> QED
    BY <1>1, <2>3, <2>5 DEF HasAccount
<1> QED
  BY <1>1, <1>2 DEF JournalInv, ReadInOrder

LEMMA ReadKeeps ==
  ASSUME JournalInv,
         \/ Cycle /\ ~ AppendRecord
         \/ (\E partly \in BOOLEAN : AppendFails(partly)) \/ Restart
  PROVE  ReadInOrder'
<1>1. UNCHANGED <<log, seen>>
  BY DEF Cycle, BeginCycle, ApplyExit, ExitUnfilled, StartDecisions, Decide,
         ApplyEntry, EntryUnfilled, Skip, EndCycle,
         AppendFails, Restart, CycleOver, disk
<1> QED
  BY <1>1 DEF JournalInv, ReadInOrder, HasAccount

\* The accounts are read last: as long as they can be read, every decision read
\* before has its account among them.
LEMMA ExportReads ==
  ASSUME JournalInv, Export \/ UNCHANGED vars
  PROVE  ReadInOrder'
<1>1. log' = log /\ JournalTypes
  BY ExportKeeps DEF JournalInv
<1>2. CASE UNCHANGED vars
  BY <1>1, <1>2 DEF JournalInv, ReadInOrder, HasAccount, vars
<1>3. CASE seen' = NothingSeen
  <2>1. seen'[Fills] = NotRead /\ seen'[Pnl] = NotRead
    BY <1>3 DEF NothingSeen
  <2> QED
    BY <2>1 DEF ReadInOrder
<1>4. ASSUME NEW stream \in {Decisions, Fills, Pnl}, ReadFirst(stream), ReadStream(stream)
      PROVE  ReadInOrder'
  <2>1. /\ seen' = [seen EXCEPT ![stream] = Len(log[stream])]
        /\ stream \notin broken /\ seen[stream] = NotRead
    BY <1>4 DEF ReadStream
  <2>2. DOMAIN seen = {Decisions, Fills, Pnl} /\ Len(log[stream]) \in Nat
    BY <1>1, StreamNames DEF JournalTypes, Progress, Logs
  <2>3. Len(log[stream]) # NotRead
    BY <2>2, JournalAssumption
  <2>4. CASE stream = Decisions
    <3>1. seen[Fills] = NotRead /\ seen[Pnl] = NotRead
      BY <2>1, <2>4 DEF JournalInv, ReadInOrder
    <3>2. seen'[Fills] = NotRead /\ seen'[Pnl] = NotRead
      BY <2>1, <2>2, <2>4, <3>1, StreamNames
    <3> QED
      BY <3>2 DEF ReadInOrder
  <2>5. CASE stream = Fills
    <3>1. seen[Decisions] # NotRead /\ seen[Pnl] = NotRead
      BY <1>4, <2>1, <2>5, StreamNames DEF JournalInv, ReadInOrder, ReadFirst
    <3>2. seen'[Decisions] # NotRead /\ seen'[Pnl] = NotRead
      BY <2>1, <2>2, <2>5, <3>1, StreamNames
    <3> QED
      BY <3>2 DEF ReadInOrder
  <2>6. CASE stream = Pnl
    <3>1. seen[Fills] # NotRead /\ seen[Decisions] # NotRead
      BY <1>4, <2>6, StreamNames DEF JournalInv, ReadInOrder, ReadFirst
    <3>2. /\ seen'[Fills] = seen[Fills] /\ seen'[Decisions] = seen[Decisions]
          /\ seen'[Pnl] = Len(log[Pnl])
      BY <2>1, <2>2, <2>6, StreamNames
    <3>3. /\ seen[Decisions] \in Nat /\ seen[Decisions] <= Len(log[Decisions])
          /\ Len(log[Decisions]) \in Nat
      BY <1>1, <3>1, StreamNames DEF JournalTypes, Progress, Logs
    <3>4. \A i \in 1..seen[Decisions] : i \in 1..Len(log[Decisions])
      BY <3>3
    <3>5. \A i \in 1..Len(log[Decisions]) :
             HasAccount(log[Decisions][i].cycle_id, Len(log[Pnl]))
      BY <2>1, <2>6 DEF JournalInv, Accounted
    <3> QED
      BY <1>1, <3>1, <3>2, <3>4, <3>5 DEF ReadInOrder, HasAccount
  <2> QED
    BY <2>4, <2>5, <2>6
<1> QED
  BY <1>2, <1>3, <1>4 DEF Export, ExportFails, FinishExport

-----------------------------------------------------------------------------
(* The last account *)

LEMMA CycleSettled ==
  ASSUME JournalInv, Cycle, ~ AppendRecord
  PROVE  Settled'
<1>1. JournalTypes /\ UNCHANGED <<log, broken>>
  BY DEF JournalInv, Cycle, BeginCycle, ApplyExit, ExitUnfilled, StartDecisions, Decide,
         ApplyEntry, EntryUnfilled, Skip, EndCycle, disk
<1>2. CASE \E read \in SUBSET Symbols, due \in SUBSET (Symbols \X Reasons) :
             BeginCycle(read, due)
  <2>1. /\ Len(writes') = 1
        /\ writes'[1] = Record(Pnl, PnlRow(cycle', equity'))
    BY <1>1, <1>2, BeginWrites
  <2> QED
    BY <2>1 DEF Settled, InWriting
<1>3. CASE \E e \in Symbols \X Reasons, left \in BOOLEAN : ApplyExit(e, left)
  <2>1. PICK e \in Symbols \X Reasons, left \in BOOLEAN : ApplyExit(e, left)
    BY <1>3
  <2>2. /\ Len(writes') = 4
        /\ writes'[2] = Record(Pnl, PnlRow(cycle, equity'))
        /\ writes'[3].stream = Decisions /\ writes'[4].stream = Exits
    BY <1>1, <2>1, ExitWrites
  <2>3. cycle' = cycle
    BY <2>1 DEF ApplyExit
  <2>4. \A m \in 1..4 : m > 2 => m = 3 \/ m = 4
    OBVIOUS
  <2> QED
    BY <2>2, <2>3, <2>4, StreamNames DEF Settled, InWriting
<1>4. CASE ApplyEntry
  <2>1. /\ Len(writes') = 2
        /\ writes'[2] = Record(Pnl, PnlRow(cycle, equity'))
    BY <1>1, <1>4, EntryWrites
  <2>2. cycle' = cycle
    BY <1>4 DEF ApplyEntry
  <2> QED
    BY <2>1, <2>2 DEF Settled, InWriting
<1>5. CASE \/ StartDecisions \/ EntryUnfilled \/ Skip \/ EndCycle
           \/ \E e \in Symbols \X Reasons : ExitUnfilled(e)
           \/ \E status \in {"EXECUTE", "NO_TRADE"} : Decide(status)
  <2>1. /\ pc # "idle" /\ writes = <<>> /\ UNCHANGED <<cycle, equity>>
    BY <1>5 DEF StartDecisions, EntryUnfilled, Skip, EndCycle, ExitUnfilled, CycleOver, Decide,
                Deciding, book
  <2>2. \A k \in 1..Len(writes') : writes'[k].stream # Pnl
    <3>1. CASE writes' = <<>>
      BY <3>1
    <3>2. CASE \E status \in {"EXECUTE", "NO_TRADE"} : Decide(status)
      <4>1. Len(writes') = 1 /\ writes'[1].stream = Decisions
        BY <1>1, <3>2, DecideWrites
      <4> QED
        BY <4>1, StreamNames
    <3>3. CASE \E e \in Symbols \X Reasons : ExitUnfilled(e)
      <4>1. Len(writes') = 2 /\ writes'[1].stream = Decisions /\ writes'[2].stream = Exits
        BY <1>1, <3>3, UnfilledWrites
      <4>2. \A k \in 1..2 : k = 1 \/ k = 2
        OBVIOUS
      <4> QED
        BY <4>1, <4>2, StreamNames
    <3> QED
      BY <1>5, <2>1, <3>1, <3>2, <3>3 DEF StartDecisions, EntryUnfilled, Skip, EndCycle, CycleOver
  <2>3. Pnl \notin broken => OnRecord
    <3>1. ~ InWriting
      BY <2>1 DEF InWriting
    <3> QED
      BY <2>1, <3>1 DEF JournalInv, Settled
  <2> QED
    BY <1>1, <2>1, <2>2, <2>3 DEF Settled, OnRecord
<1> QED
  BY <1>2, <1>3, <1>4, <1>5 DEF Cycle

LEMMA AppendSettled ==
  ASSUME JournalInv, AppendRecord
  PROVE  Settled'
<1> SUFFICES ASSUME Pnl \notin broken PROVE (OnRecord \/ InWriting)'
  BY DEF Settled, AppendRecord
<1>1. /\ UNCHANGED <<broken, pc, cycle, equity>> /\ JournalTypes /\ pc # "idle"
  BY AppendShape DEF AppendRecord, loop, book, JournalInv, JournalTypes, Local
<1>2. /\ Len(writes) \in Nat \ {0} /\ Len(writes') = Len(writes) - 1
      /\ \A k \in 1..Len(writes') : writes'[k] = writes[k + 1]
  BY <1>1, AppendShape
<1>3. CASE OnRecord
  <2>1. writes[1].stream # Pnl
    BY <1>2, <1>3 DEF OnRecord
  <2>2. log'[Pnl] = log[Pnl]
    BY <1>1, <2>1, AppendShape, StreamNames
  <2>3. \A k \in 1..Len(writes') : writes'[k].stream # Pnl
    <3>1. \A k \in 1..Len(writes') : k + 1 \in 1..Len(writes)
      BY <1>2
    <3> QED
      BY <1>2, <1>3, <3>1 DEF OnRecord
  <2> QED
    BY <1>1, <1>3, <2>2, <2>3 DEF OnRecord
<1>4. CASE InWriting
  <2>1. PICK k \in 1..Len(writes) :
          /\ writes[k] = Record(Pnl, PnlRow(cycle, equity))
          /\ \A m \in 1..Len(writes) : m > k => writes[m].stream # Pnl
    BY <1>4 DEF InWriting
  <2>2. ASSUME NEW m \in 1..Len(writes'), m + 1 > k PROVE writes'[m].stream # Pnl
    <3>1. m + 1 \in 1..Len(writes) /\ writes'[m] = writes[m + 1]
      BY <1>2
    <3> QED
      BY <2>1, <2>2, <3>1
  <2>3. CASE k = 1
    <3>1. writes[1].stream = Pnl /\ writes[1].row = PnlRow(cycle, equity)
      BY <2>1, <2>3 DEF Record
    <3>2. /\ Len(log[Pnl]) \in Nat /\ Len(log'[Pnl]) = Len(log[Pnl]) + 1
          /\ log'[Pnl][Len(log[Pnl]) + 1] = writes[1].row
      BY <1>1, <3>1, AppendShape, StreamNames
    <3>3. \A m \in 1..Len(writes') : m + 1 > k
      BY <1>2, <2>3
    <3>4. \A m \in 1..Len(writes') : writes'[m].stream # Pnl
      BY <2>2, <3>3
    <3>5. Len(log'[Pnl]) # 0 /\ log'[Pnl][Len(log'[Pnl])] = PnlRow(cycle', equity')
      BY <1>1, <3>1, <3>2
    <3> QED
      BY <3>4, <3>5 DEF OnRecord
  <2>4. CASE k # 1
    <3>1. k - 1 \in 1..Len(writes') /\ writes'[k - 1] = writes[k]
      BY <1>2, <2>4
    <3>2. \A m \in 1..Len(writes') : m > k - 1 => m + 1 > k
      BY <1>2
    <3>3. \A m \in 1..Len(writes') : m > k - 1 => writes'[m].stream # Pnl
      BY <2>2, <3>2
    <3> QED
      BY <1>1, <2>1, <3>1, <3>3 DEF InWriting
  <2> QED
    BY <2>3, <2>4
<1> QED
  BY <1>1, <1>3, <1>4 DEF JournalInv, Settled

LEMMA OtherSettled ==
  ASSUME JournalInv,
         \/ (\E partly \in BOOLEAN : AppendFails(partly)) \/ Restart
         \/ Export \/ UNCHANGED vars
  PROVE  Settled'
<1>1. CASE (\E partly \in BOOLEAN : AppendFails(partly)) \/ Restart
  BY <1>1, FaultKeeps DEF Settled
<1>2. CASE Export \/ UNCHANGED vars
  BY <1>2, ExportKeeps DEF JournalInv, Settled, OnRecord, InWriting
<1> QED
  BY <1>1, <1>2

-----------------------------------------------------------------------------
(* The decision behind a fill *)

LEMMA CycleExplained ==
  ASSUME JournalInv, Cycle, ~ AppendRecord
  PROVE  FillsExplained'
<1> SUFFICES ASSUME Decisions \notin broken' PROVE FillsExplained'
  BY DEF FillsExplained
<1>1. JournalTypes /\ UNCHANGED <<log, broken>>
  BY DEF JournalInv, Cycle, BeginCycle, ApplyExit, ExitUnfilled, StartDecisions, Decide,
         ApplyEntry, EntryUnfilled, Skip, EndCycle, disk
<1>2. \A id : Explained(id) => Explained(id)'
  BY <1>1 DEF Explained
<1>3. \A i \in 1..Len(log'[Fills]) : Explained(log[Fills][i].decision_id)'
  BY <1>1 DEF JournalInv, FillsExplained, Explained
<1>4. CASE \E read \in SUBSET Symbols, due \in SUBSET (Symbols \X Reasons) :
             BeginCycle(read, due)
  <2>1. /\ Len(writes') = 1 /\ writes'[1] = Record(Pnl, PnlRow(cycle', equity'))
    BY <1>1, <1>4, BeginWrites
  <2>2. writes'[1].stream # Fills
    BY <2>1, StreamNames DEF Record
  <2>3. pc' # "enter"
    BY <1>4 DEF BeginCycle
  <2> QED
    BY <1>3, <2>1, <2>2, <2>3 DEF FillsExplained
<1>5. CASE \E e \in Symbols \X Reasons, left \in BOOLEAN : ApplyExit(e, left)
  <2>1. PICK e \in Symbols \X Reasons, left \in BOOLEAN : ApplyExit(e, left)
    BY <1>5
  <2>2. /\ Len(writes') = 4
        /\ writes'[1].row.decision_id[1] \in Reasons
        /\ writes'[2] = Record(Pnl, PnlRow(cycle, equity'))
        /\ writes'[3].stream = Decisions /\ writes'[4].stream = Exits
    BY <1>1, <2>1, ExitWrites
  <2>3. writes'[2].stream # Fills
    BY <2>2, StreamNames DEF Record
  <2>4. \A k \in 1..4 : k = 1 \/ k = 2 \/ k = 3 \/ k = 4
    OBVIOUS
  <2>5. pc' # "enter"
    BY <2>1 DEF ApplyExit
  <2>6. \A k \in 1..Len(writes') : writes'[k].stream = Fills => k = 1
    BY <2>2, <2>3, <2>4, StreamNames
  <2>7. \A k \in 1..Len(writes') :
           writes'[k].stream = Fills => Explained(writes[k].row.decision_id)'
    BY <2>2, <2>6 DEF Explained
  <2> QED
    BY <1>3, <2>5, <2>7 DEF FillsExplained
<1>6. CASE ApplyEntry
  <2>1. /\ Len(writes') = 2
        /\ writes'[1].row.decision_id = EntryId(SymbolOrder[next])
        /\ writes'[2] = Record(Pnl, PnlRow(cycle, equity'))
    BY <1>1, <1>6, EntryWrites
  <2>2. writes'[2].stream # Fills
    BY <2>1, StreamNames DEF Record
  <2>3. pc = "enter" /\ writes = <<>> /\ pc' # "enter"
    BY <1>6 DEF ApplyEntry
  <2>4. Explained(EntryId(SymbolOrder[next]))
    BY <1>1, <2>3 DEF JournalInv, FillsExplained, DecisionNext
  <2>5. \A k \in 1..Len(writes') :
           writes'[k].stream = Fills => Explained(writes[k].row.decision_id)'
    <3>1. \A k \in 1..2 : k = 1 \/ k = 2
      OBVIOUS
    <3>2. \A k \in 1..Len(writes') : writes'[k].stream = Fills => k = 1
      BY <2>1, <2>2, <3>1
    <3> QED
      BY <1>1, <2>1, <2>4, <3>2 DEF Explained
  <2> QED
    BY <1>3, <2>3, <2>5 DEF FillsExplained
<1>7. CASE \E status \in {"EXECUTE", "NO_TRADE"} : Decide(status)
  <2>1. PICK status \in {"EXECUTE", "NO_TRADE"} : Decide(status)
    BY <1>7
  <2>2. /\ Len(writes') = 1 /\ writes'[1].stream = Decisions
        /\ writes' \in Seq(Pending)
        /\ writes'[1].row.decision_id = EntryId(SymbolOrder[next])
    BY <1>1, <2>1, DecideWrites
  <2>3. \A k \in 1..Len(writes') : writes'[k].stream # Fills
    BY <2>2, StreamNames
  <2>4. pc' = "enter" => next' = next /\ cycle' = cycle
    BY <2>1 DEF Decide, Deciding
  <2>5. writes' # <<>> /\ Head(writes') = writes'[1]
    BY <2>2, PopFacts
  <2>6. pc' = "enter" => DecisionNext(EntryId(SymbolOrder[next]))'
    BY <2>2, <2>4, <2>5 DEF DecisionNext, EntryId
  <2> QED
    BY <1>3, <2>3, <2>6 DEF FillsExplained
<1>8. CASE StartDecisions \/ EntryUnfilled \/ Skip \/ EndCycle
  <2>1. writes' = <<>> /\ pc' # "enter"
    BY <1>8 DEF StartDecisions, EntryUnfilled, Skip, EndCycle, CycleOver, Deciding
  <2> QED
    BY <1>3, <2>1 DEF FillsExplained
<1>9. CASE \E e \in Symbols \X Reasons : ExitUnfilled(e)
  <2>1. Len(writes') = 2 /\ writes'[1].stream = Decisions /\ writes'[2].stream = Exits
    BY <1>1, <1>9, UnfilledWrites
  <2>2. \A k \in 1..2 : k = 1 \/ k = 2
    OBVIOUS
  <2>3. \A k \in 1..Len(writes') : writes'[k].stream # Fills
    BY <2>1, <2>2, StreamNames
  <2>4. pc' # "enter"
    BY <1>9 DEF ExitUnfilled
  <2> QED
    BY <1>3, <2>3, <2>4 DEF FillsExplained
<1> QED
  BY <1>4, <1>5, <1>6, <1>7, <1>8, <1>9 DEF Cycle

LEMMA ExplainedStays ==
  ASSUME JournalTypes, AppendRecord, NEW id, Explained(id)
  PROVE  \/ id[1] \in Reasons
         \/ \E i \in 1..Len(log'[Decisions]) : log'[Decisions][i].decision_id = id
<1>1. /\ Len(log[Decisions]) \in Nat /\ Len(log'[Decisions]) \in Nat
      /\ Len(log[Decisions]) <= Len(log'[Decisions])
      /\ \A i \in 1..Len(log[Decisions]) : log'[Decisions][i] = log[Decisions][i]
  BY AppendShape, StreamNames
<1>2. \A i \in 1..Len(log[Decisions]) : i \in 1..Len(log'[Decisions])
  BY <1>1
<1> QED
  BY <1>1, <1>2 DEF Explained

LEMMA AppendExplained ==
  ASSUME JournalInv, AppendRecord
  PROVE  FillsExplained'
<1> SUFFICES ASSUME Decisions \notin broken PROVE FillsExplained'
  BY DEF FillsExplained, AppendRecord
<1>1. UNCHANGED <<broken, pc, cycle, next>> /\ JournalTypes
  BY DEF AppendRecord, loop, JournalInv
<1>2. /\ Len(writes) \in Nat \ {0} /\ Len(writes') = Len(writes) - 1
      /\ \A k \in 1..Len(writes') : writes'[k] = writes[k + 1]
      /\ writes[1] = Head(writes)
  BY <1>1, AppendShape
<1>3. \A id : Explained(id) =>
        \/ id[1] \in Reasons
        \/ \E i \in 1..Len(log'[Decisions]) : log'[Decisions][i].decision_id = id
  BY <1>1, ExplainedStays
<1>4. ASSUME NEW k \in 1..Len(writes'), writes'[k].stream = Fills
      PROVE  Explained(writes[k].row.decision_id)'
  <2>1. k + 1 \in 1..Len(writes) /\ writes'[k] = writes[k + 1]
    BY <1>2
  <2>2. Explained(writes[k + 1].row.decision_id)
    BY <1>4, <2>1 DEF JournalInv, FillsExplained
  <2> QED
    BY <1>3, <2>1, <2>2 DEF Explained
<1>5. ASSUME NEW i \in 1..Len(log'[Fills])
      PROVE  Explained(log[Fills][i].decision_id)'
  <2>1. Len(log[Fills]) \in Nat
    BY <1>1, AppendShape, StreamNames
  <2>2. CASE i \in 1..Len(log[Fills])
    <3>1. log'[Fills][i] = log[Fills][i]
      BY <1>1, <2>2, AppendShape, StreamNames
    <3>2. Explained(log[Fills][i].decision_id)
      BY <2>2 DEF JournalInv, FillsExplained
    <3> QED
      BY <1>3, <3>1, <3>2 DEF Explained
  <2>3. CASE i \notin 1..Len(log[Fills])
    <3>1. log'[Fills] # log[Fills]
      BY <2>3
    <3>2. writes[1].stream = Fills /\ Fills \notin broken
      BY <1>1, <3>1, AppendShape, StreamNames
    <3>3. i = Len(log[Fills]) + 1 /\ log'[Fills][i] = writes[1].row
      BY <1>1, <2>1, <2>3, <3>2, AppendShape, StreamNames
    <3>4. 1 \in 1..Len(writes)
      BY <1>2
    <3>5. Explained(writes[1].row.decision_id)
      BY <3>2, <3>4 DEF JournalInv, FillsExplained
    <3> QED
      BY <1>3, <3>3, <3>5 DEF Explained
  <2> QED
    BY <2>2, <2>3
<1>6. ASSUME pc' = "enter"
      PROVE  Explained(EntryId(SymbolOrder[next]))'
  <2> DEFINE id == EntryId(SymbolOrder[next])
  <2>1. Explained(id) \/ DecisionNext(id)
    BY <1>1, <1>6 DEF JournalInv, FillsExplained
  <2>2. EntryId(SymbolOrder[next])' = id
    BY <1>1 DEF EntryId
  <2> HIDE DEF id
  <2>3. CASE Explained(id)
    BY <1>3, <2>2, <2>3 DEF Explained
  <2>4. CASE DecisionNext(id)
    <3>1. writes[1].stream = Decisions /\ writes[1].row.decision_id = id
      BY <1>2, <2>4 DEF DecisionNext
    <3>2. /\ Len(log[Decisions]) \in Nat
          /\ Len(log'[Decisions]) = Len(log[Decisions]) + 1
          /\ log'[Decisions][Len(log[Decisions]) + 1] = writes[1].row
      BY <1>1, <3>1, AppendShape, StreamNames
    <3>3. Len(log[Decisions]) + 1 \in 1..Len(log'[Decisions])
      BY <3>2
    <3> QED
      BY <2>2, <3>1, <3>2, <3>3 DEF Explained
  <2> QED
    BY <2>1, <2>3, <2>4
<1> QED
  BY <1>4, <1>5, <1>6 DEF FillsExplained

LEMMA OtherExplained ==
  ASSUME JournalInv,
         \/ (\E partly \in BOOLEAN : AppendFails(partly)) \/ Restart
         \/ Export \/ UNCHANGED vars
  PROVE  FillsExplained'
<1>1. CASE (\E partly \in BOOLEAN : AppendFails(partly)) \/ Restart
  BY <1>1, FaultKeeps DEF JournalInv, FillsExplained, Explained
<1>2. CASE Export \/ UNCHANGED vars
  BY <1>2, ExportKeeps DEF JournalInv, FillsExplained, Explained, DecisionNext, EntryId
<1> QED
  BY <1>1, <1>2

-----------------------------------------------------------------------------
(* The theorems *)

LEMMA JournalInvInit == Init => JournalInv
<1> SUFFICES ASSUME Init PROVE JournalInv
  OBVIOUS
<1>1. JournalTypes
  BY TypesInit
<1>2. \A stream \in Streams : log[stream] = <<>>
  BY DEF Init
<1>3. log[Decisions] = <<>> /\ log[Fills] = <<>>
  BY <1>2, StreamNames
<1>4. seen[Fills] = NotRead /\ seen[Pnl] = NotRead
  BY DEF Init, NothingSeen
<1>5. Accounted /\ Settled
  BY <1>3 DEF Init, Accounted, Settled
<1>6. ReadInOrder /\ FillsExplained
  BY <1>3, <1>4 DEF Init, ReadInOrder, FillsExplained
<1> QED
  BY <1>1, <1>5, <1>6 DEF JournalInv

LEMMA JournalInvStep == JournalInv /\ [Next]_vars => JournalInv'
<1> SUFFICES ASSUME JournalInv, [Next]_vars PROVE JournalInv'
  OBVIOUS
<1>1. JournalTypes
  BY DEF JournalInv
<1>2. CASE Cycle /\ ~ AppendRecord
  BY <1>1, <1>2, CycleTypes, CycleAccounted, ReadKeeps, CycleSettled, CycleExplained
     DEF JournalInv
<1>3. CASE AppendRecord
  BY <1>1, <1>3, AppendTypes, AppendAccounted, ReadStays, AppendSettled, AppendExplained
     DEF JournalInv
<1>4. CASE (\E partly \in BOOLEAN : AppendFails(partly)) \/ Restart
  BY <1>1, <1>4, FaultTypes, OtherAccounted, ReadKeeps, OtherSettled, OtherExplained
     DEF JournalInv
<1>5. CASE Export \/ UNCHANGED vars
  BY <1>1, <1>5, ExportTypes, OtherAccounted, ExportReads, OtherSettled, OtherExplained
     DEF JournalInv
<1> QED
  BY <1>2, <1>3, <1>4, <1>5 DEF Next

\* Type correctness of the files and the loop, for any symbols and bounds.
THEOREM JournalTypeCorrect == Spec => []TypeOK
<1>1. ASSUME JournalTypes PROVE TypeOK
  <2>1. \A stream \in Streams : \A i \in 1..Len(log[stream]) :
           /\ DOMAIN log[stream] = 1..Len(log[stream])
           /\ log[stream][i] \in RowsOf(stream)
           /\ log[stream][i].cycle_id \in 1..cycle
    BY <1>1 DEF JournalTypes, Logs, Dated
  <2>2. DOMAIN log[Decisions] = 1..Len(log[Decisions])
        /\ DOMAIN log[Fills] = 1..Len(log[Fills]) /\ DOMAIN log[Pnl] = 1..Len(log[Pnl])
    BY <1>1, StreamNames DEF JournalTypes, Logs
  <2>3. \A r \in Rows : r.cycle_id \in 1..cycle /\ r.symbol \in Symbols
    BY <2>1, <2>2, StreamNames DEF Rows, Range, RowsOf, Entries, FillRows
  <2>4. \A r \in Range(log[Pnl]) : r.cycle_id \in 1..cycle /\ r.equity \in Nat
    BY <2>1, <2>2, StreamNames DEF Range, RowsOf, Accounts
  <2> QED
    BY <1>1, <2>3, <2>4 DEF JournalTypes, Local, Progress, TypeOK
<1> QED
  BY <1>1, JournalInvInit, JournalInvStep, PTL DEF Spec, JournalInv

\* An export that has read its streams has an account for every decision it has
\* read, whatever is appended, fails or is killed while it reads: the account of a
\* cycle precedes its decisions on disk and is read after them.
THEOREM RowsHaveAccountsAlways == Spec => []RowsHaveAccounts
<1>1. ASSUME JournalInv PROVE RowsHaveAccounts
  <2> SUFFICES ASSUME Exported,
                      NEW i \in DOMAIN DatasetRows(Read(Decisions), Read(Fills), Read(Pnl))
               PROVE  DatasetRows(Read(Decisions), Read(Fills), Read(Pnl))[i].pnl # <<>>
    BY DEF RowsHaveAccounts
  <2> DEFINE entry == Read(Decisions)[i]
  <2>1. /\ seen[Decisions] \in Nat /\ seen[Decisions] <= Len(log[Decisions])
        /\ seen[Pnl] \in Nat /\ seen[Pnl] <= Len(log[Pnl]) /\ seen[Pnl] # NotRead
    BY <1>1 DEF Exported, JournalInv, JournalTypes, Progress
  <2>2. /\ log[Decisions] \in Seq(Entries) /\ log[Pnl] \in Seq(Accounts)
    BY <1>1, StreamNames DEF JournalInv, JournalTypes, Logs, RowsOf
  <2>3. /\ DOMAIN Read(Decisions) = 1..seen[Decisions]
        /\ \A k \in 1..seen[Decisions] : Read(Decisions)[k] = log[Decisions][k]
    BY <2>1, <2>2 DEF Read
  <2>4. /\ DOMAIN Read(Pnl) = 1..seen[Pnl]
        /\ \A k \in 1..seen[Pnl] : Read(Pnl)[k] = log[Pnl][k]
    BY <2>1, <2>2 DEF Read
  <2>5. i \in 1..seen[Decisions]
    BY <2>3 DEF DatasetRows
  <2>6. HasAccount(entry.cycle_id, seen[Pnl])
    BY <1>1, <2>1, <2>3, <2>5 DEF JournalInv, ReadInOrder
  <2>7. \E j \in DOMAIN Read(Pnl) : Read(Pnl)[j].cycle_id = entry.cycle_id
    BY <2>4, <2>6 DEF HasAccount
  <2>8. PnlOf(entry, Read(Pnl)) # <<>>
    BY <2>7 DEF PnlOf, LastAt
  <2> QED
    BY <2>8 DEF DatasetRows
<1> QED
  BY <1>1, JournalInvInit, JournalInvStep, PTL DEF Spec

\* The last of the indices up to n.
LEMMA LastIndex ==
  ASSUME NEW n \in Nat \ {0}, NEW I \in SUBSET (1..n), n \in I
  PROVE  Max(I) = n
<1>1. \A k \in I : n >= k
  OBVIOUS
<1>2. Max(I) \in I /\ \A k \in I : Max(I) >= k
  BY <1>1 DEF Max
<1>3. Max(I) \in 1..n /\ Max(I) >= n
  BY <1>2
<1> QED
  BY <1>3

\* When the last cycle returned with a decision on record, the summary of an export
\* ends with the engine's equity: no account follows the last settlement's.
THEOREM SummaryIsCurrentAlways == Spec => []SummaryIsCurrent
<1>1. ASSUME JournalInv PROVE SummaryIsCurrent
  <2> SUFFICES ASSUME pc = "idle", outcome = "returned", broken = {},
                      log[Decisions] # <<>>, Last(log[Decisions]).cycle_id = cycle
               PROVE  EndingEquity(DatasetRows(log[Decisions], log[Fills], log[Pnl]))
                        = <<equity>>
    BY DEF SummaryIsCurrent
  <2> DEFINE D == log[Decisions]
             P == log[Pnl]
             rows == DatasetRows(D, log[Fills], P)
             last == D[Len(D)]
             I == {j \in DOMAIN P : P[j].cycle_id = last.cycle_id}
  <2>1. D \in Seq(Entries) /\ P \in Seq(Accounts)
    BY <1>1, StreamNames DEF JournalInv, JournalTypes, Logs, RowsOf
  <2>2. /\ Len(D) \in Nat \ {0} /\ last.cycle_id = cycle
        /\ DOMAIN P = 1..Len(P) /\ Len(P) \in Nat
    BY <2>1 DEF Last
  <2>3. Len(P) # 0 /\ P[Len(P)] = PnlRow(cycle, equity)
    <3>1. writes = <<>>
      BY <1>1 DEF JournalInv, JournalTypes, Local
    <3>2. ~ InWriting
      BY <3>1 DEF InWriting
    <3> QED
      BY <1>1, <3>2 DEF JournalInv, Settled, OnRecord
  <2>4. Len(P) \in I /\ I \in SUBSET (1..Len(P))
    BY <2>2, <2>3 DEF PnlRow
  <2>5. Max(I) = Len(P)
    <3> HIDE DEF I, P
    <3> QED
      BY <2>2, <2>3, <2>4, LastIndex
  <2>6. PnlOf(last, P) = << PnlRow(cycle, equity) >>
    BY <2>3, <2>4, <2>5 DEF PnlOf, LastAt
  <2>7. Last(rows) = rows[Len(D)] /\ rows[Len(D)].pnl = PnlOf(last, P)
    BY <2>1, <2>2 DEF DatasetRows, Last
  <2>8. Last(rows).pnl # <<>> /\ Last(rows).pnl[1].equity = equity
    <3>1. << PnlRow(cycle, equity) >>[1].equity = equity
      BY DEF PnlRow
    <3>2. << PnlRow(cycle, equity) >> # <<>>
      OBVIOUS
    <3> QED
      BY <2>6, <2>7, <3>1, <3>2
  <2> HIDE DEF rows
  <2>9. EndingEquity(rows) = <<equity>>
    BY <2>8 DEF EndingEquity
  <2> QED
    BY <2>9 DEF rows
<1> QED
  BY <1>1, JournalInvInit, JournalInvStep, PTL DEF Spec

\* A fill on record has its decision on record, or it is an exit's: an entry is
\* explained before it is filled, whatever fails or is killed in between.
THEOREM EntriesAreExplainedAlways == Spec => []EntriesAreExplained
<1>1. ASSUME JournalInv PROVE EntriesAreExplained
  <2>1. /\ DOMAIN log[Decisions] = 1..Len(log[Decisions])
        /\ DOMAIN log[Fills] = 1..Len(log[Fills])
    BY <1>1, StreamNames DEF JournalInv, JournalTypes, Logs
  <2>2. Decisions \notin broken =>
          \A i \in 1..Len(log[Fills]) : Explained(log[Fills][i].decision_id)
    BY <1>1 DEF JournalInv, FillsExplained
  <2> QED
    BY <2>1, <2>2 DEF EntriesAreExplained, Explained, Range
<1> QED
  BY <1>1, JournalInvInit, JournalInvStep, PTL DEF Spec
=============================================================================
