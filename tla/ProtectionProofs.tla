-------------------------- MODULE ProtectionProofs ---------------------------
(***************************************************************************)
(* Heartbeats and the halts they cause, for any symbols and stops, any     *)
(* order of news and any bounds; and, with position news first, where      *)
(* heartbeats end and that no position is left without a stop unseen.      *)
(*                                                                         *)
(* The argument: the exchange never forgets a stop (StopsRemembered), so a *)
(* symbol that had one keeps that mark.  A task starts in the call whose   *)
(* placement was answered, which is after the stop came to be; news that   *)
(* arrives during the placement leaves the running call at the head.  The  *)
(* kill switch is never released, and the failure that makes two pulls it. *)
(*                                                                         *)
(* For a naked position the argument is about what is to come: the news    *)
(* that made it naked ends with an order update of its symbol, after which *)
(* the view knows it as naked.  The call of that update finds it when it   *)
(* returns, and it cannot raise, because the placement it may begin would  *)
(* only be refused for a stop that works.                                  *)
(***************************************************************************)
EXTENDS ExecutionProtection, SequenceTheorems, TLAPS

UserEvents == OrderUpdates \cup AccountUpdates

HadStop(s) == \E i \in StopIds : exStops[i].symbol = s

\* A running call is the first one, a placement in flight has a side, and one
\* that was answered has left its stop.
CallInv ==
  /\ pc # "idle" => calls # <<>>
  /\ pc = "placing" => exitSide \in Sides
  /\ pc = "placed" => HadStop(SymbolOf(Head(calls)))

ProtectionInv == TypeOK /\ CallInv /\ HeartbeatAfterStop /\ FailuresHalt

-----------------------------------------------------------------------------
(* Events and calls *)

LEMMA EventShape ==
  ASSUME NEW m \in UserEvents
  PROVE  /\ m.kind = "account" => m.symbol \in Symbols /\ m.position \in PositionStates
         /\ m.kind # "account" => m \in OrderUpdates
         /\ m.kind = "stop" => m.id \in StopIds /\ m.stop \in Stop
  BY DEF UserEvents, OrderUpdates, AccountUpdates

LEMMA SymbolOfCall ==
  ASSUME NEW m \in OrderUpdates
  PROVE  SymbolOf(m) \in Symbols
  BY DEF OrderUpdates, SymbolOf, Stop

LEMMA StopUpdateTyped ==
  ASSUME NEW i \in StopIds, NEW stop \in Stop
  PROVE  StopUpdate(i, stop) \in OrderUpdates
  BY DEF StopUpdate, OrderUpdates

\* The news of a fill are two user events.
LEMMA FillMessagesTyped ==
  ASSUME NEW s \in Symbols, NEW position \in PositionStates, NEW order \in OrderUpdates,
         NEW messages \in FillMessages(s, position, order)
  PROVE  messages \in Seq(UserEvents)
<1> DEFINE change == [kind |-> "account", symbol |-> s, position |-> position]
<1>1. change \in UserEvents /\ order \in UserEvents
  BY DEF UserEvents, AccountUpdates
<1>2. messages = <<change, order>> \/ messages = <<order, change>>
  BY DEF FillMessages
<1> HIDE DEF change
<1>3. <<change, order>> \in Seq(UserEvents) /\ <<order, change>> \in Seq(UserEvents)
  <2> HIDE DEF UserEvents
  <2> QED
    BY <1>1
<1> QED
  BY <1>2, <1>3

\* What arrives later does not change which call is the running one.
LEMMA HeadStays ==
  ASSUME NEW sequence \in Seq(OrderUpdates), sequence # <<>>, NEW m \in OrderUpdates
  PROVE  /\ Append(sequence, m) # <<>>
         /\ Head(Append(sequence, m)) = Head(sequence)
  OBVIOUS

LEMMA FirstCall ==
  ASSUME TypeOK, calls # <<>>
  PROVE  /\ Head(calls) \in OrderUpdates
         /\ Tail(calls) \in Seq(OrderUpdates)
         /\ SymbolOf(Head(calls)) \in Symbols
<1>1. Head(calls) \in OrderUpdates /\ Tail(calls) \in Seq(OrderUpdates)
  <2>1. calls \in Seq(OrderUpdates)
    BY DEF TypeOK
  <2> QED
    BY <2>1, HeadTailProperties
<1> QED
  BY <1>1, SymbolOfCall

-----------------------------------------------------------------------------
(* The exchange *)

\* What a step of the exchange does to everything else.
LEMMA ExchangeEventTyped ==
  ASSUME TypeOK, NEW messages \in Seq(UserEvents), ExchangeEvent(messages)
  PROVE  /\ queue' \in Seq(UserEvents)
         /\ events' \in 0..MaxEvents
         /\ UNCHANGED <<account, service, hearts>>
<1>1. queue \in Seq(UserEvents) /\ events \in 0..MaxEvents
  BY DEF TypeOK, UserEvents
<1>2. queue \o messages \in Seq(UserEvents)
  BY <1>1, ConcatProperties
<1> QED
  BY <1>1, <1>2, ConstantsAssumption DEF ExchangeEvent

\* Types of a step that only the exchange and the socket see.
LEMMA OutsideTyped ==
  ASSUME TypeOK, UNCHANGED <<account, service, hearts>>,
         exPosition' \in [Symbols -> PositionStates],
         exStops' \in [StopIds -> Stop \cup {NoStop}],
         events' \in 0..MaxEvents, queue' \in Seq(UserEvents)
  PROVE  TypeOK'
  BY DEF TypeOK, account, service, hearts, UserEvents

LEMMA EntryTyped ==
  ASSUME TypeOK, NEW s \in Symbols, NEW direction \in Directions,
         NEW status \in {"PARTIALLY_FILLED", "FILLED"}, EntryFills(s, direction, status)
  PROVE  TypeOK' /\ UNCHANGED <<exStops, account, service, hearts>>
<1>1. direction \in PositionStates
  BY DEF PositionStates
<1>2. [kind |-> "entry", symbol |-> s, status |-> status] \in OrderUpdates
  BY DEF OrderUpdates
<1>3. PICK messages \in FillMessages(s, direction,
                          [kind |-> "entry", symbol |-> s, status |-> status]) :
        ExchangeEvent(messages)
  BY DEF EntryFills
<1>4. messages \in Seq(UserEvents)
  BY <1>1, <1>2, <1>3, FillMessagesTyped
<1>5. /\ queue' \in Seq(UserEvents) /\ events' \in 0..MaxEvents
      /\ UNCHANGED <<account, service, hearts>>
  BY <1>3, <1>4, ExchangeEventTyped
<1>6. exPosition' \in [Symbols -> PositionStates] /\ UNCHANGED exStops
  BY <1>1 DEF EntryFills, TypeOK
<1>7. exStops' \in [StopIds -> Stop \cup {NoStop}]
  BY <1>6 DEF TypeOK
<1> QED
  BY <1>5, <1>6, <1>7, OutsideTyped

LEMMA ExitTyped ==
  ASSUME TypeOK, NEW s \in Symbols, ExitFills(s)
  PROVE  TypeOK' /\ UNCHANGED <<exStops, account, service, hearts>>
<1>1. "FLAT" \in PositionStates
  BY DEF PositionStates
<1>2. [kind |-> "exit", symbol |-> s, status |-> "FILLED"] \in OrderUpdates
  BY DEF OrderUpdates
<1>3. PICK messages \in FillMessages(s, "FLAT",
                          [kind |-> "exit", symbol |-> s, status |-> "FILLED"]) :
        ExchangeEvent(messages)
  BY DEF ExitFills
<1>4. messages \in Seq(UserEvents)
  BY <1>1, <1>2, <1>3, FillMessagesTyped
<1>5. /\ queue' \in Seq(UserEvents) /\ events' \in 0..MaxEvents
      /\ UNCHANGED <<account, service, hearts>>
  BY <1>3, <1>4, ExchangeEventTyped
<1>6. exPosition' \in [Symbols -> PositionStates] /\ UNCHANGED exStops
  BY <1>1 DEF ExitFills, TypeOK
<1>7. exStops' \in [StopIds -> Stop \cup {NoStop}]
  BY <1>6 DEF TypeOK
<1> QED
  BY <1>5, <1>6, <1>7, OutsideTyped

\* What is active is a stop.
LEMMA ActiveStopTyped ==
  ASSUME TypeOK, NEW i \in StopIds, exStops[i].status \in ActiveStop
  PROVE  exStops[i] \in Stop
<1>1. exStops[i] \in Stop \cup {NoStop}
  BY DEF TypeOK
<1>2. NoStop.status \notin ActiveStop
  BY DEF NoStop, ActiveStop
<1> QED
  BY <1>1, <1>2

\* An ended stop keeps its symbol.
LEMMA StopEndsTyped ==
  ASSUME TypeOK, NEW i \in StopIds, NEW status \in StopStatuses \ {"NEW"},
         StopEnds(i, status)
  PROVE  /\ TypeOK' /\ UNCHANGED <<account, service, hearts>>
         /\ \A s \in Symbols : HadStop(s) => HadStop(s)'
<1> DEFINE ended == [exStops[i] EXCEPT !.status = status]
           s == exStops[i].symbol
<1>1. exStops[i] \in Stop /\ exStops \in [StopIds -> Stop \cup {NoStop}]
  BY ActiveStopTyped DEF StopEnds, TypeOK
<1>2. ended \in Stop /\ ended.symbol = s /\ s \in Symbols
  BY <1>1 DEF Stop
<1>3. StopUpdate(i, ended) \in OrderUpdates
  BY <1>2, StopUpdateTyped
<1>4. exStops' = [exStops EXCEPT ![i] = ended]
  BY DEF StopEnds
<1>5. "FLAT" \in PositionStates
  BY DEF PositionStates
<1>6. /\ exPosition' \in [Symbols -> PositionStates]
      /\ \E messages \in Seq(UserEvents) : ExchangeEvent(messages)
  <2>1. CASE status = "TRIGGERED"
    <3>1. /\ exPosition' = [exPosition EXCEPT ![s] = "FLAT"]
          /\ \E messages \in FillMessages(s, "FLAT", StopUpdate(i, ended)) :
               ExchangeEvent(messages)
      BY <2>1 DEF StopEnds
    <3> HIDE DEF ended, s
    <3> QED
      BY <1>2, <1>3, <1>5, <3>1, FillMessagesTyped DEF TypeOK
  <2>2. CASE status # "TRIGGERED"
    <3>1. ExchangeEvent(<<StopUpdate(i, ended)>>) /\ UNCHANGED exPosition
      BY <2>2 DEF StopEnds
    <3>2. StopUpdate(i, ended) \in UserEvents
      BY <1>3 DEF UserEvents
    <3> DEFINE update == StopUpdate(i, ended)
    <3>3. <<update>> \in Seq(UserEvents)
      <4> HIDE DEF update
      <4> QED
        BY <3>2 DEF update
    <3> QED
      BY <3>1, <3>3 DEF TypeOK
  <2> QED
    BY <2>1, <2>2
<1>7. /\ queue' \in Seq(UserEvents) /\ events' \in 0..MaxEvents
      /\ UNCHANGED <<account, service, hearts>>
  BY <1>6, ExchangeEventTyped
<1> HIDE DEF ended, s
<1>8. exStops' \in [StopIds -> Stop \cup {NoStop}]
  BY <1>1, <1>2, <1>4
<1>9. TypeOK'
  BY <1>6, <1>7, <1>8, OutsideTyped
<1>10. ASSUME NEW t \in Symbols, HadStop(t) PROVE HadStop(t)'
  <2>1. PICK j \in StopIds : exStops[j].symbol = t
    BY <1>10 DEF HadStop
  <2>2. exStops'[j].symbol = t
    BY <1>1, <1>2, <1>4, <2>1 DEF s
  <2> QED
    BY <2>2 DEF HadStop
<1> QED
  BY <1>7, <1>9, <1>10

-----------------------------------------------------------------------------
(* Steps that leave tasks and failure counts alone *)

\* The stops a symbol had stay, the running call stays or ends.
LEMMA HeartsKept ==
  ASSUME ProtectionInv, TypeOK', CallInv',
         \A s \in Symbols : HadStop(s) => HadStop(s)',
         heartbeat' = heartbeat, failures' = failures, killReason' = killReason
  PROVE  ProtectionInv'
<1>1. HeartbeatAfterStop'
  BY DEF ProtectionInv, HeartbeatAfterStop, HadStop
<1>2. FailuresHalt'
  BY DEF ProtectionInv, FailuresHalt, killSwitchActive
<1> QED
  BY <1>1, <1>2 DEF ProtectionInv

LEMMA SameStops ==
  ASSUME exStops' = exStops
  PROVE  \A s \in Symbols : HadStop(s) => HadStop(s)'
  BY DEF HadStop

LEMMA OutsideKeepsInv ==
  ASSUME ProtectionInv, TypeOK', UNCHANGED <<account, service, hearts>>,
         \A s \in Symbols : HadStop(s) => HadStop(s)'
  PROVE  ProtectionInv'
<1>1. CallInv'
  <2>1. calls' = calls /\ pc' = pc /\ exitSide' = exitSide
    BY DEF service
  <2>2. CASE pc = "placed"
    <3>1. calls # <<>> /\ HadStop(SymbolOf(Head(calls)))
      BY <2>2 DEF ProtectionInv, CallInv
    <3>2. SymbolOf(Head(calls)) \in Symbols
      BY <3>1, FirstCall DEF ProtectionInv
    <3> DEFINE s == SymbolOf(Head(calls))
    <3>3. HadStop(s)' /\ s' = s
      <4>1. s' = s
        BY <2>1 DEF SymbolOf
      <4>2. \E i \in StopIds : exStops'[i].symbol = s
        BY <3>1, <3>2 DEF HadStop
      <4> QED
        BY <4>1, <4>2 DEF HadStop
    <3> QED
      BY <2>1, <2>2, <3>1, <3>3 DEF CallInv, HadStop
  <2>3. CASE pc # "placed"
    BY <2>1, <2>3 DEF ProtectionInv, CallInv
  <2> QED
    BY <2>2, <2>3
<1> QED
  BY <1>1, HeartsKept DEF account, hearts

LEMMA ExchangeKeepsInv ==
  ASSUME ProtectionInv, Exchange
  PROVE  ProtectionInv'
<1>1. TypeOK
  BY DEF ProtectionInv
<1>2. ASSUME NEW s \in Symbols, NEW direction \in Directions,
             NEW status \in {"PARTIALLY_FILLED", "FILLED"}, EntryFills(s, direction, status)
      PROVE  ProtectionInv'
  <2>1. TypeOK' /\ UNCHANGED <<exStops, account, service, hearts>>
    BY <1>1, <1>2, EntryTyped
  <2> QED
    BY <2>1, SameStops, OutsideKeepsInv
<1>3. ASSUME NEW s \in Symbols, ExitFills(s)
      PROVE  ProtectionInv'
  <2>1. TypeOK' /\ UNCHANGED <<exStops, account, service, hearts>>
    BY <1>1, <1>3, ExitTyped
  <2> QED
    BY <2>1, SameStops, OutsideKeepsInv
<1>4. ASSUME NEW i \in StopIds, NEW status \in StopStatuses \ {"NEW"}, StopEnds(i, status)
      PROVE  ProtectionInv'
  <2>1. /\ TypeOK' /\ UNCHANGED <<account, service, hearts>>
        /\ \A s \in Symbols : HadStop(s) => HadStop(s)'
    BY <1>1, <1>4, StopEndsTyped
  <2> QED
    BY <2>1, OutsideKeepsInv
<1> QED
  BY <1>2, <1>3, <1>4 DEF Exchange

\* An event that becomes a call queues behind the running one.
LEMMA ApplyKeepsInv ==
  ASSUME ProtectionInv, Apply
  PROVE  ProtectionInv'
<1> DEFINE m == Head(queue)
<1>1. TypeOK /\ CallInv /\ queue \in Seq(UserEvents) /\ queue # <<>>
  BY DEF ProtectionInv, TypeOK, UserEvents, Apply
<1>2. m \in UserEvents /\ Tail(queue) \in Seq(UserEvents)
  BY <1>1, HeadTailProperties
<1>3. /\ queue' = Tail(queue)
      /\ UNCHANGED <<exPosition, exStops, events, killReason, pc, exitSide,
                     heartbeat, failures, running, beats>>
  BY DEF Apply, exchange, hearts
<1>4. calls \in Seq(OrderUpdates)
  BY <1>1 DEF TypeOK
<1>5. CASE m.kind = "account"
  <2>1. /\ positions' = [positions EXCEPT ![m.symbol] = m.position]
        /\ UNCHANGED <<orders, calls>>
    BY <1>5 DEF Apply
  <2>2. m.symbol \in Symbols /\ m.position \in PositionStates
    BY <1>2, <1>5, EventShape
  <2>3. positions' \in [Symbols -> PositionStates]
    BY <1>1, <2>1, <2>2 DEF TypeOK
  <2>4. TypeOK'
    BY <1>1, <1>2, <1>3, <2>1, <2>3 DEF TypeOK, UserEvents
  <2>5. CallInv'
    BY <1>1, <1>3, <2>1 DEF CallInv, HadStop, SymbolOf
  <2> QED
    BY <1>3, <2>4, <2>5, SameStops, HeartsKept
<1>6. CASE m.kind # "account"
  <2>1. /\ orders' = IF m.kind = "stop" THEN [orders EXCEPT ![m.id] = m.stop] ELSE orders
        /\ calls' = Append(calls, m)
        /\ UNCHANGED positions
    BY <1>6 DEF Apply
  <2>2. m \in OrderUpdates /\ (m.kind = "stop" => m.id \in StopIds /\ m.stop \in Stop)
    BY <1>2, <1>6, EventShape
  <2> HIDE DEF m
  <2>3. orders' \in [StopIds -> Stop \cup {NoStop}]
    BY <1>1, <2>1, <2>2 DEF TypeOK
  <2>4. calls' \in Seq(OrderUpdates) /\ calls' # <<>>
    BY <1>4, <2>1, <2>2, AppendProperties
  <2>5. TypeOK'
    BY <1>1, <1>2, <1>3, <2>1, <2>3, <2>4 DEF TypeOK, UserEvents
  <2>6. pc # "idle" => Head(calls') = Head(calls)
    BY <1>1, <1>4, <2>1, <2>2, HeadStays DEF CallInv
  <2>7. CallInv'
    BY <1>1, <1>3, <2>4, <2>6 DEF CallInv, HadStop, SymbolOf
  <2> QED
    BY <1>3, <2>5, <2>7, SameStops, HeartsKept
<1> QED
  BY <1>5, <1>6

-----------------------------------------------------------------------------
(* handle_order_update *)

\* The end of a call, whatever its placement left of the tasks.
LEMMA FinishKeepsInv ==
  ASSUME ProtectionInv, calls # <<>>,
         NEW hearts1 \in [Symbols -> {"off", "due", "sleeping", "ended"}],
         \A s \in Symbols : hearts1[s] # "off" => HadStop(s),
         Finish(Head(calls), hearts1)
  PROVE  ProtectionInv'
<1> DEFINE s == SymbolOf(Head(calls))
<1>1. TypeOK /\ s \in Symbols /\ Tail(calls) \in Seq(OrderUpdates)
  BY FirstCall DEF ProtectionInv
<1>2. /\ killReason' \in {"missing stop", "stop failed", killReason}
      /\ heartbeat' = IF positions[s] # "FLAT" THEN hearts1 ELSE [hearts1 EXCEPT ![s] = "off"]
      /\ calls' = Tail(calls) /\ pc' = "idle" /\ exitSide' = "none"
      /\ UNCHANGED <<exPosition, exStops, events, queue, positions, orders,
                     failures, running, beats>>
  BY DEF Finish, exchange
<1> HIDE DEF s
<1>3. /\ heartbeat' \in [Symbols -> {"off", "due", "sleeping", "ended"}]
      /\ \A t \in Symbols : heartbeat'[t] # "off" => hearts1[t] # "off"
  BY <1>1, <1>2
<1>4. TypeOK'
  BY <1>1, <1>2, <1>3 DEF TypeOK
<1>5. CallInv'
  BY <1>2 DEF CallInv
<1>6. HeartbeatAfterStop'
  BY <1>2, <1>3 DEF HeartbeatAfterStop, HadStop
<1>7. FailuresHalt'
  BY <1>2 DEF ProtectionInv, FailuresHalt, killSwitchActive
<1> QED
  BY <1>4, <1>5, <1>6, <1>7 DEF ProtectionInv

LEMMA HandleKeepsInv ==
  ASSUME ProtectionInv, Handle
  PROVE  ProtectionInv'
<1>1. /\ TypeOK /\ CallInv /\ HeartbeatAfterStop
      /\ heartbeat \in [Symbols -> {"off", "due", "sleeping", "ended"}]
      /\ \A s \in Symbols : heartbeat[s] # "off" => HadStop(s)
  BY DEF ProtectionInv, TypeOK, HeartbeatAfterStop, HadStop
<1>2. CASE HandleWithoutPlacement
  BY <1>1, <1>2, FinishKeepsInv DEF HandleWithoutPlacement
<1>3. CASE BeginPlacement
  <2> DEFINE order == Head(calls)
  <2>1. /\ calls # <<>> /\ HasPlan(order) /\ pc' = "placing"
        /\ exitSide' = ExitSide(positions[order.symbol])
        /\ UNCHANGED <<exPosition, exStops, events, queue, positions, orders, killReason,
                       calls, heartbeat, failures, running, beats>>
    BY <1>3 DEF BeginPlacement, exchange, account, hearts
  <2> HIDE DEF order
  <2>2. exitSide' \in Sides
    BY <2>1 DEF ExitSide, Sides
  <2>3. TypeOK'
    BY <1>1, <2>1, <2>2 DEF TypeOK
  <2>4. CallInv'
    BY <2>1, <2>2 DEF CallInv
  <2> QED
    BY <2>1, <2>3, <2>4, SameStops, HeartsKept
<1>4. CASE HandlePlaced
  <2> DEFINE s == SymbolOf(Head(calls))
             hearts1 == Started(s)
  <2>1. pc = "placed" /\ Finish(Head(calls), hearts1)
    BY <1>4 DEF HandlePlaced
  <2>2. calls # <<>> /\ HadStop(s)
    BY <1>1, <2>1 DEF CallInv
  <2>3. s \in Symbols
    BY <1>1, <2>2, FirstCall
  <2>4. /\ hearts1 \in [Symbols -> {"off", "due", "sleeping", "ended"}]
        /\ \A t \in Symbols : hearts1[t] # "off" => HadStop(t)
    <3>1. hearts1 = IF heartbeat[s] = "off" THEN [heartbeat EXCEPT ![s] = "due"] ELSE heartbeat
      BY DEF Started
    <3> HIDE DEF s, hearts1
    <3> QED
      BY <1>1, <2>2, <2>3, <3>1
  <2> HIDE DEF hearts1
  <2> QED
    BY <2>1, <2>2, <2>4, FinishKeepsInv
<1>5. CASE HandleRaised
  <2>1. /\ pc = "raised" /\ pc' = "idle" /\ exitSide' = "none" /\ calls' = Tail(calls)
        /\ UNCHANGED <<exPosition, exStops, events, queue, positions, orders, killReason,
                       heartbeat, failures, running, beats>>
    BY <1>5 DEF HandleRaised, exchange, account, hearts
  <2>2. Tail(calls) \in Seq(OrderUpdates)
    BY <1>1, <2>1, FirstCall DEF CallInv
  <2>3. TypeOK'
    BY <1>1, <2>1, <2>2 DEF TypeOK
  <2>4. CallInv'
    BY <2>1 DEF CallInv
  <2> QED
    BY <2>1, <2>3, <2>4, SameStops, HeartsKept
<1> QED
  BY <1>2, <1>3, <1>4, <1>5 DEF Handle

\* A stop comes to be before its answer, and none is overwritten.
LEMMA StopAcceptedKeepsInv ==
  ASSUME ProtectionInv, NEW i \in StopIds, NEW answer \in {"placed", "raised"},
         StopAccepted(i, answer)
  PROVE  ProtectionInv'
<1> DEFINE s == SymbolOf(Head(calls))
           stop == [symbol |-> s, side |-> exitSide, status |-> "NEW"]
<1>1. TypeOK /\ pc = "placing" /\ calls # <<>> /\ exitSide \in Sides
  BY DEF ProtectionInv, CallInv, StopAccepted
<1>2. s \in Symbols
  BY <1>1, FirstCall
<1>3. stop \in Stop /\ stop.symbol = s
  BY <1>1, <1>2 DEF Stop, StopStatuses
<1>4. StopUpdate(i, stop) \in UserEvents
  BY <1>3, StopUpdateTyped DEF UserEvents
<1>5. /\ exStops[i] = NoStop
      /\ exStops' = [exStops EXCEPT ![i] = stop]
      /\ queue' = Append(queue, StopUpdate(i, stop))
      /\ pc' = answer
      /\ UNCHANGED <<exPosition, events, positions, orders, killReason, calls, exitSide,
                     heartbeat, failures, running, beats>>
  BY DEF StopAccepted, account, hearts
<1>6. s' = s
  BY <1>5 DEF SymbolOf
<1> HIDE DEF stop
<1>7. exStops \in [StopIds -> Stop \cup {NoStop}] /\ queue \in Seq(UserEvents)
  BY <1>1 DEF TypeOK, UserEvents
<1>8. queue' \in Seq(UserEvents)
  BY <1>4, <1>5, <1>7, AppendProperties
<1>9. TypeOK'
  <2>1. exStops' \in [StopIds -> Stop \cup {NoStop}]
    BY <1>3, <1>5, <1>7
  <2> QED
    BY <1>1, <1>5, <1>8, <2>1 DEF TypeOK, UserEvents
<1>10. ASSUME NEW t \in Symbols, HadStop(t) PROVE HadStop(t)'
  <2>1. PICK j \in StopIds : exStops[j].symbol = t
    BY <1>10 DEF HadStop
  <2>2. j # i
    BY <1>5, <2>1, ConstantsAssumption DEF NoStop
  <2>3. exStops'[j].symbol = t
    BY <1>5, <1>7, <2>1, <2>2
  <2> QED
    BY <2>3 DEF HadStop
<1>11. HadStop(s)'
  <2>1. exStops'[i].symbol = s
    BY <1>3, <1>5, <1>7
  <2> QED
    BY <1>6, <2>1 DEF HadStop
<1>12. CallInv'
  BY <1>1, <1>5, <1>11 DEF CallInv, HadStop, SymbolOf
<1> QED
  BY <1>5, <1>9, <1>10, <1>12, HeartsKept

LEMMA AnswerKeepsInv ==
  ASSUME ProtectionInv, Answer
  PROVE  ProtectionInv'
<1>1. CASE StopRefused
  <2>1. /\ pc = "placing" /\ pc' = "raised"
        /\ UNCHANGED <<exPosition, exStops, events, queue, positions, orders, killReason,
                       calls, exitSide, heartbeat, failures, running, beats>>
    BY <1>1 DEF StopRefused, exchange, account, hearts
  <2>2. TypeOK'
    BY <2>1 DEF ProtectionInv, TypeOK
  <2>3. CallInv'
    BY <2>1 DEF ProtectionInv, CallInv
  <2> QED
    BY <2>1, <2>2, <2>3, SameStops, HeartsKept
<1>2. ASSUME NEW i \in StopIds, NEW answer \in {"placed", "raised"}, StopAccepted(i, answer)
      PROVE  ProtectionInv'
  BY <1>2, StopAcceptedKeepsInv
<1> QED
  BY <1>1, <1>2 DEF Answer

-----------------------------------------------------------------------------
(* The tasks *)

\* A task that is kept or ends, without a heartbeat.
LEMMA TaskKeepsInv ==
  ASSUME ProtectionInv, UNCHANGED <<exchange, queue, account, service, failures, beats>>,
         running' \in BOOLEAN,
         heartbeat' \in [Symbols -> {"off", "due", "sleeping", "ended"}],
         \A s \in Symbols : heartbeat'[s] # "off" => heartbeat[s] # "off"
  PROVE  ProtectionInv'
<1>1. UNCHANGED <<exPosition, exStops, events, queue, positions, orders, killReason,
                  calls, pc, exitSide, failures, beats>>
  BY DEF exchange, account, service
<1>2. TypeOK'
  BY <1>1 DEF ProtectionInv, TypeOK
<1>3. CallInv'
  BY <1>1 DEF ProtectionInv, CallInv, HadStop, SymbolOf
<1>4. HeartbeatAfterStop'
  BY <1>1 DEF ProtectionInv, HeartbeatAfterStop
<1>5. FailuresHalt'
  BY <1>1 DEF ProtectionInv, FailuresHalt, killSwitchActive
<1> QED
  BY <1>2, <1>3, <1>4, <1>5 DEF ProtectionInv

\* The failure that makes two in a row pulls the kill switch.
LEMMA BeatKeepsInv ==
  ASSUME ProtectionInv, NEW s \in Symbols, NEW succeeds \in BOOLEAN, Beat(s, succeeds)
  PROVE  ProtectionInv'
<1>1. /\ heartbeat[s] = "due"
      /\ beats < MaxBeats /\ beats' = beats + 1
      /\ failures' = [failures EXCEPT ![s] = IF succeeds THEN 0 ELSE failures[s] + 1]
      /\ killReason' = IF ~ succeeds /\ failures[s] + 1 >= 2 THEN "heartbeat" ELSE killReason
      /\ heartbeat' = [heartbeat EXCEPT ![s] = "sleeping"]
      /\ UNCHANGED <<exPosition, exStops, events, queue, positions, orders, calls, pc,
                     exitSide, running>>
  BY DEF Beat, exchange, service
<1>2. /\ TypeOK /\ CallInv /\ HeartbeatAfterStop /\ FailuresHalt
      /\ failures \in [Symbols -> Nat] /\ beats \in 0..MaxBeats
      /\ heartbeat \in [Symbols -> {"off", "due", "sleeping", "ended"}]
  BY DEF ProtectionInv, TypeOK
<1>3. beats' \in 0..MaxBeats
  BY <1>1, <1>2, ConstantsAssumption
<1>4. /\ failures' \in [Symbols -> Nat]
      /\ heartbeat' \in [Symbols -> {"off", "due", "sleeping", "ended"}]
  BY <1>1, <1>2
<1>5. TypeOK'
  BY <1>1, <1>2, <1>3, <1>4 DEF TypeOK
<1>6. CallInv'
  BY <1>1, <1>2 DEF CallInv, HadStop, SymbolOf
<1>7. HeartbeatAfterStop'
  BY <1>1, <1>2 DEF HeartbeatAfterStop
<1>8. FailuresHalt'
  <2> SUFFICES ASSUME NEW t \in Symbols, failures'[t] >= 2 PROVE killReason' # "none"
    BY DEF FailuresHalt, killSwitchActive
  <2>1. CASE t = s
    BY <1>1, <1>2, <2>1
  <2>2. CASE t # s
    BY <1>1, <1>2, <2>2 DEF FailuresHalt, killSwitchActive
  <2> QED
    BY <2>1, <2>2
<1> QED
  BY <1>5, <1>6, <1>7, <1>8 DEF ProtectionInv

LEMMA HeartbeatsKeepInv ==
  ASSUME ProtectionInv, Heartbeats
  PROVE  ProtectionInv'
<1>1. PICK s \in Symbols :
        \/ Wake(s) \/ LeaveLoop(s) \/ StopAutoCancel(s)
        \/ \E ok \in BOOLEAN : Beat(s, ok)
  BY DEF Heartbeats
<1>2. /\ running \in BOOLEAN
      /\ heartbeat \in [Symbols -> {"off", "due", "sleeping", "ended"}]
  BY DEF ProtectionInv, TypeOK
<1>3. CASE Wake(s)
  <2>1. /\ heartbeat[s] = "sleeping" /\ heartbeat' = [heartbeat EXCEPT ![s] = "due"]
        /\ UNCHANGED <<exchange, queue, account, service, failures, running, beats>>
    BY <1>3 DEF Wake
  <2> QED
    BY <1>2, <2>1, TaskKeepsInv
<1>4. CASE LeaveLoop(s)
  <2>1. /\ heartbeat[s] = "due" /\ heartbeat' = [heartbeat EXCEPT ![s] = "ended"]
        /\ UNCHANGED <<exchange, queue, account, service, failures, running, beats>>
    BY <1>4 DEF LeaveLoop
  <2> QED
    BY <1>2, <2>1, TaskKeepsInv
<1>5. CASE StopAutoCancel(s)
  <2>1. /\ heartbeat' = [heartbeat EXCEPT ![s] = "off"]
        /\ UNCHANGED <<exchange, queue, account, service, failures, running, beats>>
    BY <1>5 DEF StopAutoCancel
  <2> QED
    BY <1>2, <2>1, TaskKeepsInv
<1>6. CASE \E ok \in BOOLEAN : Beat(s, ok)
  BY <1>6, BeatKeepsInv
<1> QED
  BY <1>1, <1>3, <1>4, <1>5, <1>6

-----------------------------------------------------------------------------
(* The theorems *)

LEMMA ProtectionInvInit == Init => ProtectionInv
<1> SUFFICES ASSUME Init PROVE ProtectionInv
  OBVIOUS
<1>1. /\ <<>> \in Seq(OrderUpdates \cup AccountUpdates) /\ <<>> \in Seq(OrderUpdates)
      /\ 0 \in 0..MaxEvents /\ 0 \in 0..MaxBeats
  BY EmptySeq, ConstantsAssumption
<1>2. TypeOK
  BY <1>1 DEF Init, TypeOK, PositionStates
<1>3. CallInv
  BY DEF Init, CallInv
<1>4. HeartbeatAfterStop /\ FailuresHalt
  BY DEF Init, HeartbeatAfterStop, FailuresHalt
<1> QED
  BY <1>2, <1>3, <1>4 DEF ProtectionInv

LEMMA ProtectionInvStep == ProtectionInv /\ [Next]_vars => ProtectionInv'
<1> SUFFICES ASSUME ProtectionInv, [Next]_vars PROVE ProtectionInv'
  OBVIOUS
<1>1. CASE Exchange
  BY <1>1, ExchangeKeepsInv
<1>2. CASE Apply
  BY <1>2, ApplyKeepsInv
<1>3. CASE Handle
  BY <1>3, HandleKeepsInv
<1>4. CASE Answer
  BY <1>4, AnswerKeepsInv
<1>5. CASE Heartbeats
  BY <1>5, HeartbeatsKeepInv
<1>6. CASE GuardianStop
  <2>1. /\ running' = FALSE /\ heartbeat' = heartbeat
        /\ UNCHANGED <<exchange, queue, account, service, failures, beats>>
    BY <1>6 DEF GuardianStop
  <2> QED
    BY <2>1, TaskKeepsInv DEF ProtectionInv, TypeOK
<1>7. CASE UNCHANGED vars
  <2>1. /\ running' = running /\ heartbeat' = heartbeat
        /\ UNCHANGED <<exchange, queue, account, service, failures, beats>>
    BY <1>7 DEF vars, hearts
  <2> QED
    BY <2>1, TaskKeepsInv DEF ProtectionInv, TypeOK
<1> QED
  BY <1>1, <1>2, <1>3, <1>4, <1>5, <1>6, <1>7 DEF Next

\* Type correctness, with events, calls and tasks in any order.
THEOREM ProtectionTypeCorrect == Spec => []TypeOK
<1>1. ProtectionInv => TypeOK
  BY DEF ProtectionInv
<1> QED
  BY ProtectionInvInit, ProtectionInvStep, <1>1, PTL DEF Spec

\* A heartbeat exists only for a symbol in which a stop has been placed: neither
\* a placement that raised nor one that was refused starts a task.
THEOREM HeartbeatAfterStopAlways == Spec => []HeartbeatAfterStop
<1>1. ProtectionInv => HeartbeatAfterStop
  BY DEF ProtectionInv
<1> QED
  BY ProtectionInvInit, ProtectionInvStep, <1>1, PTL DEF Spec

\* Two failed heartbeats of a symbol in a row halt the account, however often its
\* task is stopped and started between them.
THEOREM FailuresHaltAlways == Spec => []FailuresHalt
<1>1. ProtectionInv => FailuresHalt
  BY DEF ProtectionInv
<1> QED
  BY ProtectionInvInit, ProtectionInvStep, <1>1, PTL DEF Spec

-----------------------------------------------------------------------------
(* News of a position before news of its fill *)

Change(s, position) == [kind |-> "account", symbol |-> s, position |-> position]
Speaks(m, s) == m.kind = "account" /\ m.symbol = s

\* An update whose call places nothing and looks at the position of s.
Closes(m, s) == m.kind \in {"exit", "stop"} /\ SymbolOf(m) = s

\* Replaying the queue on the view gives the positions of the exchange, and the
\* news that a position is gone is followed by the update that closed it.
NewsInv ==
  /\ \A s \in Symbols :
       (\A k \in DOMAIN queue : ~ Speaks(queue[k], s)) => positions[s] = exPosition[s]
  /\ \A s \in Symbols : \A k \in DOMAIN queue :
       Speaks(queue[k], s) /\ (\A j \in DOMAIN queue : j > k => ~ Speaks(queue[j], s))
         => queue[k].position = exPosition[s]
  /\ \A s \in Symbols : \A k \in DOMAIN queue :
       queue[k] = Change(s, "FLAT") => k + 1 \in DOMAIN queue /\ Closes(queue[k + 1], s)

\* A task of a flat symbol has the call before it that will stop it, and no
\* exception can skip that call.
EndsInv ==
  /\ pc # "idle" => Head(calls).kind = "entry"
  /\ \A s \in Symbols : heartbeat[s] # "off" /\ positions[s] = "FLAT" =>
       \/ \E k \in DOMAIN calls : Closes(calls[k], s)
       \/ queue # <<>> /\ Closes(Head(queue), s)

\* One more order update.
LEMMA OrderNews ==
  ASSUME NewsInv, queue \in Seq(UserEvents), NEW m \in OrderUpdates,
         queue' = Append(queue, m), UNCHANGED <<positions, exPosition>>
  PROVE  NewsInv'
<1> DEFINE n == Len(queue)
<1>1. n \in Nat /\ DOMAIN queue = 1..n /\ DOMAIN queue' = 1..(n + 1)
  BY AppendProperties, LenProperties DEF UserEvents
<1>2. /\ \A k \in 1..n : queue'[k] = queue[k]
      /\ queue'[n + 1] = m
  BY AppendProperties DEF UserEvents
<1>3. m.kind # "account"
  BY DEF OrderUpdates
<1> HIDE DEF n
<1>4. \A s \in Symbols :
        (\A k \in DOMAIN queue' : ~ Speaks(queue'[k], s)) => positions'[s] = exPosition'[s]
  BY <1>1, <1>2, <1>3 DEF NewsInv, Speaks
<1>5. \A s \in Symbols : \A k \in DOMAIN queue' :
        Speaks(queue'[k], s) /\ (\A j \in DOMAIN queue' : j > k => ~ Speaks(queue'[j], s))
          => queue'[k].position = exPosition'[s]
  BY <1>1, <1>2, <1>3 DEF NewsInv, Speaks
<1>6. \A s \in Symbols : \A k \in DOMAIN queue' :
        queue'[k] = Change(s, "FLAT") => k + 1 \in DOMAIN queue' /\ Closes(queue'[k + 1], s)
  BY <1>1, <1>2, <1>3 DEF NewsInv, Change
<1> QED
  BY <1>4, <1>5, <1>6 DEF NewsInv, Speaks, Change, Closes, SymbolOf

\* The two pieces of news of a fill.
LEMMA FillNews ==
  ASSUME NewsInv, queue \in Seq(UserEvents), exPosition \in [Symbols -> PositionStates],
         NEW s \in Symbols, NEW position \in PositionStates, NEW order \in OrderUpdates,
         position = "FLAT" => Closes(order, s),
         queue' = queue \o <<Change(s, position), order>>,
         exPosition' = [exPosition EXCEPT ![s] = position], positions' = positions
  PROVE  NewsInv'
<1> DEFINE n == Len(queue)
           change == Change(s, position)
<1>1. /\ n \in Nat /\ DOMAIN queue = 1..n /\ DOMAIN queue' = 1..(n + 2)
      /\ \A k \in 1..n : queue'[k] = queue[k]
      /\ queue'[n + 1] = change /\ queue'[n + 2] = order
  <2>1. change \in UserEvents /\ order \in UserEvents
    BY DEF UserEvents, AccountUpdates, Change
  <2> HIDE DEF change, UserEvents
  <2>2. queue' = queue \o <<change, order>>
    BY DEF change
  <2> QED
    BY <2>1, <2>2
<1>2. order.kind # "account"
  BY DEF OrderUpdates
<1>3. change.kind = "account" /\ change.symbol = s /\ change.position = position
  BY DEF Change
<1> HIDE DEF n, change
<1>4. \A t \in Symbols :
        (\A k \in DOMAIN queue' : ~ Speaks(queue'[k], t)) => positions'[t] = exPosition'[t]
  BY <1>1, <1>2, <1>3 DEF NewsInv, Speaks
<1>5. \A t \in Symbols : \A k \in DOMAIN queue' :
        Speaks(queue'[k], t) /\ (\A j \in DOMAIN queue' : j > k => ~ Speaks(queue'[j], t))
          => queue'[k].position = exPosition'[t]
  <2> SUFFICES ASSUME NEW t \in Symbols, NEW k \in DOMAIN queue', Speaks(queue'[k], t),
                      \A j \in DOMAIN queue' : j > k => ~ Speaks(queue'[j], t)
               PROVE  queue'[k].position = exPosition'[t]
    OBVIOUS
  <2>1. k \in 1..n \/ k = n + 1 \/ k = n + 2
    BY <1>1
  <2>2. CASE k = n + 1
    BY <1>1, <1>3, <2>2 DEF Speaks
  <2>3. CASE k = n + 2
    BY <1>1, <1>2, <2>3 DEF Speaks
  <2>4. CASE k \in 1..n
    <3>1. t # s
      <4>1. n + 1 \in DOMAIN queue' /\ n + 1 > k
        BY <1>1, <2>4
      <4>2. ~ Speaks(queue'[n + 1], t)
        BY <4>1
      <4> QED
        BY <1>1, <1>3, <4>2 DEF Speaks
    <3>2. \A j \in 1..n : j > k => ~ Speaks(queue[j], t)
      <4> TAKE j \in 1..n
      <4> HAVE j > k
      <4>1. j \in DOMAIN queue' /\ queue'[j] = queue[j]
        BY <1>1
      <4> QED
        BY <4>1
    <3> QED
      BY <1>1, <2>4, <3>1, <3>2 DEF NewsInv
  <2> QED
    BY <2>1, <2>2, <2>3, <2>4
<1>6. \A t \in Symbols : \A k \in DOMAIN queue' :
        queue'[k] = Change(t, "FLAT") => k + 1 \in DOMAIN queue' /\ Closes(queue'[k + 1], t)
  <2> SUFFICES ASSUME NEW t \in Symbols, NEW k \in DOMAIN queue', queue'[k] = Change(t, "FLAT")
               PROVE  k + 1 \in DOMAIN queue' /\ Closes(queue'[k + 1], t)
    OBVIOUS
  <2>1. k \in 1..n \/ k = n + 1 \/ k = n + 2
    BY <1>1
  <2>2. CASE k = n + 1
    <3>1. t = s /\ position = "FLAT"
      BY <1>1, <1>3, <2>2 DEF Change
    <3> QED
      BY <1>1, <2>2, <3>1
  <2>3. CASE k = n + 2
    BY <1>1, <1>2, <2>3 DEF Change
  <2>4. CASE k \in 1..n
    BY <1>1, <2>4 DEF NewsInv
  <2> QED
    BY <2>1, <2>2, <2>3, <2>4
<1> QED
  BY <1>4, <1>5, <1>6 DEF NewsInv, Speaks, Change, Closes, SymbolOf

\* The first piece of news reaches the view.
LEMMA AppliedNews ==
  ASSUME NewsInv, queue \in Seq(UserEvents), queue # <<>>,
         positions \in [Symbols -> PositionStates],
         queue' = Tail(queue), exPosition' = exPosition,
         Head(queue).kind = "account" =>
           positions' = [positions EXCEPT ![Head(queue).symbol] = Head(queue).position],
         Head(queue).kind # "account" => positions' = positions
  PROVE  NewsInv'
<1> DEFINE n == Len(queue)
           m == Head(queue)
<1>1. /\ n \in Nat \ {0} /\ DOMAIN queue = 1..n /\ DOMAIN queue' = 1..(n - 1)
      /\ \A k \in 1..(n - 1) : queue'[k] = queue[k + 1]
      /\ m = queue[1]
  BY DEF UserEvents
<1>2. m.kind = "account" => m.symbol \in Symbols
  BY <1>1, EventShape
<1> HIDE DEF n, m
<1>3. \A s \in Symbols :
        (\A k \in DOMAIN queue' : ~ Speaks(queue'[k], s)) => positions'[s] = exPosition'[s]
  <2> SUFFICES ASSUME NEW s \in Symbols, \A k \in DOMAIN queue' : ~ Speaks(queue'[k], s)
               PROVE  positions'[s] = exPosition[s]
    OBVIOUS
  <2>1. \A j \in 1..n : j > 1 => ~ Speaks(queue[j], s)
    <3> TAKE j \in 1..n
    <3> HAVE j > 1
    <3>1. j - 1 \in 1..(n - 1) /\ (j - 1) + 1 = j
      BY <1>1
    <3> QED
      BY <1>1, <3>1
  <2>2. CASE Speaks(m, s)
    <3>1. m.position = exPosition[s]
      BY <1>1, <2>1, <2>2 DEF NewsInv
    <3> QED
      BY <2>2, <3>1 DEF Speaks, m
  <2>3. CASE ~ Speaks(m, s)
    <3>1. \A j \in 1..n : ~ Speaks(queue[j], s)
      BY <1>1, <2>1, <2>3
    <3>2. positions[s] = exPosition[s]
      BY <1>1, <3>1 DEF NewsInv
    <3> QED
      BY <1>2, <2>3, <3>2 DEF Speaks, m
  <2> QED
    BY <2>2, <2>3
<1>4. \A s \in Symbols : \A k \in DOMAIN queue' :
        Speaks(queue'[k], s) /\ (\A j \in DOMAIN queue' : j > k => ~ Speaks(queue'[j], s))
          => queue'[k].position = exPosition'[s]
  <2> SUFFICES ASSUME NEW s \in Symbols, NEW k \in DOMAIN queue', Speaks(queue'[k], s),
                      \A j \in DOMAIN queue' : j > k => ~ Speaks(queue'[j], s)
               PROVE  queue'[k].position = exPosition[s]
    OBVIOUS
  <2>1. k + 1 \in 1..n /\ queue'[k] = queue[k + 1]
    BY <1>1
  <2>2. \A j \in 1..n : j > k + 1 => ~ Speaks(queue[j], s)
    <3> TAKE j \in 1..n
    <3> HAVE j > k + 1
    <3>1. j - 1 \in 1..(n - 1) /\ (j - 1) + 1 = j /\ j - 1 > k
      BY <1>1
    <3> QED
      BY <1>1, <3>1
  <2> QED
    BY <1>1, <2>1, <2>2 DEF NewsInv
<1>5. \A s \in Symbols : \A k \in DOMAIN queue' :
        queue'[k] = Change(s, "FLAT") => k + 1 \in DOMAIN queue' /\ Closes(queue'[k + 1], s)
  <2> SUFFICES ASSUME NEW s \in Symbols, NEW k \in DOMAIN queue', queue'[k] = Change(s, "FLAT")
               PROVE  k + 1 \in DOMAIN queue' /\ Closes(queue'[k + 1], s)
    OBVIOUS
  <2>1. k + 1 \in 1..n /\ queue[k + 1] = Change(s, "FLAT")
    BY <1>1
  <2>2. (k + 1) + 1 \in 1..n /\ Closes(queue[(k + 1) + 1], s)
    BY <1>1, <2>1 DEF NewsInv
  <2>3. k + 1 \in 1..(n - 1)
    BY <1>1, <2>2
  <2> QED
    BY <1>1, <2>2, <2>3
<1> QED
  BY <1>3, <1>4, <1>5 DEF NewsInv, Speaks, Change, Closes, SymbolOf

-----------------------------------------------------------------------------
(* A heartbeat ends with its position *)

EndingInv == ProtectionInv /\ NewsInv /\ EndsInv

\* A step of the exchange sends one order update, or the two pieces of news of
\* a fill.
LEMMA ExchangeNews ==
  ASSUME ProtectionInv, AccountFirst, Exchange
  PROVE  /\ UNCHANGED <<account, service, hearts>>
         /\ \/ UNCHANGED exPosition /\ \E m \in OrderUpdates : queue' = Append(queue, m)
            \/ \E s \in Symbols, position \in PositionStates, order \in OrderUpdates :
                 /\ position = "FLAT" => Closes(order, s)
                 /\ queue' = queue \o <<Change(s, position), order>>
                 /\ exPosition' = [exPosition EXCEPT ![s] = position]
<1>1. \A s, position, order, messages :
        messages \in FillMessages(s, position, order)
          => messages = <<Change(s, position), order>>
  BY AccountFirst DEF FillMessages, Change
<1>2. queue \in Seq(UserEvents)
  BY DEF ProtectionInv, TypeOK, UserEvents
<1>3. ASSUME NEW s \in Symbols, NEW direction \in Directions,
             NEW status \in {"PARTIALLY_FILLED", "FILLED"}, EntryFills(s, direction, status)
      PROVE  /\ UNCHANGED <<account, service, hearts>>
             /\ direction \in PositionStates /\ direction # "FLAT"
             /\ exPosition' = [exPosition EXCEPT ![s] = direction]
             /\ \E order \in OrderUpdates : queue' = queue \o <<Change(s, direction), order>>
  <2> DEFINE order == [kind |-> "entry", symbol |-> s, status |-> status]
  <2>1. order \in OrderUpdates /\ direction \in PositionStates /\ direction # "FLAT"
    BY DEF OrderUpdates, PositionStates, Directions
  <2>2. /\ \E messages \in FillMessages(s, direction, order) : ExchangeEvent(messages)
        /\ exPosition' = [exPosition EXCEPT ![s] = direction]
    BY <1>3 DEF EntryFills
  <2> HIDE DEF order
  <2>3. ExchangeEvent(<<Change(s, direction), order>>)
    BY <1>1, <2>2
  <2> QED
    BY <2>1, <2>2, <2>3 DEF ExchangeEvent
<1>4. ASSUME NEW s \in Symbols, ExitFills(s)
      PROVE  /\ UNCHANGED <<account, service, hearts>>
             /\ "FLAT" \in PositionStates
             /\ exPosition' = [exPosition EXCEPT ![s] = "FLAT"]
             /\ \E order \in OrderUpdates :
                  Closes(order, s) /\ queue' = queue \o <<Change(s, "FLAT"), order>>
  <2> DEFINE order == [kind |-> "exit", symbol |-> s, status |-> "FILLED"]
  <2>1. order \in OrderUpdates /\ Closes(order, s) /\ "FLAT" \in PositionStates
    BY DEF OrderUpdates, PositionStates, Closes, SymbolOf
  <2>2. /\ \E messages \in FillMessages(s, "FLAT", order) : ExchangeEvent(messages)
        /\ exPosition' = [exPosition EXCEPT ![s] = "FLAT"]
    BY <1>4 DEF ExitFills
  <2> HIDE DEF order
  <2>3. ExchangeEvent(<<Change(s, "FLAT"), order>>)
    BY <1>1, <2>2
  <2> QED
    BY <2>1, <2>2, <2>3 DEF ExchangeEvent
<1>5. ASSUME NEW i \in StopIds, NEW status \in StopStatuses \ {"NEW"}, StopEnds(i, status)
      PROVE  /\ UNCHANGED <<account, service, hearts>>
             /\ \/ UNCHANGED exPosition /\ \E m \in OrderUpdates : queue' = Append(queue, m)
                \/ \E s \in Symbols, order \in OrderUpdates :
                     /\ Closes(order, s)
                     /\ queue' = queue \o <<Change(s, "FLAT"), order>>
                     /\ exPosition' = [exPosition EXCEPT ![s] = "FLAT"]
  <2> DEFINE ended == [exStops[i] EXCEPT !.status = status]
             s == exStops[i].symbol
             update == StopUpdate(i, ended)
  <2>1. ended \in Stop /\ ended.symbol = s
    BY <1>5, ActiveStopTyped DEF ProtectionInv, StopEnds, Stop
  <2>2. update \in OrderUpdates /\ Closes(update, s) /\ s \in Symbols
    BY <2>1, StopUpdateTyped DEF Closes, SymbolOf, StopUpdate, Stop
  <2>3. CASE status = "TRIGGERED"
    <3>1. /\ exPosition' = [exPosition EXCEPT ![s] = "FLAT"]
          /\ \E messages \in FillMessages(s, "FLAT", update) : ExchangeEvent(messages)
      BY <1>5, <2>3 DEF StopEnds
    <3> HIDE DEF ended, s, update
    <3>2. ExchangeEvent(<<Change(s, "FLAT"), update>>)
      BY <1>1, <3>1
    <3> QED
      BY <2>2, <3>1, <3>2 DEF ExchangeEvent
  <2>4. CASE status # "TRIGGERED"
    <3>1. ExchangeEvent(<<update>>) /\ UNCHANGED exPosition
      BY <1>5, <2>4 DEF StopEnds
    <3> HIDE DEF ended, s, update
    <3>2. queue' = queue \o <<update>> /\ UNCHANGED <<account, service, hearts>>
      BY <3>1 DEF ExchangeEvent
    <3>3. update \in UserEvents
      BY <2>2 DEF UserEvents
    <3>4. queue' = Append(queue, update)
      BY <1>2, <3>2, <3>3, AppendIsConcat
    <3> QED
      BY <2>2, <3>1, <3>2, <3>4
  <2> QED
    BY <2>3, <2>4
<1> QED
  <2>1. CASE \E s \in Symbols, direction \in Directions,
                status \in {"PARTIALLY_FILLED", "FILLED"} : EntryFills(s, direction, status)
    <3>1. PICK s \in Symbols, direction \in Directions,
               status \in {"PARTIALLY_FILLED", "FILLED"} : EntryFills(s, direction, status)
      BY <2>1
    <3>2. /\ UNCHANGED <<account, service, hearts>>
          /\ direction \in PositionStates /\ direction # "FLAT"
          /\ exPosition' = [exPosition EXCEPT ![s] = direction]
      BY <1>3, <3>1
    <3>3. PICK order \in OrderUpdates : queue' = queue \o <<Change(s, direction), order>>
      BY <1>3, <3>1
    <3> QED
      BY <3>2, <3>3
  <2>2. CASE \E s \in Symbols : ExitFills(s)
    BY <1>4, <2>2
  <2>3. CASE \E i \in StopIds, status \in StopStatuses \ {"NEW"} : StopEnds(i, status)
    <3>1. "FLAT" \in PositionStates
      BY DEF PositionStates
    <3> QED
      BY <1>5, <2>3, <3>1
  <2> QED
    BY <2>1, <2>2, <2>3 DEF Exchange

\* What arrives later leaves the first event where it is.
LEMMA FirstEventStays ==
  ASSUME NEW sequence \in Seq(UserEvents), sequence # <<>>, NEW more \in Seq(UserEvents)
  PROVE  sequence \o more # <<>> /\ Head(sequence \o more) = Head(sequence)
<1> HIDE DEF UserEvents
<1>1. Len(sequence) \in Nat \ {0}
  OBVIOUS
<1>2. /\ Len(sequence \o more) = Len(sequence) + Len(more)
      /\ (sequence \o more)[1] = sequence[1]
  BY <1>1, ConcatProperties
<1>3. Len(more) \in Nat /\ sequence \o more \in Seq(UserEvents)
  BY ConcatProperties
<1> QED
  BY <1>1, <1>2, <1>3

LEMMA SecondEvent ==
  ASSUME NEW sequence \in Seq(UserEvents), 2 \in DOMAIN sequence
  PROVE  Tail(sequence) # <<>> /\ Head(Tail(sequence)) = sequence[2]
<1> HIDE DEF UserEvents
<1>1. Len(sequence) \in Nat /\ Len(sequence) >= 2
  BY LenProperties
<1> DEFINE rest == Tail(sequence)
<1>2. rest \in Seq(UserEvents) /\ Len(rest) = Len(sequence) - 1 /\ rest[1] = sequence[2]
  BY <1>1, HeadTailProperties
<1> HIDE DEF rest
<1>3. rest # <<>> /\ Head(rest) = sequence[2]
  BY <1>1, <1>2
<1> QED
  BY <1>3 DEF rest

LEMMA SameNews ==
  ASSUME NewsInv, UNCHANGED <<queue, positions, exPosition>>
  PROVE  NewsInv'
  BY DEF NewsInv, Speaks, Change, Closes, SymbolOf

\* A step that neither runs a call nor applies an event nor starts a task.
LEMMA SameEnds ==
  ASSUME EndsInv, UNCHANGED <<positions, calls>>,
         queue # <<>> => queue' # <<>> /\ Head(queue') = Head(queue),
         pc' # "idle" => pc # "idle",
         \A s \in Symbols : heartbeat'[s] # "off" => heartbeat[s] # "off"
  PROVE  EndsInv'
  BY DEF EndsInv, Closes, SymbolOf

LEMMA ExchangeEndingInv ==
  ASSUME EndingInv, AccountFirst, Exchange
  PROVE  EndingInv'
<1>1. /\ ProtectionInv /\ NewsInv /\ EndsInv /\ queue \in Seq(UserEvents)
      /\ exPosition \in [Symbols -> PositionStates]
  BY DEF EndingInv, ProtectionInv, TypeOK, UserEvents
<1>2. UNCHANGED <<positions, calls, pc, heartbeat>>
  BY <1>1, ExchangeNews DEF account, service, hearts
<1>3. CASE UNCHANGED exPosition /\ \E m \in OrderUpdates : queue' = Append(queue, m)
  <2>1. PICK m \in OrderUpdates : queue' = Append(queue, m)
    BY <1>3
  <2>2. m \in UserEvents
    BY DEF UserEvents
  <2>3. NewsInv'
    BY <1>1, <1>2, <1>3, <2>1, OrderNews
  <2>4. queue # <<>> => queue' # <<>> /\ Head(queue') = Head(queue)
    BY <1>1, <2>1, <2>2, AppendProperties, HeadTailAppend
  <2> QED
    BY <1>1, <1>2, <2>3, <2>4, ExchangeKeepsInv, SameEnds DEF EndingInv
<1>4. CASE \E s \in Symbols, position \in PositionStates, order \in OrderUpdates :
             /\ position = "FLAT" => Closes(order, s)
             /\ queue' = queue \o <<Change(s, position), order>>
             /\ exPosition' = [exPosition EXCEPT ![s] = position]
  <2>1. PICK s \in Symbols, position \in PositionStates, order \in OrderUpdates :
             /\ position = "FLAT" => Closes(order, s)
             /\ queue' = queue \o <<Change(s, position), order>>
             /\ exPosition' = [exPosition EXCEPT ![s] = position]
    BY <1>4
  <2>2. NewsInv'
    BY <1>1, <1>2, <2>1, FillNews
  <2> DEFINE change == Change(s, position)
  <2>3. change \in UserEvents /\ order \in UserEvents
    BY DEF UserEvents, AccountUpdates, Change
  <2>4. <<change, order>> \in Seq(UserEvents)
    <3> HIDE DEF change, UserEvents
    <3> QED
      BY <2>3
  <2>5. queue # <<>> => queue' # <<>> /\ Head(queue') = Head(queue)
    BY <1>1, <2>1, <2>4, FirstEventStays
  <2> QED
    BY <1>1, <1>2, <2>2, <2>5, ExchangeKeepsInv, SameEnds DEF EndingInv
<1> QED
  BY <1>1, <1>3, <1>4, ExchangeNews

LEMMA ApplyEndingInv ==
  ASSUME EndingInv, Apply
  PROVE  EndingInv'
<1> DEFINE m == Head(queue)
<1>1. /\ ProtectionInv /\ NewsInv /\ EndsInv /\ queue \in Seq(UserEvents) /\ queue # <<>>
      /\ positions \in [Symbols -> PositionStates] /\ calls \in Seq(OrderUpdates)
  BY DEF EndingInv, ProtectionInv, TypeOK, UserEvents, Apply
<1>2. m \in UserEvents /\ queue' = Tail(queue)
  BY <1>1, HeadTailProperties DEF Apply
<1>3. UNCHANGED <<exPosition, pc, heartbeat>>
  BY DEF Apply, exchange, hearts
<1>4. ProtectionInv'
  BY <1>1, ApplyKeepsInv
<1>5. CASE m.kind = "account"
  <2>1. /\ positions' = [positions EXCEPT ![m.symbol] = m.position]
        /\ calls' = calls
    BY <1>5 DEF Apply
  <2>2. m.symbol \in Symbols /\ m \in AccountUpdates
    BY <1>2, <1>5, EventShape DEF UserEvents, OrderUpdates
  <2>3. NewsInv'
    BY <1>1, <1>2, <1>3, <1>5, <2>1, AppliedNews
  <2>4. ASSUME NEW s \in Symbols, heartbeat'[s] # "off", positions'[s] = "FLAT"
        PROVE  \/ \E k \in DOMAIN calls : Closes(calls[k], s)
               \/ queue' # <<>> /\ Closes(Head(queue'), s)
    <3>1. CASE m.symbol = s
      <4>1. m = Change(s, "FLAT")
        BY <1>1, <2>1, <2>2, <2>4, <3>1 DEF AccountUpdates, Change
      <4>2. 1 \in DOMAIN queue /\ queue[1] = m
        BY <1>1 DEF UserEvents
      <4>3. 2 \in DOMAIN queue /\ Closes(queue[2], s)
        BY <1>1, <4>1, <4>2 DEF NewsInv
      <4>4. queue' # <<>> /\ Head(queue') = queue[2]
        BY <1>1, <1>2, <4>3, SecondEvent
      <4> QED
        BY <4>3, <4>4
    <3>2. CASE m.symbol # s
      <4>1. positions[s] = "FLAT"
        BY <1>1, <2>1, <2>2, <2>4, <3>2
      <4>2. ~ Closes(m, s)
        BY <1>5 DEF Closes
      <4> QED
        BY <1>1, <1>3, <2>4, <4>1, <4>2 DEF EndsInv
    <3> QED
      BY <3>1, <3>2
  <2>5. EndsInv'
    BY <1>1, <1>3, <2>1, <2>4 DEF EndsInv, Closes, SymbolOf
  <2> QED
    BY <1>4, <2>3, <2>5 DEF EndingInv
<1>6. CASE m.kind # "account"
  <2>1. positions' = positions /\ calls' = Append(calls, m)
    BY <1>6 DEF Apply
  <2>2. m \in OrderUpdates
    BY <1>2, <1>6, EventShape
  <2>3. NewsInv'
    BY <1>1, <1>2, <1>3, <1>6, <2>1, AppliedNews
  <2> HIDE DEF m
  <2>4. /\ DOMAIN calls = 1..Len(calls) /\ DOMAIN calls' = 1..(Len(calls) + 1)
        /\ Len(calls) \in Nat
        /\ \A k \in 1..Len(calls) : calls'[k] = calls[k]
        /\ calls'[Len(calls) + 1] = m
    BY <1>1, <2>1, <2>2, AppendProperties, LenProperties
  <2>5. pc' # "idle" => Head(calls').kind = "entry"
    <3>1. pc # "idle" => calls # <<>> /\ Head(calls).kind = "entry"
      BY <1>1 DEF EndsInv, ProtectionInv, CallInv
    <3>2. calls # <<>> => Head(calls') = Head(calls)
      BY <1>1, <2>1, <2>2, HeadStays
    <3> QED
      BY <1>3, <3>1, <3>2
  <2>6. ASSUME NEW s \in Symbols, heartbeat'[s] # "off", positions'[s] = "FLAT"
        PROVE  \E k \in DOMAIN calls' : Closes(calls'[k], s)
    <3>1. CASE \E k \in DOMAIN calls : Closes(calls[k], s)
      <4>1. PICK k \in DOMAIN calls : Closes(calls[k], s)
        BY <3>1
      <4> QED
        BY <2>4, <4>1
    <3>2. CASE Closes(m, s)
      BY <2>4, <3>2
    <3> QED
      BY <1>1, <1>3, <2>1, <2>6, <3>1, <3>2 DEF EndsInv, m
  <2>7. EndsInv'
    BY <2>5, <2>6 DEF EndsInv, Closes, SymbolOf
  <2> QED
    BY <1>4, <2>3, <2>7 DEF EndingInv
<1> QED
  BY <1>5, <1>6

\* The call that is removed from the head was not the one a task waits for,
\* unless it stopped the task.
LEMMA DroppedCall ==
  ASSUME TypeOK, EndsInv, calls # <<>>, calls' = Tail(calls),
         UNCHANGED <<queue, positions>>, pc' = "idle",
         \A s \in Symbols : heartbeat'[s] # "off" /\ positions[s] = "FLAT" =>
           heartbeat[s] # "off" /\ ~ Closes(Head(calls), s)
  PROVE  EndsInv'
<1>1. calls \in Seq(OrderUpdates)
  BY DEF TypeOK
<1>2. /\ DOMAIN calls = 1..Len(calls) /\ Len(calls) \in Nat \ {0}
      /\ DOMAIN calls' = 1..(Len(calls) - 1)
      /\ \A k \in 1..(Len(calls) - 1) : calls'[k] = calls[k + 1]
      /\ calls[1] = Head(calls)
  <2>1. Tail(calls) \in Seq(OrderUpdates) /\ Len(Tail(calls)) = Len(calls) - 1
    BY <1>1, HeadTailProperties
  <2>2. /\ DOMAIN calls = 1..Len(calls) /\ Len(calls) \in Nat \ {0}
        /\ calls[1] = Head(calls)
    BY <1>1
  <2>3. DOMAIN calls' = 1..(Len(calls) - 1)
    BY <2>1, LenProperties
  <2> QED
    BY <1>1, <2>1, <2>2, <2>3, HeadTailProperties
<1>3. ASSUME NEW s \in Symbols, heartbeat'[s] # "off", positions[s] = "FLAT"
      PROVE  \/ \E k \in DOMAIN calls' : Closes(calls'[k], s)
             \/ queue # <<>> /\ Closes(Head(queue), s)
  <2>1. CASE \E k \in DOMAIN calls : Closes(calls[k], s)
    <3>1. PICK k \in DOMAIN calls : Closes(calls[k], s)
      BY <2>1
    <3>2. k # 1
      BY <1>2, <1>3, <3>1
    <3>3. k - 1 \in 1..(Len(calls) - 1) /\ (k - 1) + 1 = k
      BY <1>2, <3>2
    <3> QED
      BY <1>2, <3>1, <3>3
  <2> QED
    BY <1>3, <2>1 DEF EndsInv
<1> QED
  BY <1>3 DEF EndsInv, Closes, SymbolOf

LEMMA HandleEndingInv ==
  ASSUME EndingInv, Handle
  PROVE  EndingInv'
<1>1. /\ ProtectionInv /\ NewsInv /\ EndsInv /\ TypeOK /\ CallInv
      /\ heartbeat \in [Symbols -> {"off", "due", "sleeping", "ended"}]
  BY DEF EndingInv, ProtectionInv, TypeOK
<1>2. ProtectionInv'
  BY <1>1, HandleKeepsInv
<1>3. UNCHANGED <<queue, positions, exPosition>>
  BY DEF Handle, HandleWithoutPlacement, BeginPlacement, HandlePlaced, HandleRaised,
         Finish, exchange, account
<1>4. NewsInv'
  BY <1>1, <1>3, SameNews
<1>5. CASE HandleWithoutPlacement
  <2> DEFINE s == SymbolOf(Head(calls))
  <2>1. /\ calls # <<>> /\ calls' = Tail(calls) /\ pc' = "idle"
        /\ heartbeat' = IF positions[s] # "FLAT" THEN heartbeat
                        ELSE [heartbeat EXCEPT ![s] = "off"]
    BY <1>5 DEF HandleWithoutPlacement, Finish
  <2>2. \A t \in Symbols : Closes(Head(calls), t) => t = s
    BY DEF Closes
  <2> HIDE DEF s
  <2>3. \A t \in Symbols : heartbeat'[t] # "off" /\ positions[t] = "FLAT" =>
          heartbeat[t] # "off" /\ ~ Closes(Head(calls), t)
    BY <1>1, <2>1, <2>2
  <2> QED
    BY <1>1, <1>2, <1>3, <1>4, <2>1, <2>3, DroppedCall DEF EndingInv
<1>6. CASE BeginPlacement
  <2>1. /\ HasPlan(Head(calls)) /\ pc' = "placing"
        /\ UNCHANGED <<calls, heartbeat>>
    BY <1>6 DEF BeginPlacement, hearts
  <2>2. Head(calls).kind = "entry"
    BY <2>1 DEF HasPlan
  <2>3. EndsInv'
    BY <1>1, <1>3, <2>1, <2>2 DEF EndsInv, Closes, SymbolOf
  <2> QED
    BY <1>2, <1>4, <2>3 DEF EndingInv
<1>7. CASE HandlePlaced
  <2> DEFINE s == SymbolOf(Head(calls))
             hearts1 == Started(s)
  <2>1. /\ pc = "placed" /\ calls' = Tail(calls) /\ pc' = "idle"
        /\ heartbeat' = IF positions[s] # "FLAT" THEN hearts1
                        ELSE [hearts1 EXCEPT ![s] = "off"]
    BY <1>7 DEF HandlePlaced, Finish
  <2>2. calls # <<>> /\ Head(calls).kind = "entry"
    BY <1>1, <2>1 DEF CallInv, EndsInv
  <2>3. \A t \in Symbols : ~ Closes(Head(calls), t)
    BY <2>2 DEF Closes
  <2>4. hearts1 = IF heartbeat[s] = "off" THEN [heartbeat EXCEPT ![s] = "due"] ELSE heartbeat
    BY DEF Started
  <2> HIDE DEF s, hearts1
  <2>5. \A t \in Symbols : heartbeat'[t] # "off" /\ positions[t] = "FLAT" =>
          heartbeat[t] # "off"
    BY <1>1, <2>1, <2>4
  <2> QED
    BY <1>1, <1>2, <1>3, <1>4, <2>1, <2>2, <2>3, <2>5, DroppedCall DEF EndingInv
<1>8. CASE HandleRaised
  <2>1. pc = "raised" /\ pc' = "idle" /\ calls' = Tail(calls) /\ heartbeat' = heartbeat
    BY <1>8 DEF HandleRaised, hearts
  <2>2. calls # <<>> /\ Head(calls).kind = "entry"
    BY <1>1, <2>1 DEF CallInv, EndsInv
  <2>3. \A t \in Symbols : ~ Closes(Head(calls), t)
    BY <2>2 DEF Closes
  <2> QED
    BY <1>1, <1>2, <1>3, <1>4, <2>1, <2>2, <2>3, DroppedCall DEF EndingInv
<1> QED
  BY <1>5, <1>6, <1>7, <1>8 DEF Handle

LEMMA AnswerEndingInv ==
  ASSUME EndingInv, Answer
  PROVE  EndingInv'
<1>1. ProtectionInv /\ NewsInv /\ EndsInv /\ TypeOK /\ CallInv /\ queue \in Seq(UserEvents)
  BY DEF EndingInv, ProtectionInv, TypeOK, UserEvents
<1>2. ProtectionInv'
  BY <1>1, AnswerKeepsInv
<1>3. CASE StopRefused
  <2>1. pc = "placing" /\ UNCHANGED <<queue, positions, exPosition, calls, heartbeat>>
    BY <1>3 DEF StopRefused, exchange, account, hearts
  <2> QED
    BY <1>1, <1>2, <2>1, SameNews, SameEnds DEF EndingInv
<1>4. ASSUME NEW i \in StopIds, NEW answer \in {"placed", "raised"}, StopAccepted(i, answer)
      PROVE  EndingInv'
  <2> DEFINE stop == [symbol |-> SymbolOf(Head(calls)), side |-> exitSide, status |-> "NEW"]
             update == StopUpdate(i, stop)
  <2>1. /\ pc = "placing" /\ queue' = Append(queue, update)
        /\ UNCHANGED <<positions, exPosition, calls, heartbeat>>
    BY <1>4 DEF StopAccepted, account, hearts
  <2>2. calls # <<>> /\ exitSide \in Sides
    BY <1>1, <2>1 DEF CallInv
  <2>3. stop \in Stop
    BY <1>1, <2>2, FirstCall DEF Stop, StopStatuses
  <2>4. update \in OrderUpdates /\ update \in UserEvents
    BY <2>3, StopUpdateTyped DEF UserEvents
  <2> HIDE DEF update
  <2>5. NewsInv'
    BY <1>1, <2>1, <2>4, OrderNews
  <2>6. queue # <<>> => queue' # <<>> /\ Head(queue') = Head(queue)
    BY <1>1, <2>1, <2>4, AppendProperties, HeadTailAppend
  <2> QED
    BY <1>1, <1>2, <2>1, <2>5, <2>6, SameEnds DEF EndingInv
<1> QED
  BY <1>3, <1>4 DEF Answer

\* A step of the tasks starts none.
LEMMA TasksEndingInv ==
  ASSUME EndingInv, Heartbeats \/ GuardianStop \/ UNCHANGED vars
  PROVE  EndingInv'
<1>1. /\ ProtectionInv /\ NewsInv /\ EndsInv
      /\ heartbeat \in [Symbols -> {"off", "due", "sleeping", "ended"}]
  BY DEF EndingInv, ProtectionInv, TypeOK
<1>2. ProtectionInv'
  BY <1>1, ProtectionInvStep DEF Next
<1>3. /\ UNCHANGED <<queue, positions, exPosition, calls, pc>>
      /\ \A s \in Symbols : heartbeat'[s] # "off" => heartbeat[s] # "off"
  <2>1. CASE Heartbeats
    <3>1. PICK s \in Symbols :
            \/ Wake(s) \/ LeaveLoop(s) \/ StopAutoCancel(s)
            \/ \E ok \in BOOLEAN : Beat(s, ok)
      BY <2>1 DEF Heartbeats
    <3>2. /\ UNCHANGED <<queue, positions, exPosition, calls, pc>>
          /\ heartbeat[s] # "off"
          /\ \E state \in {"off", "due", "sleeping", "ended"} :
               heartbeat' = [heartbeat EXCEPT ![s] = state]
      BY <3>1 DEF Wake, LeaveLoop, StopAutoCancel, Beat, exchange, account, service
    <3> QED
      BY <1>1, <3>2
  <2>2. CASE GuardianStop
    BY <2>2 DEF GuardianStop, exchange, account, service
  <2>3. CASE UNCHANGED vars
    BY <2>3 DEF vars, exchange, account, service, hearts
  <2> QED
    BY <2>1, <2>2, <2>3
<1> QED
  BY <1>1, <1>2, <1>3, SameNews, SameEnds DEF EndingInv

LEMMA EndingInvInit == Init => EndingInv
<1> SUFFICES ASSUME Init PROVE EndingInv
  OBVIOUS
<1>1. ProtectionInv
  BY ProtectionInvInit
<1>2. /\ DOMAIN queue = {} /\ pc = "idle"
      /\ \A s \in Symbols : positions[s] = exPosition[s] /\ heartbeat[s] = "off"
  BY DEF Init
<1> QED
  BY <1>1, <1>2 DEF EndingInv, NewsInv, EndsInv

\* With nothing left to apply or to call, no task runs for a symbol without a
\* position, whatever closed it and wherever the running call was, provided the
\* news of a position precedes the news of the fill.
THEOREM HeartbeatEndsAlways ==
  ASSUME AccountFirst
  PROVE  Spec => []HeartbeatEnds
<1>1. EndingInv /\ [Next]_vars => EndingInv'
  BY ExchangeEndingInv, ApplyEndingInv, HandleEndingInv, AnswerEndingInv, TasksEndingInv
     DEF Next
<1>2. EndingInv => HeartbeatEnds
  <2> SUFFICES ASSUME EndingInv, Quiet, NEW s \in Symbols, exPosition[s] = "FLAT"
               PROVE  heartbeat[s] = "off"
    BY DEF HeartbeatEnds
  <2>1. DOMAIN queue = {} /\ DOMAIN calls = {} /\ queue = <<>>
    BY DEF Quiet
  <2>2. positions[s] = "FLAT"
    BY <2>1 DEF EndingInv, NewsInv
  <2> QED
    BY <2>1, <2>2 DEF EndingInv, EndsInv
<1> QED
  BY EndingInvInit, <1>1, <1>2, PTL DEF Spec
-----------------------------------------------------------------------------
(* A naked position is found *)

\* One piece of news about a stop, and whether the stop works.
Reports(m, i) == m.kind = "stop" /\ m.id = i
Working(i) == exStops[i].status \in ActiveStop

\* The news of a stop are its start and then its end.  The view or the last of them
\* tells what the stop is; who knows the end has no more news before him.
NewsOf(i) ==
  /\ orders[i].symbol \in {"none", exStops[i].symbol}
  /\ \/ orders[i] = exStops[i]
     \/ \E k \in DOMAIN queue : Reports(queue[k], i) /\ queue[k].stop = exStops[i]
  /\ \A k \in DOMAIN queue : Reports(queue[k], i) => queue[k].stop.symbol = exStops[i].symbol
  /\ Working(i) =>
       /\ orders[i] \in {NoStop, exStops[i]}
       /\ \A k \in DOMAIN queue : Reports(queue[k], i) => queue[k].stop = exStops[i]
  /\ ~ Working(i) =>
       /\ orders[i] = exStops[i] => \A k \in DOMAIN queue : ~ Reports(queue[k], i)
       /\ \A k, j \in DOMAIN queue :
            Reports(queue[k], i) /\ queue[k].stop = exStops[i] /\ Reports(queue[j], i) => j <= k

StopNews == \A i \in StopIds : NewsOf(i)

Opens(m, s) == Speaks(m, s) /\ m.position # "FLAT"
Shuts(m, s) == Speaks(m, s) /\ m.position = "FLAT"

\* After the next k events the view has s open, and nothing later closes it.
KnowsOpen(s, k) ==
  /\ positions[s] # "FLAT" \/ \E j \in 1..k : Opens(queue[j], s)
  /\ \A j \in DOMAIN queue : Shuts(queue[j], s) =>
       \E l \in 1..k : l > j /\ Opens(queue[l], s)

\* After the next k events the view knows how each stop of s has ended.
KnowsEnds(s, k) ==
  \A i \in StopIds : exStops[i].symbol = s =>
    \/ orders[i] = exStops[i]
    \/ \E j \in 1..k : Reports(queue[j], i) /\ queue[j].stop = exStops[i]

KnowsNaked(s, k) == KnowsOpen(s, k) /\ KnowsEnds(s, k)

OpenNews == \A s \in Symbols : exPosition[s] # "FLAT" => KnowsOpen(s, Len(queue))

\* A call of s is to come that finds it without a stop: its update is yet to be
\* applied, or waits, or runs and has not raised.
Covered(s) ==
  \/ \E k \in DOMAIN queue :
       queue[k].kind # "account" /\ SymbolOf(queue[k]) = s /\ KnowsNaked(s, k)
  \/ /\ KnowsNaked(s, 0)
     /\ \E k \in DOMAIN calls : SymbolOf(calls[k]) = s /\ (k = 1 => pc # "raised")

CoverInv == ~ killSwitchActive => \A s \in Symbols : Naked(s) => Covered(s)

-----------------------------------------------------------------------------
(* News that is added to the queue *)

Grows ==
  /\ Len(queue) \in Nat /\ DOMAIN queue = 1..Len(queue)
  /\ Len(queue') \in Nat /\ DOMAIN queue' = 1..Len(queue')
  /\ Len(queue) <= Len(queue')
  /\ \A k \in 1..Len(queue) : queue'[k] = queue[k]

Added == DOMAIN queue' \ DOMAIN queue

LEMMA GrowsByOne ==
  ASSUME queue \in Seq(UserEvents), NEW m \in UserEvents, queue' = Append(queue, m)
  PROVE  /\ Grows /\ Len(queue') = Len(queue) + 1
         /\ Added = {Len(queue')} /\ queue'[Len(queue')] = m
<1> HIDE DEF UserEvents
<1> DEFINE n == Len(queue)  n1 == Len(queue')
<1>1. n \in Nat /\ DOMAIN queue = 1..n /\ n1 = n + 1 /\ DOMAIN queue' = 1..n1
  BY AppendProperties, LenProperties
<1>2. queue'[n + 1] = m /\ \A k \in 1..n : queue'[k] = queue[k]
  BY AppendProperties
<1> HIDE DEF n, n1
<1>3. Added = {n1}
  BY <1>1 DEF Added
<1> QED
  BY <1>1, <1>2, <1>3 DEF Grows, n, n1

LEMMA GrowsByTwo ==
  ASSUME queue \in Seq(UserEvents), NEW m1 \in UserEvents, NEW m2 \in UserEvents,
         queue' = queue \o <<m1, m2>>
  PROVE  /\ Grows /\ Len(queue') = Len(queue) + 2
         /\ Added = {Len(queue') - 1, Len(queue')}
         /\ queue'[Len(queue') - 1] = m1 /\ queue'[Len(queue')] = m2
<1> HIDE DEF UserEvents
<1> DEFINE n == Len(queue)  n1 == Len(queue')
<1>1. n \in Nat /\ DOMAIN queue = 1..n /\ n1 = n + 2 /\ DOMAIN queue' = 1..n1
  OBVIOUS
<1>2. /\ queue'[n + 1] = m1 /\ queue'[n + 2] = m2
      /\ \A k \in 1..n : queue'[k] = queue[k]
  OBVIOUS
<1> HIDE DEF n, n1
<1>3. Added = {n1 - 1, n1} /\ n1 - 1 = n + 1
  BY <1>1 DEF Added
<1> QED
  BY <1>1, <1>2, <1>3 DEF Grows, n, n1

LEMMA NewsOfOthers ==
  ASSUME NEW i \in StopIds, NewsOf(i), Grows,
         \A k \in Added : ~ Reports(queue'[k], i),
         exStops'[i] = exStops[i], orders'[i] = orders[i]
  PROVE  NewsOf(i)'
<1> DEFINE n == Len(queue)  n1 == Len(queue')
<1>1. /\ n \in Nat /\ n1 \in Nat /\ n <= n1 /\ DOMAIN queue = 1..n /\ DOMAIN queue' = 1..n1
      /\ \A k \in 1..n : queue'[k] = queue[k]
  BY DEF Grows
<1> HIDE DEF n, n1
<1>2. \A k \in DOMAIN queue' : Reports(queue'[k], i) => k \in 1..n
  BY <1>1 DEF Added
<1>3. \A k \in 1..n : k \in DOMAIN queue'
  BY <1>1
<1>4. Working(i)' = Working(i)
  BY DEF Working
<1>5. /\ orders'[i].symbol \in {"none", exStops'[i].symbol}
      /\ \/ orders'[i] = exStops'[i]
         \/ \E k \in DOMAIN queue' : Reports(queue'[k], i) /\ queue'[k].stop = exStops'[i]
  BY <1>1, <1>3 DEF NewsOf
<1>6. \A k \in DOMAIN queue' : Reports(queue'[k], i) => queue'[k].stop.symbol = exStops'[i].symbol
  BY <1>1, <1>2 DEF NewsOf
<1>7. ASSUME Working(i)
      PROVE  /\ orders'[i] \in {NoStop, exStops'[i]}
             /\ \A k \in DOMAIN queue' : Reports(queue'[k], i) => queue'[k].stop = exStops'[i]
  BY <1>1, <1>2, <1>7 DEF NewsOf
<1>8. ASSUME ~ Working(i)
      PROVE  /\ orders'[i] = exStops'[i] => \A k \in DOMAIN queue' : ~ Reports(queue'[k], i)
             /\ \A k, j \in DOMAIN queue' :
                  Reports(queue'[k], i) /\ queue'[k].stop = exStops'[i] /\ Reports(queue'[j], i)
                    => j <= k
  BY <1>1, <1>2, <1>8 DEF NewsOf
<1> QED
  BY <1>4, <1>5, <1>6, <1>7, <1>8 DEF NewsOf, Reports

\* The news that a stop has ended.
LEMMA NewsOfEnded ==
  ASSUME NEW i \in StopIds, NewsOf(i), Working(i), ~ Working(i)', Grows,
         exStops'[i].symbol = exStops[i].symbol, exStops'[i].status # "none",
         \A k \in Added : Reports(queue'[k], i) => k = Len(queue'),
         Len(queue') > Len(queue),
         Reports(queue'[Len(queue')], i), queue'[Len(queue')].stop = exStops'[i],
         orders'[i] = orders[i]
  PROVE  NewsOf(i)'
<1> DEFINE n == Len(queue)  n1 == Len(queue')
<1>1. /\ n \in Nat /\ n1 \in Nat /\ n < n1 /\ DOMAIN queue = 1..n /\ DOMAIN queue' = 1..n1
      /\ \A k \in 1..n : queue'[k] = queue[k]
      /\ Reports(queue'[n1], i) /\ queue'[n1].stop = exStops'[i]
      /\ \A k \in (1..n1) \ (1..n) : Reports(queue'[k], i) => k = n1
  BY DEF Grows, Added
<1> HIDE DEF n, n1
<1>2. n1 \in DOMAIN queue'
  BY <1>1
<1>3. exStops'[i] # exStops[i]
  BY DEF Working
<1>4. orders'[i] # exStops'[i]
  BY <1>3 DEF NewsOf, NoStop
<1>5. \A k \in DOMAIN queue' : Reports(queue'[k], i) /\ k # n1 =>
        k \in 1..n /\ queue'[k].stop = exStops[i]
  BY <1>1 DEF NewsOf
<1>6. /\ orders'[i].symbol \in {"none", exStops'[i].symbol}
      /\ \E k \in DOMAIN queue' : Reports(queue'[k], i) /\ queue'[k].stop = exStops'[i]
      /\ \A k \in DOMAIN queue' : Reports(queue'[k], i) =>
           queue'[k].stop.symbol = exStops'[i].symbol
  BY <1>1, <1>2, <1>5 DEF NewsOf
<1>7. \A k, j \in DOMAIN queue' :
        Reports(queue'[k], i) /\ queue'[k].stop = exStops'[i] /\ Reports(queue'[j], i) => j <= k
  BY <1>1, <1>3, <1>5
<1> QED
  BY <1>4, <1>6, <1>7 DEF NewsOf, Reports

\* The news that a stop has been placed.
LEMMA NewsOfPlaced ==
  ASSUME NEW i \in StopIds, NewsOf(i), exStops[i] = NoStop, exStops'[i] \in Stop,
         exStops'[i].status \in ActiveStop, queue \in Seq(UserEvents),
         queue' = Append(queue, StopUpdate(i, exStops'[i])), orders'[i] = orders[i]
  PROVE  NewsOf(i)'
<1> DEFINE n == Len(queue)  m == StopUpdate(i, exStops'[i])
<1>1. m \in UserEvents /\ Reports(m, i) /\ m.stop = exStops'[i]
  BY StopUpdateTyped DEF UserEvents, Reports, StopUpdate
<1> HIDE DEF m
<1>2. /\ n \in Nat /\ DOMAIN queue = 1..n /\ DOMAIN queue' = 1..(n + 1)
      /\ \A k \in 1..n : queue'[k] = queue[k]
      /\ queue'[n + 1] = m
  BY <1>1, GrowsByOne DEF Grows, m
<1>3. \A k \in 1..n : ~ Reports(queue[k], i)
  <2> SUFFICES ASSUME NEW k \in 1..n, Reports(queue[k], i) PROVE FALSE
    OBVIOUS
  <2>1. queue[k] \in UserEvents
    BY <1>2
  <2>2. queue[k].stop \in Stop
    BY <2>1, EventShape DEF Reports
  <2>3. queue[k].stop.symbol = "none"
    BY <1>2 DEF NewsOf, NoStop
  <2> QED
    BY <2>2, <2>3, ConstantsAssumption DEF Stop
<1>4. orders[i] = NoStop
  BY <1>2, <1>3 DEF NewsOf
<1> HIDE DEF n
<1>5. \A k \in DOMAIN queue' : Reports(queue'[k], i) => k = n + 1
  BY <1>2, <1>3
<1>6. n + 1 \in DOMAIN queue'
  BY <1>2
<1>7. /\ orders'[i].symbol \in {"none", exStops'[i].symbol}
      /\ \E k \in DOMAIN queue' : Reports(queue'[k], i) /\ queue'[k].stop = exStops'[i]
      /\ orders'[i] \in {NoStop, exStops'[i]}
  BY <1>1, <1>2, <1>4, <1>6 DEF NoStop
<1>8. \A k \in DOMAIN queue' : Reports(queue'[k], i) => queue'[k].stop = exStops'[i]
  BY <1>1, <1>2, <1>5
<1> QED
  BY <1>7, <1>8 DEF NewsOf, Reports, Working

-----------------------------------------------------------------------------
(* News that is added: what the view will know *)

LEMMA OpenNewsOfOthers ==
  ASSUME NEW s \in Symbols, NEW k \in Nat, k <= Len(queue), KnowsOpen(s, k), Grows,
         \A j \in Added : ~ Shuts(queue'[j], s), positions'[s] = positions[s]
  PROVE  KnowsOpen(s, k)'
<1> DEFINE n == Len(queue)  n1 == Len(queue')
<1>1. /\ n \in Nat /\ n1 \in Nat /\ n <= n1 /\ DOMAIN queue = 1..n /\ DOMAIN queue' = 1..n1
      /\ \A j \in 1..n : queue'[j] = queue[j]
      /\ \A j \in (1..n1) \ (1..n) : ~ Shuts(queue'[j], s)
  BY DEF Grows, Added
<1>2. k <= n
  OBVIOUS
<1> HIDE DEF n, n1
<1>3. \A j \in 1..k : queue'[j] = queue[j]
  BY <1>1, <1>2
<1>4. positions'[s] # "FLAT" \/ \E j \in 1..k : Opens(queue'[j], s)
  BY <1>3 DEF KnowsOpen
<1>5. ASSUME NEW j \in DOMAIN queue', Shuts(queue'[j], s)
      PROVE  \E l \in 1..k : l > j /\ Opens(queue'[l], s)
  <2>1. j \in DOMAIN queue /\ Shuts(queue[j], s)
    BY <1>1, <1>5
  <2> QED
    BY <1>3, <2>1 DEF KnowsOpen
<1> QED
  BY <1>4, <1>5 DEF KnowsOpen, Opens, Shuts, Speaks

\* Where the news tell of an opening and of no closing, they tell all there is.
LEMMA OpenNewsOfOpened ==
  ASSUME NEW s \in Symbols, Grows, \A j \in Added : ~ Shuts(queue'[j], s),
         NEW l \in Added, Opens(queue'[l], s)
  PROVE  KnowsOpen(s, Len(queue))'
<1> DEFINE n == Len(queue)  n1 == Len(queue')
<1>1. /\ n \in Nat /\ n1 \in Nat /\ n <= n1 /\ DOMAIN queue' = 1..n1
      /\ l \in 1..n1 /\ l > n
      /\ \A j \in (1..n1) \ (1..n) : ~ Shuts(queue'[j], s)
  BY DEF Grows, Added
<1> HIDE DEF n, n1
<1>2. \E j \in 1..n1 : Opens(queue'[j], s)
  BY <1>1
<1>3. ASSUME NEW j \in DOMAIN queue', Shuts(queue'[j], s)
      PROVE  \E h \in 1..n1 : h > j /\ Opens(queue'[h], s)
  BY <1>1, <1>3
<1> QED
  BY <1>2, <1>3 DEF KnowsOpen, Opens, Shuts, Speaks, n1

LEMMA EndNewsOfOthers ==
  ASSUME NEW s \in Symbols, NEW k \in Nat, k <= Len(queue), KnowsEnds(s, k), Grows,
         \A i \in StopIds : exStops'[i].symbol = s => exStops'[i] = exStops[i],
         orders' = orders
  PROVE  KnowsEnds(s, k)'
<1>1. \A j \in 1..k : queue'[j] = queue[j]
  BY DEF Grows
<1> QED
  BY <1>1 DEF KnowsEnds, Reports

\* What is added concerns other symbols: the call that will find s is still to come.
LEMMA CoverStays ==
  ASSUME NEW s \in Symbols, Covered(s), Grows,
         \A j \in Added : ~ Shuts(queue'[j], s),
         \A i \in StopIds : exStops'[i].symbol = s => exStops'[i] = exStops[i],
         UNCHANGED <<positions, orders, calls>>,
         pc' = "raised" /\ calls # <<>> => pc = "raised" \/ SymbolOf(calls[1]) # s
  PROVE  Covered(s)'
<1>1. Len(queue) \in Nat /\ DOMAIN queue = 1..Len(queue) /\ DOMAIN queue \subseteq DOMAIN queue'
  BY DEF Grows
<1>2. ASSUME NEW k \in Nat, k <= Len(queue), KnowsNaked(s, k)
      PROVE  KnowsNaked(s, k)'
  BY <1>2, OpenNewsOfOthers, EndNewsOfOthers DEF KnowsNaked
<1>3. CASE \E k \in DOMAIN queue :
             queue[k].kind # "account" /\ SymbolOf(queue[k]) = s /\ KnowsNaked(s, k)
  <2>1. PICK k \in DOMAIN queue :
             queue[k].kind # "account" /\ SymbolOf(queue[k]) = s /\ KnowsNaked(s, k)
    BY <1>3
  <2>2. k \in Nat /\ k <= Len(queue) /\ k \in DOMAIN queue' /\ queue'[k] = queue[k]
    BY <1>1 DEF Grows
  <2>3. KnowsNaked(s, k)'
    BY <1>2, <2>1, <2>2
  <2> QED
    BY <2>1, <2>2, <2>3 DEF Covered, SymbolOf
<1>4. CASE /\ KnowsNaked(s, 0)
           /\ \E k \in DOMAIN calls : SymbolOf(calls[k]) = s /\ (k = 1 => pc # "raised")
  <2>1. KnowsNaked(s, 0)'
    BY <1>1, <1>2, <1>4
  <2>2. PICK k \in DOMAIN calls : SymbolOf(calls[k]) = s /\ (k = 1 => pc # "raised")
    BY <1>4
  <2>3. k = 1 => pc' # "raised"
    BY <2>2
  <2> QED
    BY <2>1, <2>2, <2>3 DEF Covered, SymbolOf
<1> QED
  BY <1>3, <1>4 DEF Covered

\* The last of the news is a call of s to come, which finds all that is known then.
LEMMA CoverAdded ==
  ASSUME NEW s \in Symbols, StopNews', OpenNews', Naked(s)', Grows,
         Len(queue') \in Added,
         queue'[Len(queue')].kind # "account", SymbolOf(queue'[Len(queue')]) = s
  PROVE  Covered(s)'
<1>1. KnowsOpen(s, Len(queue))'
  BY DEF OpenNews, Naked
<1>2. KnowsEnds(s, Len(queue))'
  BY DEF StopNews, NewsOf, KnowsEnds, Grows
<1>3. KnowsNaked(s, Len(queue))'
  BY <1>1, <1>2 DEF KnowsNaked
<1>4. Len(queue') \in DOMAIN queue'
  BY DEF Added
<1> QED
  BY <1>3, <1>4 DEF Covered, SymbolOf

-----------------------------------------------------------------------------
(* News that is applied *)

Shrinks ==
  /\ Len(queue) \in Nat \ {0} /\ DOMAIN queue = 1..Len(queue)
  /\ Len(queue') = Len(queue) - 1 /\ DOMAIN queue' = 1..Len(queue')
  /\ \A k \in 1..Len(queue') : queue'[k] = queue[k + 1]

\* What the head of the queue does to the view.
Heard ==
  /\ \A s \in Symbols : positions'[s] = IF Speaks(queue[1], s) THEN queue[1].position
                                                               ELSE positions[s]
  /\ \A i \in StopIds : orders'[i] = IF Reports(queue[1], i) THEN queue[1].stop
                                                             ELSE orders[i]

LEMMA ApplyHears ==
  ASSUME TypeOK, Apply
  PROVE  Shrinks /\ Heard /\ Head(queue) = queue[1] /\ queue[1] \in UserEvents
<1>1. /\ queue \in Seq(UserEvents) /\ queue # <<>> /\ queue' = Tail(queue)
      /\ positions \in [Symbols -> PositionStates] /\ orders \in [StopIds -> Stop \cup {NoStop}]
  BY DEF TypeOK, UserEvents, Apply
<1>2. Shrinks /\ Head(queue) = queue[1] /\ queue[1] \in UserEvents
  <2> HIDE DEF UserEvents
  <2> QED
    BY <1>1 DEF Shrinks
<1> DEFINE m == queue[1]
<1>3. IF m.kind = "account"
      THEN positions' = [positions EXCEPT ![m.symbol] = m.position] /\ orders' = orders
      ELSE /\ positions' = positions
           /\ orders' = IF m.kind = "stop" THEN [orders EXCEPT ![m.id] = m.stop] ELSE orders
  BY <1>2 DEF Apply
<1>4. /\ m.kind = "account" => m.symbol \in Symbols
      /\ m.kind = "stop" => m.id \in StopIds
  BY <1>2, EventShape
<1> HIDE DEF m
<1>5. CASE m.kind = "account"
  <2>1. \A s \in Symbols : positions'[s] = IF m.symbol = s THEN m.position ELSE positions[s]
    BY <1>1, <1>3, <1>4, <1>5
  <2>2. orders' = orders
    BY <1>3, <1>5
  <2> QED
    BY <1>2, <1>5, <2>1, <2>2 DEF Heard, Speaks, Reports, m
<1>6. CASE m.kind = "stop"
  <2>1. \A i \in StopIds : orders'[i] = IF m.id = i THEN m.stop ELSE orders[i]
    BY <1>1, <1>3, <1>4, <1>6
  <2>2. positions' = positions
    BY <1>3, <1>6
  <2> QED
    BY <1>2, <1>6, <2>1, <2>2 DEF Heard, Speaks, Reports, m
<1>7. CASE m.kind \notin {"account", "stop"}
  BY <1>2, <1>3, <1>7 DEF Heard, Speaks, Reports, m
<1> QED
  BY <1>5, <1>6, <1>7

LEMMA NewsOfApplied ==
  ASSUME NEW i \in StopIds, NewsOf(i), Shrinks, Heard, exStops' = exStops
  PROVE  NewsOf(i)'
<1> DEFINE n == Len(queue)  n1 == Len(queue')
<1>1. /\ n \in Nat \ {0} /\ n1 = n - 1 /\ DOMAIN queue = 1..n /\ DOMAIN queue' = 1..n1
      /\ \A k \in 1..n1 : queue'[k] = queue[k + 1] /\ k + 1 \in 1..n
      /\ orders'[i] = IF Reports(queue[1], i) THEN queue[1].stop ELSE orders[i]
  BY DEF Shrinks, Heard
<1> HIDE DEF n, n1
<1>2. \A k \in 1..n : k # 1 => k - 1 \in 1..n1 /\ queue'[k - 1] = queue[k]
  <2> TAKE k \in 1..n
  <2> HAVE k # 1
  <2>1. k - 1 \in 1..n1 /\ (k - 1) + 1 = k
    BY <1>1
  <2> QED
    BY <1>1, <2>1
<1>3. Working(i)' = Working(i) /\ 1 \in 1..n
  BY <1>1 DEF Working
<1>4. orders'[i].symbol \in {"none", exStops[i].symbol}
  BY <1>1, <1>3 DEF NewsOf
<1>5. \/ orders'[i] = exStops[i]
      \/ \E k \in 1..n1 : Reports(queue'[k], i) /\ queue'[k].stop = exStops[i]
  <2>1. CASE Reports(queue[1], i) /\ Working(i)
    BY <1>1, <1>3, <2>1 DEF NewsOf
  <2>2. CASE Reports(queue[1], i) /\ ~ Working(i)
    <3>1. PICK k \in 1..n : Reports(queue[k], i) /\ queue[k].stop = exStops[i]
      BY <1>1, <1>3, <2>2 DEF NewsOf
    <3> QED
      BY <1>1, <1>2, <2>2, <3>1
  <2>3. CASE ~ Reports(queue[1], i)
    <3>1. orders'[i] = orders[i]
      BY <1>1, <2>3
    <3>2. CASE orders[i] = exStops[i]
      BY <3>1, <3>2
    <3>3. CASE \E k \in 1..n : Reports(queue[k], i) /\ queue[k].stop = exStops[i]
      <4>1. PICK k \in 1..n : Reports(queue[k], i) /\ queue[k].stop = exStops[i]
        BY <3>3
      <4> QED
        BY <1>2, <2>3, <4>1
    <3> QED
      BY <1>1, <3>2, <3>3 DEF NewsOf
  <2> QED
    BY <2>1, <2>2, <2>3
<1>6. \A k \in 1..n1 : Reports(queue'[k], i) => queue'[k].stop.symbol = exStops[i].symbol
  BY <1>1 DEF NewsOf
<1>7. ASSUME Working(i)
      PROVE  /\ orders'[i] \in {NoStop, exStops[i]}
             /\ \A k \in 1..n1 : Reports(queue'[k], i) => queue'[k].stop = exStops[i]
  <2>1. /\ orders[i] \in {NoStop, exStops[i]}
        /\ \A k \in 1..n : Reports(queue[k], i) => queue[k].stop = exStops[i]
    BY <1>1, <1>7 DEF NewsOf
  <2>2. orders'[i] \in {NoStop, exStops[i]}
    BY <1>1, <1>3, <2>1
  <2> QED
    BY <1>1, <2>1, <2>2
<1>8. ASSUME ~ Working(i), orders'[i] = exStops[i], NEW k \in 1..n1
      PROVE  ~ Reports(queue'[k], i)
  <2>1. CASE Reports(queue[1], i)
    <3>1. Reports(queue[k + 1], i) => k + 1 <= 1
      BY <1>1, <1>3, <1>8, <2>1 DEF NewsOf
    <3> QED
      BY <1>1, <3>1
  <2>2. CASE ~ Reports(queue[1], i)
    BY <1>1, <1>8, <2>2 DEF NewsOf
  <2> QED
    BY <2>1, <2>2
<1>9. ASSUME ~ Working(i), NEW k \in 1..n1, NEW j \in 1..n1,
             Reports(queue'[k], i), queue'[k].stop = exStops[i], Reports(queue'[j], i)
      PROVE  j <= k
  <2>1. j + 1 <= k + 1
    BY <1>1, <1>9 DEF NewsOf
  <2> QED
    BY <1>1, <2>1
<1> QED
  BY <1>1, <1>3, <1>4, <1>5, <1>6, <1>7, <1>8, <1>9 DEF NewsOf, Reports

\* One event fewer until the view knows it, unless it does.
LEMMA OpenNewsApplied ==
  ASSUME NEW s \in Symbols, NEW k \in Nat, NEW k1 \in Nat, k1 = IF k = 0 THEN 0 ELSE k - 1,
         k <= Len(queue), KnowsOpen(s, k), Shrinks, Heard
  PROVE  KnowsOpen(s, k1)'
<1> DEFINE n == Len(queue)  n1 == Len(queue')
<1>1. /\ n \in Nat \ {0} /\ n1 = n - 1 /\ DOMAIN queue = 1..n /\ DOMAIN queue' = 1..n1
      /\ \A j \in 1..n1 : queue'[j] = queue[j + 1] /\ j + 1 \in 1..n
      /\ positions'[s] = IF Speaks(queue[1], s) THEN queue[1].position ELSE positions[s]
      /\ k <= n
  BY DEF Shrinks, Heard
<1> HIDE DEF n, n1
<1>2. \A j \in 1..k : j # 1 => j - 1 \in 1..k1 /\ queue'[j - 1] = queue[j]
  <2> TAKE j \in 1..k
  <2> HAVE j # 1
  <2>1. j - 1 \in 1..k1 /\ j - 1 \in 1..n1 /\ (j - 1) + 1 = j
    BY <1>1
  <2> QED
    BY <1>1, <2>1
<1>3. 1 \in 1..n
  BY <1>1
<1>4. positions'[s] # "FLAT" \/ \E j \in 1..k1 : Opens(queue'[j], s)
  <2>1. CASE Shuts(queue[1], s)
    <3>1. PICK l \in 1..k : l > 1 /\ Opens(queue[l], s)
      BY <1>1, <1>3, <2>1 DEF KnowsOpen
    <3> QED
      BY <1>2, <3>1
  <2>2. CASE Opens(queue[1], s)
    BY <1>1, <2>2 DEF Opens
  <2>3. CASE ~ Speaks(queue[1], s)
    <3>1. CASE positions[s] # "FLAT"
      BY <1>1, <2>3, <3>1
    <3>2. CASE \E j \in 1..k : Opens(queue[j], s)
      <4>1. PICK j \in 1..k : Opens(queue[j], s)
        BY <3>2
      <4>2. j # 1
        BY <2>3, <4>1 DEF Opens
      <4> QED
        BY <1>2, <4>1, <4>2
    <3> QED
      BY <3>1, <3>2 DEF KnowsOpen
  <2> QED
    BY <2>1, <2>2, <2>3 DEF Opens, Shuts
<1>5. ASSUME NEW j \in DOMAIN queue', Shuts(queue'[j], s)
      PROVE  \E l \in 1..k1 : l > j /\ Opens(queue'[l], s)
  <2>1. j + 1 \in DOMAIN queue /\ Shuts(queue[j + 1], s) /\ j \in Nat /\ j >= 1
    BY <1>1, <1>5
  <2>2. PICK l \in 1..k : l > j + 1 /\ Opens(queue[l], s)
    BY <2>1 DEF KnowsOpen
  <2>3. l # 1 /\ l - 1 > j
    BY <2>1, <2>2
  <2> QED
    BY <1>2, <2>2, <2>3
<1> QED
  BY <1>4, <1>5 DEF KnowsOpen, Opens, Shuts, Speaks

LEMMA EndNewsApplied ==
  ASSUME NEW s \in Symbols, NEW k \in Nat, NEW k1 \in Nat, k1 = IF k = 0 THEN 0 ELSE k - 1,
         k <= Len(queue), KnowsEnds(s, k), Shrinks, Heard, exStops' = exStops,
         \A i \in StopIds : NewsOf(i) /\ (exStops[i].symbol = s => ~ Working(i))
  PROVE  KnowsEnds(s, k1)'
<1> DEFINE n == Len(queue)  n1 == Len(queue')
<1>1. /\ n \in Nat \ {0} /\ n1 = n - 1 /\ DOMAIN queue = 1..n /\ DOMAIN queue' = 1..n1
      /\ \A j \in 1..n1 : queue'[j] = queue[j + 1]
      /\ \A i \in StopIds :
           orders'[i] = IF Reports(queue[1], i) THEN queue[1].stop ELSE orders[i]
      /\ k <= n
  BY DEF Shrinks, Heard
<1> HIDE DEF n, n1
<1> SUFFICES ASSUME NEW i \in StopIds, exStops[i].symbol = s
             PROVE  \/ orders'[i] = exStops[i]
                    \/ \E j \in 1..k1 : Reports(queue'[j], i) /\ queue'[j].stop = exStops[i]
  BY DEF KnowsEnds, Reports
<1>2. NewsOf(i) /\ ~ Working(i)
  OBVIOUS
<1>3. CASE orders[i] = exStops[i]
  <2>1. ~ Reports(queue[1], i)
    BY <1>1, <1>2, <1>3 DEF NewsOf
  <2> QED
    BY <1>1, <1>3, <2>1
<1>4. CASE \E j \in 1..k : Reports(queue[j], i) /\ queue[j].stop = exStops[i]
  <2>1. PICK j \in 1..k : Reports(queue[j], i) /\ queue[j].stop = exStops[i]
    BY <1>4
  <2>2. CASE j = 1
    BY <1>1, <2>1, <2>2
  <2>3. CASE j # 1
    <3>1. j - 1 \in 1..k1 /\ j - 1 \in 1..n1 /\ (j - 1) + 1 = j
      BY <1>1, <2>3
    <3>2. queue'[j - 1] = queue[j]
      BY <1>1, <3>1
    <3> QED
      BY <2>1, <3>1, <3>2
  <2> QED
    BY <2>2, <2>3
<1> QED
  BY <1>3, <1>4 DEF KnowsEnds

LEMMA CallAdded ==
  ASSUME calls \in Seq(OrderUpdates), NEW m \in OrderUpdates, calls' = Append(calls, m)
  PROVE  /\ DOMAIN calls' = 1..(Len(calls) + 1) /\ calls'[Len(calls) + 1] = m
         /\ \A k \in 1..Len(calls) : calls'[k] = calls[k]
  BY AppendProperties, LenProperties

\* The update that will find s comes one event nearer, or becomes a call that waits.
LEMMA CoverApplied ==
  ASSUME NEW s \in Symbols, Covered(s), Shrinks, Heard, exStops' = exStops, pc' = pc,
         queue[1] \in UserEvents, calls \in Seq(OrderUpdates),
         calls = <<>> => pc = "idle",
         IF queue[1].kind = "account" THEN calls' = calls ELSE calls' = Append(calls, queue[1]),
         \A i \in StopIds : NewsOf(i) /\ (exStops[i].symbol = s => ~ Working(i))
  PROVE  Covered(s)'
<1> DEFINE n == Len(queue)  n1 == Len(queue')
<1>1. /\ n \in Nat \ {0} /\ n1 = n - 1 /\ DOMAIN queue = 1..n /\ DOMAIN queue' = 1..n1
      /\ \A j \in 1..n1 : queue'[j] = queue[j + 1]
  BY DEF Shrinks
<1>2. ASSUME NEW k \in Nat, NEW k1 \in Nat, k1 = IF k = 0 THEN 0 ELSE k - 1,
             k <= Len(queue), KnowsNaked(s, k)
      PROVE  KnowsNaked(s, k1)'
  BY <1>2, OpenNewsApplied, EndNewsApplied DEF KnowsNaked
<1> DEFINE c == Len(calls)
<1>3. /\ c \in Nat /\ DOMAIN calls = 1..c /\ (c = 0 => pc = "idle")
      /\ 1..c \subseteq DOMAIN calls' /\ \A k \in 1..c : calls'[k] = calls[k]
      /\ queue[1].kind # "account" => c + 1 \in DOMAIN calls' /\ calls'[c + 1] = queue[1]
  <2>1. c \in Nat /\ DOMAIN calls = 1..c /\ (c = 0 => pc = "idle")
    BY LenProperties, EmptySeq
  <2>2. CASE queue[1].kind = "account"
    BY <2>1, <2>2
  <2>3. CASE queue[1].kind # "account"
    <3>1. queue[1] \in OrderUpdates /\ calls' = Append(calls, queue[1])
      BY <2>3, EventShape
    <3>2. /\ DOMAIN calls' = 1..(c + 1) /\ calls'[c + 1] = queue[1]
          /\ \A k \in 1..c : calls'[k] = calls[k]
      BY <3>1, CallAdded
    <3> HIDE DEF c
    <3>3. /\ 1..c \subseteq DOMAIN calls' /\ c + 1 \in DOMAIN calls'
          /\ \A k \in 1..c : calls'[k] = calls[k]
      BY <2>1, <3>2
    <3> QED
      BY <2>1, <3>2, <3>3
  <2> QED
    BY <2>2, <2>3
<1> HIDE DEF c, n, n1
<1>4. CASE \E k \in DOMAIN queue :
             queue[k].kind # "account" /\ SymbolOf(queue[k]) = s /\ KnowsNaked(s, k)
  <2>1. PICK k \in 1..n :
             queue[k].kind # "account" /\ SymbolOf(queue[k]) = s /\ KnowsNaked(s, k)
    BY <1>1, <1>4
  <2>2. k \in Nat /\ k - 1 \in Nat /\ k # 0 /\ k <= Len(queue)
    BY <1>1 DEF n
  <2>3. KnowsNaked(s, k - 1)'
    BY <1>2, <2>1, <2>2
  <2>4. CASE k = 1
    <3>1. KnowsNaked(s, 0)'
      BY <2>3, <2>4
    <3>2. c + 1 \in DOMAIN calls' /\ SymbolOf(calls'[c + 1]) = s
      BY <1>3, <2>1, <2>4
    <3>3. c + 1 = 1 => pc' # "raised"
      BY <1>3
    <3> QED
      BY <3>1, <3>2, <3>3 DEF Covered, SymbolOf
  <2>5. CASE k # 1
    <3>1. k - 1 \in DOMAIN queue' /\ queue'[k - 1] = queue[k]
      <4>1. k - 1 \in 1..n1 /\ (k - 1) + 1 = k
        BY <1>1, <2>5
      <4> QED
        BY <1>1, <4>1
    <3> QED
      BY <2>1, <2>3, <3>1 DEF Covered, SymbolOf
  <2> QED
    BY <2>4, <2>5
<1>5. CASE /\ KnowsNaked(s, 0)
           /\ \E k \in DOMAIN calls : SymbolOf(calls[k]) = s /\ (k = 1 => pc # "raised")
  <2>1. KnowsNaked(s, 0)'
    BY <1>1, <1>2, <1>5 DEF n
  <2>2. PICK k \in DOMAIN calls : SymbolOf(calls[k]) = s /\ (k = 1 => pc # "raised")
    BY <1>5
  <2>3. k \in DOMAIN calls' /\ calls'[k] = calls[k]
    BY <1>3
  <2> QED
    BY <2>1, <2>2, <2>3 DEF Covered, SymbolOf
<1> QED
  BY <1>4, <1>5 DEF Covered

-----------------------------------------------------------------------------
(* A change on the exchange is of one symbol, and its news ends with a call of it *)

Moves(s) ==
  /\ Grows /\ Len(queue') \in Added
  /\ queue'[Len(queue')].kind # "account" /\ SymbolOf(queue'[Len(queue')]) = s
  /\ \A k \in Added, t \in Symbols : Speaks(queue'[k], t) => t = s
  /\ \A t \in Symbols \ {s} : exPosition'[t] = exPosition[t]
  /\ exPosition'[s] # "FLAT" =>
       /\ \A k \in Added : ~ Shuts(queue'[k], s)
       /\ exPosition'[s] = exPosition[s] \/ \E k \in Added : Opens(queue'[k], s)

LEMMA FillMoves ==
  ASSUME queue \in Seq(UserEvents), exPosition \in [Symbols -> PositionStates],
         NEW s \in Symbols, NEW position \in PositionStates, NEW order \in OrderUpdates,
         SymbolOf(order) = s, queue' = queue \o <<Change(s, position), order>>,
         exPosition' = [exPosition EXCEPT ![s] = position]
  PROVE  /\ Moves(s) /\ Len(queue') > Len(queue) /\ queue'[Len(queue')] = order
         /\ \A k \in Added : k # Len(queue') => queue'[k].kind = "account"
<1> DEFINE change == Change(s, position)
<1>1. change \in UserEvents /\ order \in UserEvents /\ order.kind # "account"
  BY DEF UserEvents, AccountUpdates, OrderUpdates, Change
<1>2. change.kind = "account" /\ change.symbol = s /\ change.position = position
  BY DEF Change
<1>3. queue' = queue \o <<change, order>>
  OBVIOUS
<1> HIDE DEF change
<1>4. /\ Grows /\ Len(queue') = Len(queue) + 2 /\ Added = {Len(queue') - 1, Len(queue')}
      /\ queue'[Len(queue') - 1] = change /\ queue'[Len(queue')] = order
  BY <1>1, <1>3, GrowsByTwo
<1>5. Len(queue') > Len(queue) /\ Len(queue') \in Nat /\ Len(queue') - 1 # Len(queue')
  BY <1>4 DEF Grows
<1>6. \A k \in Added : k # Len(queue') => queue'[k] = change
  BY <1>4
<1>7. \A k \in Added, t \in Symbols : Speaks(queue'[k], t) => t = s /\ queue'[k] = change
  BY <1>1, <1>2, <1>4, <1>6 DEF Speaks
<1>8. \A t \in Symbols \ {s} : exPosition'[t] = exPosition[t]
  OBVIOUS
<1>9. exPosition'[s] = position
  OBVIOUS
<1>10. ASSUME position # "FLAT"
       PROVE  /\ \A k \in Added : ~ Shuts(queue'[k], s)
              /\ \E k \in Added : Opens(queue'[k], s)
  BY <1>2, <1>4, <1>7, <1>10 DEF Shuts, Opens, Speaks
<1>11. Moves(s)
  BY <1>1, <1>4, <1>7, <1>8, <1>9, <1>10 DEF Moves
<1> QED
  BY <1>2, <1>4, <1>5, <1>6, <1>11

LEMMA UpdateMoves ==
  ASSUME queue \in Seq(UserEvents), NEW order \in OrderUpdates,
         queue' = Append(queue, order), exPosition' = exPosition
  PROVE  /\ Moves(SymbolOf(order)) /\ Len(queue') > Len(queue) /\ queue'[Len(queue')] = order
         /\ Added = {Len(queue')}
<1>1. order \in UserEvents /\ order.kind # "account"
  BY DEF UserEvents, OrderUpdates
<1>2. /\ Grows /\ Len(queue') = Len(queue) + 1
      /\ Added = {Len(queue')} /\ queue'[Len(queue')] = order
  BY <1>1, GrowsByOne
<1>3. Len(queue') > Len(queue)
  BY <1>2 DEF Grows
<1>4. \A k \in Added, t \in Symbols : ~ Speaks(queue'[k], t)
  BY <1>1, <1>2 DEF Speaks
<1>5. \A k \in Added : ~ Shuts(queue'[k], SymbolOf(order))
  BY <1>1, <1>2 DEF Shuts, Speaks
<1>6. Moves(SymbolOf(order))
  BY <1>1, <1>2, <1>4, <1>5 DEF Moves
<1> QED
  BY <1>2, <1>3, <1>6

\* A fill of a regular order is no news of a stop.
LEMMA FillReports ==
  ASSUME ProtectionInv, StopNews, NEW s \in Symbols, NEW position \in PositionStates,
         NEW order \in OrderUpdates, order.kind # "stop", SymbolOf(order) = s,
         AccountFirst, exPosition' = [exPosition EXCEPT ![s] = position],
         \E messages \in FillMessages(s, position, order) : ExchangeEvent(messages),
         UNCHANGED exStops
  PROVE  Moves(s) /\ StopNews' /\ UNCHANGED <<account, service>>
<1>1. /\ queue \in Seq(UserEvents) /\ exPosition \in [Symbols -> PositionStates]
  BY DEF ProtectionInv, TypeOK, UserEvents
<1>2. ExchangeEvent(<<Change(s, position), order>>)
  BY DEF FillMessages, Change
<1>3. queue' = queue \o <<Change(s, position), order>> /\ UNCHANGED <<account, service>>
  BY <1>2 DEF ExchangeEvent
<1>4. /\ Moves(s) /\ queue'[Len(queue')] = order
      /\ \A k \in Added : k # Len(queue') => queue'[k].kind = "account"
  BY <1>1, <1>3, FillMoves
<1>5. \A k \in Added, i \in StopIds : ~ Reports(queue'[k], i)
  BY <1>4 DEF Reports
<1>6. Grows /\ orders' = orders
  BY <1>3, <1>4 DEF Moves, account
<1>7. \A i \in StopIds : NewsOf(i)'
  BY <1>5, <1>6, NewsOfOthers DEF StopNews
<1> QED
  BY <1>3, <1>4, <1>7 DEF StopNews

LEMMA EndReports ==
  ASSUME ProtectionInv, StopNews, AccountFirst, NEW i \in StopIds,
         NEW status \in StopStatuses \ {"NEW"}, StopEnds(i, status)
  PROVE  /\ exStops[i].symbol \in Symbols /\ Moves(exStops[i].symbol) /\ StopNews'
         /\ UNCHANGED <<account, service>>
         /\ \A j \in StopIds : exStops'[j] # exStops[j] =>
              exStops[j].symbol = exStops[i].symbol /\ exStops'[j].symbol = exStops[i].symbol
<1> DEFINE ended == [exStops[i] EXCEPT !.status = status]
           s == exStops[i].symbol
           update == StopUpdate(i, ended)
<1>1. /\ queue \in Seq(UserEvents) /\ exPosition \in [Symbols -> PositionStates]
      /\ exStops \in [StopIds -> Stop \cup {NoStop}]
  BY DEF ProtectionInv, TypeOK, UserEvents
<1>2. /\ ended \in Stop /\ ended.symbol = s /\ ended.status = status /\ s \in Symbols
      /\ exStops' = [exStops EXCEPT ![i] = ended] /\ Working(i)
  BY ActiveStopTyped DEF ProtectionInv, StopEnds, Stop, Working
<1>3. /\ update \in OrderUpdates /\ SymbolOf(update) = s /\ "FLAT" \in PositionStates
      /\ update.kind = "stop" /\ update.id = i /\ update.stop = ended
  BY <1>2, StopUpdateTyped DEF SymbolOf, StopUpdate, PositionStates
<1>4. status \notin ActiveStop /\ status # "none"
  BY DEF StopStatuses, ActiveStop
<1>5. /\ Moves(s) /\ Len(queue') > Len(queue) /\ queue'[Len(queue')] = update
      /\ \A k \in Added : k # Len(queue') => queue'[k].kind = "account"
      /\ UNCHANGED <<account, service>>
  <2>1. CASE status = "TRIGGERED"
    <3>1. /\ exPosition' = [exPosition EXCEPT ![s] = "FLAT"]
          /\ \E messages \in FillMessages(s, "FLAT", update) : ExchangeEvent(messages)
      BY <2>1 DEF StopEnds
    <3> HIDE DEF ended, s, update
    <3>2. ExchangeEvent(<<Change(s, "FLAT"), update>>)
      BY <3>1 DEF FillMessages, Change
    <3>3. queue' = queue \o <<Change(s, "FLAT"), update>> /\ UNCHANGED <<account, service>>
      BY <3>2 DEF ExchangeEvent
    <3> QED
      BY <1>1, <1>2, <1>3, <3>1, <3>3, FillMoves
  <2>2. CASE status # "TRIGGERED"
    <3>1. ExchangeEvent(<<update>>) /\ UNCHANGED exPosition
      BY <2>2 DEF StopEnds
    <3> HIDE DEF ended, s, update
    <3>2. queue' = queue \o <<update>> /\ UNCHANGED <<account, service>>
      BY <3>1 DEF ExchangeEvent
    <3>3. update \in UserEvents
      BY <1>3 DEF UserEvents
    <3>4. queue' = Append(queue, update)
      BY <1>1, <3>2, <3>3, AppendIsConcat
    <3> QED
      BY <1>1, <1>3, <3>1, <3>2, <3>4, UpdateMoves
  <2> QED
    BY <2>1, <2>2
<1> HIDE DEF ended, update
<1>6. exStops'[i] = ended /\ \A j \in StopIds : j # i => exStops'[j] = exStops[j]
  BY <1>1, <1>2
<1>7. Grows /\ orders' = orders
  BY <1>5 DEF Moves, account
<1>8. NewsOf(i)'
  <2>1. ~ Working(i)' /\ exStops'[i].symbol = exStops[i].symbol /\ exStops'[i].status # "none"
    BY <1>2, <1>4, <1>6 DEF Working
  <2>2. \A k \in Added : Reports(queue'[k], i) => k = Len(queue')
    BY <1>5 DEF Reports
  <2>3. Reports(queue'[Len(queue')], i) /\ queue'[Len(queue')].stop = exStops'[i]
    BY <1>3, <1>5, <1>6 DEF Reports
  <2> QED
    BY <1>2, <1>5, <1>7, <2>1, <2>2, <2>3, NewsOfEnded DEF StopNews
<1>9. ASSUME NEW j \in StopIds, j # i PROVE NewsOf(j)'
  <2>1. \A k \in Added : ~ Reports(queue'[k], j)
    BY <1>3, <1>5, <1>9 DEF Reports
  <2> QED
    BY <1>6, <1>7, <1>9, <2>1, NewsOfOthers DEF StopNews
<1> QED
  BY <1>2, <1>5, <1>6, <1>8, <1>9 DEF StopNews

LEMMA ExchangeMoves ==
  ASSUME ProtectionInv, StopNews, AccountFirst, Exchange
  PROVE  \E s \in Symbols :
           /\ Moves(s) /\ StopNews' /\ UNCHANGED <<account, service>>
           /\ \A i \in StopIds : exStops'[i] # exStops[i] =>
                exStops[i].symbol = s /\ exStops'[i].symbol = s
<1>1. ASSUME NEW s \in Symbols, NEW direction \in Directions,
             NEW status \in {"PARTIALLY_FILLED", "FILLED"}, EntryFills(s, direction, status)
      PROVE  Moves(s) /\ StopNews' /\ UNCHANGED <<exStops, account, service>>
  <2> DEFINE order == [kind |-> "entry", symbol |-> s, status |-> status]
  <2>1. /\ order \in OrderUpdates /\ order.kind # "stop" /\ SymbolOf(order) = s
        /\ direction \in PositionStates
    BY DEF OrderUpdates, PositionStates, Directions, SymbolOf
  <2>2. /\ \E messages \in FillMessages(s, direction, order) : ExchangeEvent(messages)
        /\ exPosition' = [exPosition EXCEPT ![s] = direction] /\ UNCHANGED exStops
    BY <1>1 DEF EntryFills
  <2> HIDE DEF order
  <2> QED
    BY <2>1, <2>2, FillReports
<1>2. ASSUME NEW s \in Symbols, ExitFills(s)
      PROVE  Moves(s) /\ StopNews' /\ UNCHANGED <<exStops, account, service>>
  <2> DEFINE order == [kind |-> "exit", symbol |-> s, status |-> "FILLED"]
  <2>1. /\ order \in OrderUpdates /\ order.kind # "stop" /\ SymbolOf(order) = s
        /\ "FLAT" \in PositionStates
    BY DEF OrderUpdates, PositionStates, SymbolOf
  <2>2. /\ \E messages \in FillMessages(s, "FLAT", order) : ExchangeEvent(messages)
        /\ exPosition' = [exPosition EXCEPT ![s] = "FLAT"] /\ UNCHANGED exStops
    BY <1>2 DEF ExitFills
  <2> HIDE DEF order
  <2> QED
    BY <2>1, <2>2, FillReports
<1>3. CASE \E s \in Symbols, direction \in Directions,
              status \in {"PARTIALLY_FILLED", "FILLED"} : EntryFills(s, direction, status)
  BY <1>1, <1>3
<1>4. CASE \E s \in Symbols : ExitFills(s)
  BY <1>2, <1>4
<1>5. CASE \E i \in StopIds, status \in StopStatuses \ {"NEW"} : StopEnds(i, status)
  <2>1. PICK i \in StopIds, status \in StopStatuses \ {"NEW"} : StopEnds(i, status)
    BY <1>5
  <2> DEFINE s == exStops[i].symbol
  <2>2. /\ s \in Symbols /\ Moves(s) /\ StopNews' /\ UNCHANGED <<account, service>>
        /\ \A j \in StopIds : exStops'[j] # exStops[j] =>
             exStops[j].symbol = s /\ exStops'[j].symbol = s
    BY <2>1, EndReports
  <2> HIDE DEF s
  <2> QED
    BY <2>2
<1> QED
  BY <1>3, <1>4, <1>5 DEF Exchange

\* The news of a change tells, last of all, that the position is open.
LEMMA MovesOpenNews ==
  ASSUME OpenNews, NEW s \in Symbols, Moves(s), positions' = positions
  PROVE  OpenNews'
<1> SUFFICES ASSUME NEW t \in Symbols, exPosition'[t] # "FLAT"
             PROVE  KnowsOpen(t, Len(queue))'
  BY DEF OpenNews
<1>1. /\ Grows /\ \A k \in Added : ~ Shuts(queue'[k], t)
  BY DEF Moves, Shuts
<1>2. CASE exPosition'[t] = exPosition[t]
  <2>1. KnowsOpen(t, Len(queue))
    BY <1>2 DEF OpenNews
  <2>2. PICK k : k = Len(queue)
    OBVIOUS
  <2>3. KnowsOpen(t, k) /\ k \in Nat /\ k <= Len(queue)
    BY <1>1, <2>1, <2>2 DEF Grows
  <2>4. KnowsOpen(t, k)'
    BY <1>1, <2>3, OpenNewsOfOthers
  <2>5. 1..k \subseteq 1..Len(queue')
    BY <1>1, <2>2, <2>3 DEF Grows
  <2> QED
    BY <2>4, <2>5 DEF KnowsOpen
<1>3. CASE exPosition'[t] # exPosition[t]
  <2>1. t = s /\ \E k \in Added : Opens(queue'[k], t)
    BY <1>3 DEF Moves
  <2> QED
    BY <1>1, <2>1, OpenNewsOfOpened
<1> QED
  BY <1>2, <1>3

QuietInv == ProtectionInv /\ StopNews /\ OpenNews /\ CoverInv

LEMMA ExchangeQuietInv ==
  ASSUME QuietInv, AccountFirst, Exchange
  PROVE  QuietInv'
<1>1. ProtectionInv /\ StopNews /\ OpenNews /\ CoverInv
  BY DEF QuietInv
<1>2. PICK s \in Symbols :
           /\ Moves(s) /\ StopNews' /\ UNCHANGED <<account, service>>
           /\ \A i \in StopIds : exStops'[i] # exStops[i] =>
                exStops[i].symbol = s /\ exStops'[i].symbol = s
  BY <1>1, ExchangeMoves
<1>3. UNCHANGED <<positions, orders, killReason, calls, pc>>
  BY <1>2 DEF account, service
<1>4. OpenNews'
  BY <1>1, <1>2, <1>3, MovesOpenNews
<1>5. ASSUME ~ killSwitchActive, NEW t \in Symbols, Naked(t)'
      PROVE  Covered(t)'
  <2>1. CASE t = s
    BY <1>2, <1>4, <1>5, <2>1, CoverAdded DEF Moves
  <2>2. CASE t # s
    <3>1. \A i \in StopIds : exStops'[i].symbol = t \/ exStops[i].symbol = t
             => exStops'[i] = exStops[i]
      BY <1>2, <2>2
    <3>2. Naked(t)
      <4>1. exPosition[t] # "FLAT"
        BY <1>2, <1>5, <2>2 DEF Moves, Naked
      <4> QED
        BY <1>5, <3>1, <4>1 DEF Naked, ActiveIn
    <3>3. Covered(t)
      BY <1>1, <1>5, <3>2 DEF CoverInv
    <3>4. Grows /\ \A k \in Added : ~ Shuts(queue'[k], t)
      BY <1>2, <2>2 DEF Moves, Shuts
    <3> QED
      BY <1>3, <3>1, <3>3, <3>4, CoverStays
  <2> QED
    BY <2>1, <2>2
<1>6. CoverInv'
  BY <1>3, <1>5 DEF CoverInv, killSwitchActive
<1> QED
  BY <1>1, <1>2, <1>4, <1>6, ExchangeKeepsInv DEF QuietInv

LEMMA ApplyQuietInv ==
  ASSUME QuietInv, Apply
  PROVE  QuietInv'
<1>1. /\ ProtectionInv /\ StopNews /\ OpenNews /\ CoverInv /\ TypeOK
      /\ calls \in Seq(OrderUpdates) /\ (calls = <<>> => pc = "idle")
  BY DEF QuietInv, ProtectionInv, CallInv, TypeOK
<1>2. Shrinks /\ Heard /\ Head(queue) = queue[1] /\ queue[1] \in UserEvents
  BY <1>1, ApplyHears
<1>3. /\ UNCHANGED <<exPosition, exStops, killReason, pc>>
      /\ IF queue[1].kind = "account" THEN calls' = calls
                                      ELSE calls' = Append(calls, queue[1])
  BY <1>2 DEF Apply, exchange
<1>4. StopNews'
  BY <1>1, <1>2, <1>3, NewsOfApplied DEF StopNews
<1>5. OpenNews'
  <2> SUFFICES ASSUME NEW s \in Symbols, exPosition[s] # "FLAT"
               PROVE  KnowsOpen(s, Len(queue))'
    BY <1>3 DEF OpenNews
  <2>1. KnowsOpen(s, Len(queue))
    BY <1>1 DEF OpenNews
  <2>2. PICK k, k1 : k = Len(queue) /\ k1 = Len(queue) - 1
    OBVIOUS
  <2>3. /\ k \in Nat /\ k1 \in Nat /\ k1 = (IF k = 0 THEN 0 ELSE k - 1) /\ k <= Len(queue)
        /\ KnowsOpen(s, k) /\ Len(queue') = k1
    BY <1>2, <2>1, <2>2 DEF Shrinks
  <2>4. KnowsOpen(s, k1)'
    BY <1>2, <2>3, OpenNewsApplied
  <2> QED
    BY <2>3, <2>4 DEF KnowsOpen
<1>6. ASSUME ~ killSwitchActive, NEW s \in Symbols, Naked(s)'
      PROVE  Covered(s)'
  <2>1. Naked(s)
    BY <1>3, <1>6 DEF Naked, ActiveIn
  <2>2. Covered(s)
    BY <1>1, <1>6, <2>1 DEF CoverInv
  <2>3. \A i \in StopIds : NewsOf(i) /\ (exStops[i].symbol = s => ~ Working(i))
    BY <1>1, <2>1 DEF StopNews, Naked, ActiveIn, Working
  <2> QED
    BY <1>1, <1>2, <1>3, <2>2, <2>3, CoverApplied
<1>7. CoverInv'
  BY <1>3, <1>6 DEF CoverInv, killSwitchActive
<1> QED
  BY <1>1, <1>4, <1>5, <1>7, ApplyKeepsInv DEF QuietInv

-----------------------------------------------------------------------------
(* Calls, answers and tasks *)

LEMMA SameStopNews ==
  ASSUME StopNews, OpenNews, UNCHANGED <<exPosition, exStops, queue, positions, orders>>
  PROVE  StopNews' /\ OpenNews'
<1>1. StopNews'
  BY DEF StopNews, NewsOf, Working, Reports
<1>2. OpenNews'
  BY DEF OpenNews, KnowsOpen, Opens, Shuts, Speaks
<1> QED
  BY <1>1, <1>2

\* A call that comes to its end sees what the view knows.
LEMMA KnownIsFound ==
  ASSUME StopNews, NEW s \in Symbols, Naked(s), KnowsNaked(s, 0)
  PROVE  s \in FindUnprotected(positions, orders)
<1>1. positions[s] # "FLAT"
  BY DEF KnowsNaked, KnowsOpen
<1>2. ASSUME NEW i \in StopIds, orders[i].symbol = s, orders[i].status \in ActiveStop
      PROVE  FALSE
  <2>1. exStops[i].symbol = s
    BY <1>2, ConstantsAssumption DEF StopNews, NewsOf
  <2>2. orders[i] = exStops[i]
    BY <2>1 DEF KnowsNaked, KnowsEnds
  <2> QED
    BY <1>2, <2>2 DEF Naked, ActiveIn
<1> QED
  BY <1>1, <1>2 DEF FindUnprotected, ActiveIn

\* The call at the head ends.  If it was the one to come, it has halted the account.
LEMMA CoverReturned ==
  ASSUME NEW s \in Symbols, Covered(s), calls \in Seq(OrderUpdates), calls # <<>>,
         calls' = Tail(calls), pc' = "idle",
         UNCHANGED <<exStops, queue, positions, orders>>,
         pc = "raised" \/ ~ KnowsNaked(s, 0)
  PROVE  Covered(s)'
<1>1. \A k \in Nat : KnowsNaked(s, k)' = KnowsNaked(s, k)
  BY DEF KnowsNaked, KnowsOpen, KnowsEnds, Opens, Shuts, Speaks, Reports
<1>2. CASE \E k \in DOMAIN queue :
             queue[k].kind # "account" /\ SymbolOf(queue[k]) = s /\ KnowsNaked(s, k)
  <2>1. PICK k \in DOMAIN queue :
             queue[k].kind # "account" /\ SymbolOf(queue[k]) = s /\ KnowsNaked(s, k)
    BY <1>2
  <2>2. KnowsNaked(s, k)'
    BY <2>1 DEF KnowsNaked, KnowsOpen, KnowsEnds, Opens, Shuts, Speaks, Reports
  <2> QED
    BY <2>1, <2>2 DEF Covered, SymbolOf
<1>3. CASE /\ KnowsNaked(s, 0)
           /\ \E k \in DOMAIN calls : SymbolOf(calls[k]) = s /\ (k = 1 => pc # "raised")
  <2>1. PICK k \in DOMAIN calls : SymbolOf(calls[k]) = s /\ (k = 1 => pc # "raised")
    BY <1>3
  <2>2. /\ Len(calls) \in Nat \ {0} /\ DOMAIN calls = 1..Len(calls)
        /\ Len(calls') = Len(calls) - 1 /\ DOMAIN calls' = 1..Len(calls')
        /\ \A j \in 1..Len(calls') : calls'[j] = calls[j + 1]
    <3> HIDE DEF OrderUpdates
    <3> QED
      BY HeadTailProperties
  <2>3. k # 1
    BY <1>3, <2>1
  <2>4. k - 1 \in 1..Len(calls') /\ (k - 1) + 1 = k
    BY <2>1, <2>2, <2>3
  <2>5. k - 1 \in DOMAIN calls' /\ calls'[k - 1] = calls[k]
    BY <2>2, <2>4
  <2>6. KnowsNaked(s, 0)'
    BY <1>1, <1>3
  <2> QED
    BY <2>1, <2>5, <2>6 DEF Covered, SymbolOf
<1> QED
  BY <1>2, <1>3 DEF Covered

LEMMA HandleQuietInv ==
  ASSUME QuietInv, Handle
  PROVE  QuietInv'
<1>1. /\ ProtectionInv /\ StopNews /\ OpenNews /\ CoverInv /\ calls \in Seq(OrderUpdates)
      /\ pc # "idle" => calls # <<>>
  BY DEF QuietInv, ProtectionInv, CallInv, TypeOK
<1>2. UNCHANGED <<exPosition, exStops, queue, positions, orders>>
  BY DEF Handle, HandleWithoutPlacement, BeginPlacement, HandlePlaced, HandleRaised,
         Finish, exchange, account
<1>3. StopNews' /\ OpenNews'
  BY <1>1, <1>2, SameStopNews
<1>4. ASSUME NEW s \in Symbols, Naked(s)', ~ killSwitchActive
      PROVE  Naked(s) /\ Covered(s)
  BY <1>1, <1>2, <1>4 DEF CoverInv, Naked, ActiveIn
<1>5. ASSUME HandleWithoutPlacement \/ HandlePlaced, killReason' = "none",
             NEW s \in Symbols, Naked(s)'
      PROVE  Covered(s)'
  <2>1. /\ calls # <<>> /\ calls' = Tail(calls) /\ pc' = "idle"
        /\ killReason' = IF FindUnprotected(positions, orders) # {} THEN "missing stop"
                         ELSE IF StopFailed(Head(calls)) THEN "stop failed"
                         ELSE killReason
    BY <1>1, <1>5 DEF HandleWithoutPlacement, HandlePlaced, Finish
  <2>2. FindUnprotected(positions, orders) = {} /\ killReason = "none"
    BY <1>5, <2>1
  <2>3. Naked(s) /\ Covered(s)
    BY <1>4, <1>5, <2>2 DEF killSwitchActive
  <2>4. ~ KnowsNaked(s, 0)
    BY <1>1, <2>2, <2>3, KnownIsFound
  <2> QED
    BY <1>1, <1>2, <2>1, <2>3, <2>4, CoverReturned
<1>6. ASSUME HandleRaised, killReason' = "none", NEW s \in Symbols, Naked(s)'
      PROVE  Covered(s)'
  <2>1. pc = "raised" /\ calls' = Tail(calls) /\ pc' = "idle" /\ killReason' = killReason
    BY <1>6 DEF HandleRaised, account
  <2>2. Covered(s)
    BY <1>4, <1>6, <2>1 DEF killSwitchActive
  <2> QED
    BY <1>1, <1>2, <2>1, <2>2, CoverReturned
<1>7. ASSUME BeginPlacement, killReason' = "none", NEW s \in Symbols, Naked(s)'
      PROVE  Covered(s)'
  <2>1. pc' = "placing" /\ calls' = calls /\ killReason' = killReason
    BY <1>7 DEF BeginPlacement, account
  <2>2. Covered(s)
    BY <1>4, <1>7, <2>1 DEF killSwitchActive
  <2> QED
    BY <1>2, <2>1, <2>2 DEF Covered, KnowsNaked, KnowsOpen, KnowsEnds, Opens, Shuts, Speaks,
       Reports, SymbolOf
<1>8. CoverInv'
  BY <1>5, <1>6, <1>7 DEF CoverInv, killSwitchActive, Handle
<1> QED
  BY <1>1, <1>3, <1>8, HandleKeepsInv DEF QuietInv

\* A placement ends with a working stop of the symbol: the one placed, or the one for
\* which it was refused.
LEMMA AnswerQuietInv ==
  ASSUME QuietInv, ~ PlacementMayFail, Answer
  PROVE  QuietInv'
<1>1. /\ ProtectionInv /\ StopNews /\ OpenNews /\ CoverInv /\ TypeOK /\ CallInv
      /\ queue \in Seq(UserEvents) /\ exStops \in [StopIds -> Stop \cup {NoStop}]
  BY DEF QuietInv, ProtectionInv, TypeOK, UserEvents
<1> DEFINE s == SymbolOf(Head(calls))
<1>2. ProtectionInv'
  BY <1>1, AnswerKeepsInv
<1>3. pc = "placing" /\ UNCHANGED <<exPosition, positions, orders, killReason, calls>>
  BY DEF Answer, StopAccepted, StopRefused, account, exchange
<1>4. calls # <<>> /\ exitSide \in Sides /\ s \in Symbols /\ Head(calls) = calls[1]
  <2>1. calls # <<>> /\ exitSide \in Sides /\ calls \in Seq(OrderUpdates)
    BY <1>1, <1>3 DEF CallInv, TypeOK
  <2>2. Head(calls) = calls[1]
    BY <2>1
  <2> QED
    BY <1>1, <2>1, <2>2, FirstCall
<1>5. CASE StopRefused
  <2>1. pc' = "raised" /\ ActiveIn(exStops, s) /\ UNCHANGED <<exStops, queue>>
    BY <1>5 DEF StopRefused, exchange
  <2>2. StopNews' /\ OpenNews'
    BY <1>1, <1>3, <2>1, SameStopNews
  <2>3. ASSUME ~ killSwitchActive, NEW t \in Symbols, Naked(t)'
        PROVE  Covered(t)'
    <3>1. Naked(t)
      BY <1>3, <2>1, <2>3 DEF Naked, ActiveIn
    <3>2. Covered(t) /\ t # s
      BY <1>1, <2>1, <2>3, <3>1 DEF CoverInv, Naked
    <3>3. \A k \in DOMAIN calls : SymbolOf(calls[k]) = t => k # 1
      BY <1>4, <3>2
    <3> QED
      BY <1>3, <2>1, <3>2, <3>3 DEF Covered, KnowsNaked, KnowsOpen, KnowsEnds, Opens, Shuts,
         Speaks, Reports, SymbolOf
  <2>4. CoverInv'
    BY <1>3, <2>3 DEF CoverInv, killSwitchActive
  <2> QED
    BY <1>2, <2>2, <2>4 DEF QuietInv
<1>6. ASSUME NEW i \in StopIds, StopAccepted(i, "placed")
      PROVE  QuietInv'
  <2> DEFINE stop == [symbol |-> s, side |-> exitSide, status |-> "NEW"]
             update == StopUpdate(i, stop)
  <2>1. /\ exStops[i] = NoStop /\ exStops' = [exStops EXCEPT ![i] = stop]
        /\ queue' = Append(queue, update) /\ pc' = "placed"
    BY <1>6 DEF StopAccepted
  <2>2. stop \in Stop /\ stop.symbol = s /\ stop.status \in ActiveStop
    BY <1>4 DEF Stop, StopStatuses, ActiveStop
  <2>3. update \in OrderUpdates /\ update.kind = "stop" /\ update.id = i
    BY <2>2, StopUpdateTyped DEF StopUpdate
  <2>4. exStops'[i] = stop /\ \A j \in StopIds : j # i => exStops'[j] = exStops[j]
    BY <1>1, <2>1
  <2>5. queue' = Append(queue, StopUpdate(i, exStops'[i]))
    BY <2>1, <2>4
  <2> HIDE DEF stop, update, s
  <2>6. /\ Grows /\ Added = {Len(queue')} /\ queue'[Len(queue')] = update
    BY <1>1, <2>1, <2>3, GrowsByOne DEF UserEvents
  <2>7. NewsOf(i)'
    BY <1>1, <1>3, <2>1, <2>2, <2>4, <2>5, NewsOfPlaced DEF StopNews
  <2>8. ASSUME NEW j \in StopIds, j # i PROVE NewsOf(j)'
    <3>1. \A k \in Added : ~ Reports(queue'[k], j)
      BY <2>3, <2>6, <2>8 DEF Reports
    <3> QED
      BY <1>1, <1>3, <2>4, <2>6, <2>8, <3>1, NewsOfOthers DEF StopNews
  <2>9. StopNews'
    BY <2>7, <2>8 DEF StopNews
  <2>10. OpenNews'
    <3>1. Moves(SymbolOf(update))
      BY <1>1, <1>3, <2>1, <2>3, UpdateMoves
    <3>2. SymbolOf(update) \in Symbols
      BY <2>3, SymbolOfCall
    <3> QED
      BY <1>1, <1>3, <3>1, <3>2, MovesOpenNews
  <2>11. ASSUME ~ killSwitchActive, NEW t \in Symbols, Naked(t)'
         PROVE  Covered(t)'
    <3>1. t # s
      BY <2>2, <2>4, <2>11 DEF Naked, ActiveIn
    <3>2. \A j \in StopIds : exStops'[j].symbol = t => exStops'[j] = exStops[j]
      BY <2>2, <2>4, <3>1
    <3>3. Naked(t)
      <4>1. exStops[i].status \notin ActiveStop
        BY <2>1 DEF NoStop, ActiveStop
      <4> QED
        BY <1>3, <2>4, <2>11, <4>1 DEF Naked, ActiveIn
    <3>4. Covered(t)
      BY <1>1, <2>11, <3>3 DEF CoverInv
    <3>5. \A j \in Added : ~ Shuts(queue'[j], t)
      BY <2>3, <2>6 DEF Shuts, Speaks
    <3>6. pc' # "raised"
      BY <2>1
    <3> QED
      BY <1>3, <2>6, <3>2, <3>4, <3>5, <3>6, CoverStays
  <2>12. CoverInv'
    BY <1>3, <2>11 DEF CoverInv, killSwitchActive
  <2> QED
    BY <1>2, <2>9, <2>10, <2>12 DEF QuietInv
<1> QED
  BY <1>5, <1>6 DEF Answer

\* The tasks have no part in it; they can only halt the account.
LEMMA TasksQuietInv ==
  ASSUME QuietInv, Heartbeats \/ GuardianStop \/ UNCHANGED vars
  PROVE  QuietInv'
<1>1. ProtectionInv /\ StopNews /\ OpenNews /\ CoverInv
  BY DEF QuietInv
<1>2. ProtectionInv'
  BY <1>1, ProtectionInvStep DEF Next
<1>3. /\ UNCHANGED <<exPosition, exStops, queue, positions, orders, calls, pc>>
      /\ killReason' = "none" => killReason = "none"
  <2>1. CASE Heartbeats
    <3>1. PICK s \in Symbols :
            \/ Wake(s) \/ LeaveLoop(s) \/ StopAutoCancel(s)
            \/ \E ok \in BOOLEAN : Beat(s, ok)
      BY <2>1 DEF Heartbeats
    <3> QED
      BY <3>1 DEF Wake, LeaveLoop, StopAutoCancel, Beat, exchange, account, service
  <2>2. CASE GuardianStop
    BY <2>2 DEF GuardianStop, exchange, account, service
  <2>3. CASE UNCHANGED vars
    BY <2>3 DEF vars, exchange, account, service, hearts
  <2> QED
    BY <2>1, <2>2, <2>3
<1>4. StopNews' /\ OpenNews'
  BY <1>1, <1>3, SameStopNews
<1>5. ASSUME ~ killSwitchActive, NEW s \in Symbols, Naked(s)'
      PROVE  Covered(s)'
  <2>1. Covered(s)
    BY <1>1, <1>3, <1>5 DEF CoverInv, Naked, ActiveIn
  <2> QED
    BY <1>3, <2>1 DEF Covered, KnowsNaked, KnowsOpen, KnowsEnds, Opens, Shuts, Speaks,
       Reports, SymbolOf
<1>6. CoverInv'
  BY <1>3, <1>5 DEF CoverInv, killSwitchActive
<1> QED
  BY <1>2, <1>4, <1>6 DEF QuietInv

LEMMA QuietInvInit == Init => QuietInv
<1> SUFFICES ASSUME Init PROVE QuietInv
  OBVIOUS
<1>1. /\ DOMAIN queue = {} /\ \A i \in StopIds : exStops[i] = NoStop /\ orders[i] = NoStop
      /\ \A s \in Symbols : exPosition[s] = "FLAT"
  BY DEF Init
<1>2. StopNews
  BY <1>1 DEF StopNews, NewsOf, Working, NoStop, ActiveStop
<1>3. OpenNews /\ CoverInv
  BY <1>1 DEF OpenNews, CoverInv, Naked
<1> QED
  BY <1>2, <1>3, ProtectionInvInit DEF QuietInv

\* With nothing left to apply or to call, an open position has a working stop or the
\* account is halted, for any symbols, fills and ends of stops: provided the news
\* of a position precedes the news of the fill, and a placement fails only for a stop
\* that works already.
THEOREM QuietMeansCoveredAlways ==
  ASSUME AccountFirst, ~ PlacementMayFail
  PROVE  Spec => []QuietMeansCovered
<1>1. QuietInv /\ [Next]_vars => QuietInv'
  BY ExchangeQuietInv, ApplyQuietInv, HandleQuietInv, AnswerQuietInv, TasksQuietInv DEF Next
<1>2. QuietInv => QuietMeansCovered
  <2> SUFFICES ASSUME QuietInv, Quiet, NEW s \in Symbols, Naked(s), ~ killSwitchActive
               PROVE  FALSE
    BY DEF QuietMeansCovered
  <2>1. DOMAIN queue = {} /\ DOMAIN calls = {}
    BY DEF Quiet
  <2>2. Covered(s)
    BY DEF QuietInv, CoverInv
  <2> QED
    BY <2>1, <2>2 DEF Covered
<1> QED
  BY QuietInvInit, <1>1, <1>2, PTL DEF Spec
=============================================================================
