------------------------ MODULE AccountGatewayProofs ------------------------
(***************************************************************************)
(* Proofs about the gateway process: its account view, for any set of      *)
(* rows, orders and stops and any bounds, and the key of its private       *)
(* stream, for any periods with a margin between them.                     *)
(*                                                                         *)
(* The argument for the view: while the link is up, the last message in    *)
(* the queue that speaks of a row carries the row's present value          *)
(* (LastWord), and a row nobody speaks of has its present value in the     *)
(* table that will be, or is, the view (SnapshotTrue, ViewTrue).  With an  *)
(* empty queue nobody speaks of any row.  The same for the status of       *)
(* orders.                                                                 *)
(***************************************************************************)
EXTENDS AccountGateway, ListenKeySession, TLAPS

-----------------------------------------------------------------------------
(* Messages *)

\* What a well-typed message is made of.
LEMMA MessageShape ==
  ASSUME NEW m \in Messages
  PROVE  /\ m.type = "ACCOUNT_UPDATE" =>
              /\ DOMAIN m.rows \subseteq Rows
              /\ \A r \in DOMAIN m.rows : m.rows[r] \in Values
         /\ m.type # "ACCOUNT_UPDATE" =>
              m.order \in OrderIds /\ m.status \in Statuses
         /\ m.type = "ALGO_UPDATE" => m.order \in Algos
  BY DEF Messages, OrderIds

\* The messages the exchange sends are well typed.
LEMMA AccountMessage ==
  ASSUME NEW S \in SUBSET Rows, NEW rows \in [S -> Values]
  PROVE  [type |-> "ACCOUNT_UPDATE", rows |-> rows] \in Messages
  BY DEF Messages

LEMMA OrderMessage ==
  ASSUME NEW o \in OrderIds, NEW status \in Statuses
  PROVE  [type |-> IF o \in Algos THEN "ALGO_UPDATE" ELSE "ORDER_TRADE_UPDATE",
          order |-> o, status |-> status] \in Messages
  BY DEF Messages, OrderIds

LEMMA ParseStatusType ==
  ASSUME NEW w
  PROVE  ParseStatus(w) \in OrderLifecycleStatus
  BY DEF ParseStatus, OrderLifecycleStatus

LEMMA RowTypes ==
  /\ NoRow \in LocalRow
  /\ Nothing \in [Rows -> LocalRow]
  /\ \A v \in Values, m \in Marks \cup {NoMark} : Row(v, m) \in LocalRow
  /\ \A v \in Values, m \in Marks : Listed(v, m) \in LocalRow
  BY ConstantsAssumption DEF NoRow, Nothing, Row, Listed, LocalRow

-----------------------------------------------------------------------------
(* Type correctness *)

\* While the consumer runs it has messages left to handle: the type invariant
\* is not inductive without it.
CountBelowLimit == pc \notin Stopped => count < MessageLimit

\* Every state of the gateway is well typed.
THEOREM TypeCorrect == Spec => []TypeOK
<1>1. Init => TypeOK /\ CountBelowLimit
  <2> SUFFICES ASSUME Init PROVE TypeOK /\ CountBelowLimit
    OBVIOUS
  <2>1. queue \in Seq(Messages)
    BY DEF Init
  <2>2. exStatus \in [OrderIds -> Statuses \cup {Absent}]
    BY ConstantsAssumption DEF Init
  <2> QED
    BY <2>1, <2>2, RowTypes, ConstantsAssumption
    DEF Init, TypeOK, Reading, Stopped, KillReasons, CountBelowLimit
<1>2. TypeOK /\ CountBelowLimit /\ [Next]_vars => TypeOK' /\ CountBelowLimit'
  <2> SUFFICES ASSUME TypeOK, CountBelowLimit, [Next]_vars
               PROVE  TypeOK' /\ CountBelowLimit'
    OBVIOUS
  <2> USE DEF Reading, Stopped
  <2>1. ASSUME NEW S \in SUBSET Rows \ {{}}, NEW rows \in [S -> Values],
               AccountChanges(rows)
        PROVE  TypeOK' /\ CountBelowLimit'
    <3> DEFINE m == [type |-> "ACCOUNT_UPDATE", rows |-> rows]
    <3>1. m \in Messages
      BY AccountMessage
    <3>2. Publish(m)
      BY <2>1 DEF AccountChanges
    <3>3. queue' \in Seq(Messages)
      BY <3>1, <3>2 DEF Publish, TypeOK
    <3>4. events' \in 0..MaxEvents
      BY <3>2, ConstantsAssumption DEF Publish, TypeOK
    <3>5. exValue' \in [Rows -> Values]
      BY <2>1 DEF AccountChanges, TypeOK
    <3> QED
      BY <2>1, <3>2, <3>3, <3>4, <3>5
      DEF AccountChanges, Publish, TypeOK, CountBelowLimit, control, account
  <2>2. ASSUME NEW o \in OrderIds, NEW status \in Statuses, OrderChanges(o, status)
        PROVE  TypeOK' /\ CountBelowLimit'
    <3> DEFINE m == [type |-> IF o \in Algos THEN "ALGO_UPDATE"
                                             ELSE "ORDER_TRADE_UPDATE",
                     order |-> o, status |-> status]
    <3>1. m \in Messages
      BY OrderMessage
    <3>2. Publish(m)
      BY <2>2 DEF OrderChanges
    <3>3. queue' \in Seq(Messages)
      BY <3>1, <3>2 DEF Publish, TypeOK
    <3>4. events' \in 0..MaxEvents
      BY <3>2, ConstantsAssumption DEF Publish, TypeOK
    <3>5. exStatus' \in [OrderIds -> Statuses \cup {Absent}]
      BY <2>2 DEF OrderChanges, TypeOK
    <3> QED
      BY <2>2, <3>2, <3>3, <3>4, <3>5
      DEF OrderChanges, Publish, TypeOK, CountBelowLimit, control, account
  <2>3. CASE PriceMoves
    BY <2>3 DEF PriceMoves, TypeOK, CountBelowLimit, socket, control, account
  <2>4. CASE LoseConnection
    <3>1. queue' \in Seq(Messages)
      BY <2>4 DEF LoseConnection, TypeOK
    <3>2. drops' \in 0..MaxDrops
      BY <2>4, ConstantsAssumption DEF LoseConnection, TypeOK
    <3> QED
      BY <2>4, <3>1, <3>2 DEF LoseConnection, TypeOK, CountBelowLimit, exchange, control, account
  <2>5. CASE Connect
    BY <2>5 DEF Connect, TypeOK, CountBelowLimit, exchange, control, account
  <2>15. CASE ConnectFails \/ WakeUp
    BY <2>15 DEF ConnectFails, WakeUp, TypeOK, CountBelowLimit, exchange, socket, control, account
  <2>6. CASE ReadAccount
    <3>1. snapshot' \in [Rows -> LocalRow]
      BY <2>6, RowTypes DEF ReadAccount, TypeOK
    <3> QED
      BY <2>6, <3>1 DEF ReadAccount, TypeOK, CountBelowLimit, exchange, socket, control, account
  <2>7. CASE ReadRisk
    <3>1. \A r \in Rows : snapshot[r].value \in Values
      BY DEF TypeOK, LocalRow
    <3>2. snapshot' \in [Rows -> LocalRow]
      BY <2>7, <3>1, RowTypes DEF ReadRisk, TypeOK
    <3> QED
      BY <2>7, <3>2 DEF ReadRisk, TypeOK, CountBelowLimit, exchange, socket, control, account
  <2>8. CASE ReadOrdersAndReplace
    <3>1. orders' \in [OrderIds -> OrderLifecycleStatus \cup {Absent}]
      BY <2>8, ParseStatusType DEF ReadOrdersAndReplace, OpenOrders
    <3>2. killSwitchReason' \in KillReasons /\ stateMismatchCount' \in Nat
      <4>1. stateMismatchCount \in Nat /\ killSwitchReason \in KillReasons
        BY DEF TypeOK
      <4>2. CASE HasExistingState /\ IsMismatch(snapshot, OpenOrders)
        <5>1. stateMismatchCount' = stateMismatchCount + 1
          BY <2>8, <4>2 DEF ReadOrdersAndReplace
        <5>2. killSwitchReason' \in {"mismatch", killSwitchReason}
          BY <2>8, <4>2 DEF ReadOrdersAndReplace
        <5>3. stateMismatchCount' \in Nat
          BY <4>1, <5>1
        <5>4. killSwitchReason' \in KillReasons
          BY <4>1, <5>2 DEF KillReasons
        <5> QED
          BY <5>3, <5>4
      <4>3. CASE ~ (HasExistingState /\ IsMismatch(snapshot, OpenOrders))
        BY <2>8, <4>1, <4>3 DEF ReadOrdersAndReplace
      <4> QED
        BY <4>2, <4>3
    <3>3. snapshot' \in [Rows -> LocalRow]
      BY <2>8, RowTypes DEF ReadOrdersAndReplace
    <3> QED
      BY <2>8, <3>1, <3>2, <3>3
      DEF ReadOrdersAndReplace, TypeOK, CountBelowLimit, exchange, socket, control
  <2>9. CASE RebuildFails
    <3>1. killSwitchReason' \in KillReasons /\ reconcileFailureCount' \in Nat
      <4>1. killSwitchReason' \in {"reconcile", killSwitchReason}
        BY <2>9 DEF RebuildFails
      <4>2. reconcileFailureCount' = reconcileFailureCount + 1
        BY <2>9 DEF RebuildFails
      <4>3. killSwitchReason' \in KillReasons
        BY <4>1 DEF TypeOK, KillReasons
      <4>4. reconcileFailureCount' \in Nat
        BY <4>2 DEF TypeOK
      <4> QED
        BY <4>3, <4>4
    <3> QED
      BY <2>9, <3>1, RowTypes DEF RebuildFails, TypeOK, CountBelowLimit, exchange, socket, control
  <2>10. CASE EndOfStream
    BY <2>10 DEF EndOfStream, TypeOK, CountBelowLimit, exchange, socket, control, account
  <2>11. ASSUME pc = "stream", queue # <<>>, ApplyEvent
         PROVE  /\ balancesAndPositions' \in [Rows -> LocalRow]
                /\ orders' \in [OrderIds -> OrderLifecycleStatus \cup {Absent}]
                /\ Tail(queue) \in Seq(Messages)
    <3>1. Head(queue) \in Messages /\ Tail(queue) \in Seq(Messages)
      BY <2>11 DEF TypeOK
    <3>2. balancesAndPositions' \in [Rows -> LocalRow]
      BY <2>11, <3>1, MessageShape, RowTypes DEF ApplyEvent, Upserted, TypeOK
    <3>3. orders' \in [OrderIds -> OrderLifecycleStatus \cup {Absent}]
      BY <2>11, <3>1, MessageShape, ParseStatusType
      DEF ApplyEvent, UpsertedOrders, TypeOK
    <3> QED
      BY <3>1, <3>2, <3>3
  <2>12. CASE HandleMessage
    <3>1. killSwitchReason' \in KillReasons
      BY <2>12 DEF HandleMessage, GuardianReason, TypeOK, KillReasons
    <3>2. count' \in 0..MessageLimit
      <4>1. count \in Nat /\ count < MessageLimit
        BY <2>12 DEF HandleMessage, TypeOK, CountBelowLimit
      <4> QED
        BY <2>12, <4>1, ConstantsAssumption DEF HandleMessage
    <3>3. link' \in {"up", "lost"} /\ queue' \in Seq(Messages)
          /\ pc' \in {"stream", "done"}
      <4>1. CASE count + 1 >= MessageLimit
        BY <2>12, <4>1 DEF HandleMessage
      <4>2. CASE ~ (count + 1 >= MessageLimit)
        BY <2>11, <2>12, <4>2 DEF HandleMessage, TypeOK
      <4> QED
        BY <4>1, <4>2
    <3>4. CountBelowLimit'
      <4>1. count \in Nat
        BY DEF TypeOK
      <4> QED
        BY <2>12, <4>1, ConstantsAssumption DEF HandleMessage, CountBelowLimit
    <3> QED
      BY <2>11, <2>12, <3>1, <3>2, <3>3, <3>4
      DEF HandleMessage, ApplyEvent, TypeOK, exchange
  <2>13. CASE HandleMessageNameError
    BY <2>11, <2>13 DEF HandleMessageNameError, ApplyEvent, TypeOK, CountBelowLimit, exchange, control
  <2>14. CASE UNCHANGED vars
    BY <2>14 DEF vars, exchange, socket, control, account, TypeOK, CountBelowLimit
  <2> QED
    BY <2>1, <2>2, <2>3, <2>4, <2>5, <2>6, <2>7, <2>8, <2>9, <2>10, <2>12, <2>13, <2>14, <2>15
    DEF Next, Exchange, Gateway, Rebuild, Receive
<1> QED
  BY <1>1, <1>2, PTL DEF Spec
-----------------------------------------------------------------------------
(* The inductive invariant of the view *)

\* Message m carries a value of row r, or a status of order o.
Speaks(m, r) == m.type = "ACCOUNT_UPDATE" /\ r \in DOMAIN m.rows
Names(m, o) == m.type # "ACCOUNT_UPDATE" /\ m.order = o

\* No message waiting in the queue does.
Untold(r) == \A i \in 1..Len(queue) : ~ Speaks(queue[i], r)
Unnamed(o) == \A i \in 1..Len(queue) : ~ Names(queue[i], o)

\* The last message about a row, or an order, is up to date.
LastWord ==
  link = "up" => \A r \in Rows, i \in 1..Len(queue) :
    ( /\ Speaks(queue[i], r)
      /\ \A j \in 1..Len(queue) : j > i => ~ Speaks(queue[j], r) )
    => queue[i].rows[r] = exValue[r]

LastStatus ==
  link = "up" => \A o \in OrderIds, i \in 1..Len(queue) :
    ( /\ Names(queue[i], o)
      /\ \A j \in 1..Len(queue) : j > i => ~ Names(queue[j], o) )
    => queue[i].status = exStatus[o]

\* What no message will correct is already right.
SnapshotTrue ==
  link = "up" /\ pc \in {"read_risk", "read_orders"} =>
    \A r \in Rows : Untold(r) => snapshot[r].value = exValue[r]

Rebuilt == link = "up" /\ pc = "stream" /\ reconcileFailureCount = 0

ViewTrue ==
  Rebuilt => \A r \in Rows :
    Untold(r) => balancesAndPositions[r].value = exValue[r]

SameOpenness(o) ==
  (orders[o] \in OpenStatus) = (ParseStatus(exStatus[o]) \in OpenStatus)

OrdersTrue == Rebuilt => \A o \in Orders : Unnamed(o) => SameOpenness(o)

StopReal(a) == orders[a] \in ActiveStop => ParseStatus(exStatus[a]) \in ActiveStop

StopsTrue == Rebuilt => \A a \in Algos : Unnamed(a) => StopReal(a)

ViewInv ==
  LastWord /\ LastStatus /\ SnapshotTrue /\ ViewTrue /\ OrdersTrue
         /\ StopsTrue

\* Sequences: the elements of a longer and of a shorter queue.
LEMMA AppendElements ==
  ASSUME NEW q \in Seq(Messages), NEW m \in Messages
  PROVE  /\ Len(Append(q, m)) = Len(q) + 1
         /\ Append(q, m)[Len(q) + 1] = m
         /\ \A i \in 1..Len(q) : Append(q, m)[i] = q[i]
  OBVIOUS

LEMMA TailElements ==
  ASSUME NEW q \in Seq(Messages), q # <<>>
  PROVE  /\ Len(Tail(q)) = Len(q) - 1
         /\ Len(q) \in Nat \ {0}
         /\ Head(q) = q[1]
         /\ \A i \in 1..Len(q) - 1 : Tail(q)[i] = q[i + 1]
  OBVIOUS

\* A new message m about the rows in its domain, and no other rows.
LEMMA PublishRows ==
  ASSUME TypeOK, LastWord, SnapshotTrue, ViewTrue,
         NEW m \in Messages, Publish(m),
         \A r \in Rows : Speaks(m, r) => m.rows[r] = exValue'[r],
         \A r \in Rows : ~ Speaks(m, r) => exValue'[r] = exValue[r]
  PROVE  LastWord' /\ SnapshotTrue' /\ ViewTrue'
<1>0. SUFFICES ASSUME link' = "up" PROVE LastWord' /\ SnapshotTrue' /\ ViewTrue'
  BY DEF LastWord, SnapshotTrue, ViewTrue, Rebuilt
<1>1. /\ link = "up" /\ queue' = Append(queue, m)
      /\ pc' = pc /\ snapshot' = snapshot
      /\ balancesAndPositions' = balancesAndPositions
      /\ reconcileFailureCount' = reconcileFailureCount
  BY <1>0 DEF Publish, account
<1>2. /\ Len(queue) \in Nat /\ Len(queue') = Len(queue) + 1
      /\ queue'[Len(queue) + 1] = m
      /\ \A i \in 1..Len(queue) : queue'[i] = queue[i]
  BY <1>1, AppendElements DEF TypeOK
<1>3. ASSUME NEW r \in Rows, Untold(r)'
      PROVE  Untold(r) /\ exValue'[r] = exValue[r]
  <2>1. ~ Speaks(m, r)
    BY <1>2, <1>3 DEF Untold
  <2>2. Untold(r)
    BY <1>2, <1>3 DEF Untold
  <2> QED
    BY <2>1, <2>2
<1>4. LastWord'
  <2> SUFFICES ASSUME NEW r \in Rows, NEW i \in 1..Len(queue'),
                      Speaks(queue'[i], r),
                      \A j \in 1..Len(queue') : j > i => ~ Speaks(queue'[j], r)
               PROVE  queue'[i].rows[r] = exValue'[r]
    BY DEF LastWord
  <2>1. CASE i = Len(queue) + 1
    BY <2>1, <1>2
  <2>2. CASE i \in 1..Len(queue)
    <3>1. ~ Speaks(m, r)
      BY <2>2, <1>2
    <3>2. \A j \in 1..Len(queue) : j > i => ~ Speaks(queue[j], r)
      BY <1>2
    <3>3. Speaks(queue[i], r) /\ queue'[i] = queue[i]
      BY <2>2, <1>2
    <3> QED
      BY <2>2, <3>1, <3>2, <3>3, <1>1 DEF LastWord
  <2> QED
    BY <2>1, <2>2, <1>2
<1>5. SnapshotTrue'
  BY <1>1, <1>3 DEF SnapshotTrue
<1>6. ViewTrue'
  BY <1>1, <1>3 DEF ViewTrue, Rebuilt
<1> QED
  BY <1>4, <1>5, <1>6

\* The rows half of the invariant is preserved by every step.
LEMMA RowsStep ==
  ASSUME TypeOK, LastWord, SnapshotTrue, ViewTrue, [Next]_vars
  PROVE  LastWord' /\ SnapshotTrue' /\ ViewTrue'
<1> USE DEF LastWord, SnapshotTrue, ViewTrue, Rebuilt, Untold
<1>1. ASSUME NEW S \in SUBSET Rows \ {{}}, NEW rows \in [S -> Values],
             AccountChanges(rows)
      PROVE  LastWord' /\ SnapshotTrue' /\ ViewTrue'
  <2> DEFINE m == [type |-> "ACCOUNT_UPDATE", rows |-> rows]
  <2>1. m \in Messages
    BY AccountMessage
  <2>2. Publish(m)
    BY <1>1 DEF AccountChanges
  <2>3. \A r \in Rows : Speaks(m, r) <=> r \in DOMAIN rows
    BY DEF Speaks
  <2>4. \A r \in Rows : exValue'[r] = IF r \in DOMAIN rows THEN rows[r] ELSE exValue[r]
    BY <1>1 DEF AccountChanges
  <2>5. m.rows = rows
    OBVIOUS
  <2> HIDE DEF m, LastWord, SnapshotTrue, ViewTrue, Rebuilt, Untold
  <2> QED
    BY <2>1, <2>2, <2>3, <2>4, <2>5, PublishRows
<1>2. ASSUME NEW o \in OrderIds, NEW status \in Statuses, OrderChanges(o, status)
      PROVE  LastWord' /\ SnapshotTrue' /\ ViewTrue'
  <2> DEFINE m == [type |-> IF o \in Algos THEN "ALGO_UPDATE"
                                           ELSE "ORDER_TRADE_UPDATE",
                   order |-> o, status |-> status]
  <2>1. m \in Messages
    BY OrderMessage
  <2>2. Publish(m) /\ exValue' = exValue
    BY <1>2 DEF OrderChanges
  <2>3. \A r \in Rows : ~ Speaks(m, r)
    BY DEF Speaks
  <2> HIDE DEF m, LastWord, SnapshotTrue, ViewTrue, Rebuilt, Untold
  <2> QED
    BY <2>1, <2>2, <2>3, PublishRows
<1>3. CASE PriceMoves
  BY <1>3 DEF PriceMoves, socket, account
<1>4. CASE LoseConnection
  BY <1>4 DEF LoseConnection
<1>5. CASE Connect
  BY <1>5 DEF Connect
<1>6. CASE ReadAccount
  <2>1. \A r \in Rows : snapshot'[r].value = exValue[r]
    BY <1>6 DEF ReadAccount, Listed, Row, NoRow
  <2> QED
    BY <1>6, <2>1 DEF ReadAccount, exchange, socket
<1>7. CASE ReadRisk
  <2>1. \A r \in Rows : snapshot'[r].value = snapshot[r].value
    BY <1>7 DEF ReadRisk, Row
  <2> QED
    BY <1>7, <2>1 DEF ReadRisk, exchange, socket
<1>8. CASE ReadOrdersAndReplace
  BY <1>8 DEF ReadOrdersAndReplace, exchange, socket
<1>9. CASE RebuildFails
  <2>1. reconcileFailureCount' # 0
    BY <1>9 DEF RebuildFails, TypeOK
  <2>2. pc' = "stream" /\ queue' = queue /\ link' = link /\ exValue' = exValue
    BY <1>9 DEF RebuildFails, exchange, socket
  <2> QED
    BY <2>1, <2>2
<1>10. CASE ConnectFails \/ WakeUp \/ EndOfStream
  BY <1>10 DEF ConnectFails, WakeUp, EndOfStream, exchange, socket
<1>11. CASE HandleMessage
  <2> SUFFICES ASSUME link' = "up" PROVE LastWord' /\ SnapshotTrue' /\ ViewTrue'
    OBVIOUS
  <2> HIDE DEF LastWord, SnapshotTrue, ViewTrue, Rebuilt, Untold
  <2>1. /\ pc = "stream" /\ pc' = "stream" /\ link = "up"
        /\ queue # <<>> /\ queue' = Tail(queue)
        /\ exValue' = exValue
        /\ reconcileFailureCount' = reconcileFailureCount
        /\ balancesAndPositions' = Upserted(Head(queue))
    BY <1>11 DEF HandleMessage, ApplyEvent, exchange
  <2>2. /\ Len(queue') = Len(queue) - 1 /\ Len(queue) \in Nat \ {0}
        /\ Head(queue) = queue[1]
        /\ \A i \in 1..Len(queue) - 1 : queue'[i] = queue[i + 1]
    BY <2>1, TailElements DEF TypeOK
  <2>3. LastWord'
    <3> SUFFICES ASSUME NEW r \in Rows, NEW i \in 1..Len(queue'),
                        Speaks(queue'[i], r),
                        \A j \in 1..Len(queue') : j > i => ~ Speaks(queue'[j], r)
                 PROVE  queue'[i].rows[r] = exValue'[r]
      BY DEF LastWord
    <3>1. i + 1 \in 1..Len(queue) /\ queue'[i] = queue[i + 1]
      BY <2>2
    <3>2. ASSUME NEW j \in 1..Len(queue), j > i + 1
          PROVE  ~ Speaks(queue[j], r)
      <4>1. j - 1 \in 1..Len(queue') /\ j - 1 > i /\ queue'[j - 1] = queue[j]
        BY <2>2, <3>2
      <4> QED
        BY <4>1
    <3> QED
      BY <2>1, <3>1, <3>2 DEF LastWord
  <2>4. ViewTrue'
    <3> SUFFICES ASSUME Rebuilt', NEW r \in Rows, Untold(r)'
                 PROVE  balancesAndPositions'[r].value = exValue'[r]
      BY DEF ViewTrue
    <3>1. ASSUME NEW j \in 1..Len(queue), j > 1 PROVE ~ Speaks(queue[j], r)
      <4>1. j - 1 \in 1..Len(queue') /\ queue'[j - 1] = queue[j]
        BY <2>2, <3>1
      <4> QED
        BY <4>1 DEF Untold
    <3>2. CASE Speaks(queue[1], r)
      <4>1. queue[1].rows[r] = exValue[r]
        BY <2>1, <2>2, <3>1, <3>2 DEF LastWord
      <4> QED
        BY <2>1, <2>2, <3>2, <4>1 DEF Upserted, Speaks, Row
    <3>3. CASE ~ Speaks(queue[1], r)
      <4>1. Untold(r)
        BY <2>2, <3>1, <3>3 DEF Untold
      <4>2. balancesAndPositions[r].value = exValue[r]
        BY <2>1, <4>1 DEF ViewTrue, Rebuilt
      <4> QED
        BY <2>1, <2>2, <3>3, <4>2 DEF Upserted, Speaks
    <3> QED
      BY <3>2, <3>3
  <2>5. SnapshotTrue'
    BY <2>1 DEF SnapshotTrue
  <2> QED
    BY <2>3, <2>4, <2>5
<1>12. CASE HandleMessageNameError
  BY <1>12 DEF HandleMessageNameError
<1>13. CASE UNCHANGED vars
  BY <1>13 DEF vars, exchange, socket, control, account
<1> QED
  BY <1>1, <1>2, <1>3, <1>4, <1>5, <1>6, <1>7, <1>8, <1>9, <1>10, <1>11, <1>12, <1>13
  DEF Next, Exchange, Gateway, Rebuild, Receive

\* A new message m about the orders it names, and no other orders.
LEMMA PublishOrders ==
  ASSUME TypeOK, LastStatus, OrdersTrue, StopsTrue,
         NEW m \in Messages, Publish(m),
         \A o \in OrderIds : Names(m, o) => m.status = exStatus'[o],
         \A o \in OrderIds : ~ Names(m, o) => exStatus'[o] = exStatus[o]
  PROVE  LastStatus' /\ OrdersTrue' /\ StopsTrue'
<1>0. SUFFICES ASSUME link' = "up" PROVE LastStatus' /\ OrdersTrue' /\ StopsTrue'
  BY DEF LastStatus, OrdersTrue, StopsTrue, Rebuilt
<1>1. /\ link = "up" /\ queue' = Append(queue, m)
      /\ pc' = pc /\ orders' = orders
      /\ reconcileFailureCount' = reconcileFailureCount
  BY <1>0 DEF Publish, account
<1>2. /\ Len(queue) \in Nat /\ Len(queue') = Len(queue) + 1
      /\ queue'[Len(queue) + 1] = m
      /\ \A i \in 1..Len(queue) : queue'[i] = queue[i]
  BY <1>1, AppendElements DEF TypeOK
<1>3. ASSUME NEW o \in OrderIds, Unnamed(o)'
      PROVE  Unnamed(o) /\ exStatus'[o] = exStatus[o]
  <2>1. ~ Names(m, o)
    BY <1>2, <1>3 DEF Unnamed
  <2>2. Unnamed(o)
    BY <1>2, <1>3 DEF Unnamed
  <2> QED
    BY <2>1, <2>2
<1>4. LastStatus'
  <2> SUFFICES ASSUME NEW o \in OrderIds, NEW i \in 1..Len(queue'),
                      Names(queue'[i], o),
                      \A j \in 1..Len(queue') : j > i => ~ Names(queue'[j], o)
               PROVE  queue'[i].status = exStatus'[o]
    BY DEF LastStatus
  <2>1. CASE i = Len(queue) + 1
    BY <2>1, <1>2
  <2>2. CASE i \in 1..Len(queue)
    <3>1. ~ Names(m, o)
      BY <2>2, <1>2
    <3>2. \A j \in 1..Len(queue) : j > i => ~ Names(queue[j], o)
      BY <1>2
    <3>3. Names(queue[i], o) /\ queue'[i] = queue[i]
      BY <2>2, <1>2
    <3> QED
      BY <2>2, <3>1, <3>2, <3>3, <1>1 DEF LastStatus
  <2> QED
    BY <2>1, <2>2, <1>2
<1>5. OrdersTrue'
  BY <1>1, <1>3 DEF OrdersTrue, Rebuilt, SameOpenness, OrderIds
<1>6. StopsTrue'
  BY <1>1, <1>3 DEF StopsTrue, Rebuilt, StopReal, OrderIds
<1> QED
  BY <1>4, <1>5, <1>6

\* The orders half of the invariant is preserved by every step.
LEMMA OrdersStep ==
  ASSUME TypeOK, LastStatus, OrdersTrue, StopsTrue, [Next]_vars
  PROVE  LastStatus' /\ OrdersTrue' /\ StopsTrue'
<1> USE DEF LastStatus, OrdersTrue, StopsTrue, Rebuilt, Unnamed, SameOpenness, StopReal
<1>1. ASSUME NEW S \in SUBSET Rows \ {{}}, NEW rows \in [S -> Values],
             AccountChanges(rows)
      PROVE  LastStatus' /\ OrdersTrue' /\ StopsTrue'
  <2> DEFINE m == [type |-> "ACCOUNT_UPDATE", rows |-> rows]
  <2>1. m \in Messages
    BY AccountMessage
  <2>2. Publish(m) /\ exStatus' = exStatus
    BY <1>1 DEF AccountChanges
  <2>3. \A o \in OrderIds : ~ Names(m, o)
    BY DEF Names
  <2> HIDE DEF m, LastStatus, OrdersTrue, StopsTrue, Rebuilt, Unnamed
  <2> QED
    BY <2>1, <2>2, <2>3, PublishOrders
<1>2. ASSUME NEW o \in OrderIds, NEW status \in Statuses, OrderChanges(o, status)
      PROVE  LastStatus' /\ OrdersTrue' /\ StopsTrue'
  <2> DEFINE m == [type |-> IF o \in Algos THEN "ALGO_UPDATE"
                                           ELSE "ORDER_TRADE_UPDATE",
                   order |-> o, status |-> status]
  <2>1. m \in Messages
    BY OrderMessage
  <2>2. Publish(m)
    BY <1>2 DEF OrderChanges
  <2>3. \A x \in OrderIds : Names(m, x) <=> x = o
    BY DEF Names
  <2>4. \A x \in OrderIds : exStatus'[x] = IF x = o THEN status ELSE exStatus[x]
    BY <1>2 DEF OrderChanges, TypeOK
  <2>5. m.status = status
    OBVIOUS
  <2> HIDE DEF m, LastStatus, OrdersTrue, StopsTrue, Rebuilt, Unnamed
  <2> QED
    BY <2>1, <2>2, <2>3, <2>4, <2>5, PublishOrders
<1>3. CASE PriceMoves
  BY <1>3 DEF PriceMoves, socket, account
<1>4. CASE LoseConnection
  BY <1>4 DEF LoseConnection
<1>5. CASE Connect
  BY <1>5 DEF Connect
<1>6. CASE ReadAccount
  BY <1>6 DEF ReadAccount, exchange, socket
<1>7. CASE ReadRisk
  BY <1>7 DEF ReadRisk, exchange, socket
<1>8. CASE ReadOrdersAndReplace
  <2>1. /\ orders' = OpenOrders /\ queue' = queue /\ link' = link
        /\ exStatus' = exStatus
    BY <1>8 DEF ReadOrdersAndReplace, exchange, socket
  <2>2. \A o \in Orders :
          (OpenOrders[o] \in OpenStatus) = (ParseStatus(exStatus[o]) \in OpenStatus)
    BY DEF OpenOrders, OpenStatus, OrderIds, Absent
  <2>3. \A a \in Algos : OpenOrders[a] \notin ActiveStop
    BY ConstantsAssumption DEF OpenOrders, ActiveStop, OrderIds, Absent
  <2> QED
    BY <2>1, <2>2, <2>3
<1>9. CASE RebuildFails
  <2>1. reconcileFailureCount' # 0
    BY <1>9 DEF RebuildFails, TypeOK
  <2>2. queue' = queue /\ link' = link /\ exStatus' = exStatus
    BY <1>9 DEF RebuildFails, exchange, socket
  <2> QED
    BY <2>1, <2>2
<1>10. CASE ConnectFails \/ WakeUp \/ EndOfStream
  BY <1>10 DEF ConnectFails, WakeUp, EndOfStream, exchange, socket
<1>11. CASE HandleMessage
  <2> SUFFICES ASSUME link' = "up" PROVE LastStatus' /\ OrdersTrue' /\ StopsTrue'
    OBVIOUS
  <2> HIDE DEF LastStatus, OrdersTrue, StopsTrue, Rebuilt, Unnamed, SameOpenness, StopReal
  <2>1. /\ pc = "stream" /\ link = "up"
        /\ queue # <<>> /\ queue' = Tail(queue)
        /\ exStatus' = exStatus
        /\ reconcileFailureCount' = reconcileFailureCount
        /\ orders' = UpsertedOrders(Head(queue))
    BY <1>11 DEF HandleMessage, ApplyEvent, exchange
  <2>2. /\ Len(queue') = Len(queue) - 1 /\ Len(queue) \in Nat \ {0}
        /\ Head(queue) = queue[1]
        /\ \A i \in 1..Len(queue) - 1 : queue'[i] = queue[i + 1]
    BY <2>1, TailElements DEF TypeOK
  <2>3. LastStatus'
    <3> SUFFICES ASSUME NEW o \in OrderIds, NEW i \in 1..Len(queue'),
                        Names(queue'[i], o),
                        \A j \in 1..Len(queue') : j > i => ~ Names(queue'[j], o)
                 PROVE  queue'[i].status = exStatus'[o]
      BY DEF LastStatus
    <3>1. i + 1 \in 1..Len(queue) /\ queue'[i] = queue[i + 1]
      BY <2>2
    <3>2. ASSUME NEW j \in 1..Len(queue), j > i + 1
          PROVE  ~ Names(queue[j], o)
      <4>1. j - 1 \in 1..Len(queue') /\ j - 1 > i /\ queue'[j - 1] = queue[j]
        BY <2>2, <3>2
      <4> QED
        BY <4>1
    <3> QED
      BY <2>1, <3>1, <3>2 DEF LastStatus
  <2>4. ASSUME Rebuilt', NEW o \in OrderIds, Unnamed(o)'
        PROVE  \/ Unnamed(o) /\ orders'[o] = orders[o]
               \/ orders'[o] = ParseStatus(exStatus'[o])
    <3>1. ASSUME NEW j \in 1..Len(queue), j > 1 PROVE ~ Names(queue[j], o)
      <4>1. j - 1 \in 1..Len(queue') /\ queue'[j - 1] = queue[j]
        BY <2>2, <3>1
      <4> QED
        BY <2>4, <4>1 DEF Unnamed
    <3>2. CASE Names(queue[1], o)
      <4>1. queue[1].status = exStatus[o]
        BY <2>1, <2>2, <3>1, <3>2 DEF LastStatus
      <4> QED
        BY <2>1, <2>2, <3>2, <4>1 DEF UpsertedOrders, Names, TypeOK
    <3>3. CASE ~ Names(queue[1], o)
      <4>1. Unnamed(o)
        BY <2>2, <3>1, <3>3 DEF Unnamed
      <4>2. orders'[o] = orders[o]
        BY <2>1, <2>2, <3>3 DEF UpsertedOrders, Names, TypeOK
      <4> QED
        BY <4>1, <4>2
    <3> QED
      BY <3>2, <3>3
  <2>5. ASSUME Rebuilt' PROVE Rebuilt
    BY <2>1, <2>5 DEF Rebuilt
  <2>6. OrdersTrue'
    BY <2>1, <2>4, <2>5 DEF OrdersTrue, SameOpenness, OrderIds
  <2>7. StopsTrue'
    BY <2>1, <2>4, <2>5 DEF StopsTrue, StopReal, OrderIds
  <2> QED
    BY <2>3, <2>6, <2>7
<1>12. CASE HandleMessageNameError
  BY <1>12 DEF HandleMessageNameError
<1>13. CASE UNCHANGED vars
  BY <1>13 DEF vars, exchange, socket, control, account
<1> QED
  BY <1>1, <1>2, <1>3, <1>4, <1>5, <1>6, <1>7, <1>8, <1>9, <1>10, <1>11, <1>12, <1>13
  DEF Next, Exchange, Gateway, Rebuild, Receive

-----------------------------------------------------------------------------
(* The theorems *)

LEMMA ViewInvariant == Spec => []ViewInv
<1>1. Init => ViewInv
  BY DEF Init, ViewInv, LastWord, LastStatus, SnapshotTrue, ViewTrue, OrdersTrue,
         StopsTrue, Rebuilt
<1>2. TypeOK /\ ViewInv /\ [Next]_vars => ViewInv'
  BY RowsStep, OrdersStep DEF ViewInv
<1> QED
  BY <1>1, <1>2, TypeCorrect, PTL DEF Spec

\* With nothing left in the queue the invariant is the three promises of a
\* settled view.
LEMMA SettledView ==
  ASSUME ViewInv
  PROVE  ValuesConverge /\ OrdersConverge /\ NoPhantomStop
<1> SUFFICES ASSUME Settled PROVE ValuesConverge /\ OrdersConverge /\ NoPhantomStop
  BY DEF ValuesConverge, OrdersConverge, NoPhantomStop
<1>1. Rebuilt /\ Len(queue) = 0
  BY DEF Settled, Rebuilt
<1>2. (\A r \in Rows : Untold(r)) /\ (\A o \in OrderIds : Unnamed(o))
  BY <1>1 DEF Untold, Unnamed
<1> QED
  BY <1>1, <1>2
  DEF ViewInv, ViewTrue, OrdersTrue, StopsTrue, SameOpenness, StopReal,
      ValuesConverge, OrdersConverge, NoPhantomStop, OrderIds

\* A settled view has the exchange's quantities and balances: absolute rows,
\* FIFO delivery and a socket opened before the reads make the unsynchronised
\* snapshot converge (reconcile, apply).
THEOREM ValuesConvergeAlways == Spec => []ValuesConverge
  BY ViewInvariant, SettledView, PTL

\* A settled view has the exchange's set of open regular orders.
THEOREM OrdersConvergeAlways == Spec => []OrdersConverge
  BY ViewInvariant, SettledView, PTL

\* A settled view never counts on a stop that is no longer active.
THEOREM NoPhantomStopAlways == Spec => []NoPhantomStop
  BY ViewInvariant, SettledView, PTL

\* The kill switch is on once a counter has reached its threshold: nothing in
\* the gateway ever turns it off again.
THEOREM ThresholdHaltsAlways == Spec => []ThresholdHalts
<1> USE DEF ThresholdHalts, killSwitchActive
<1>1. Init => ThresholdHalts
  BY DEF Init
<1>2. TypeOK /\ ThresholdHalts /\ [Next]_vars => ThresholdHalts'
  <2> SUFFICES ASSUME TypeOK, ThresholdHalts, [Next]_vars PROVE ThresholdHalts'
    OBVIOUS
  <2>1. CASE ReadOrdersAndReplace
    <3>1. CASE HasExistingState /\ IsMismatch(snapshot, OpenOrders)
      BY <2>1, <3>1 DEF ReadOrdersAndReplace, TypeOK
    <3>2. CASE ~ (HasExistingState /\ IsMismatch(snapshot, OpenOrders))
      BY <2>1, <3>2 DEF ReadOrdersAndReplace
    <3> QED
      BY <3>1, <3>2
  <2>2. CASE RebuildFails
    BY <2>2 DEF RebuildFails, TypeOK
  <2>3. CASE HandleMessage
    <3>1. \/ killSwitchReason' = killSwitchReason
          \/ killSwitchReason' \in {"missing stop", "stop failed"}
      BY <2>3 DEF HandleMessage, GuardianReason
    <3> QED
      BY <2>3, <3>1 DEF HandleMessage, ApplyEvent
  <2>4. CASE UNCHANGED account
    BY <2>4 DEF account
  <2>5. CASE HandleMessageNameError
    BY <2>5 DEF HandleMessageNameError, ApplyEvent
  <2> QED
    BY <2>1, <2>2, <2>3, <2>4, <2>5
    DEF Next, Exchange, AccountChanges, OrderChanges, Publish, PriceMoves,
        LoseConnection, Gateway, Rebuild, Receive, Connect, ReadAccount, ReadRisk,
        ConnectFails, WakeUp, EndOfStream, vars
<1> QED
  BY <1>1, <1>2, TypeCorrect, PTL DEF Spec

\* The message that settles the view of an account with a naked position turns
\* the kill switch on (find_unprotected_positions).
THEOREM NakedPositionHaltsAlways == Spec => NakedPositionHalts
<1>1. TypeOK /\ ViewInv' /\ [Next]_vars
      => (count' # count /\ Settled' /\ NakedOnExchange' => killSwitchActive')
  <2> SUFFICES ASSUME TypeOK, ViewInv', [Next]_vars, count' # count, Settled', NakedOnExchange'
               PROVE  killSwitchActive'
    OBVIOUS
  <2>1. HandleMessage
    BY DEF Next, Exchange, AccountChanges, OrderChanges, Publish, PriceMoves,
           LoseConnection, Gateway, Rebuild, Receive, Connect, ReadAccount, ReadRisk,
           ReadOrdersAndReplace, RebuildFails, ConnectFails, WakeUp, EndOfStream,
           HandleMessageNameError, vars, control
  <2>2. ValuesConverge' /\ NoPhantomStop'
    BY SettledView, PTL
  <2>3. PICK p \in Positions :
          /\ exValue'[p] # Zero
          /\ \A a \in Algos : StopFor[a] = p =>
                ParseStatus(exStatus'[a]) \notin ActiveStop
    BY DEF NakedOnExchange
  <2>4. IsOpen(balancesAndPositions', p)
    BY <2>2, <2>3 DEF ValuesConverge, IsOpen, Rows
  <2>5. ~ Protected(orders', p)
    BY <2>2, <2>3 DEF NoPhantomStop, Protected
  <2>6. FindUnprotected(balancesAndPositions', orders') # {}
    BY <2>4, <2>5 DEF FindUnprotected
  <2> QED
    BY <2>1, <2>6 DEF HandleMessage, GuardianReason, killSwitchActive
<1> QED
  BY <1>1, TypeCorrect, ViewInvariant, PTL DEF Spec, NakedPositionHalts

-----------------------------------------------------------------------------
(* The view implements AccountMirror *)

\* Values of row r in the messages of q: what Told says of the queue.
ToldIn(q, r) ==
  { q[i].rows[r] : i \in { k \in DOMAIN q : /\ q[k].type = "ACCOUNT_UPDATE"
                                         /\ r \in DOMAIN q[k].rows } }

LEMMA ToldMembers ==
  ASSUME NEW q \in Seq(Messages), NEW r, NEW v
  PROVE  v \in ToldIn(q, r)
         <=> \E i \in 1..Len(q) : Speaks(q[i], r) /\ v = q[i].rows[r]
<1>1. DOMAIN q = 1..Len(q)
  OBVIOUS
<1> QED
  BY <1>1, Zenon DEF ToldIn, Speaks

\* Nothing is told of a row exactly when no message speaks of it.
LEMMA ToldNothing ==
  ASSUME NEW q \in Seq(Messages), NEW r, ToldIn(q, r) = {}
  PROVE  \A i \in 1..Len(q) : ~ Speaks(q[i], r)
  BY ToldMembers, Zenon

LEMMA ToldEmpty ==
  ASSUME NEW r
  PROVE  ToldIn(<<>>, r) = {}
  BY DEF ToldIn

\* A new message tells its own value besides the old ones.
LEMMA ToldAppend ==
  ASSUME NEW q \in Seq(Messages), NEW m \in Messages, NEW r
  PROVE  /\ ~ Speaks(m, r) => ToldIn(Append(q, m), r) = ToldIn(q, r)
         /\ Speaks(m, r) => ToldIn(Append(q, m), r) = ToldIn(q, r) \cup {m.rows[r]}
<1> DEFINE p == Append(q, m)
<1>1. p \in Seq(Messages)
  OBVIOUS
<1>2. /\ Len(q) \in Nat /\ Len(p) = Len(q) + 1 /\ p[Len(q) + 1] = m
      /\ \A i \in 1..Len(q) : p[i] = q[i]
  BY AppendElements
<1> HIDE DEF p
<1>3. 1..Len(p) = 1..Len(q) \cup {Len(q) + 1}
  BY <1>2
<1>4. ASSUME NEW v
      PROVE  v \in ToldIn(p, r)
             <=> v \in ToldIn(q, r) \/ (Speaks(m, r) /\ v = m.rows[r])
  <2>1. v \in ToldIn(p, r)
        <=> \E i \in 1..Len(p) : Speaks(p[i], r) /\ v = p[i].rows[r]
    BY <1>1, ToldMembers
  <2>2. v \in ToldIn(q, r)
        <=> \E i \in 1..Len(q) : Speaks(q[i], r) /\ v = q[i].rows[r]
    BY ToldMembers
  <2> QED
    BY <1>2, <1>3, <2>1, <2>2, Zenon
<1> QED
  BY <1>4 DEF p

\* A shorter queue tells no more, and what its first message said was told.
LEMMA ToldTail ==
  ASSUME NEW q \in Seq(Messages), q # <<>>, NEW r
  PROVE  /\ ToldIn(Tail(q), r) \subseteq ToldIn(q, r)
         /\ Speaks(Head(q), r) => Head(q).rows[r] \in ToldIn(q, r)
<1> DEFINE p == Tail(q)
<1>1. p \in Seq(Messages)
  OBVIOUS
<1>2. /\ Len(p) = Len(q) - 1 /\ Len(q) \in Nat \ {0} /\ Head(q) = q[1]
      /\ \A i \in 1..Len(q) - 1 : p[i] = q[i + 1]
  BY TailElements
<1> HIDE DEF p
<1>3. \A i \in 1..Len(p) : i + 1 \in 1..Len(q) /\ p[i] = q[i + 1]
  BY <1>2
<1>4. ToldIn(p, r) \subseteq ToldIn(q, r)
  <2> SUFFICES ASSUME NEW v \in ToldIn(p, r) PROVE v \in ToldIn(q, r)
    OBVIOUS
  <2>1. PICK i \in 1..Len(p) : Speaks(p[i], r) /\ v = p[i].rows[r]
    BY <1>1, ToldMembers
  <2>2. i + 1 \in 1..Len(q) /\ Speaks(q[i + 1], r) /\ v = q[i + 1].rows[r]
    BY <1>3, <2>1
  <2> QED
    BY <2>2, ToldMembers
<1>5. 1 \in 1..Len(q)
  BY <1>2
<1>6. Speaks(q[1], r) => q[1].rows[r] \in ToldIn(q, r)
  BY <1>5, ToldMembers
<1> QED
  BY <1>2, <1>4, <1>6 DEF p

LEMMA ToldPrefix ==
  ASSUME NEW q \in Seq(Messages), NEW n \in 0..Len(q), NEW r
  PROVE  ToldIn(SubSeq(q, 1, n), r) \subseteq ToldIn(q, r)
<1> DEFINE p == SubSeq(q, 1, n)
<1>1. p \in Seq(Messages)
  OBVIOUS
<1>2. \A i \in 1..Len(p) : i \in 1..Len(q) /\ p[i] = q[i]
  OBVIOUS
<1> HIDE DEF p
<1> SUFFICES ASSUME NEW v \in ToldIn(p, r) PROVE v \in ToldIn(q, r)
  BY DEF p
<1>3. PICK i \in 1..Len(p) : Speaks(p[i], r) /\ v = p[i].rows[r]
  BY <1>1, ToldMembers
<1>4. i \in 1..Len(q) /\ Speaks(q[i], r) /\ v = q[i].rows[r]
  BY <1>2, <1>3
<1> QED
  BY <1>4, ToldMembers

-----------------------------------------------------------------------------
(* The news of AccountMirror, before and after a step *)

LEMMA ToldNow ==
  /\ \A r \in Rows : Told(r) = ToldIn(queue, r)
  /\ \A r \in Rows : Told(r)' = ToldIn(queue', r)
  BY DEF Told, ToldIn

\* A step that brings no message and leaves the rebuild where it was, or ends it.
LEMMA HearStep ==
  ASSUME TypeOK, TypeOK', ViewInv', exValue' = exValue,
         Sound' => Sound,
         Sound' => pc' = "stream",
         \A r \in Rows : ToldIn(queue', r) \subseteq ToldIn(queue, r),
         \A r \in Rows : Brought(r)' \subseteq Brought(r),
         \A r \in Rows : balancesAndPositions'[r].value
           \in {balancesAndPositions[r].value} \cup ToldIn(queue, r) \cup Brought(r)
  PROVE  Mirror!Hear
<1>1. ASSUME NEW r \in Rows, Sound', ToldIn(queue', r) = {}
      PROVE  balancesAndPositions'[r].value = exValue[r]
  <2>1. Rebuilt'
    BY <1>1 DEF Sound, Rebuilt, Reading
  <2>2. \A i \in 1..Len(queue') : ~ Speaks(queue'[i], r)
    BY <1>1, ToldNothing DEF TypeOK
  <2>3. Untold(r)'
    BY <2>2 DEF Untold
  <2> QED
    BY <2>1, <2>3 DEF ViewInv, ViewTrue
<1>2. ASSUME NEW r \in Rows
      PROVE  Told(r)' \cup Brought(r)' \subseteq Told(r) \cup Brought(r)
  BY ToldNow
<1>3. ASSUME NEW r \in Rows, Sound', Told(r)' \cup Brought(r)' = {}
      PROVE  balancesAndPositions'[r].value = exValue[r]
  BY <1>1, <1>3, ToldNow
<1>4. ASSUME NEW r \in Rows
      PROVE  balancesAndPositions'[r].value
               \in {balancesAndPositions[r].value} \cup (Told(r) \cup Brought(r))
  BY ToldNow
<1> QED
  BY <1>2, <1>3, <1>4 DEF Mirror!Hear

\* A message of the exchange about the rows it speaks of.
LEMMA ChangeStep ==
  ASSUME TypeOK, TypeOK',
         NEW m \in Messages, Publish(m),
         \A r \in Rows : Speaks(m, r) => m.rows[r] = exValue'[r],
         \A r \in Rows : ~ Speaks(m, r) => exValue'[r] = exValue[r]
  PROVE  Mirror!Change
<1>1. /\ balancesAndPositions' = balancesAndPositions
      /\ pc' = pc /\ snapshot' = snapshot /\ link' = link
      /\ reconcileFailureCount' = reconcileFailureCount
      /\ queue' = IF link = "up" THEN Append(queue, m) ELSE queue
  BY DEF Publish, account
<1>2. Sound' = Sound /\ (Sound => link = "up")
  BY <1>1 DEF Sound
<1>3. ASSUME NEW r \in Rows
      PROVE  /\ Told(r)' \subseteq Told(r) \cup {exValue'[r]}
             /\ Told(r) \subseteq Told(r)'
             /\ exValue'[r] # exValue[r] /\ Sound => exValue'[r] \in Told(r)'
  <2>1. CASE link = "up" /\ Speaks(m, r)
    <3>1. ToldIn(queue', r) = ToldIn(queue, r) \cup {exValue'[r]}
      BY <1>1, <2>1, ToldAppend DEF TypeOK
    <3> QED
      BY <3>1, ToldNow
  <2>2. CASE link = "up" /\ ~ Speaks(m, r)
    <3>1. ToldIn(queue', r) = ToldIn(queue, r)
      BY <1>1, <2>2, ToldAppend DEF TypeOK
    <3> QED
      BY <2>2, <3>1, ToldNow
  <2>3. CASE link # "up"
    BY <1>1, <1>2, <2>3, ToldNow
  <2> QED
    BY <2>1, <2>2, <2>3
<1>4. ASSUME NEW r \in Rows
      PROVE  \/ Brought(r)' = Brought(r)
             \/ Brought(r) = {exValue[r]} /\ Brought(r)' = {exValue'[r]}
  <2>1. CASE pc = "read_account"
    BY <1>1, <2>1 DEF Brought
  <2>2. CASE pc # "read_account"
    BY <1>1, <2>2 DEF Brought
  <2> QED
    BY <2>1, <2>2
<1>5. ASSUME NEW r \in Rows, exValue'[r] = exValue[r]
      PROVE  Told(r)' \cup Brought(r)'
               \in {Told(r) \cup Brought(r), (Told(r) \cup Brought(r)) \cup {exValue[r]}}
  <2>1. Brought(r)' = Brought(r)
    BY <1>4, <1>5
  <2>2. Told(r)' = Told(r) \/ Told(r)' = Told(r) \cup {exValue[r]}
    BY <1>3, <1>5
  <2> QED
    BY <2>1, <2>2
<1>6. ASSUME NEW r \in Rows, exValue'[r] # exValue[r]
      PROVE  /\ Told(r)' \cup Brought(r)'
                  \subseteq (Told(r) \cup Brought(r)) \cup {exValue'[r]}
             /\ Sound => exValue'[r] \in Told(r)' \cup Brought(r)'
  BY <1>3, <1>4, <1>6
<1>7. exValue' \in [Rows -> Values]
  BY DEF TypeOK
<1> QED
  BY <1>1, <1>2, <1>5, <1>6, <1>7 DEF Mirror!Change

-----------------------------------------------------------------------------
(* The refinement, one step of the gateway at a time *)

LEMMA MirrorInit == Init => Mirror!Init
<1> SUFFICES ASSUME Init PROVE Mirror!Init
  OBVIOUS
<1>1. \A r \in Rows : Told(r) \cup Brought(r) = {}
  BY ToldEmpty, ToldNow DEF Init, Brought
<1>2. ~ Sound
  BY DEF Init, Sound
<1>3. \A r \in Rows : balancesAndPositions[r].value = Zero
  BY DEF Init, Nothing, NoRow, Row
<1> QED
  BY <1>1, <1>2, <1>3 DEF Init, Mirror!Init

\* The abstract variables stay: the step is a stutter.
LEMMA StutterStep ==
  ASSUME exValue' = exValue, balancesAndPositions' = balancesAndPositions,
         Sound' = Sound,
         \A r \in Rows : Told(r)' \cup Brought(r)' = Told(r) \cup Brought(r)
  PROVE  UNCHANGED Mirror!mirror
  BY DEF Mirror!mirror

LEMMA MirrorStep ==
  ASSUME TypeOK, TypeOK', ViewInv, ViewInv', [Next]_vars
  PROVE  [Mirror!Next]_(Mirror!mirror)
<1> USE DEF Mirror!Next
<1>1. ASSUME NEW S \in SUBSET Rows \ {{}}, NEW rows \in [S -> Values],
             AccountChanges(rows)
      PROVE  Mirror!Change
  <2> DEFINE m == [type |-> "ACCOUNT_UPDATE", rows |-> rows]
  <2>1. m \in Messages
    BY AccountMessage
  <2>2. Publish(m)
    BY <1>1 DEF AccountChanges
  <2>3. \A r \in Rows : Speaks(m, r) <=> r \in DOMAIN rows
    BY DEF Speaks
  <2>4. \A r \in Rows : exValue'[r] = IF r \in DOMAIN rows THEN rows[r] ELSE exValue[r]
    BY <1>1 DEF AccountChanges
  <2>5. m.rows = rows
    OBVIOUS
  <2> HIDE DEF m
  <2> QED
    BY <2>1, <2>2, <2>3, <2>4, <2>5, ChangeStep
<1>2. ASSUME NEW o \in OrderIds, NEW status \in Statuses, OrderChanges(o, status)
      PROVE  Mirror!Change
  <2> DEFINE m == [type |-> IF o \in Algos THEN "ALGO_UPDATE"
                                           ELSE "ORDER_TRADE_UPDATE",
                   order |-> o, status |-> status]
  <2>1. m \in Messages
    BY OrderMessage
  <2>2. Publish(m) /\ exValue' = exValue
    BY <1>2 DEF OrderChanges
  <2>3. \A r \in Rows : ~ Speaks(m, r)
    BY DEF Speaks
  <2> HIDE DEF m
  <2> QED
    BY <2>1, <2>2, <2>3, ChangeStep
<1>3. CASE PriceMoves
  BY <1>3, StutterStep
  DEF PriceMoves, socket, account, Sound, Told, Brought
<1>4. CASE LoseConnection
  <2>1. PICK n \in 0..Len(queue) : queue' = SubSeq(queue, 1, n)
    BY <1>4 DEF LoseConnection
  <2>2. /\ pc' = pc /\ snapshot' = snapshot /\ exValue' = exValue /\ link' = "lost"
        /\ balancesAndPositions' = balancesAndPositions
    BY <1>4 DEF LoseConnection, exchange, account
  <2>3. ~ Sound'
    BY <2>2 DEF Sound
  <2>4. \A r \in Rows : ToldIn(queue', r) \subseteq ToldIn(queue, r)
    BY <2>1, ToldPrefix DEF TypeOK
  <2>5. \A r \in Rows : Brought(r)' = Brought(r)
    BY <2>2 DEF Brought
  <2> QED
    BY <2>2, <2>3, <2>4, <2>5, HearStep
<1>5. CASE Connect
  <2>1. /\ pc = "down" /\ pc' = "read_account" /\ link' = "up" /\ queue' = <<>>
        /\ exValue' = exValue /\ balancesAndPositions' = balancesAndPositions
    BY <1>5 DEF Connect, exchange, account
  <2>2. ~ Sound /\ Sound'
    BY <2>1 DEF Sound, Reading
  <2>3. \A r \in Rows : Told(r)' \cup Brought(r)' = {exValue[r]}
    <3>1. \A r \in Rows : Told(r)' = {}
      BY <2>1, ToldNow, ToldEmpty
    <3>2. \A r \in Rows : Brought(r)' = {exValue[r]}
      BY <2>1 DEF Brought
    <3> QED
      BY <3>1, <3>2
  <2>4. Mirror!Attach
    BY <2>1, <2>2, <2>3 DEF Mirror!Attach
  <2> QED
    BY <2>4
<1>6. CASE ReadAccount
  <2>1. /\ pc = "read_account" /\ pc' = "read_risk" /\ queue' = queue /\ link' = link
        /\ exValue' = exValue /\ balancesAndPositions' = balancesAndPositions
        /\ \A r \in Rows : snapshot'[r].value = exValue[r]
    BY <1>6 DEF ReadAccount, exchange, socket, account, Listed, Row, NoRow
  <2>2. Sound' = Sound
    BY <2>1 DEF Sound, Reading
  <2>3. \A r \in Rows : Brought(r)' = Brought(r)
    BY <2>1 DEF Brought
  <2>4. \A r \in Rows : Told(r)' = Told(r)
    BY <2>1, ToldNow
  <2> QED
    BY <2>1, <2>2, <2>3, <2>4, StutterStep
<1>7. CASE ReadRisk
  <2>1. /\ pc = "read_risk" /\ pc' = "read_orders" /\ queue' = queue /\ link' = link
        /\ exValue' = exValue /\ balancesAndPositions' = balancesAndPositions
    BY <1>7 DEF ReadRisk, exchange, socket, account
  <2>2. \A r \in Rows : snapshot'[r].value = snapshot[r].value
    BY <1>7 DEF ReadRisk, Row
  <2>3. Sound' = Sound
    BY <2>1 DEF Sound, Reading
  <2>4. \A r \in Rows : Brought(r)' = Brought(r)
    BY <2>1, <2>2 DEF Brought
  <2>5. \A r \in Rows : Told(r)' = Told(r)
    BY <2>1, ToldNow
  <2> QED
    BY <2>1, <2>3, <2>4, <2>5, StutterStep
<1>8. CASE ReadOrdersAndReplace
  <2>1. /\ pc = "read_orders" /\ pc' = "stream" /\ queue' = queue /\ link' = link
        /\ exValue' = exValue /\ balancesAndPositions' = snapshot
    BY <1>8 DEF ReadOrdersAndReplace, exchange, socket
  <2>2. \A r \in Rows : Brought(r) = {snapshot[r].value} /\ Brought(r)' = {}
    BY <2>1 DEF Brought
  <2>3. Sound' => Sound
    BY <2>1 DEF Sound, Reading
  <2> QED
    BY <2>1, <2>2, <2>3, HearStep
<1>9. CASE RebuildFails
  <2>1. /\ pc \in Reading /\ pc' = "stream" /\ queue' = queue
        /\ exValue' = exValue /\ balancesAndPositions' = balancesAndPositions
    BY <1>9 DEF RebuildFails, exchange, socket
  <2>2. reconcileFailureCount' # 0
    BY <1>9 DEF RebuildFails, TypeOK
  <2>3. ~ Sound'
    BY <2>1, <2>2 DEF Sound, Reading
  <2>4. \A r \in Rows : Brought(r)' = {}
    BY <2>1 DEF Brought
  <2> QED
    BY <2>1, <2>3, <2>4, HearStep
<1>10. CASE ConnectFails \/ WakeUp \/ EndOfStream
  <2>1. /\ pc \in {"down", "sleeping"} \/ (pc = "stream" /\ link = "lost")
        /\ pc' \in {"down", "sleeping"} /\ link' = link
        /\ queue' = queue /\ exValue' = exValue
        /\ balancesAndPositions' = balancesAndPositions
    BY <1>10 DEF ConnectFails, WakeUp, EndOfStream, exchange, socket, account
  <2>2. Sound' = Sound
    BY <2>1 DEF Sound, Reading
  <2>3. \A r \in Rows : Brought(r)' = Brought(r)
    BY <2>1 DEF Brought
  <2>4. \A r \in Rows : Told(r)' = Told(r)
    BY <2>1, ToldNow
  <2> QED
    BY <2>1, <2>2, <2>3, <2>4, StutterStep
<1>11. ASSUME Receive PROVE Mirror!Hear
  <2>1. /\ pc = "stream" /\ queue # <<>> /\ exValue' = exValue
        /\ pc' \in {"stream"} \cup Stopped
        /\ balancesAndPositions' = Upserted(Head(queue))
    BY <1>11 DEF Receive, HandleMessage, HandleMessageNameError, ApplyEvent,
                 exchange, Stopped
  <2>2. \/ queue' = <<>> /\ link' = "lost"
        \/ /\ queue' = Tail(queue) /\ link' = link /\ pc' = pc
           /\ reconcileFailureCount' = reconcileFailureCount
    BY <1>11 DEF Receive, HandleMessage, HandleMessageNameError, ApplyEvent
  <2>3. Sound' => Sound
    BY <2>1, <2>2 DEF Sound
  <2>4. Sound' => pc' = "stream"
    BY <2>1 DEF Sound, Reading, Stopped
  <2>5. \A r \in Rows : ToldIn(queue', r) \subseteq ToldIn(queue, r)
    <3>1. CASE queue' = <<>>
      BY <3>1, ToldEmpty
    <3>2. CASE queue' = Tail(queue)
      BY <2>1, <3>2, ToldTail DEF TypeOK
    <3> QED
      BY <2>2, <3>1, <3>2
  <2>6. \A r \in Rows : Brought(r)' = {}
    BY <2>1 DEF Brought, Stopped
  <2>7. ASSUME NEW r \in Rows
        PROVE  balancesAndPositions'[r].value
                 \in {balancesAndPositions[r].value} \cup ToldIn(queue, r)
    <3>1. CASE Speaks(Head(queue), r)
      <4>1. Head(queue).rows[r] \in ToldIn(queue, r)
        BY <2>1, <3>1, ToldTail DEF TypeOK
      <4> QED
        BY <2>1, <3>1, <4>1 DEF Upserted, Speaks, Row
    <3>2. CASE ~ Speaks(Head(queue), r)
      BY <2>1, <3>2 DEF Upserted, Speaks
    <3> QED
      BY <3>1, <3>2
  <2> QED
    BY <2>1, <2>3, <2>4, <2>5, <2>6, <2>7, HearStep
<1>12. CASE UNCHANGED vars
  BY <1>12, StutterStep
  DEF vars, exchange, socket, control, account, Sound, Told, Brought
<1> QED
  BY <1>1, <1>2, <1>3, <1>4, <1>5, <1>6, <1>7, <1>8, <1>9, <1>10, <1>11, <1>12
  DEF Next, Exchange, Gateway, Rebuild

\* Whatever the order of reads, messages and outages, a row of the view changes only
\* to a value the account has had and the view had not heard out, and an outage, a
\* running or a failed rebuild leaves it as it was (reconcile, apply_event).
THEOREM MirrorImplemented == Spec => ImplementsMirror
  BY MirrorInit, MirrorStep, TypeCorrect, ViewInvariant, PTL
  DEF Spec, ImplementsMirror, Mirror!Spec

-----------------------------------------------------------------------------
(* The key of the private stream.  A sleeping loop has aged the key by at most
   the ticks it has slept, a calling one by the whole interval and the ticks of
   the call, on top of the latency of the call that renewed it. *)

AgeBound ==
  /\ main = "streaming" => task \in {"sleeping", "calling", "raised"}
  /\ main = "streaming" /\ task = "sleeping" => keyAge + timer <= Interval + MaxLatency
  /\ main = "streaming" /\ task = "calling" => keyAge <= Interval + MaxLatency + latency

KeyInv == SessionTypeOK /\ AgeBound

LEMMA KeyInvInit == SessionInit => KeyInv
<1> SUFFICES ASSUME SessionInit PROVE KeyInv
  OBVIOUS
<1>1. 0 \in 0..MaxTime /\ 0 \in 0..Interval /\ 0 \in 0..MaxLatency
  BY SessionAssumption
<1>2. SessionTypeOK
  BY <1>1 DEF SessionInit, SessionTypeOK
<1>3. AgeBound
  BY DEF SessionInit, AgeBound
<1> QED
  BY <1>2, <1>3 DEF KeyInv

LEMMA KeyInvStep == KeyInv /\ [SessionNext]_sessionVars => KeyInv'
<1> SUFFICES ASSUME KeyInv, [SessionNext]_sessionVars PROVE KeyInv'
  OBVIOUS
<1> USE SessionAssumption DEF KeyInv, SessionTypeOK, AgeBound
<1>1. CASE Start
  BY <1>1 DEF Start
<1>2. CASE StartFails
  BY <1>2 DEF StartFails
<1>3. CASE Tick
  <2>1. CASE task = "sleeping" /\ timer > 0 /\ timer' = timer - 1 /\ UNCHANGED latency
    BY <1>3, <2>1 DEF Tick
  <2>2. CASE task = "calling" /\ latency < MaxLatency /\ latency' = latency + 1
             /\ UNCHANGED timer
    BY <1>3, <2>2 DEF Tick
  <2>3. CASE task = "raised" /\ UNCHANGED <<timer, latency>>
    BY <1>3, <2>3 DEF Tick
  <2> QED
    BY <1>3, <2>1, <2>2, <2>3 DEF Tick
<1>4. CASE BeginKeepalive
  BY <1>4 DEF BeginKeepalive
<1>5. CASE KeepaliveSucceeds
  <2>1. PICK age \in 0..latency : keyAge' = age
    BY <1>5 DEF KeepaliveSucceeds
  <2> QED
    BY <1>5, <2>1 DEF KeepaliveSucceeds
<1>6. CASE KeepaliveFails
  BY <1>6 DEF KeepaliveFails
<1>7. CASE ConsumersEnd
  BY <1>7 DEF ConsumersEnd
<1>8. CASE Close
  BY <1>8 DEF Close
<1>9. CASE UNCHANGED sessionVars
  BY <1>9 DEF sessionVars
<1> QED
  BY <1>1, <1>2, <1>3, <1>4, <1>5, <1>6, <1>7, <1>8, <1>9 DEF SessionNext

\* Type correctness of the session.
THEOREM SessionTypeCorrect == SessionSpec => []SessionTypeOK
<1>1. KeyInv => SessionTypeOK
  BY DEF KeyInv
<1> QED
  BY KeyInvInit, KeyInvStep, <1>1, PTL DEF SessionSpec

\* The key of a streaming gateway expires only after its keepalive task has
\* raised: fifty of sixty minutes leave room for any call latency the HTTP
\* timeout allows.
THEOREM OnlyFailureLosesKeyAlways == SessionSpec => []OnlyFailureLosesKey
<1>1. KeyInv => OnlyFailureLosesKey
  BY SessionAssumption DEF KeyInv, SessionTypeOK, AgeBound, OnlyFailureLosesKey
<1> QED
  BY KeyInvInit, KeyInvStep, <1>1, PTL DEF SessionSpec

\* close() never hides a keepalive that has raised.
THEOREM FailureSurfacesAlways == SessionSpec => FailureSurfaces
<1>1. [SessionNext]_sessionVars => [task = "raised" => main' # "closed"]_sessionVars
  <2> SUFFICES ASSUME SessionNext, task = "raised" PROVE main' # "closed"
    OBVIOUS
  <2>1. CASE Start \/ StartFails
    BY <2>1 DEF Start, StartFails
  <2>2. CASE Tick \/ BeginKeepalive \/ KeepaliveSucceeds \/ KeepaliveFails
    BY <2>2 DEF Tick, BeginKeepalive, KeepaliveSucceeds, KeepaliveFails
  <2>3. CASE ConsumersEnd \/ Close
    BY <2>3 DEF ConsumersEnd, Close
  <2> QED
    BY <2>1, <2>2, <2>3 DEF SessionNext
<1> QED
  BY <1>1, PTL DEF SessionSpec, FailureSurfaces
=============================================================================
