--------------------------- MODULE LiveCycleProofs --------------------------
(***************************************************************************)
(* What the policy of a mode may approve, and on which reads of the        *)
(* account an approval outside paper mode rests.                           *)
(*                                                                         *)
(* The policy: each limit of the mode is the smaller of two, the sizing is *)
(* monotone in the limits, so what the mode approves the configured policy *)
(* approves in at least that size.                                         *)
(*                                                                         *)
(* The reads: the snapshot of a cycle does not change while its symbols    *)
(* are decided; a count of mismatches that is zero is one that the last    *)
(* comparison has left, and it found no difference or had no row to        *)
(* compare with.  A view without rows is the empty one, since a position   *)
(* that is flat has no values (View).                                      *)
(***************************************************************************)
EXTENDS LiveCycle, RiskKernelProofs, FiniteSetTheorems, SequenceTheorems

-----------------------------------------------------------------------------
(* The policy of the mode *)

LEMMA TightenedBound ==
  ASSUME NEW configured \in Nat, NEW limit \in Nat
  PROVE  /\ Tightened(configured, limit) \in Nat
         /\ Tightened(configured, limit) <= configured
         /\ LiveMicro => Tightened(configured, limit) <= limit
  BY DEF Tightened, Smaller

LEMMA TierBound ==
  ASSUME NEW s \in Symbols
  PROVE  /\ RuntimeTierNotional(s) \in Nat
         /\ RuntimeTierNotional(s) <= TierNotional[s]
         /\ RuntimeTierEnabled(s) => TierEnabled[s]
         /\ LiveMicro /\ RuntimeTierEnabled(s) =>
              /\ TierOf(s) = "core"
              /\ RuntimeTierNotional(s) <= LiveMicroMaxSymbolNotionalPct
<1>1. TierNotional[s] \in Nat /\ LiveMicroMaxSymbolNotionalPct \in Nat
  BY PolicyAssumption DEF LiveMicroMaxSymbolNotionalPct
<1>2. /\ RuntimeTierNotional(s) \in Nat
      /\ RuntimeTierNotional(s) <= TierNotional[s]
      /\ LiveMicro /\ TierOf(s) = "core" =>
           RuntimeTierNotional(s) <= LiveMicroMaxSymbolNotionalPct
  BY <1>1, TightenedBound DEF RuntimeTierNotional
<1> QED
  BY <1>2 DEF RuntimeTierEnabled

\* A symbol of the core tier is in the core list and in no other.
LEMMA CoreTier ==
  ASSUME NEW s, TierOf(s) = "core"
  PROVE  In(s, Core) /\ ~ In(s, Experimental)
  BY DEF TierOf

\* Rounding down is monotone.
LEMMA DivisionMonotone ==
  ASSUME NEW m \in Int, NEW n \in Int, m <= n
  PROVE  m \div 100 <= n \div 100
  OBVIOUS

LEMMA PercentMonotone ==
  ASSUME NEW p \in Nat, NEW q \in Nat, p <= q, NEW n \in Nat
  PROVE  Percent(p, n) <= Percent(q, n)
<1>1. p * n \in Int /\ q * n \in Int
  OBVIOUS
<1>2. p * n <= q * n
  BY ProductMonotone
<1> QED
  BY <1>1, <1>2, DivisionMonotone DEF Percent

LEMMA PercentTyped ==
  ASSUME NEW p \in Nat, NEW n \in Int
  PROVE  Percent(p, n) \in Int
  BY PercentBound

\* A share within a limit is an amount within the limit.
LEMMA PercentWithin ==
  ASSUME NEW p \in Nat, NEW limit \in Nat, p <= limit, NEW n \in Nat
  PROVE  Percent(p, n) \in Int /\ 100 * Percent(p, n) <= limit * n
<1> DEFINE amount == Percent(p, n)
<1>1. amount \in Int /\ 100 * amount <= p * n
  BY PercentBound
<1>2. p * n \in Int /\ limit * n \in Int
  OBVIOUS
<1>3. p * n <= limit * n
  BY ProductMonotone
<1> HIDE DEF amount
<1>4. 100 * amount <= limit * n
  BY <1>1, <1>2, <1>3
<1> QED
  BY <1>1, <1>4 DEF amount

LEMMA SmallerMonotone ==
  ASSUME NEW a \in Int, NEW b \in Int, NEW c \in Int, NEW d \in Int, a <= c, b <= d
  PROVE  Smaller(a, b) <= Smaller(c, d)
  BY DEF Smaller

LEMMA AtMostMonotone ==
  ASSUME NEW a \in Int, NEW b \in Int, a <= b, NEW cap \in Int \cup {NoCap}
  PROVE  AtMost(a, cap) <= AtMost(b, cap)
  BY DEF AtMost, Smaller

\* What of the kernel does not depend on the limits of the mode.
LEMMA SameKernel ==
  ASSUME NEW signal, NEW account
  PROVE  /\ Runtime!Halted(account) <=> Halted(account)
         /\ Runtime!SizeAtRisk(signal, account) = SizeAtRisk(signal, account)
         /\ \A s : Runtime!SymbolHeadroom(account, s) = SymbolHeadroom(account, s)
         /\ \A s : Runtime!ClusterHeadroom(account, s) = ClusterHeadroom(account, s)
         /\ Runtime!BracketRoom(signal) = BracketRoom(signal)
         /\ \A p, n : Runtime!Percent(p, n) = Percent(p, n)
         /\ \A m, n : Runtime!Smaller(m, n) = Smaller(m, n)
         /\ \A m, n : Runtime!AtMost(m, n) = AtMost(m, n)
<1>1. /\ \A p, n : Runtime!Percent(p, n) = Percent(p, n)
      /\ \A m, n : Runtime!Smaller(m, n) = Smaller(m, n)
      /\ \A m, n : Runtime!AtMost(m, n) = AtMost(m, n)
  BY DEF Runtime!Percent, Percent, Runtime!Smaller, Smaller, Runtime!AtMost, AtMost
<1>2. \A limit : Runtime!DrawdownReached(account, limit) <=> DrawdownReached(account, limit)
  BY DEF Runtime!DrawdownReached, DrawdownReached
<1>3. Runtime!Halted(account) <=> Halted(account)
  BY <1>2 DEF Runtime!Halted, Halted
<1>4. Runtime!SizeAtRisk(signal, account) = SizeAtRisk(signal, account)
  BY <1>1, <1>2 DEF Runtime!SizeAtRisk, SizeAtRisk, Runtime!TradeRiskBudget, TradeRiskBudget
<1>5. \A s : Runtime!SymbolHeadroom(account, s) = SymbolHeadroom(account, s)
  BY <1>1 DEF Runtime!SymbolHeadroom, SymbolHeadroom
<1>6. \A s : Runtime!ClusterHeadroom(account, s) = ClusterHeadroom(account, s)
  BY <1>1 DEF Runtime!ClusterHeadroom, ClusterHeadroom
<1>7. Runtime!BracketRoom(signal) = BracketRoom(signal)
  BY <1>1 DEF Runtime!BracketRoom, BracketRoom
<1> QED
  BY <1>1, <1>3, <1>4, <1>5, <1>6, <1>7

\* The limits of the kernel that runs, next to the configured ones.
LEMMA RuntimeLimits ==
  /\ Tightened(GrossSoft, LiveMicroGrossSoft) \in Nat
  /\ Tightened(GrossSoft, LiveMicroGrossSoft) <= GrossSoft
  /\ LiveMicro => Tightened(GrossSoft, LiveMicroGrossSoft) <= 20
  /\ Tightened(GrossHard, LiveMicroGrossHard) \in Nat
  /\ Tightened(GrossHard, LiveMicroGrossHard) <= GrossHard
  /\ Tightened(MaxOpenPositions, LiveMicroMaxOpenPositions) \in Nat
  /\ Tightened(MaxOpenPositions, LiveMicroMaxOpenPositions) <= MaxOpenPositions
  /\ LiveMicro => Tightened(MaxOpenPositions, LiveMicroMaxOpenPositions) <= 1
<1>1. GrossSoft \in Nat /\ GrossHard \in Nat /\ MaxOpenPositions \in Nat
  BY PolicyAssumption
<1> QED
  BY <1>1, TightenedBound DEF LiveMicroGrossSoft, LiveMicroGrossHard, LiveMicroMaxOpenPositions

\* The smallest of the caps as a function of the two that a mode changes.
CappedBy(tier, soft, signal, account) ==
  AtMost(AtMost(Smaller(Smaller(SizeAtRisk(signal, account),
                                Percent(tier, account.equity)),
                        Smaller(Percent(soft, account.equity) - account.gross,
                                SymbolHeadroom(account, signal.symbol))),
                ClusterHeadroom(account, signal.symbol)),
         BracketRoom(signal))

LEMMA NotionalsCapped ==
  ASSUME NEW signal \in SignalCandidate, NEW account \in AccountSnapshot
  PROVE  /\ ApprovedNotional(signal, account) =
              CappedBy(TierNotional[signal.symbol], GrossSoft, signal, account)
         /\ Runtime!ApprovedNotional(signal, account) =
              CappedBy(RuntimeTierNotional(signal.symbol),
                       Tightened(GrossSoft, LiveMicroGrossSoft), signal, account)
<1>1. signal.symbol \in Symbols
  BY DEF SignalCandidate
<1> QED
  BY <1>1, SameKernel DEF ApprovedNotional, GrossHeadroom, CappedBy,
     Runtime!ApprovedNotional, Runtime!GrossHeadroom

\* It is bounded by both and monotone in both.
LEMMA CappedMonotone ==
  ASSUME NEW signal \in SignalCandidate, NEW account \in AccountSnapshot,
         NEW tier \in Nat, NEW soft \in Nat, NEW widerTier \in Nat, NEW widerSoft \in Nat,
         tier <= widerTier, soft <= widerSoft
  PROVE  LET n == CappedBy(tier, soft, signal, account)
         IN  /\ n \in Int
             /\ n <= Percent(tier, account.equity)
             /\ n <= Percent(soft, account.equity) - account.gross
             /\ account.equity > 0 => n <= CappedBy(widerTier, widerSoft, signal, account)
<1> DEFINE e == account.equity
           g == account.gross
           size == SizeAtRisk(signal, account)
           symbol == SymbolHeadroom(account, signal.symbol)
           cluster == ClusterHeadroom(account, signal.symbol)
           bracket == BracketRoom(signal)
           t == Percent(tier, e)
           T == Percent(widerTier, e)
           f == Percent(soft, e)
           F == Percent(widerSoft, e)
           n1 == Smaller(size, t)
           N1 == Smaller(size, T)
           n2 == Smaller(f - g, symbol)
           N2 == Smaller(F - g, symbol)
           n3 == Smaller(n1, n2)
           N3 == Smaller(N1, N2)
           n4 == AtMost(n3, cluster)
           N4 == AtMost(N3, cluster)
           n == AtMost(n4, bracket)
           N == AtMost(N4, bracket)
<1>1. e \in Int /\ g \in Nat
  BY DEF AccountSnapshot
<1>2. /\ size \in Int /\ symbol \in Int
      /\ cluster \in Int \cup {NoCap} /\ bracket \in Int \cup {NoCap}
  BY CapTypes, SizeBound
<1>3. t \in Int /\ T \in Int /\ f \in Int /\ F \in Int
  <2> HIDE DEF e
  <2>1. t \in Int
    BY <1>1, PercentTyped
  <2>2. T \in Int
    BY <1>1, PercentTyped
  <2>3. f \in Int
    BY <1>1, PercentTyped
  <2>4. F \in Int
    BY <1>1, PercentTyped
  <2> QED
    BY <2>1, <2>2, <2>3, <2>4
<1>4. e > 0 => t <= T /\ f <= F
  <2> HIDE DEF e
  <2> QED
    BY <1>1, PercentMonotone
<1> HIDE DEF e, g, size, symbol, cluster, bracket, t, T, f, F
<1>5. /\ n1 \in Int /\ N1 \in Int /\ n1 <= t
      /\ e > 0 => n1 <= N1
  BY <1>2, <1>3, <1>4 DEF Smaller
<1>6. /\ n2 \in Int /\ N2 \in Int /\ n2 <= f - g
      /\ e > 0 => n2 <= N2
  <2>1. f - g \in Int /\ F - g \in Int /\ (e > 0 => f - g <= F - g)
    BY <1>1, <1>3, <1>4
  <2> QED
    BY <1>2, <2>1 DEF Smaller
<1> HIDE DEF n1, N1, n2, N2
<1>7. /\ n3 \in Int /\ N3 \in Int /\ n3 <= n1 /\ n3 <= n2
      /\ e > 0 => n3 <= N3
  BY <1>5, <1>6, SmallerBound, SmallerMonotone
<1> HIDE DEF n3, N3
<1>8. /\ n4 \in Int /\ N4 \in Int /\ n4 <= n3
      /\ e > 0 => n4 <= N4
  BY <1>2, <1>7, AtMostBound, AtMostMonotone
<1> HIDE DEF n4, N4
<1>9. /\ n \in Int /\ N \in Int /\ n <= n4
      /\ e > 0 => n <= N
  BY <1>2, <1>8, AtMostBound, AtMostMonotone
<1>10. /\ n = CappedBy(tier, soft, signal, account)
       /\ N = CappedBy(widerTier, widerSoft, signal, account)
  BY DEF CappedBy, n4, N4, n3, N3, n2, N2, n1, N1, e, g, size, symbol, cluster, bracket,
         t, T, f, F
<1> HIDE DEF n, N
<1>11. n <= t /\ n <= f - g
  BY <1>1, <1>3, <1>5, <1>6, <1>7, <1>8, <1>9
<1> QED
  BY <1>9, <1>10, <1>11 DEF t, f, e, g

\* The early returns of the kernel that runs, in the terms of the mode.
LEMMA RuntimeApproved ==
  ASSUME NEW signal \in SignalCandidate, NEW account \in AccountSnapshot,
         Runtime!Approved(signal, account)
  PROVE  /\ ~ Halted(account)
         /\ 100 * account.gross < Tightened(GrossHard, LiveMicroGrossHard) * account.equity
         /\ account.open < Tightened(MaxOpenPositions, LiveMicroMaxOpenPositions)
         /\ RuntimeTierEnabled(signal.symbol)
         /\ Runtime!ApprovedNotional(signal, account) > 0
         /\ account.equity > 0
<1> DEFINE hard == Tightened(GrossHard, LiveMicroGrossHard)
           slots == Tightened(MaxOpenPositions, LiveMicroMaxOpenPositions)
           n == Runtime!ApprovedNotional(signal, account)
           e == account.equity
<1>1. signal.symbol \in Symbols /\ e \in Int /\ account.gross \in Nat /\ account.open \in Nat
  BY DEF SignalCandidate, AccountSnapshot
<1>2. ~ Halted(account)
  BY SameKernel DEF Runtime!Approved
<1>3. ~ Runtime!Rejected(signal, account)
  BY DEF Runtime!Approved
<1> HIDE DEF n
<1>4. /\ ~ (100 * account.gross >= hard * e) /\ ~ (account.open >= slots)
      /\ [s \in Symbols |-> RuntimeTierEnabled(s)][signal.symbol]
      /\ ~ (n <= 0)
  BY <1>3 DEF Runtime!Rejected, n
<1>5. RuntimeTierEnabled(signal.symbol)
  BY <1>1, <1>4
<1>6. n \in Int
  BY <1>1, NotionalsCapped, CappedMonotone, RuntimeLimits, TierBound DEF n
<1>7. e > 0
  <2>1. hard \in Nat
    BY RuntimeLimits
  <2>2. hard * e \in Int /\ hard * e > 0
    <3> HIDE DEF hard, e
    <3> QED
      BY <1>1, <1>4, <2>1
  <2> HIDE DEF hard, e
  <2> QED
    BY <1>1, <2>1, <2>2
<1>8. 100 * account.gross < hard * e /\ account.open < slots
  <2>1. hard \in Nat /\ slots \in Nat
    BY RuntimeLimits
  <2> HIDE DEF hard, slots, e
  <2> QED
    BY <1>1, <1>4, <2>1
<1> QED
  BY <1>2, <1>4, <1>5, <1>6, <1>7, <1>8 DEF n

\* Deriving the policy of a mode only tightens: what is approved under it, the
\* configured policy approves too, in at least that size.
LEMMA ModeTightens ==
  ASSUME NEW signal \in SignalCandidate, NEW account \in AccountSnapshot,
         Runtime!Approved(signal, account)
  PROVE  /\ Approved(signal, account)
         /\ Runtime!ApprovedNotional(signal, account) <= ApprovedNotional(signal, account)
<1> DEFINE n == Runtime!ApprovedNotional(signal, account)
           N == ApprovedNotional(signal, account)
           e == account.equity
           hard == Tightened(GrossHard, LiveMicroGrossHard)
           slots == Tightened(MaxOpenPositions, LiveMicroMaxOpenPositions)
<1>1. /\ signal.symbol \in Symbols /\ e \in Int
      /\ account.gross \in Nat /\ account.open \in Nat
  BY DEF SignalCandidate, AccountSnapshot
<1>2. /\ ~ Halted(account) /\ 100 * account.gross < hard * e
      /\ account.open < slots /\ RuntimeTierEnabled(signal.symbol) /\ n > 0 /\ e > 0
  BY RuntimeApproved
<1>3. /\ hard \in Nat /\ hard <= GrossHard /\ slots \in Nat /\ slots <= MaxOpenPositions
      /\ GrossHard \in Nat /\ MaxOpenPositions \in Nat
  BY RuntimeLimits, PolicyAssumption
<1>4. n <= N /\ n \in Int /\ N \in Int
  <2> DEFINE tier == RuntimeTierNotional(signal.symbol)
             wider == TierNotional[signal.symbol]
             soft == Tightened(GrossSoft, LiveMicroGrossSoft)
  <2>1. GrossSoft \in Nat /\ wider \in Nat
    BY <1>1, PolicyAssumption
  <2>2. tier \in Nat /\ tier <= wider
    BY <1>1, TierBound
  <2>3. soft \in Nat /\ soft <= GrossSoft
    BY RuntimeLimits
  <2>4. n = CappedBy(tier, soft, signal, account) /\ N = CappedBy(wider, GrossSoft, signal, account)
    BY NotionalsCapped
  <2> HIDE DEF n, N, tier, wider, soft, e
  <2>5. e > 0 => n <= N
    BY <2>1, <2>2, <2>3, <2>4, CappedMonotone DEF e
  <2>6. n \in Int
    BY <2>1, <2>2, <2>3, <2>4, CappedMonotone
  <2>7. N \in Int
    <3>1. wider <= wider /\ GrossSoft <= GrossSoft
      BY <2>1
    <3> QED
      BY <2>1, <2>4, <3>1, CappedMonotone
  <2> QED
    BY <1>2, <2>5, <2>6, <2>7
<1> HIDE DEF n, N, hard, slots
<1>5. ~ (100 * account.gross >= GrossHard * e)
  <2>1. e * hard <= e * GrossHard
    <3> HIDE DEF e
    <3> QED
      BY <1>1, <1>2, <1>3, ProductMonotone
  <2> HIDE DEF e
  <2> QED
    BY <1>1, <1>2, <1>3, <2>1
<1>6. ~ (account.open >= MaxOpenPositions)
  BY <1>1, <1>2, <1>3
<1>7. TierEnabled[signal.symbol]
  BY <1>1, <1>2, TierBound
<1>8. ~ (N <= 0)
  BY <1>2, <1>4
<1> QED
  BY <1>2, <1>4, <1>5, <1>6, <1>7, <1>8 DEF Approved, Rejected, n, N

\* In live_micro an approval is for a core symbol, of an account without a position,
\* of at most five percent of the equity and with what is held at most twenty.
LEMMA LiveMicroApproval ==
  ASSUME LiveMicro, NEW signal \in SignalCandidate, NEW account \in AccountSnapshot,
         Runtime!Approved(signal, account)
  PROVE  /\ In(signal.symbol, Core) /\ ~ In(signal.symbol, Experimental)
         /\ account.open = 0
         /\ account.equity > 0
         /\ 100 * Runtime!ApprovedNotional(signal, account) <= 5 * account.equity
         /\ 100 * (Runtime!ApprovedNotional(signal, account) + account.gross)
              <= 20 * account.equity
<1> DEFINE n == Runtime!ApprovedNotional(signal, account)
           e == account.equity
           tier == RuntimeTierNotional(signal.symbol)
           soft == Tightened(GrossSoft, LiveMicroGrossSoft)
           slots == Tightened(MaxOpenPositions, LiveMicroMaxOpenPositions)
<1>1. /\ signal.symbol \in Symbols /\ e \in Int
      /\ account.gross \in Nat /\ account.open \in Nat
  BY DEF SignalCandidate, AccountSnapshot
<1>2. account.open < slots /\ RuntimeTierEnabled(signal.symbol) /\ e > 0
  BY RuntimeApproved
<1>3. In(signal.symbol, Core) /\ ~ In(signal.symbol, Experimental)
  BY <1>1, <1>2, TierBound, CoreTier
<1>4. slots \in Nat /\ slots <= 1 /\ soft \in Nat /\ soft <= 20 /\ tier \in Nat /\ tier <= 5
  BY <1>1, <1>2, RuntimeLimits, TierBound DEF LiveMicroMaxSymbolNotionalPct
<1>5. account.open = 0
  <2> HIDE DEF slots
  <2> QED
    BY <1>1, <1>2, <1>4
<1>6. n \in Int /\ n <= Percent(tier, e) /\ n <= Percent(soft, e) - account.gross
  BY <1>1, <1>4, NotionalsCapped, CappedMonotone
<1> HIDE DEF n, e, tier, soft
<1>7. e \in Nat
  BY <1>1, <1>2
<1>8. 100 * n <= 5 * e
  <2> DEFINE most == Percent(tier, e)
  <2>1. most \in Int /\ 100 * most <= 5 * e
    BY <1>4, <1>7, PercentWithin
  <2>2. n <= most
    BY <1>6
  <2> HIDE DEF most
  <2> QED
    BY <1>6, <1>7, <2>1, <2>2
<1>9. 100 * (n + account.gross) <= 20 * e
  <2> DEFINE most == Percent(soft, e)
             held == account.gross
  <2>1. most \in Int /\ 100 * most <= 20 * e
    BY <1>4, <1>7, PercentWithin
  <2>2. n <= most - held /\ held \in Nat
    BY <1>1, <1>6
  <2> HIDE DEF most, held
  <2>3. 100 * (n + held) <= 20 * e
    BY <1>6, <1>7, <2>1, <2>2
  <2> QED
    BY <2>3 DEF held
<1> QED
  BY <1>2, <1>3, <1>5, <1>8, <1>9 DEF n, e

-----------------------------------------------------------------------------
(* The cycle *)

LEMMA SnapshotKept ==
  ASSUME UNCHANGED <<view, mismatches, failures, killSwitch>>
  PROVE  Snapshot' = Snapshot
  BY DEF Snapshot

\* An approval of this cycle is one of the snapshot that the cycle still has.
Approving(a) ==
  /\ a.signal \in SignalCandidate
  /\ Runtime!Approved(a.signal, Snapshot)
  /\ a.notional = Runtime!ApprovedNotional(a.signal, Snapshot)

Compared == mismatches = 0 => previous \in {EmptyView, view}

LiveInv ==
  /\ candidates \in [Symbols -> Seq(SignalCandidate)]
  /\ next \in Nat \ {0}
  /\ mismatches \in Nat /\ failures \in Nat /\ killSwitch \in BOOLEAN
  /\ Compared
  /\ pc # "decide" => approvals = {}
  /\ \A a \in approvals : Approving(a)

LEMMA SymbolsConfigured == ConfiguredSymbols \in Seq(Symbols)
  BY LiveAssumption, ConcatProperties DEF ConfiguredSymbols

LEMMA CandidatesTyped ==
  ASSUME LiveInv, NEW s \in Symbols, NEW i \in DOMAIN candidates[s]
  PROVE  candidates[s][i] \in SignalCandidate
<1>1. candidates[s] \in Seq(SignalCandidate)
  BY DEF LiveInv
<1> QED
  BY <1>1, ElementOfSeq, LenProperties

LEMMA LiveInvInit == Init => LiveInv
<1> SUFFICES ASSUME Init PROVE LiveInv
  OBVIOUS
<1>1. NoSignals \in [Symbols -> Seq(SignalCandidate)]
  BY EmptySeq DEF NoSignals
<1>2. /\ candidates = NoSignals /\ next = 1 /\ approvals = {} /\ previous = EmptyView
      /\ mismatches = 0 /\ failures = 0 /\ killSwitch = FALSE
  BY DEF Init, FreshProcess
<1>3. killSwitch \in BOOLEAN
  BY <1>2
<1>4. /\ Compared /\ next \in Nat \ {0} /\ mismatches \in Nat /\ failures \in Nat
  BY <1>2 DEF Compared
<1> QED
  BY <1>1, <1>2, <1>3, <1>4 DEF LiveInv

\* A step that leaves the account and the approvals alone, or drops the approvals.
LEMMA AccountKept ==
  ASSUME LiveInv, UNCHANGED accountState, approvals' \subseteq approvals,
         pc' = "decide" => pc = "decide",
         pc' # "decide" => approvals' = {},
         candidates' \in [Symbols -> Seq(SignalCandidate)], next' \in Nat \ {0}
  PROVE  LiveInv'
<1>1. Snapshot' = Snapshot
  BY SnapshotKept DEF accountState
<1> QED
  BY <1>1 DEF LiveInv, Compared, Approving, accountState

LEMMA DecideKeepsInv ==
  ASSUME LiveInv, DecideSymbol
  PROVE  LiveInv'
<1> DEFINE s == ConfiguredSymbols[next]
           added == {[signal |-> candidates[s][i],
                      notional |-> Runtime!ApprovedNotional(candidates[s][i], Snapshot)] :
                       i \in IF Repeated(next) THEN {} ELSE Selected(s)}
<1>1. /\ pc = "decide" /\ pc' = pc /\ next <= Len(ConfiguredSymbols) /\ next' = next + 1
      /\ approvals' = approvals \cup added
      /\ UNCHANGED <<accountState, candidates>>
  BY DEF DecideSymbol, locals
<1>2. s \in Symbols
  <2>1. next \in 1..Len(ConfiguredSymbols)
    BY <1>1, SymbolsConfigured, LenProperties DEF LiveInv
  <2> QED
    BY <2>1, SymbolsConfigured, ElementOfSeq
<1>3. Snapshot' = Snapshot
  BY <1>1, SnapshotKept DEF accountState
<1>4. \A a \in added : Approving(a)
  <2> SUFFICES ASSUME NEW i \in Selected(s)
               PROVE  Approving([signal |-> candidates[s][i],
                        notional |-> Runtime!ApprovedNotional(candidates[s][i], Snapshot)])
    OBVIOUS
  <2>1. i \in DOMAIN candidates[s] /\ Runtime!Approved(candidates[s][i], Snapshot)
    BY DEF Selected
  <2>2. candidates[s][i] \in SignalCandidate
    BY <1>2, <2>1, CandidatesTyped
  <2> QED
    BY <2>1, <2>2 DEF Approving
<1> HIDE DEF added
<1>5. \A a \in approvals' : Approving(a)'
  <2>1. \A a \in approvals' : Approving(a)
    BY <1>1, <1>4 DEF LiveInv
  <2> QED
    BY <1>3, <2>1 DEF Approving
<1> QED
  BY <1>1, <1>5 DEF LiveInv, Compared, accountState

\* Where no balance, position or order has a row, the account is the empty one.
LEMMA RowlessIsEmpty ==
  ASSUME view \in View, ~ HasExistingState
  PROVE  view = EmptyView
<1>1. /\ view = [ wallet |-> view.wallet, quantity |-> view.quantity, pnl |-> view.pnl,
                  risk |-> view.risk, orders |-> view.orders ]
      /\ view.quantity \in [Symbols -> Int] /\ view.pnl \in [Symbols -> Int]
      /\ view.risk \in RiskRows
      /\ \A s \in Symbols : view.quantity[s] = 0 => view.pnl[s] = 0 /\ view.risk[s] = None0
  BY DEF View
<1>2. view.wallet = 0 /\ view.orders = NoOrders /\ \A s \in Symbols : view.quantity[s] = 0
  BY DEF HasExistingState, Opened
<1>3. view.quantity = [s \in Symbols |-> 0] /\ view.pnl = [s \in Symbols |-> 0]
  BY <1>1, <1>2
<1>4. view.risk = NoRisk
  BY <1>1, <1>2 DEF RiskRows, NoRisk
<1> QED
  BY <1>1, <1>2, <1>3, <1>4 DEF EmptyView, NoFunds

LEMMA LiveInvStep == TypeOK /\ LiveInv /\ [Next]_vars => LiveInv'
<1> SUFFICES ASSUME TypeOK, LiveInv, [Next]_vars PROVE LiveInv'
  OBVIOUS
<1>0. /\ candidates \in [Symbols -> Seq(SignalCandidate)] /\ next \in Nat \ {0}
      /\ mismatches \in Nat /\ failures \in Nat /\ killSwitch \in BOOLEAN
      /\ Compared
      /\ pc # "decide" => approvals = {}
  BY DEF LiveInv
<1>e. NoSignals \in [Symbols -> Seq(SignalCandidate)]
  BY EmptySeq DEF NoSignals
<1>n. \A n \in Nat : AtMostThreshold(n) \in Nat /\ (n > 0 => AtMostThreshold(n) > 0)
  BY DEF AtMostThreshold, Threshold, Smaller
<1>1. ASSUME NEW new \in Exchanges, ExchangeChanges(new) PROVE LiveInv'
  BY <1>0, <1>1, AccountKept DEF ExchangeChanges, accountState, locals
<1>2. CASE NetworkChanges
  BY <1>0, <1>2, AccountKept DEF NetworkChanges, accountState, locals
<1>3. ASSUME NEW signals \in Candidates, BeginCycle(signals) PROVE LiveInv'
  <2>1. signals \in [Symbols -> Seq(SignalCandidate)]
    BY LiveAssumption
  <2> QED
    BY <1>0, <1>3, <2>1, AccountKept DEF BeginCycle
<1>4. CASE ReadAccount
  BY <1>0, <1>4, AccountKept DEF ReadAccount
<1>5. CASE ReadRisk
  BY <1>0, <1>5, AccountKept DEF ReadRisk
<1>6. CASE ReadOrdersAndReplace
  <2>1. /\ approvals' = {} /\ candidates' = candidates /\ next' = next
        /\ failures' = 0 /\ view' = Parsed /\ previous' = view
        /\ mismatches' = MismatchCount(Parsed)
        /\ killSwitch' = (killSwitch \/ mismatches' = Threshold)
    BY <1>0, <1>6 DEF ReadOrdersAndReplace
  <2>2. mismatches' \in Nat /\ Compared'
    <3>1. CASE HasExistingState /\ view # Parsed
      <4>1. mismatches' = AtMostThreshold(mismatches + 1)
        BY <2>1, <3>1 DEF MismatchCount
      <4> QED
        BY <1>0, <1>n, <4>1 DEF Compared
    <3>2. CASE ~ (HasExistingState /\ view # Parsed)
      <4>1. mismatches' = 0
        BY <2>1, <3>2 DEF MismatchCount
      <4>2. view \in {EmptyView, Parsed}
        BY <3>2, RowlessIsEmpty DEF TypeOK
      <4> QED
        BY <2>1, <4>1, <4>2 DEF Compared
    <3> QED
      BY <3>1, <3>2
  <2> QED
    BY <1>0, <2>1, <2>2 DEF LiveInv
<1>7. CASE ReadFails
  <2>1. /\ approvals' = {} /\ candidates' = NoSignals /\ next' = 1
        /\ UNCHANGED <<view, previous, mismatches>>
        /\ failures' = AtMostThreshold(failures + 1)
        /\ killSwitch' = (killSwitch \/ failures' = Threshold)
    BY <1>7 DEF ReadFails, CycleOver
  <2> QED
    BY <1>0, <1>e, <1>n, <2>1 DEF LiveInv, Compared
<1>8. CASE DecideSymbol
  BY <1>8, DecideKeepsInv
<1>9. CASE EndCycle
  BY <1>0, <1>e, <1>9, AccountKept DEF EndCycle, CycleOver
<1>10. CASE Restart
  <2>1. /\ candidates' = NoSignals /\ next' = 1 /\ approvals' = {} /\ previous' = EmptyView
        /\ mismatches' = 0 /\ failures' = 0 /\ killSwitch' = FALSE
    BY <1>10 DEF Restart
  <2>2. killSwitch' \in BOOLEAN
    BY <2>1
  <2>3. /\ Compared' /\ next' \in Nat \ {0} /\ mismatches' \in Nat /\ failures' \in Nat
    BY <2>1 DEF Compared
  <2> QED
    BY <1>e, <2>1, <2>2, <2>3 DEF LiveInv
<1>11. CASE JournalFails
  BY <1>0, <1>e, <1>11, AccountKept DEF JournalFails, CycleOver
<1>12. CASE UNCHANGED vars
  BY <1>0, <1>12, AccountKept DEF vars, locals
<1> QED
  BY <1>1, <1>2, <1>3, <1>4, <1>5, <1>6, <1>7, <1>8, <1>9, <1>10, <1>11, <1>12 DEF Next, Cycle

LEMMA RepeatedViewNow == LiveInv => ApprovalsRestOnRepeatedView
<1> SUFFICES ASSUME LiveInv, NEW a \in approvals
             PROVE  previous \in {EmptyView, view}
  BY DEF ApprovalsRestOnRepeatedView
<1>1. ~ Runtime!Halted(Snapshot)
  BY DEF LiveInv, Approving, Runtime!Approved
<1>2. Snapshot.mismatch = (mismatches > 0)
  BY DEF Snapshot, ToSnapshot
<1>3. ~ (mismatches > 0)
  BY <1>1, <1>2 DEF Runtime!Halted
<1> QED
  BY <1>3 DEF LiveInv, Compared

\* With amounts for sums the snapshot is one of the kernel's.
LEMMA SnapshotTyped ==
  ASSUME LiveInv, SumsTyped, pc = "decide"
  PROVE  /\ Snapshot \in AccountSnapshot
         /\ Snapshot.equity = Equity(view)
         /\ Snapshot.open = Cardinality(Opened(view))
         /\ Equity(view) > 0 => Snapshot.gross = Gross(view, Symbols)
<1> DEFINE exposure(S) == IF Equity(view) > 0 THEN Gross(view, S) ELSE 0
<1>1. \A S \in SUBSET Symbols : exposure(S) \in Nat
  BY DEF SumsTyped
<1>2. Cardinality(Opened(view)) \in Nat
  <2>1. Opened(view) \subseteq Symbols
    BY DEF Opened
  <2> QED
    BY <2>1, LiveAssumption, FS_Subset, FS_CardinalityType
<1>3. Snapshot =
        [ equity |-> Equity(view), high |-> Equity(view), weekly |-> 0,
          gross |-> exposure(Symbols),
          symbol |-> [s \in Symbols |-> exposure({s})],
          cluster |-> [c \in Clusters |-> exposure({s \in Symbols : ClusterOf[s] = c})],
          open |-> Cardinality(Opened(view)), stale |-> 0, mismatch |-> mismatches > 0,
          failures |-> failures, killSwitch |-> killSwitch ]
  BY DEF Snapshot, ToSnapshot
<1>4. exposure(Symbols) = IF Equity(view) > 0 THEN Gross(view, Symbols) ELSE 0
  OBVIOUS
<1> HIDE DEF exposure
<1>5. /\ [s \in Symbols |-> exposure({s})] \in [Symbols -> Nat]
      /\ [c \in Clusters |-> exposure({s \in Symbols : ClusterOf[s] = c})] \in [Clusters -> Nat]
  BY <1>1
<1>6. Equity(view) \in Int /\ exposure(Symbols) \in Nat
  BY <1>1 DEF SumsTyped
<1>7. Snapshot \in AccountSnapshot
  <2>1. (mismatches > 0) \in BOOLEAN /\ failures \in Nat /\ killSwitch \in BOOLEAN
    BY DEF LiveInv
  <2> DEFINE bySymbol == [s \in Symbols |-> exposure({s})]
             byCluster == [c \in Clusters |-> exposure({s \in Symbols : ClusterOf[s] = c})]
             mismatch == mismatches > 0
  <2>2. bySymbol \in [Symbols -> Nat] /\ byCluster \in [Clusters -> Nat] /\ mismatch \in BOOLEAN
    BY <1>5, <2>1
  <2>3. Snapshot =
          [ equity |-> Equity(view), high |-> Equity(view), weekly |-> 0,
            gross |-> exposure(Symbols), symbol |-> bySymbol, cluster |-> byCluster,
            open |-> Cardinality(Opened(view)), stale |-> 0, mismatch |-> mismatch,
            failures |-> failures, killSwitch |-> killSwitch ]
    BY <1>3
  <2> HIDE DEF bySymbol, byCluster, mismatch
  <2> QED
    BY <1>2, <1>6, <2>1, <2>2, <2>3 DEF AccountSnapshot
<1> QED
  BY <1>3, <1>4, <1>7

\* The rows of a view are as many as there are symbols, so the sums over them are
\* amounts.
LEMMA SumsNow == TypeOK => SumsTyped
<1> SUFFICES ASSUME view \in View
             PROVE  /\ Equity(view) \in Int
                    /\ \A S \in SUBSET Symbols : Gross(view, S) \in Nat
  BY DEF TypeOK, SumsTyped
<1>1. /\ view.wallet \in Int /\ view.quantity \in [Symbols -> Int]
      /\ view.pnl \in [Symbols -> Int] /\ view.risk \in RiskRows
  BY DEF View
<1>2. \A S \in SUBSET Symbols : IsFiniteSet(S \cap Opened(view))
  <2> SUFFICES ASSUME NEW S \in SUBSET Symbols PROVE IsFiniteSet(S \cap Opened(view))
    OBVIOUS
  <2>1. S \cap Opened(view) \subseteq Symbols
    OBVIOUS
  <2> QED
    BY <2>1, LiveAssumption, FS_Subset
<1>3. Equity(view) \in Int
  <2>1. IsFiniteSet(Opened(view)) /\ Opened(view) \subseteq Symbols
    BY LiveAssumption, FS_Subset DEF Opened
  <2>2. \A s \in Opened(view) : view.pnl[s] \in Int
    BY <1>1, <2>1
  <2>3. SumFunctionOnSet(view.pnl, Opened(view)) \in Int
    BY <2>1, <2>2, SumType
  <2> QED
    BY <1>1, <2>3 DEF Equity
<1>4. ASSUME NEW s \in Symbols PROVE Notional(view, s) \in Nat
  <2> DEFINE row == view.risk[s].notional
             entered == view.quantity[s] * EntryPrice[s]
  <2>1. row \in Int /\ view.quantity[s] \in Int /\ EntryPrice[s] \in Int
    BY <1>1, LiveAssumption DEF RiskRows
  <2>2. entered \in Int
    BY <2>1
  <2> HIDE DEF row, entered
  <2>3. Notional(view, s) = LET n == IF row # 0 THEN row ELSE entered IN IF n < 0 THEN -n ELSE n
    BY DEF Notional, row, entered
  <2> QED
    BY <2>1, <2>2, <2>3
<1>5. ASSUME NEW S \in SUBSET Symbols PROVE Gross(view, S) \in Nat
  <2> DEFINE f == [s \in Symbols |-> Notional(view, s)]
             T == S \cap Opened(view)
  <2>1. IsFiniteSet(T) /\ \A s \in T : f[s] \in Nat
    BY <1>2, <1>4
  <2>2. Gross(view, S) = SumFunctionOnSet(f, T)
    BY DEF Gross
  <2> HIDE DEF f, T
  <2> QED
    BY <2>1, <2>2, SumNat
<1> QED
  BY <1>3, <1>5

\* What the exchange holds is what it may hold.
LEMMA ExchangeRows ==
  ASSUME exchange \in Exchanges
  PROVE  /\ exchange.wallet \in Int /\ exchange.quantity \in [Symbols -> Int]
         /\ exchange.mark \in [Symbols -> Nat \ {0}]
         /\ exchange.orders \in {e.orders : e \in Exchanges}
  BY LiveAssumption

LEMMA EmptyRows ==
  /\ NoFunds \in Funds /\ NoRisk \in RiskRows /\ EmptyView \in View
  /\ NoSignals \in [Symbols -> Seq(SignalCandidate)]
<1>1. NoFunds \in Funds /\ NoRisk \in RiskRows
  BY DEF NoFunds, Funds, NoRisk, RiskRows, None0
<1>2. EmptyView \in View
  BY <1>1 DEF EmptyView, View, NoFunds, NoRisk
<1>3. NoSignals \in [Symbols -> Seq(SignalCandidate)]
  BY EmptySeq DEF NoSignals
<1> QED
  BY <1>1, <1>2, <1>3

\* The three answers, and the view that is made of them, are rows of their kinds.
LEMMA AnswersTyped ==
  ASSUME TypeOK
  PROVE  /\ ReadAccount => funds' \in Funds
         /\ ReadRisk => risk' \in RiskRows
         /\ Parsed \in View
<1>1. /\ exchange.wallet \in Int /\ exchange.quantity \in [Symbols -> Int]
      /\ exchange.mark \in [Symbols -> Nat \ {0}]
      /\ exchange.orders \in {e.orders : e \in Exchanges}
  BY ExchangeRows DEF TypeOK
<1>2. ReadAccount => funds' \in Funds
  <2> SUFFICES ASSUME ReadAccount PROVE funds' \in Funds
    OBVIOUS
  <2> DEFINE pnl(s) == exchange.quantity[s] * (exchange.mark[s] - EntryPrice[s])
  <2>1. \A s \in Symbols : pnl(s) \in Int
    <3> SUFFICES ASSUME NEW s \in Symbols PROVE pnl(s) \in Int
      OBVIOUS
    <3>1. /\ exchange.quantity[s] \in Int /\ exchange.mark[s] \in Int /\ EntryPrice[s] \in Int
      BY <1>1, LiveAssumption
    <3> QED
      BY <3>1
  <2>2. funds' = [wallet |-> exchange.wallet, quantity |-> exchange.quantity,
                  pnl |-> [s \in Symbols |-> pnl(s)]]
    BY DEF ReadAccount
  <2>3. \A s \in Symbols : exchange.quantity[s] = 0 => pnl(s) = 0
    <3> SUFFICES ASSUME NEW s \in Symbols, exchange.quantity[s] = 0 PROVE pnl(s) = 0
      OBVIOUS
    <3>1. exchange.mark[s] \in Int /\ EntryPrice[s] \in Int
      BY <1>1, LiveAssumption
    <3> QED
      BY <3>1
  <2> HIDE DEF pnl
  <2> QED
    BY <1>1, <2>1, <2>2, <2>3 DEF Funds
<1>3. ReadRisk => risk' \in RiskRows
  <2> SUFFICES ASSUME ReadRisk PROVE risk' \in RiskRows
    OBVIOUS
  <2> DEFINE row(s) == IF exchange.quantity[s] = 0 THEN None0
                       ELSE [ mark |-> exchange.mark[s],
                              notional |-> exchange.quantity[s] * exchange.mark[s] ]
  <2>1. \A s \in Symbols : row(s) \in [mark : Nat, notional : Int]
    <3> SUFFICES ASSUME NEW s \in Symbols PROVE row(s) \in [mark : Nat, notional : Int]
      OBVIOUS
    <3>1. exchange.quantity[s] \in Int /\ exchange.mark[s] \in Nat
      BY <1>1
    <3>2. exchange.quantity[s] * exchange.mark[s] \in Int
      BY <3>1
    <3> QED
      BY <3>1, <3>2 DEF None0
  <2>2. risk' = [s \in Symbols |-> row(s)]
    BY DEF ReadRisk
  <2> HIDE DEF row
  <2> QED
    BY <2>1, <2>2 DEF RiskRows
<1>4. Parsed \in View
  <2>1. funds \in Funds /\ risk \in RiskRows
    BY DEF TypeOK
  <2> DEFINE rows == [s \in Symbols |-> IF funds.quantity[s] = 0 THEN None0 ELSE risk[s]]
  <2>2. rows \in RiskRows
    BY <2>1 DEF RiskRows, None0
  <2>3. Parsed = [ wallet |-> funds.wallet, quantity |-> funds.quantity, pnl |-> funds.pnl,
                   risk |-> rows, orders |-> exchange.orders ]
    BY DEF Parsed
  <2>4. \A s \in Symbols : funds.quantity[s] = 0 => funds.pnl[s] = 0 /\ rows[s] = None0
    BY <2>1 DEF Funds
  <2> HIDE DEF rows
  <2> QED
    BY <1>1, <2>1, <2>2, <2>3, <2>4 DEF View, Funds
<1> QED
  BY <1>2, <1>3, <1>4

\* The counters stop at the threshold, which is a halt.
LEMMA CountTyped ==
  ASSUME NEW n \in 0..Threshold
  PROVE  AtMostThreshold(n + 1) \in 0..Threshold
  BY DEF AtMostThreshold, Threshold, Smaller

CycleInv == TypeOK /\ LiveInv

\* What is approved is a signal and an amount.
LEMMA ApprovalsTyped ==
  ASSUME CycleInv, DecideSymbol
  PROVE  approvals' \subseteq [signal : SignalCandidate, notional : Int]
<1> DEFINE s == ConfiguredSymbols[next]
           n(i) == Runtime!ApprovedNotional(candidates[s][i], Snapshot)
<1>1. /\ pc = "decide" /\ next <= Len(ConfiguredSymbols) /\ next \in Nat \ {0}
      /\ approvals' = approvals \cup
           {[signal |-> candidates[s][i], notional |-> n(i)] :
              i \in IF Repeated(next) THEN {} ELSE Selected(s)}
  BY DEF DecideSymbol, CycleInv, LiveInv
<1>2. s \in Symbols
  <2>1. next \in 1..Len(ConfiguredSymbols)
    BY <1>1, SymbolsConfigured, LenProperties
  <2> QED
    BY <2>1, SymbolsConfigured, ElementOfSeq
<1>3. Snapshot \in AccountSnapshot
  BY <1>1, SumsNow, SnapshotTyped DEF CycleInv
<1>4. ASSUME NEW i \in Selected(s)
      PROVE  candidates[s][i] \in SignalCandidate /\ n(i) \in Int
  <2>1. candidates[s][i] \in SignalCandidate
    BY <1>2, CandidatesTyped DEF Selected, CycleInv
  <2>2. candidates[s][i].symbol \in Symbols
    BY <2>1 DEF SignalCandidate
  <2> QED
    BY <1>3, <2>1, <2>2, NotionalsCapped, CappedMonotone, RuntimeLimits, TierBound
<1>5. approvals \subseteq [signal : SignalCandidate, notional : Int]
  BY DEF CycleInv, TypeOK
<1> HIDE DEF n
<1> QED
  BY <1>1, <1>4, <1>5

LEMMA CycleInvInit == Init => CycleInv
<1> SUFFICES ASSUME Init PROVE CycleInv
  OBVIOUS
<1>1. /\ exchange \in Exchanges /\ reachable = TRUE /\ changes = 0 /\ restarts = 0
      /\ pc = "idle" /\ candidates = NoSignals /\ funds = NoFunds /\ risk = NoRisk
      /\ view = EmptyView /\ previous = EmptyView /\ mismatches = 0 /\ failures = 0
      /\ killSwitch = FALSE /\ next = 1 /\ approvals = {}
  BY DEF Init, FreshProcess
<1>2. next \in 1..(Len(ConfiguredSymbols) + 1)
  BY <1>1, SymbolsConfigured, LenProperties
<1>3. changes \in 0..MaxChanges /\ restarts \in 0..MaxRestarts
  BY <1>1, LiveAssumption
<1>4. reachable \in BOOLEAN /\ killSwitch \in BOOLEAN
  BY <1>1
<1>5. mismatches \in 0..Threshold /\ failures \in 0..Threshold
      /\ mismatches # Threshold /\ failures # Threshold
  BY <1>1 DEF Threshold
<1>6. TypeOK
  BY <1>1, <1>2, <1>3, <1>4, <1>5, EmptyRows DEF TypeOK
<1> QED
  BY <1>1, <1>6, LiveInvInit DEF CycleInv

LEMMA TypeStep == CycleInv /\ [Next]_vars => TypeOK'
<1> SUFFICES ASSUME CycleInv, [Next]_vars PROVE TypeOK'
  OBVIOUS
<1>0. TypeOK
  BY DEF CycleInv
<1>t. /\ exchange \in Exchanges /\ reachable \in BOOLEAN /\ changes \in 0..MaxChanges
      /\ pc \in {"idle", "account", "risk", "orders", "decide"}
      /\ candidates \in [Symbols -> Seq(SignalCandidate)]
      /\ funds \in Funds /\ risk \in RiskRows
      /\ view \in View /\ previous \in View
      /\ mismatches \in 0..Threshold /\ failures \in 0..Threshold
      /\ killSwitch \in BOOLEAN
      /\ mismatches = Threshold \/ failures = Threshold => killSwitch
      /\ next \in 1..(Len(ConfiguredSymbols) + 1)
      /\ approvals \subseteq [signal : SignalCandidate, notional : Int]
      /\ restarts \in 0..MaxRestarts
  BY <1>0 DEF TypeOK
<1>a. MaxChanges \in Nat /\ MaxRestarts \in Nat /\ Len(ConfiguredSymbols) \in Nat
  BY LiveAssumption, SymbolsConfigured, LenProperties
<1>b. /\ 1 \in 1..(Len(ConfiguredSymbols) + 1) /\ 0 \in 0..Threshold /\ 0 # Threshold
      /\ {} \subseteq [signal : SignalCandidate, notional : Int]
  BY <1>a DEF Threshold
<1>1. ASSUME NEW new \in Exchanges, ExchangeChanges(new) PROVE TypeOK'
  <2>1. /\ exchange' = new /\ changes < MaxChanges /\ changes' = changes + 1
        /\ UNCHANGED <<reachable, view, previous, mismatches, failures, killSwitch, pc,
                       candidates, funds, risk, next, approvals, restarts>>
    BY <1>1 DEF ExchangeChanges, accountState, locals
  <2>2. changes' \in 0..MaxChanges
    BY <1>t, <1>a, <2>1
  <2> QED
    BY <1>0, <2>1, <2>2 DEF TypeOK
<1>2. CASE NetworkChanges
  <2>1. /\ reachable' \in BOOLEAN
        /\ UNCHANGED <<exchange, changes, view, previous, mismatches, failures, killSwitch, pc,
                       candidates, funds, risk, next, approvals, restarts>>
    BY <1>2, <1>t DEF NetworkChanges, accountState, locals
  <2> QED
    BY <1>0, <2>1 DEF TypeOK
<1>3. ASSUME NEW signals \in Candidates, BeginCycle(signals) PROVE TypeOK'
  <2>1. /\ pc' = "account" /\ candidates' = signals
        /\ UNCHANGED <<exchange, reachable, changes, view, previous, mismatches, failures,
                       killSwitch, funds, risk, next, approvals, restarts>>
    BY <1>3 DEF BeginCycle, outside, accountState
  <2>2. signals \in [Symbols -> Seq(SignalCandidate)]
    BY LiveAssumption
  <2> QED
    BY <1>0, <2>1, <2>2 DEF TypeOK
<1>4. CASE ReadAccount
  <2>1. /\ pc' = "risk"
        /\ UNCHANGED <<exchange, reachable, changes, view, previous, mismatches, failures,
                       killSwitch, candidates, risk, next, approvals, restarts>>
    BY <1>4 DEF ReadAccount, outside, accountState
  <2>2. funds' \in Funds
    BY <1>0, <1>4, AnswersTyped
  <2> QED
    BY <1>0, <2>1, <2>2 DEF TypeOK
<1>5. CASE ReadRisk
  <2>1. /\ pc' = "orders"
        /\ UNCHANGED <<exchange, reachable, changes, view, previous, mismatches, failures,
                       killSwitch, candidates, funds, next, approvals, restarts>>
    BY <1>5 DEF ReadRisk, outside, accountState
  <2>2. risk' \in RiskRows
    BY <1>0, <1>5, AnswersTyped
  <2> QED
    BY <1>0, <2>1, <2>2 DEF TypeOK
<1>6. CASE ReadOrdersAndReplace
  <2>1. /\ pc' = "decide" /\ view' = Parsed /\ previous' = view /\ failures' = 0
        /\ mismatches' = MismatchCount(Parsed)
        /\ killSwitch' = (killSwitch \/ mismatches' = Threshold)
        /\ funds' = NoFunds /\ risk' = NoRisk
        /\ UNCHANGED <<exchange, reachable, changes, candidates, next, approvals, restarts>>
    BY <1>6 DEF ReadOrdersAndReplace, outside
  <2>2. view' \in View
    BY <1>0, <2>1, AnswersTyped
  <2>3. mismatches' \in 0..Threshold
    BY <1>t, <1>b, <2>1, CountTyped DEF MismatchCount
  <2>4. killSwitch' \in BOOLEAN /\ (mismatches' = Threshold \/ failures' = Threshold => killSwitch')
    BY <1>b, <2>1
  <2>5. failures' \in 0..Threshold
    BY <1>b, <2>1
  <2>6. funds' \in Funds /\ risk' \in RiskRows
    BY <2>1, EmptyRows
  <2> QED
    BY <1>t, <2>1, <2>2, <2>3, <2>4, <2>5, <2>6 DEF TypeOK
<1>7. CASE ReadFails
  <2>1. /\ pc' = "idle" /\ candidates' = NoSignals /\ funds' = NoFunds /\ risk' = NoRisk
        /\ next' = 1 /\ approvals' = {}
        /\ failures' = AtMostThreshold(failures + 1)
        /\ killSwitch' = (killSwitch \/ failures' = Threshold)
        /\ UNCHANGED <<exchange, reachable, changes, view, previous, mismatches, restarts>>
    BY <1>7 DEF ReadFails, CycleOver, outside
  <2>2. failures' \in 0..Threshold
    BY <1>t, <2>1, CountTyped
  <2>3. killSwitch' \in BOOLEAN /\ (mismatches' = Threshold \/ failures' = Threshold => killSwitch')
    BY <1>t, <2>1
  <2> QED
    BY <1>t, <1>b, <2>1, <2>2, <2>3, EmptyRows DEF TypeOK
<1>8. CASE DecideSymbol
  <2>1. /\ pc = "decide" /\ pc' = pc /\ next <= Len(ConfiguredSymbols) /\ next' = next + 1
        /\ UNCHANGED <<exchange, reachable, changes, view, previous, mismatches, failures,
                       killSwitch, candidates, funds, risk, restarts>>
    BY <1>8 DEF DecideSymbol, outside, accountState
  <2>2. next' \in 1..(Len(ConfiguredSymbols) + 1)
    BY <1>t, <1>a, <2>1
  <2>3. approvals' \subseteq [signal : SignalCandidate, notional : Int]
    BY <1>8, ApprovalsTyped
  <2> QED
    BY <1>0, <2>1, <2>2, <2>3 DEF TypeOK
<1>9. CASE EndCycle
  <2>1. /\ pc' = "idle" /\ candidates' = NoSignals /\ funds' = NoFunds /\ risk' = NoRisk
        /\ next' = 1 /\ approvals' = {}
        /\ UNCHANGED <<exchange, reachable, changes, view, previous, mismatches, failures,
                       killSwitch, restarts>>
    BY <1>9 DEF EndCycle, CycleOver, outside, accountState
  <2> QED
    BY <1>0, <1>b, <2>1, EmptyRows DEF TypeOK
<1>10. CASE Restart
  <2>1. /\ pc' = "idle" /\ candidates' = NoSignals /\ funds' = NoFunds /\ risk' = NoRisk
        /\ view' = EmptyView /\ previous' = EmptyView /\ mismatches' = 0 /\ failures' = 0
        /\ killSwitch' = FALSE /\ next' = 1 /\ approvals' = {}
        /\ restarts < MaxRestarts /\ restarts' = restarts + 1
        /\ UNCHANGED <<exchange, reachable, changes>>
    BY <1>10 DEF Restart, outside
  <2>2. restarts' \in 0..MaxRestarts
    BY <1>t, <1>a, <2>1
  <2>3. killSwitch' \in BOOLEAN
    BY <2>1
  <2> QED
    BY <1>t, <1>b, <2>1, <2>2, <2>3, EmptyRows DEF TypeOK
<1>12. CASE JournalFails
  <2>1. /\ pc' = "idle" /\ candidates' = NoSignals /\ funds' = NoFunds /\ risk' = NoRisk
        /\ next' = 1 /\ approvals' = {}
        /\ UNCHANGED <<exchange, reachable, changes, view, previous, mismatches, failures,
                       killSwitch, restarts>>
    BY <1>12 DEF JournalFails, CycleOver, outside, accountState
  <2> QED
    BY <1>0, <1>b, <2>1, EmptyRows DEF TypeOK
<1>11. CASE UNCHANGED vars
  <2>1. UNCHANGED <<exchange, reachable, changes, view, previous, mismatches, failures,
                    killSwitch, pc, candidates, funds, risk, next, approvals, restarts>>
    BY <1>11 DEF vars, outside, accountState, locals
  <2> QED
    BY <1>0, <2>1 DEF TypeOK
<1> QED
  BY <1>1, <1>2, <1>3, <1>4, <1>5, <1>6, <1>7, <1>8, <1>9, <1>10, <1>11, <1>12 DEF Next, Cycle

LEMMA CycleInvStep == CycleInv /\ [Next]_vars => CycleInv'
  BY TypeStep, LiveInvStep DEF CycleInv

LEMMA RepeatedViewInCycle == CycleInv => ApprovalsRestOnRepeatedView
  BY RepeatedViewNow DEF CycleInv

\* Nothing is approved on an account that the last two sets of reads do not agree
\* about, whatever changed between the reads, unless the earlier set was none or had
\* no row at all: then reconcile() has nothing to compare with.
THEOREM RepeatedViewAlways == Spec => []ApprovalsRestOnRepeatedView
BY CycleInvInit, CycleInvStep, RepeatedViewInCycle, PTL DEF Spec

LEMMA TypedNow == CycleInv => Typed
  BY SumsNow DEF CycleInv, Typed

\* Every variable has its type, and in the decisions of a cycle the equity and every
\* sum of exposures that the kernel is given are amounts.
THEOREM TypedAlways == Spec => []Typed
BY CycleInvInit, CycleInvStep, TypedNow, PTL DEF Spec

LEMMA TightenNow == CycleInv => OverridesOnlyTighten
<1> SUFFICES ASSUME LiveInv, SumsTyped, NEW a \in approvals
             PROVE  /\ Approved(a.signal, Snapshot)
                    /\ a.notional <= ApprovedNotional(a.signal, Snapshot)
  BY SumsNow DEF CycleInv, OverridesOnlyTighten
<1>1. Approving(a) /\ pc = "decide"
  BY DEF LiveInv
<1>2. Snapshot \in AccountSnapshot
  BY <1>1, SnapshotTyped
<1> QED
  BY <1>1, <1>2, ModeTightens DEF Approving

\* Whatever a mode approves, the configured policy approves too and in at least that
\* size, for every policy.
THEOREM OverridesTightenAlways == Spec => []OverridesOnlyTighten
BY CycleInvInit, CycleInvStep, TightenNow, PTL DEF Spec

LEMMA LiveMicroNow == CycleInv => LiveMicroLimits
<1> SUFFICES ASSUME LiveInv, SumsTyped, LiveMicro, NEW a \in approvals
             PROVE  /\ In(a.signal.symbol, Core) /\ ~ In(a.signal.symbol, Experimental)
                    /\ Opened(view) = {}
                    /\ 100 * a.notional <= 5 * Equity(view)
                    /\ 100 * (a.notional + Gross(view, Symbols)) <= 20 * Equity(view)
  BY SumsNow DEF CycleInv, LiveMicroLimits
<1>1. Approving(a) /\ pc = "decide"
  BY DEF LiveInv
<1>2. /\ Snapshot \in AccountSnapshot /\ Snapshot.equity = Equity(view)
      /\ Snapshot.open = Cardinality(Opened(view))
      /\ Equity(view) > 0 => Snapshot.gross = Gross(view, Symbols)
  BY <1>1, SnapshotTyped
<1>3. /\ In(a.signal.symbol, Core) /\ ~ In(a.signal.symbol, Experimental)
      /\ Snapshot.open = 0 /\ Snapshot.equity > 0
      /\ 100 * a.notional <= 5 * Snapshot.equity
      /\ 100 * (a.notional + Snapshot.gross) <= 20 * Snapshot.equity
  BY <1>1, <1>2, LiveMicroApproval DEF Approving
<1>4. Opened(view) = {}
  <2>1. Opened(view) \subseteq Symbols
    BY DEF Opened
  <2>2. IsFiniteSet(Opened(view))
    BY <2>1, LiveAssumption, FS_Subset
  <2> QED
    BY <1>2, <1>3, <2>2, FS_EmptySet
<1> QED
  BY <1>2, <1>3, <1>4

\* In live_micro an approval is for a core symbol of an account without a position,
\* and within five percent of the equity, whatever the configured policy says.
THEOREM LiveMicroLimitsAlways == Spec => []LiveMicroLimits
BY CycleInvInit, CycleInvStep, LiveMicroNow, PTL DEF Spec
=============================================================================
