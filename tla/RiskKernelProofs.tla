-------------------------- MODULE RiskKernelProofs --------------------------
(***************************************************************************)
(* What an approval of the risk kernel guarantees, for every policy, every *)
(* account and every signal; and what the modules that build a snapshot    *)
(* need to know of sums over the symbols.                                  *)
(***************************************************************************)
EXTENDS RiskKernel, FiniteSetTheorems, TLAPS

\* Rounding down never exceeds the quotient.
LEMMA DivisionBound ==
  ASSUME NEW n \in Int, NEW d \in Nat \ {0}
  PROVE  n \div d \in Int /\ d * (n \div d) <= n
  OBVIOUS

LEMMA PercentBound ==
  ASSUME NEW p \in Int, NEW n \in Int
  PROVE  Percent(p, n) \in Int /\ 100 * Percent(p, n) <= p * n
<1> DEFINE m == p * n
<1>1. m \in Int
  OBVIOUS
<1>2. m \div 100 \in Int /\ 100 * (m \div 100) <= m
  <2> HIDE DEF m
  <2> QED
    BY <1>1, DivisionBound
<1> QED
  BY <1>2 DEF Percent

\* Every cap that applies bounds the minimum of the caps.
LEMMA SmallerBound ==
  ASSUME NEW m \in Int, NEW n \in Int
  PROVE  Smaller(m, n) \in Int /\ Smaller(m, n) <= m /\ Smaller(m, n) <= n
  BY DEF Smaller

LEMMA AtMostBound ==
  ASSUME NEW n \in Int, NEW cap \in Int \cup {NoCap}
  PROVE  /\ AtMost(n, cap) \in Int
         /\ AtMost(n, cap) <= n
         /\ cap # NoCap => AtMost(n, cap) <= cap
  BY SmallerBound DEF AtMost

\* The budget of a trade lies between nothing and the policy's maximum.
LEMMA BudgetBound ==
  ASSUME NEW signal \in SignalCandidate, NEW account
  PROVE  /\ TradeRiskBudget(signal, account) \in Int
         /\ 0 <= TradeRiskBudget(signal, account)
         /\ TradeRiskBudget(signal, account) <= RiskMax
<1> DEFINE product == RiskDefault * signal.conviction
           full == Smaller(product \div 100, RiskMax)
<1>1. signal.conviction \in Nat /\ RiskDefault \in Nat /\ RiskMax \in Nat
  BY PolicyAssumption DEF SignalCandidate
<1>2. product \in Nat
  BY <1>1
<1>3. full \in Nat /\ full <= RiskMax
  <2> HIDE DEF product
  <2>1. product \div 100 \in Nat
    BY <1>2
  <2> QED
    BY <1>1, <2>1 DEF Smaller
<1>4. full \div 2 \in Nat /\ full \div 2 <= RiskMax
  <2> HIDE DEF full
  <2> QED
    BY <1>1, <1>3
<1> QED
  BY <1>1, <1>3, <1>4 DEF TradeRiskBudget

LEMMA ProductMonotone ==
  ASSUME NEW k \in Nat, NEW m \in Int, NEW n \in Int, m <= n
  PROVE  k * m <= k * n
  OBVIOUS

LEMMA SizeBound ==
  ASSUME NEW signal \in SignalCandidate, NEW account \in AccountSnapshot
  PROVE  /\ SizeAtRisk(signal, account) \in Int
         /\ signal.stop * SizeAtRisk(signal, account)
              <= account.equity * TradeRiskBudget(signal, account)
<1> DEFINE risked == account.equity * TradeRiskBudget(signal, account)
<1>1. account.equity \in Int /\ signal.stop \in Nat \ {0}
  BY DEF AccountSnapshot, SignalCandidate
<1>2. risked \in Int
  BY <1>1, BudgetBound
<1>3. risked \div signal.stop \in Int /\ signal.stop * (risked \div signal.stop) <= risked
  <2> HIDE DEF risked
  <2> QED
    BY <1>1, <1>2, DivisionBound
<1> QED
  BY <1>3 DEF SizeAtRisk

LEMMA CapTypes ==
  ASSUME NEW signal \in SignalCandidate, NEW account \in AccountSnapshot
  PROVE  /\ GrossHeadroom(account) \in Int
         /\ SymbolHeadroom(account, signal.symbol) \in Int
         /\ ClusterHeadroom(account, signal.symbol) \in Int \cup {NoCap}
         /\ BracketRoom(signal) \in Int \cup {NoCap}
         /\ Percent(TierNotional[signal.symbol], account.equity) \in Int
<1>1. /\ signal.symbol \in Symbols /\ signal.bracketCap \in Nat \cup {NoCap}
      /\ account.equity \in Int /\ account.gross \in Nat
      /\ account.symbol \in [Symbols -> Nat] /\ account.cluster \in [Clusters -> Nat]
  BY DEF SignalCandidate, AccountSnapshot
<1>2. /\ GrossSoft \in Int /\ SymbolCap \in Int /\ BracketBuffer \in Int
      /\ TierNotional[signal.symbol] \in Int
      /\ ClusterOf[signal.symbol] \in Clusters
      /\ ClusterCap[ClusterOf[signal.symbol]] \in Nat \cup {NoCap}
  BY <1>1, PolicyAssumption
<1>3. GrossHeadroom(account) \in Int
  <2>1. Percent(GrossSoft, account.equity) \in Int
    BY <1>1, <1>2, PercentBound
  <2> QED
    BY <1>1, <2>1 DEF GrossHeadroom
<1>4. SymbolHeadroom(account, signal.symbol) \in Int
  <2>1. Percent(SymbolCap, account.equity) \in Int
    BY <1>1, <1>2, PercentBound
  <2> QED
    BY <1>1, <2>1 DEF SymbolHeadroom
<1>5. ClusterHeadroom(account, signal.symbol) \in Int \cup {NoCap}
  <2> DEFINE cap == ClusterCap[ClusterOf[signal.symbol]]
  <2>1. CASE cap = NoCap
    BY <2>1 DEF ClusterHeadroom
  <2>2. CASE cap \in Nat /\ cap # NoCap
    <3>1. cap \in Int
      BY <2>2
    <3>2. Percent(cap, account.equity) \in Int
      <4> HIDE DEF cap
      <4> QED
        BY <3>1, <1>1, PercentBound
    <3> QED
      BY <2>2, <3>2, <1>1, <1>2 DEF ClusterHeadroom
  <2> QED
    BY <2>1, <2>2, <1>2
<1>6. BracketRoom(signal) \in Int \cup {NoCap}
  <2>1. ASSUME signal.bracketCap # NoCap
        PROVE  Percent(BracketBuffer, signal.bracketCap) \in Int
    <3>1. signal.bracketCap \in Int
      BY <1>1, <2>1
    <3> QED
      BY <1>2, <3>1, PercentBound
  <2> QED
    BY <2>1 DEF BracketRoom
<1> QED
  BY <1>1, <1>2, <1>3, <1>4, <1>5, <1>6, PercentBound

LEMMA NotionalBound ==
  ASSUME NEW signal \in SignalCandidate, NEW account \in AccountSnapshot
  PROVE  LET n == ApprovedNotional(signal, account)
             s == signal.symbol
         IN  /\ n \in Int
             /\ n <= SizeAtRisk(signal, account)
             /\ n <= Percent(TierNotional[s], account.equity)
             /\ n <= GrossHeadroom(account)
             /\ n <= SymbolHeadroom(account, s)
             /\ ClusterHeadroom(account, s) # NoCap => n <= ClusterHeadroom(account, s)
             /\ BracketRoom(signal) # NoCap => n <= BracketRoom(signal)
<1> DEFINE s == signal.symbol
           tier == Percent(TierNotional[s], account.equity)
           size == SizeAtRisk(signal, account)
           sized == Smaller(size, tier)
           gross == GrossHeadroom(account)
           symbol == SymbolHeadroom(account, s)
           room == Smaller(gross, symbol)
           both == Smaller(sized, room)
           cluster == ClusterHeadroom(account, s)
           capped == AtMost(both, cluster)
           bracket == BracketRoom(signal)
           n == AtMost(capped, bracket)
<1>1. /\ tier \in Int /\ size \in Int /\ gross \in Int /\ symbol \in Int
      /\ cluster \in Int \cup {NoCap} /\ bracket \in Int \cup {NoCap}
  BY CapTypes, SizeBound
<1>2. ApprovedNotional(signal, account) = n
  BY DEF ApprovedNotional
<1> HIDE DEF tier, size, gross, symbol, cluster, bracket
<1>3. sized \in Int /\ sized <= size /\ sized <= tier
  BY <1>1, SmallerBound
<1>4. room \in Int /\ room <= gross /\ room <= symbol
  BY <1>1, SmallerBound
<1> HIDE DEF sized, room
<1>5. both \in Int /\ both <= sized /\ both <= room
  BY <1>3, <1>4, SmallerBound
<1> HIDE DEF both
<1>6. capped \in Int /\ capped <= both /\ (cluster # NoCap => capped <= cluster)
  BY <1>1, <1>5, AtMostBound
<1> HIDE DEF capped
<1>7. n \in Int /\ n <= capped /\ (bracket # NoCap => n <= bracket)
  BY <1>1, <1>6, AtMostBound
<1> HIDE DEF n
<1>8. /\ n <= size /\ n <= tier /\ n <= gross /\ n <= symbol
      /\ cluster # NoCap => n <= cluster
  <2>1. n <= both
    BY <1>5, <1>6, <1>7
  <2>2. n <= size /\ n <= tier
    BY <1>1, <1>3, <1>5, <1>7, <2>1
  <2>3. n <= gross /\ n <= symbol
    BY <1>1, <1>4, <1>5, <1>7, <2>1
  <2>4. cluster # NoCap => n <= cluster
    <3> SUFFICES ASSUME cluster # NoCap PROVE n <= cluster
      OBVIOUS
    <3> QED
      BY <1>1, <1>6, <1>7
  <2> QED
    BY <2>2, <2>3, <2>4
<1> QED
  BY <1>2, <1>7, <1>8 DEF tier, size, gross, symbol, cluster, bracket

\* What the policy promises of an approved notional: it is positive, and with it
\* the book stays within the soft gross cap, the symbol within its share and its
\* tier's, the cluster within its cap, the order within the usable part of its
\* leverage bracket, and the loss at the stop within the maximal risk of a trade.
WithinCaps(signal, account, n) ==
  LET s == signal.symbol
      c == ClusterOf[s]
  IN  /\ n > 0
      /\ account.equity > 0
      /\ 100 * (account.gross + n) <= GrossSoft * account.equity
      /\ 100 * (account.symbol[s] + n) <= SymbolCap * account.equity
      /\ 100 * n <= TierNotional[s] * account.equity
      /\ ClusterCap[c] # NoCap =>
           100 * (account.cluster[c] + n) <= ClusterCap[c] * account.equity
      /\ signal.bracketCap # NoCap => 100 * n <= BracketBuffer * signal.bracketCap
      /\ signal.stop * n <= RiskMax * account.equity

\* RiskKernel.evaluate never approves more than any of its caps leaves, however
\* the caps, the drawdown and the exposures combine, and approves nothing of an
\* account that is halted or has no position left to open.
THEOREM ApprovalWithinCaps ==
  ASSUME NEW signal \in SignalCandidate, NEW account \in AccountSnapshot,
         Approved(signal, account)
  PROVE  /\ WithinCaps(signal, account, ApprovedNotional(signal, account))
         /\ ~ Halted(account)
         /\ account.open < MaxOpenPositions
<1> DEFINE s == signal.symbol
           c == ClusterOf[s]
           n == ApprovedNotional(signal, account)
           e == account.equity
<1>1. /\ s \in Symbols /\ signal.bracketCap \in Nat \cup {NoCap}
      /\ signal.stop \in Nat \ {0}
      /\ e \in Int /\ account.gross \in Nat /\ account.open \in Nat
      /\ account.symbol \in [Symbols -> Nat] /\ account.cluster \in [Clusters -> Nat]
  BY DEF SignalCandidate, AccountSnapshot
<1>2. /\ GrossSoft \in Nat /\ SymbolCap \in Nat /\ BracketBuffer \in Nat
      /\ TierNotional[s] \in Nat /\ c \in Clusters
      /\ ClusterCap[c] \in Nat \cup {NoCap} /\ RiskMax \in Nat /\ MaxOpenPositions \in Nat
  BY <1>1, PolicyAssumption
<1>3. n \in Int /\ n > 0
  BY NotionalBound DEF Approved, Rejected
<1>4. 100 * (account.gross + n) <= GrossSoft * e
  <2>1. n <= Percent(GrossSoft, e) - account.gross
    BY NotionalBound DEF GrossHeadroom
  <2>2. Percent(GrossSoft, e) \in Int /\ 100 * Percent(GrossSoft, e) <= GrossSoft * e
    BY <1>1, <1>2, PercentBound
  <2> HIDE DEF n, e
  <2> QED
    BY <1>1, <1>2, <1>3, <2>1, <2>2
<1>5. e > 0
  <2>1. GrossSoft * e > 0
    <3> HIDE DEF n, e
    <3> QED
      BY <1>1, <1>2, <1>3, <1>4
  <2> HIDE DEF e
  <2> QED
    BY <1>1, <1>2, <2>1
<1>6. 100 * (account.symbol[s] + n) <= SymbolCap * e
  <2>1. n <= Percent(SymbolCap, e) - account.symbol[s] /\ account.symbol[s] \in Nat
    BY <1>1, NotionalBound DEF SymbolHeadroom
  <2>2. Percent(SymbolCap, e) \in Int /\ 100 * Percent(SymbolCap, e) <= SymbolCap * e
    BY <1>1, <1>2, PercentBound
  <2> HIDE DEF n, e
  <2> QED
    BY <1>1, <1>2, <1>3, <2>1, <2>2
<1>7. 100 * n <= TierNotional[s] * e
  <2>1. n <= Percent(TierNotional[s], e)
    BY NotionalBound
  <2>2. Percent(TierNotional[s], e) \in Int
        /\ 100 * Percent(TierNotional[s], e) <= TierNotional[s] * e
    <3>1. TierNotional[s] \in Int
      BY <1>2
    <3> QED
      BY <1>1, <3>1, PercentBound
  <2> HIDE DEF n, e
  <2> QED
    BY <1>1, <1>2, <1>3, <2>1, <2>2
<1>8. ASSUME ClusterCap[c] # NoCap
      PROVE  100 * (account.cluster[c] + n) <= ClusterCap[c] * e
  <2>1. ClusterHeadroom(account, s) = Percent(ClusterCap[c], e) - account.cluster[c]
    BY <1>8 DEF ClusterHeadroom
  <2>2. /\ Percent(ClusterCap[c], e) \in Int
        /\ 100 * Percent(ClusterCap[c], e) <= ClusterCap[c] * e
    <3>1. ClusterCap[c] \in Int
      BY <1>2, <1>8
    <3> QED
      BY <1>1, <3>1, PercentBound
  <2>3. account.cluster[c] \in Nat /\ ClusterCap[c] \in Nat
    BY <1>1, <1>2, <1>8
  <2>4. ClusterHeadroom(account, s) # NoCap
    <3>1. ClusterHeadroom(account, s) \in Int
      BY <2>1, <2>2, <2>3
    <3> QED
      BY <3>1, PolicyAssumption
  <2>5. n <= Percent(ClusterCap[c], e) - account.cluster[c]
    BY <2>1, <2>4, NotionalBound
  <2> HIDE DEF n, e, c
  <2> QED
    BY <1>1, <1>3, <2>2, <2>3, <2>5
<1>9. ASSUME signal.bracketCap # NoCap
      PROVE  100 * n <= BracketBuffer * signal.bracketCap
  <2>1. BracketRoom(signal) = Percent(BracketBuffer, signal.bracketCap)
    BY <1>9 DEF BracketRoom
  <2>2. /\ Percent(BracketBuffer, signal.bracketCap) \in Int
        /\ 100 * Percent(BracketBuffer, signal.bracketCap) <= BracketBuffer * signal.bracketCap
    <3>1. signal.bracketCap \in Int /\ BracketBuffer \in Int
      BY <1>1, <1>2, <1>9
    <3> QED
      BY <3>1, PercentBound
  <2>3. n <= Percent(BracketBuffer, signal.bracketCap)
    BY <2>1, <2>2, NotionalBound, PolicyAssumption
  <2>4. signal.bracketCap \in Nat
    BY <1>1, <1>9
  <2> HIDE DEF n
  <2> QED
    BY <1>2, <1>3, <2>2, <2>3, <2>4
<1>10. signal.stop * n <= RiskMax * e
  <2> DEFINE size == SizeAtRisk(signal, account)
             budget == TradeRiskBudget(signal, account)
  <2>1. n <= size /\ size \in Int /\ signal.stop * size <= e * budget
    BY NotionalBound, SizeBound
  <2>2. budget \in Int /\ budget <= RiskMax
    BY BudgetBound
  <2> HIDE DEF n, e, size, budget
  <2>3. signal.stop * n <= signal.stop * size
    BY <1>1, <1>3, <2>1, ProductMonotone
  <2>4. e * budget <= e * RiskMax
    BY <1>1, <1>2, <1>5, <2>2, ProductMonotone
  <2> QED
    BY <1>1, <1>2, <1>3, <2>1, <2>2, <2>3, <2>4
<1>11. WithinCaps(signal, account, n)
  <2> HIDE DEF n
  <2> QED
    BY <1>3, <1>4, <1>5, <1>6, <1>7, <1>8, <1>9, <1>10 DEF WithinCaps
<1>12. account.open < MaxOpenPositions
  BY <1>1, <1>2 DEF Approved, Rejected
<1> QED
  BY <1>11, <1>12 DEF Approved

-----------------------------------------------------------------------------
(* Sums over a finite set: SumFunctionOnSet is a recursion over the subsets.   *)
(* Induction is by least counterexample (WFMin), with the set of subsets a     *)
(* lemma holds of in the place of its predicate.                               *)

\* A set that has T whenever it has all smaller subsets has S.
LEMMA SubsetInduction ==
  ASSUME NEW S, IsFiniteSet(S), NEW P,
         \A T \in SUBSET S : (\A U \in SUBSET T : U # T => U \in P) => T \in P
  PROVE  S \in P
<1> DEFINE Bad == (SUBSET S) \ P
           Below == StrictSubsetOrdering(S)
<1>1. IsWellFoundedOn(Below, SUBSET S)
  BY FS_StrictSubsetOrderingWellFounded, FS_FiniteSubsetsOfFinite
<1>2. SUFFICES ASSUME Bad # {} PROVE FALSE
  OBVIOUS
<1>3. PICK T \in Bad : \A U \in Bad : ~ (<<U, T>> \in Below)
  <2>1. Bad \subseteq SUBSET S
    OBVIOUS
  <2> HIDE DEF Bad, Below
  <2> QED
    BY <1>1, <1>2, <2>1, WFMin
<1>4. \A U \in SUBSET T : U # T => U \in P
  BY <1>3 DEF StrictSubsetOrdering
<1> QED
  BY <1>3, <1>4

\* The recursion of SumFunctionOnSet: an element is taken, the rest is summed.
FirstOf(s) == CHOOSE x \in s : TRUE
SumBody(f, g, s) == IF s = {} THEN 0 ELSE f[FirstOf(s)] + g[s \ {FirstOf(s)}]
IsSumOver(f, g, S) == g = [s \in SUBSET S |-> SumBody(f, g, s)]

LEMMA SumUnfold ==
  ASSUME NEW f, NEW S
  PROVE  SumFunctionOnSet(f, S) = (CHOOSE g : IsSumOver(f, g, S))[S]
BY DEF SumFunctionOnSet, FoldFunctionOnSet, MapThenFoldSet, IsSumOver, SumBody, FirstOf

LEMMA FirstOfMember == ASSUME NEW s, s # {} PROVE FirstOf(s) \in s
BY DEF FirstOf

\* A function that obeys the recursion on every subset of T.
ObeysSum(f, g, T) == \A s \in SUBSET T : g[s] = SumBody(f, g, s)

\* Two functions that obey the recursion agree.
LEMMA SumRecursionUnique ==
  ASSUME NEW f, NEW S, IsFiniteSet(S), NEW g, NEW h, ObeysSum(f, g, S), ObeysSum(f, h, S)
  PROVE  g[S] = h[S]
<1> DEFINE P == {T \in SUBSET S : g[T] = h[T]}
<1>1. ASSUME NEW T \in SUBSET S, \A U \in SUBSET T : U # T => U \in P
      PROVE  T \in P
  <2>1. g[T] = SumBody(f, g, T) /\ h[T] = SumBody(f, h, T)
    BY DEF ObeysSum
  <2>2. CASE T = {}
    BY <2>1, <2>2 DEF SumBody
  <2>3. CASE T # {}
    <3>1. FirstOf(T) \in T
      BY <2>3, FirstOfMember
    <3>2. T \ {FirstOf(T)} \in P
      BY <1>1, <3>1
    <3> QED
      BY <2>1, <2>3, <3>2 DEF SumBody
  <2> QED
    BY <2>2, <2>3
<1>2. S \in P
  <2> HIDE DEF P
  <2> QED
    BY <1>1, SubsetInduction
<1> QED
  BY <1>2

\* There is one: a function that obeys the recursion on subsets of up to n
\* elements is built from one for up to n - 1.
LEMMA SumRecursionExists ==
  ASSUME NEW f, NEW S, IsFiniteSet(S)
  PROVE  \E g : IsSumOver(f, g, S)
<1> DEFINE Below(n) == {T \in SUBSET S : Cardinality(T) <= n}
           Serves(g, n) == /\ g = [T \in SUBSET S |-> g[T]]
                           /\ \A T \in Below(n) : g[T] = SumBody(f, g, T)
           N == {n \in Nat : ~ \E g : Serves(g, n)}
<1>1. \A T \in SUBSET S : IsFiniteSet(T) /\ Cardinality(T) \in Nat /\ Cardinality(T) <= Cardinality(S)
  BY FS_Subset, FS_CardinalityType
<1>2. Cardinality(S) \in Nat
  BY FS_CardinalityType
<1>3. N = {}
  <2> SUFFICES ASSUME N # {} PROVE FALSE
    OBVIOUS
  <2>1. PICK n \in N : \A m \in N : ~ (m < n)
    <3>1. \E n \in N : \A m \in N : ~ (<<m, n>> \in OpToRel(<, Nat))
      <4>1. N \subseteq Nat
        OBVIOUS
      <4> HIDE DEF N
      <4> QED
        BY <4>1, NatLessThanWellFounded, WFMin
    <3> QED
      BY <3>1 DEF OpToRel
  <2>2. n # 0
    <3>1. SUFFICES ASSUME n = 0 PROVE FALSE
      OBVIOUS
    <3> DEFINE g == [T \in SUBSET S |-> 0]
    <3>2. \A T \in Below(0) : T = {}
      BY <1>1, FS_EmptySet
    <3>3. Serves(g, 0)
      BY <3>2 DEF SumBody
    <3> QED
      BY <3>1, <3>3
  <2>3. n \in Nat /\ n - 1 \in Nat
    BY <2>2
  <2>4. PICK g : Serves(g, n - 1)
    <3>1. n - 1 \notin N
      <4>1. n - 1 < n
        BY <2>3
      <4> HIDE DEF N
      <4> QED
        BY <2>1, <4>1
    <3> QED
      BY <2>3, <3>1
  <2> DEFINE h == [T \in SUBSET S |-> SumBody(f, g, T)]
  <2>5. \A T \in Below(n - 1) : h[T] = g[T]
    BY <2>4
  <2>6. \A T \in Below(n) : h[T] = SumBody(f, h, T)
    <3> SUFFICES ASSUME NEW T \in Below(n) PROVE h[T] = SumBody(f, h, T)
      OBVIOUS
    <3>1. h[T] = SumBody(f, g, T)
      OBVIOUS
    <3>2. CASE T = {}
      BY <3>1, <3>2 DEF SumBody
    <3>3. CASE T # {}
      <4>1. FirstOf(T) \in T
        BY <3>3, FirstOfMember
      <4>2. T \ {FirstOf(T)} \in Below(n - 1)
        BY <1>1, <2>3, <4>1, FS_RemoveElement
      <4>3. h[T \ {FirstOf(T)}] = g[T \ {FirstOf(T)}]
        BY <2>5, <4>2
      <4> HIDE DEF h
      <4> QED
        BY <3>1, <3>3, <4>3 DEF SumBody
    <3> QED
      BY <3>2, <3>3
  <2>7. Serves(h, n)
    BY <2>6
  <2> QED
    BY <2>1, <2>7
<1>4. PICK g : Serves(g, Cardinality(S))
  BY <1>2, <1>3
<1>5. IsSumOver(f, g, S)
  BY <1>1, <1>4 DEF IsSumOver
<1> QED
  BY <1>5

\* So the sum is what the recursion says.
LEMMA SumObeys ==
  ASSUME NEW f, NEW S, IsFiniteSet(S)
  PROVE  \E g : ObeysSum(f, g, S) /\ SumFunctionOnSet(f, S) = g[S]
<1> DEFINE g == CHOOSE g : IsSumOver(f, g, S)
<1>1. IsSumOver(f, g, S)
  BY SumRecursionExists
<1>2. ObeysSum(f, g, S)
  <2> HIDE DEF g
  <2> QED
    BY <1>1 DEF IsSumOver, ObeysSum
<1> QED
  BY <1>2, SumUnfold

\* The sum over no element, and over one element more.
LEMMA SumEmpty == ASSUME NEW f PROVE SumFunctionOnSet(f, {}) = 0
<1>1. PICK g : ObeysSum(f, g, {}) /\ SumFunctionOnSet(f, {}) = g[{}]
  BY SumObeys, FS_EmptySet
<1>2. g[{}] = SumBody(f, g, {})
  BY <1>1 DEF ObeysSum
<1> QED
  BY <1>1, <1>2 DEF SumBody

LEMMA SumFirst ==
  ASSUME NEW f, NEW S, IsFiniteSet(S), S # {}
  PROVE  /\ FirstOf(S) \in S
         /\ SumFunctionOnSet(f, S) = f[FirstOf(S)] + SumFunctionOnSet(f, S \ {FirstOf(S)})
<1> DEFINE T == S \ {FirstOf(S)}
<1>1. PICK g : ObeysSum(f, g, S) /\ SumFunctionOnSet(f, S) = g[S]
  BY SumObeys
<1>2. IsFiniteSet(T)
  BY FS_RemoveElement
<1>3. PICK h : ObeysSum(f, h, T) /\ SumFunctionOnSet(f, T) = h[T]
  BY <1>2, SumObeys
<1>4. ObeysSum(f, g, T)
  BY <1>1 DEF ObeysSum
<1>5. g[T] = h[T]
  <2> HIDE DEF T
  <2> QED
    BY <1>2, <1>3, <1>4, SumRecursionUnique
<1>6. g[S] = f[FirstOf(S)] + g[T]
  BY <1>1 DEF ObeysSum, SumBody
<1> QED
  BY <1>1, <1>3, <1>5, <1>6, FirstOfMember

\* A sum of integers is one.
LEMMA SumType ==
  ASSUME NEW S, IsFiniteSet(S), NEW f, \A x \in S : f[x] \in Int
  PROVE  SumFunctionOnSet(f, S) \in Int
<1> DEFINE P == {T \in SUBSET S : SumFunctionOnSet(f, T) \in Int}
<1>1. ASSUME NEW T \in SUBSET S, \A U \in SUBSET T : U # T => U \in P
      PROVE  T \in P
  <2>1. IsFiniteSet(T)
    BY FS_Subset
  <2>2. CASE T = {}
    BY <2>2, SumEmpty
  <2>3. CASE T # {}
    <3>1. FirstOf(T) \in T /\ SumFunctionOnSet(f, T) = f[FirstOf(T)] + SumFunctionOnSet(f, T \ {FirstOf(T)})
      BY <2>1, <2>3, SumFirst
    <3>2. T \ {FirstOf(T)} \in P
      BY <1>1, <3>1
    <3> QED
      BY <3>1, <3>2
  <2> QED
    BY <2>2, <2>3
<1>2. S \in P
  <2> HIDE DEF P
  <2> QED
    BY <1>1, SubsetInduction
<1> QED
  BY <1>2

\* Whatever element is taken first, the sum is the same.
LEMMA SumSplit ==
  ASSUME NEW S, IsFiniteSet(S), NEW f, \A x \in S : f[x] \in Int, NEW y \in S
  PROVE  SumFunctionOnSet(f, S) = f[y] + SumFunctionOnSet(f, S \ {y})
<1> DEFINE sum(T) == SumFunctionOnSet(f, T)
           P == {T \in SUBSET S : \A z \in T : sum(T) = f[z] + sum(T \ {z})}
<1>1. ASSUME NEW T \in SUBSET S, \A U \in SUBSET T : U # T => U \in P
      PROVE  T \in P
  <2> SUFFICES ASSUME NEW z \in T PROVE sum(T) = f[z] + sum(T \ {z})
    OBVIOUS
  <2> DEFINE p == FirstOf(T)
  <2>1. IsFiniteSet(T) /\ T # {}
    BY FS_Subset
  <2>2. p \in T /\ sum(T) = f[p] + sum(T \ {p})
    BY <2>1, SumFirst
  <2> HIDE DEF p
  <2>3. CASE z = p
    BY <2>2, <2>3
  <2>4. CASE z # p
    <3> DEFINE R == (T \ {p}) \ {z}
    <3>1. T \ {p} \in P /\ T \ {z} \in P
      BY <1>1, <2>2
    <3>2. sum(T \ {p}) = f[z] + sum(R)
      BY <2>4, <3>1
    <3>3. R = (T \ {z}) \ {p}
      OBVIOUS
    <3>4. sum(T \ {z}) = f[p] + sum(R)
      BY <2>2, <2>4, <3>1, <3>3
    <3>5. f[p] \in Int /\ f[z] \in Int /\ sum(R) \in Int
      <4>1. IsFiniteSet(R) /\ R \subseteq S
        BY FS_Subset
      <4> QED
        BY <2>2, <4>1, SumType
    <3> HIDE DEF sum, R
    <3> QED
      BY <2>2, <3>2, <3>4, <3>5
  <2> QED
    BY <2>3, <2>4
<1>2. S \in P
  <2> HIDE DEF P
  <2> QED
    BY <1>1, SubsetInduction
<1> QED
  BY <1>2

\* The sum depends on what is summed and on nothing else.
LEMMA SumSame ==
  ASSUME NEW S, IsFiniteSet(S), NEW f, NEW g, \A x \in S : f[x] = g[x]
  PROVE  SumFunctionOnSet(f, S) = SumFunctionOnSet(g, S)
<1> DEFINE P == {T \in SUBSET S : SumFunctionOnSet(f, T) = SumFunctionOnSet(g, T)}
<1>1. ASSUME NEW T \in SUBSET S, \A U \in SUBSET T : U # T => U \in P
      PROVE  T \in P
  <2>1. IsFiniteSet(T)
    BY FS_Subset
  <2>2. CASE T = {}
    BY <2>2, SumEmpty
  <2>3. CASE T # {}
    <3>1. /\ FirstOf(T) \in T
          /\ SumFunctionOnSet(f, T) = f[FirstOf(T)] + SumFunctionOnSet(f, T \ {FirstOf(T)})
          /\ SumFunctionOnSet(g, T) = g[FirstOf(T)] + SumFunctionOnSet(g, T \ {FirstOf(T)})
      BY <2>1, <2>3, SumFirst
    <3>2. T \ {FirstOf(T)} \in P
      BY <1>1, <3>1
    <3> QED
      BY <3>1, <3>2
  <2> QED
    BY <2>2, <2>3
<1>2. S \in P
  <2> HIDE DEF P
  <2> QED
    BY <1>1, SubsetInduction
<1> QED
  BY <1>2

\* Changing one summand changes the sum by as much.
LEMMA SumChange ==
  ASSUME NEW S, IsFiniteSet(S), NEW f, NEW g, NEW y \in S,
         \A x \in S : f[x] \in Int /\ g[x] \in Int,
         \A x \in S : x # y => f[x] = g[x]
  PROVE  SumFunctionOnSet(g, S) = SumFunctionOnSet(f, S) + (g[y] - f[y])
<1> DEFINE T == S \ {y}
<1>1. IsFiniteSet(T)
  BY FS_RemoveElement
<1>2. SumFunctionOnSet(f, T) = SumFunctionOnSet(g, T)
  BY <1>1, SumSame
<1>3. /\ SumFunctionOnSet(f, S) = f[y] + SumFunctionOnSet(f, T)
      /\ SumFunctionOnSet(g, S) = g[y] + SumFunctionOnSet(g, T)
  BY SumSplit
<1>4. SumFunctionOnSet(f, T) \in Int
  BY <1>1, SumType
<1> QED
  BY <1>2, <1>3, <1>4

\* A sum of natural numbers is one, and no summand exceeds it.
LEMMA SumNat ==
  ASSUME NEW S, IsFiniteSet(S), NEW f, \A x \in S : f[x] \in Nat
  PROVE  /\ SumFunctionOnSet(f, S) \in Nat
         /\ \A x \in S : f[x] <= SumFunctionOnSet(f, S)
<1> DEFINE P == {T \in SUBSET S : SumFunctionOnSet(f, T) \in Nat}
<1>1. ASSUME NEW T \in SUBSET S, \A U \in SUBSET T : U # T => U \in P
      PROVE  T \in P
  <2>1. IsFiniteSet(T)
    BY FS_Subset
  <2>2. CASE T = {}
    BY <2>2, SumEmpty
  <2>3. CASE T # {}
    <3>1. FirstOf(T) \in T /\ SumFunctionOnSet(f, T) = f[FirstOf(T)] + SumFunctionOnSet(f, T \ {FirstOf(T)})
      BY <2>1, <2>3, SumFirst
    <3>2. T \ {FirstOf(T)} \in P
      BY <1>1, <3>1
    <3> QED
      BY <3>1, <3>2
  <2> QED
    BY <2>2, <2>3
<1>2. \A T \in SUBSET S : T \in P
  <2> SUFFICES ASSUME NEW T \in SUBSET S PROVE T \in P
    OBVIOUS
  <2>1. IsFiniteSet(T)
    BY FS_Subset
  <2>2. \A U \in SUBSET T : (\A V \in SUBSET U : V # U => V \in P) => U \in P
    BY <1>1
  <2> HIDE DEF P
  <2> QED
    BY <2>1, <2>2, SubsetInduction
<1>3. ASSUME NEW x \in S PROVE f[x] <= SumFunctionOnSet(f, S)
  <2>1. SumFunctionOnSet(f, S \ {x}) \in Nat
    BY <1>2
  <2>2. SumFunctionOnSet(f, S) = f[x] + SumFunctionOnSet(f, S \ {x})
    BY SumSplit
  <2> QED
    BY <2>1, <2>2
<1> QED
  BY <1>2, <1>3
=============================================================================
