------------------------- MODULE FeatureFeedProofs -------------------------
(***************************************************************************)
(* Theorems about FeatureFeed.                                             *)
(***************************************************************************)
EXTENDS FeatureFeed, FiniteSetTheorems, TLAPS

Callers == Symbols \cup {"global"}

\* A call is running only at an endpoint of its job's route, in the job's
\* phase, since this cycle began, and for no longer than calls take.
Calling ==
  \A j \in Callers : sent[j] # Idle =>
    /\ step[j] \in 1..Len(Route(j))
    /\ phase = IF j = "global" THEN "global" ELSE "symbols"
    /\ cycleStart <= sent[j]
    /\ sent[j] <= now
    /\ now <= sent[j] + MaxLatency

Working == \A s \in Symbols : step[s] \in 1..4 => phase = "symbols"

Clock == cycleStart <= now

\* The cache is within its limit and its stamps are honest.
Stored ==
  /\ IsFiniteSet(DOMAIN cache)
  /\ CacheBounded
  /\ \A k \in DOMAIN cache : cache[k].asOf = cache[k].fetched /\ cache[k].fetched <= now

\* The stamps a symbol has collected are honest too.
Kept ==
  /\ PartsWithinTtl
  /\ \A s \in Symbols : \A e \in DOMAIN parts[s] : parts[s][e].asOf = parts[s][e].fetched

TypeInv == TypeOK /\ Calling /\ Working /\ Clock

\* How far a job that has its price may have come from the price's stamp:
\* a cached price is under its TTL, a fetched one waited for one call, and
\* the second part may wait for another.  Each bound holds because what is
\* ready runs before time passes.
PriceLead == Larger(Ttl["coin"] - 1, MaxLatency)
Reached(s) == IF sent[s] = Idle THEN now ELSE sent[s]
Price(s) == parts[s]["coin"].fetched

PromptAt(s) ==
    /\ step[s] \in {0, 1} => DOMAIN parts[s] = {}
    /\ step[s] \in {2, 3} =>
         /\ "coin" \in DOMAIN parts[s]
         /\ Reached(s) <= Price(s) + PriceLead + IF step[s] = 2 THEN 0 ELSE MaxLatency
    /\ \A e \in DOMAIN parts[s] :
         /\ "coin" \in DOMAIN parts[s]
         /\ parts[s][e].fetched <= Price(s) + PriceLead + MaxLatency

Prompt == \A s \in Symbols : PromptAt(s)

\* A verdict stands only between two cycles.
Undecided == phase # "sleeping" => \A s \in Symbols : verdict[s] = "none"

-----------------------------------------------------------------------------
LEMMA Constants ==
  /\ Ttl \in [Endpoints -> Nat]
  /\ "global" \notin Symbols /\ "account" \notin Symbols
  /\ MaxCache \in Nat /\ MaxCache >= 1
  /\ Interval \in Nat
  /\ KillAge \in Nat /\ DefenseAge \in Nat /\ MaxLatency \in Nat /\ MaxTime \in Nat
BY FeedAssumption

\* What a job asks for at each step of its route.
LEMMA Routes ==
  /\ Len(Route("global")) = 2
  /\ \A n \in 1..2 : Route("global")[n] \in Endpoints
  /\ \A s \in Symbols :
       /\ Len(Route(s)) = 3
       /\ Route(s)[1] = "coin" /\ Route(s)[2] = "funding_rate" /\ Route(s)[3] = "heatmap_future"
       /\ \A n \in 1..3 : Route(s)[n] \in Endpoints /\ Route(s)[n] \in Parts
<1>1. Len(Route("global")) = 2 /\ \A n \in 1..2 : Route("global")[n] \in Endpoints
  BY DEF Route, Endpoints
<1>2. ASSUME NEW s \in Symbols
      PROVE  /\ Len(Route(s)) = 3
             /\ Route(s)[1] = "coin" /\ Route(s)[2] = "funding_rate"
             /\ Route(s)[3] = "heatmap_future"
             /\ \A n \in 1..3 : Route(s)[n] \in Endpoints /\ Route(s)[n] \in Parts
  <2>1. Route(s) = <<"coin", "funding_rate", "heatmap_future">>
    BY Constants DEF Route
  <2>2. QED  BY <2>1 DEF Endpoints, Parts
<1>3. QED  BY <1>1, <1>2

LEMMA RouteBounds ==
  \A j \in Callers : \A n : n \in 1..Len(Route(j)) =>
    /\ n \in 1..3
    /\ j = "global" => n \in 1..2
<1> SUFFICES ASSUME NEW j \in Callers, NEW n, n \in 1..Len(Route(j))
             PROVE  n \in 1..3 /\ (j = "global" => n \in 1..2)
  OBVIOUS
<1>1. CASE j = "global"
  <2>1. Len(Route(j)) = 2
    BY <1>1, Routes
  <2>2. n \in 1..2
    BY <2>1
  <2>3. QED  BY <2>2
<1>2. CASE j \in Symbols
  <2>1. Len(Route(j)) = 3 /\ j # "global"
    BY <1>2, Routes, Constants
  <2>2. QED  BY <2>1
<1>3. QED  BY <1>1, <1>2 DEF Callers

\* A job moves on from one step of its route to the next.
LEMMA Advance ==
  ASSUME TypeOK, NEW j \in Callers, step[j] \in 1..Len(Route(j))
  PROVE  /\ j \in Jobs
         /\ step[j] + 1 \in 2..4
         /\ [step EXCEPT ![j] = step[j] + 1] \in [Jobs -> 0..4 \cup {Done}]
<1>1. j \in Jobs
  BY DEF Callers, Jobs
<1>2. step[j] \in 1..3
  BY RouteBounds
<1>3. step[j] + 1 \in 2..4
  BY <1>2
<1>4. step \in [Jobs -> 0..4 \cup {Done}] /\ step[j] + 1 \in 0..4 \cup {Done}
  BY <1>3 DEF TypeOK
<1> HIDE DEF Done
<1>5. [step EXCEPT ![j] = step[j] + 1] \in [Jobs -> 0..4 \cup {Done}]
  BY <1>1, <1>4
<1>6. QED  BY <1>1, <1>3, <1>5

\* Collecting an answer adds one endpoint to the parts of one symbol.
LEMMA CollectedFacts ==
  ASSUME TypeOK, NEW j \in Callers, step[j] \in 1..Len(Route(j)), NEW answer
  PROVE  /\ j = "global" => Collected(j, answer) = parts
         /\ DOMAIN Collected(j, answer) = Symbols
         /\ \A s \in Symbols \ {j} : Collected(j, answer)[s] = parts[s]
         /\ j \in Symbols =>
              /\ Endpoint(j) \in Parts
              /\ DOMAIN Collected(j, answer)[j] = DOMAIN parts[j] \cup {Endpoint(j)}
              /\ \A e \in DOMAIN parts[j] \cup {Endpoint(j)} :
                   Collected(j, answer)[j][e] =
                     IF e = Endpoint(j) THEN answer ELSE parts[j][e]
BY Constants, Routes DEF Collected, Callers, TypeOK, Endpoint

\* Storing an answer adds its key and may drop one of the oldest.
LEMMA StoredFacts ==
  ASSUME NEW key, NEW answer, Store(key, answer)
  PROVE  /\ key \in DOMAIN cache' /\ cache'[key] = answer
         /\ \A k \in DOMAIN cache' : k # key => k \in DOMAIN cache /\ cache'[k] = cache[k]
         /\ DOMAIN cache' \subseteq DOMAIN cache \cup {key}
         /\ Cardinality(DOMAIN cache) >= MaxCache =>
              \E k \in DOMAIN cache : DOMAIN cache' = (DOMAIN cache \ {k}) \cup {key}
BY DEF Store, Oldest

-----------------------------------------------------------------------------
(* Types, and where a running call belongs *)

LEMMA TypeInit == Init => TypeInv
<1> SUFFICES ASSUME Init PROVE TypeInv  OBVIOUS
<1> USE DEF Init
<1>1. TypeOK
  BY Constants DEF TypeOK, Times, Nothing, Jobs, Done, Idle
<1>2. Calling
  BY Constants DEF Calling, Callers, Jobs, Idle
<1>3. Working
  BY DEF Working, Jobs, Done
<1>4. QED  BY <1>1, <1>2, <1>3 DEF TypeInv, Clock

LEMMA TypeStep == TypeInv /\ [Next]_vars => TypeInv'
<1> SUFFICES ASSUME TypeInv, [Next]_vars PROVE TypeInv'  OBVIOUS
<1> USE DEF TypeInv
<1>1. CASE StartCycle
  <2>1. TypeOK'
    BY <1>1, Constants DEF StartCycle, Nothing, TypeOK, Jobs, Done, Times
  <2>2. Calling'
    BY <1>1 DEF StartCycle, Calling, Callers
  <2>3. Working' /\ Clock'
    BY <1>1, Constants DEF StartCycle, Working, Clock, Jobs, TypeOK, Times
  <2>4. QED  BY <2>1, <2>2, <2>3
<1>2. CASE StartSymbols
  <2>1. TypeOK'
    BY <1>2 DEF StartSymbols, TypeOK
  <2>2. Calling'
    BY <1>2, RouteBounds DEF StartSymbols, Calling, Callers
  <2>3. QED  BY <1>2, <2>1, <2>2 DEF StartSymbols, Working, Clock
<1>3. CASE Decide
  <2>1. TypeOK'
    <3>1. verdict' \in [Symbols -> {"none", "stale", "defense", "candidate"}]
      BY <1>3 DEF Decide, Verdict
    <3>2. sent' \in [Jobs -> Times \cup {Idle}]
      BY <1>3 DEF Decide, TypeOK, Jobs
    <3>3. wake' \in 0..(MaxTime + Interval)
      BY <1>3, Constants DEF Decide, TypeOK, Times
    <3>4. QED  BY <1>3, <3>1, <3>2, <3>3 DEF Decide, TypeOK
  <2>2. \A j \in Callers : sent'[j] = Idle
    BY <1>3, Constants, RouteBounds DEF Decide, Gathered, Calling, Callers, TypeOK, Jobs, Done
  <2>3. Working' /\ Clock'
    BY <1>3 DEF Decide, Gathered, Working, Clock, Done
  <2>4. QED  BY <2>1, <2>2, <2>3 DEF Calling
<1>4. CASE Reconcile
  <2>1. TypeOK'
    BY <1>4 DEF Reconcile, TypeOK, Jobs
  <2>2. \A j \in Callers : sent'[j] = Idle
    BY <1>4, Constants, RouteBounds DEF Reconcile, Gathered, Calling, Callers, TypeOK, Jobs, Done
  <2>3. Working' /\ Clock'
    BY <1>4 DEF Reconcile, Gathered, Working, Clock, Done
  <2>4. QED  BY <2>1, <2>2, <2>3 DEF Calling
<1>5. CASE ReconcileFails
  <2>1. TypeOK'
    BY <1>5, Constants DEF ReconcileFails, TypeOK, Jobs, Times
  <2>2. \A j \in Callers : sent'[j] = Idle
    BY <1>5, Constants DEF ReconcileFails, Calling, Callers, TypeOK, Jobs
  <2>3. QED  BY <1>5, <2>1, <2>2 DEF ReconcileFails, Calling, Working, Clock
<1>6. ASSUME NEW s \in Symbols, Enter(s) PROVE TypeInv'
  <2>1. TypeOK' /\ Working' /\ Clock'
    BY <1>6 DEF Enter, MayEnter, TypeOK, Jobs, Working, Clock
  <2>2. Calling'
    BY <1>6, RouteBounds DEF Enter, MayEnter, Calling, Callers, TypeOK, Jobs
  <2>3. QED  BY <2>1, <2>2
<1>7. ASSUME NEW s \in Symbols, Build(s) PROVE TypeInv'
  <2>1. TypeOK'
    BY <1>7 DEF Build, Nothing, TypeOK, Jobs, Done
  <2>2. Calling'
    BY <1>7, RouteBounds DEF Build, Calling, Callers, TypeOK, Jobs
  <2>3. QED  BY <1>7, <2>1, <2>2 DEF Build, Working, Clock, TypeOK, Jobs, Done
<1>8. ASSUME NEW j \in Jobs, Reuse(j) PROVE TypeInv'
  <2>1. j \in Callers /\ step[j] \in 1..Len(Route(j)) /\ sent[j] = Idle
    BY <1>8 DEF Reuse, Ready, AtCall, Callers
  <2>2. cache[CacheKey(j)] \in Answers
    BY <1>8 DEF Reuse, Fresh, TypeOK
  <2>3. step' \in [Jobs -> 0..4 \cup {Done}]
    BY <1>8, <2>1, Advance DEF Reuse, TypeOK
  <2>4. TypeOK'
    BY <1>8, <2>1, <2>2, <2>3, CollectedFacts DEF Reuse, TypeOK, Callers
  <2>5. Calling'
    BY <1>8, <2>1 DEF Reuse, Calling, Callers, TypeOK, Jobs
  <2>6. QED
    BY <1>8, <2>1, <2>4, <2>5, Constants DEF Reuse, Ready, Working, Clock, TypeOK, Jobs, Callers
<1>9. ASSUME NEW j \in Jobs, Call(j) PROVE TypeInv'
  <2>1. TypeOK' /\ Working' /\ Clock'
    BY <1>9 DEF Call, TypeOK, Working, Clock
  <2>2. Calling'
    BY <1>9, Constants DEF Call, Ready, AtCall, Calling, Callers, TypeOK, Jobs, Clock, Times
  <2>3. QED  BY <2>1, <2>2
<1>10. ASSUME NEW j \in Jobs, Answer(j) PROVE TypeInv'
  <2>1. j \in Callers /\ step[j] \in 1..Len(Route(j)) /\ sent[j] \in Times
    BY <1>10 DEF Answer, Jobs, Callers, Calling, TypeOK
  <2>2. Stamp(j) \in Answers /\ CacheKey(j) \in CacheKeys
    BY <2>1, Routes, RouteBounds DEF Stamp, Answers, CacheKey, CacheKeys, Endpoint, Callers
  <2>3. DOMAIN cache' \subseteq CacheKeys /\ \A k \in DOMAIN cache' : cache'[k] \in Answers
    BY <1>10, <2>2, StoredFacts DEF Answer, TypeOK
  <2>4. step' \in [Jobs -> 0..4 \cup {Done}] /\ sent' \in [Jobs -> Times \cup {Idle}]
    <3>1. step' \in [Jobs -> 0..4 \cup {Done}]
      BY <1>10, <2>1, Advance DEF Answer, TypeOK
    <3>2. sent' \in [Jobs -> Times \cup {Idle}]
      BY <1>10 DEF Answer, TypeOK
    <3>3. QED  BY <3>1, <3>2
  <2>5. TypeOK'
    BY <1>10, <2>1, <2>2, <2>3, <2>4, CollectedFacts DEF Answer, TypeOK, Callers
  <2>6. Calling'
    BY <1>10, <2>1 DEF Answer, Calling, Callers, TypeOK, Jobs
  <2>7. QED
    BY <1>10, <2>1, <2>5, <2>6, Constants, RouteBounds
       DEF Answer, Calling, Working, Clock, TypeOK, Jobs, Callers
<1>11. ASSUME NEW j \in Jobs, CallFails(j) PROVE TypeInv'
  <2>1. j \in Callers /\ step[j] \in 1..Len(Route(j))
    BY <1>11 DEF CallFails, Jobs, Callers, Calling
  <2>2. TypeOK'
    BY <1>11, <2>1, RouteBounds DEF CallFails, Nothing, TypeOK, Jobs, Callers, Done
  <2>3. Calling'
    BY <1>11, <2>1 DEF CallFails, Calling, Callers, TypeOK, Jobs
  <2>4. QED
    BY <1>11, <2>1, <2>2, <2>3, Constants DEF CallFails, Working, Clock, TypeOK, Jobs, Callers, Done
<1>12. CASE Tick
  <2>1. TypeOK' /\ Working' /\ Clock'
    BY <1>12, Constants DEF Tick, TypeOK, Working, Clock, Times
  <2>2. Calling'
    BY <1>12, Constants DEF Tick, Waiting, Calling, Callers, Jobs, TypeOK, Times, Idle
  <2>3. QED  BY <2>1, <2>2
<1>13. CASE UNCHANGED vars
  BY <1>13 DEF vars, TypeOK, Calling, Working, Clock
<1>14. QED
  BY <1>1, <1>2, <1>3, <1>4, <1>5, <1>6, <1>7, <1>8, <1>9, <1>10, <1>11, <1>12, <1>13
     DEF Next, Cycle, JobStep

\* Time only moves forward, and only in Tick; the cache only changes with an
\* answer.
LEMMA Steady ==
  TypeInv /\ [Next]_vars =>
    /\ now \in Nat /\ now' \in Nat /\ now <= now'
    /\ cache' = cache \/ \E j \in Jobs : Answer(j)
<1> SUFFICES ASSUME TypeInv, [Next]_vars
             PROVE  /\ now \in Nat /\ now' \in Nat /\ now <= now'
                    /\ cache' = cache \/ \E j \in Jobs : Answer(j)
  OBVIOUS
<1>1. now \in Nat
  BY Constants DEF TypeInv, TypeOK, Times
<1>2. now' = now \/ now' = now + 1
  BY DEF Next, Cycle, JobStep, vars, StartCycle, StartSymbols, Decide, Reconcile,
         ReconcileFails, Enter, Build, Reuse, Call, Answer, CallFails, Tick
<1>3. cache' = cache \/ \E j \in Jobs : Answer(j)
  BY DEF Next, Cycle, JobStep, vars, StartCycle, StartSymbols, Decide, Reconcile,
         ReconcileFails, Enter, Build, Reuse, Call, CallFails, Tick
<1>4. QED  BY <1>1, <1>2, <1>3

-----------------------------------------------------------------------------
(* The cache *)

\* Room for one answer is made when, and only when, the cache is full.
LEMMA RoomIsMade ==
  ASSUME NEW key, NEW answer, Store(key, answer),
         IsFiniteSet(DOMAIN cache), CacheBounded
  PROVE  IsFiniteSet(DOMAIN cache') /\ CacheBounded'
<1> DEFINE D == DOMAIN cache
<1>1. Cardinality(D) \in Nat /\ MaxCache \in Nat /\ MaxCache >= 1 /\ Cardinality(D) <= MaxCache
  BY FS_CardinalityType, Constants DEF CacheBounded
<1>2. CASE Cardinality(D) >= MaxCache
  <2>1. PICK k \in D : DOMAIN cache' = (D \ {k}) \cup {key}
    BY <1>2, StoredFacts
  <2>2. IsFiniteSet(D \ {k}) /\ Cardinality(D \ {k}) = Cardinality(D) - 1
    BY FS_RemoveElement
  <2>3. /\ IsFiniteSet((D \ {k}) \cup {key})
        /\ \/ Cardinality((D \ {k}) \cup {key}) = Cardinality(D \ {k})
           \/ Cardinality((D \ {k}) \cup {key}) = Cardinality(D \ {k}) + 1
    BY <2>2, FS_AddElement
  <2>4. QED  BY <1>1, <2>1, <2>2, <2>3 DEF CacheBounded
<1>3. CASE Cardinality(D) < MaxCache
  <2>1. DOMAIN cache' \subseteq D \cup {key}
    BY StoredFacts
  <2>2. /\ IsFiniteSet(D \cup {key})
        /\ \/ Cardinality(D \cup {key}) = Cardinality(D)
           \/ Cardinality(D \cup {key}) = Cardinality(D) + 1
    BY FS_AddElement
  <2>3. /\ IsFiniteSet(DOMAIN cache')
        /\ Cardinality(DOMAIN cache') <= Cardinality(D \cup {key})
        /\ Cardinality(DOMAIN cache') \in Nat
    BY <2>1, <2>2, FS_Subset, FS_CardinalityType
  <2>4. QED  BY <1>1, <1>3, <2>2, <2>3 DEF CacheBounded
<1>4. QED  BY <1>1, <1>2, <1>3

LEMMA StoredStep == TypeInv /\ Stored /\ [Next]_vars => Stored'
<1> SUFFICES ASSUME TypeInv, Stored, [Next]_vars PROVE Stored'  OBVIOUS
<1>1. now \in Nat /\ now' \in Nat /\ now <= now'
  BY Steady
<1>2. CASE cache' = cache
  BY <1>1, <1>2 DEF Stored, CacheBounded, TypeInv, TypeOK, Answers, Times
<1>3. ASSUME NEW j \in Jobs, Answer(j) PROVE Stored'
  <2>1. sent[j] \in Nat /\ sent[j] <= now /\ now' = now
    BY <1>3, Constants DEF Answer, TypeInv, TypeOK, Calling, Callers, Jobs, Times
  <2>2. Store(CacheKey(j), Stamp(j))
    BY <1>3 DEF Answer
  <2>3. IsFiniteSet(DOMAIN cache') /\ CacheBounded'
    BY <2>2, RoomIsMade DEF Stored
  <2>4. Stamp(j).asOf = Stamp(j).fetched /\ Stamp(j).fetched <= now'
    BY <2>1 DEF Stamp
  <2>5. \A k \in DOMAIN cache' : cache'[k].asOf = cache'[k].fetched /\ cache'[k].fetched <= now'
    BY <2>1, <2>2, <2>4, StoredFacts DEF Stored
  <2>6. QED  BY <2>3, <2>5 DEF Stored
<1>4. QED  BY <1>2, <1>3, Steady

LEMMA StoredInit == Init => Stored
<1> SUFFICES ASSUME Init PROVE Stored  OBVIOUS
<1>1. DOMAIN cache = {}
  BY DEF Init, Nothing
<1>2. IsFiniteSet({}) /\ Cardinality({}) = 0
  BY FS_EmptySet
<1>3. QED  BY <1>1, <1>2, Constants DEF Stored, CacheBounded

-----------------------------------------------------------------------------
(* What a symbol collects *)

\* An answer that may be collected: honest, and within the TTL of its
\* endpoint when the cycle began.
Usable(e, answer) ==
  /\ answer.asOf = answer.fetched
  /\ answer.asOf >= cycleStart \/ cycleStart - answer.asOf < Ttl[e]

LEMMA CollectedKept ==
  ASSUME TypeInv, Kept, NEW j \in Callers, step[j] \in 1..Len(Route(j)),
         NEW answer, j \in Symbols => Usable(Endpoint(j), answer),
         parts' = Collected(j, answer), cycleStart' = cycleStart
  PROVE  Kept'
<1> SUFFICES ASSUME NEW s \in Symbols, NEW e \in DOMAIN parts'[s]
             PROVE  /\ parts'[s][e].asOf = parts'[s][e].fetched
                    /\ \/ parts'[s][e].asOf >= cycleStart
                       \/ cycleStart - parts'[s][e].asOf < Ttl[e]
  BY DEF Kept, PartsWithinTtl
<1>1. CASE parts'[s] = parts[s]
  BY <1>1 DEF Kept, PartsWithinTtl
<1>2. CASE s = j /\ e = Endpoint(j)
  <2>1. parts'[s][e] = answer
    BY <1>2, CollectedFacts DEF TypeInv
  <2>2. QED  BY <1>2, <2>1 DEF Usable
<1>3. CASE s = j /\ e # Endpoint(j)
  <2>1. e \in DOMAIN parts[s] /\ parts'[s][e] = parts[s][e]
    BY <1>3, CollectedFacts DEF TypeInv
  <2>2. QED  BY <2>1 DEF Kept, PartsWithinTtl
<1>4. QED  BY <1>1, <1>2, <1>3, CollectedFacts DEF TypeInv, Callers

LEMMA KeptStep == TypeInv /\ Stored /\ Kept /\ [Next]_vars => Kept'
<1> SUFFICES ASSUME TypeInv, Stored, Kept, [Next]_vars PROVE Kept'  OBVIOUS
<1>1. CASE StartCycle
  BY <1>1 DEF StartCycle, Nothing, Kept, PartsWithinTtl
<1>2. ASSUME NEW j \in Jobs, Reuse(j) PROVE Kept'
  <2> DEFINE a == cache[CacheKey(j)]
  <2>1. j \in Callers /\ step[j] \in 1..Len(Route(j))
    BY <1>2 DEF Reuse, Ready, AtCall, Callers
  <2>2. /\ a \in Answers /\ a.asOf = a.fetched
        /\ now - a.fetched < Ttl[Endpoint(j)]
    BY <1>2 DEF Reuse, Fresh, Stored, TypeInv, TypeOK
  <2>3. ASSUME j \in Symbols PROVE Usable(Endpoint(j), a)
    <3>1. Ttl[Endpoint(j)] \in Nat
      BY <2>1, <2>3, CollectedFacts, Constants DEF TypeInv, Parts, Endpoints
    <3>2. now \in Nat /\ cycleStart \in Nat /\ cycleStart <= now /\ a.asOf \in Nat
      BY <2>2, Constants DEF TypeInv, TypeOK, Clock, Times, Answers
    <3>3. QED  BY <2>2, <3>1, <3>2 DEF Usable
  <2>4. QED  BY <1>2, <2>1, <2>3, CollectedKept DEF Reuse
<1>3. ASSUME NEW j \in Jobs, Answer(j) PROVE Kept'
  <2>1. j \in Callers /\ step[j] \in 1..Len(Route(j)) /\ cycleStart <= sent[j]
    BY <1>3 DEF Answer, Jobs, Callers, TypeInv, Calling
  <2>2. Usable(Endpoint(j), Stamp(j))
    BY <2>1 DEF Usable, Stamp
  <2>3. QED  BY <1>3, <2>1, <2>2, CollectedKept DEF Answer
<1>4. ASSUME NEW j \in Jobs, CallFails(j) PROVE Kept'
  BY <1>4 DEF CallFails, Nothing, Kept, PartsWithinTtl, TypeInv, TypeOK
<1>5. ASSUME NEW s \in Symbols, Build(s) PROVE Kept'
  BY <1>5 DEF Build, Nothing, Kept, PartsWithinTtl, TypeInv, TypeOK
<1>6. CASE parts' = parts /\ cycleStart' = cycleStart
  BY <1>6 DEF Kept, PartsWithinTtl
<1>7. QED
  BY <1>1, <1>2, <1>3, <1>4, <1>5, <1>6
     DEF Next, Cycle, JobStep, vars, StartSymbols, Decide, Reconcile, ReconcileFails,
         Enter, Call, Tick

-----------------------------------------------------------------------------
(* The first staleness gate *)

\* A feature is as young as the youngest of its parts.
LEMMA YoungestPart ==
  ASSUME TypeOK, NEW s \in Symbols, DOMAIN parts[s] = Parts, NEW e \in Parts
  PROVE  /\ FeatureTime(s) \in Nat /\ parts[s][e].fetched <= FeatureTime(s)
         /\ \E f \in Parts : FeatureTime(s) = parts[s][f].fetched
<1> DEFINE at(f) == parts[s][f].fetched
           T == {parts[s][f].fetched : f \in Parts}
<1>1. \A f \in Parts : at(f) \in Nat
  BY Constants DEF TypeOK, Answers, Times
<1>2. \E f \in Parts : \A g \in Parts : at(g) <= at(f)
  <2>1. /\ at("coin") \in Nat /\ at("funding_rate") \in Nat /\ at("heatmap_future") \in Nat
        /\ \A g : g \in Parts <=> g = "coin" \/ g = "funding_rate" \/ g = "heatmap_future"
    BY <1>1 DEF Parts
  <2> HIDE DEF at
  <2>2. CASE at("funding_rate") <= at("coin") /\ at("heatmap_future") <= at("coin")
    BY <2>1, <2>2
  <2>3. CASE at("coin") <= at("funding_rate") /\ at("heatmap_future") <= at("funding_rate")
    BY <2>1, <2>3
  <2>4. CASE at("coin") <= at("heatmap_future") /\ at("funding_rate") <= at("heatmap_future")
    BY <2>1, <2>4
  <2>5. QED  BY <2>1, <2>2, <2>3, <2>4
<1>3. \E t \in T : \A g \in Parts : at(g) <= t
  BY <1>2
<1>4. FeatureTime(s) \in T /\ \A g \in Parts : at(g) <= FeatureTime(s)
  BY <1>3 DEF FeatureTime
<1>5. QED  BY <1>1, <1>4

LEMMA NeverStale ==
  ASSUME TypeInv, Kept, NEW e \in Parts, Ttl[e] <= KillAge,
         NEW s \in Symbols, HasFeature(s)
  PROVE  AgeAtStart(s) <= KillAge
<1>1. DOMAIN parts[s] = Parts
  BY DEF HasFeature
<1>2. FeatureTime(s) \in Nat /\ parts[s][e].fetched <= FeatureTime(s)
  BY <1>1, YoungestPart DEF TypeInv
<1>3. parts[s][e].fetched \in Nat /\ cycleStart \in Nat /\ Ttl[e] \in Nat /\ KillAge \in Nat
  BY <1>1, Constants DEF TypeInv, TypeOK, Answers, Times, Parts, Endpoints
<1>4. \/ parts[s][e].fetched >= cycleStart
      \/ cycleStart - parts[s][e].fetched < Ttl[e]
  BY <1>1 DEF Kept, PartsWithinTtl
<1>5. QED  BY <1>2, <1>3, <1>4 DEF AgeAtStart

LEMMA GateStep == TypeInv /\ Kept /\ StaleGateIdle /\ [Next]_vars => StaleGateIdle'
<1> SUFFICES ASSUME TypeInv, Kept, StaleGateIdle, [Next]_vars,
                    NEW e \in Parts, Ttl[e] <= KillAge, NEW s \in Symbols
             PROVE  verdict'[s] # "stale"
  BY DEF StaleGateIdle
<1>1. CASE StartCycle
  BY <1>1 DEF StartCycle
<1>2. CASE Decide
  <2>1. verdict'[s] = Verdict(s)
    BY <1>2 DEF Decide
  <2>2. HasFeature(s) => AgeAtStart(s) <= KillAge /\ AgeAtStart(s) \in Int
    <3> SUFFICES ASSUME HasFeature(s)
                 PROVE  AgeAtStart(s) <= KillAge /\ AgeAtStart(s) \in Int
      OBVIOUS
    <3>1. FeatureTime(s) \in Nat
      BY YoungestPart DEF TypeInv, HasFeature
    <3>2. cycleStart \in Nat
      BY Constants DEF TypeInv, TypeOK, Times
    <3>3. QED  BY <3>1, <3>2, NeverStale DEF AgeAtStart
  <2>3. ~(HasFeature(s) /\ AgeAtStart(s) > KillAge)
    BY <2>2, Constants
  <2>4. QED  BY <2>1, <2>3 DEF Verdict
<1>3. CASE verdict' = verdict
  BY <1>3 DEF StaleGateIdle
<1>4. QED
  BY <1>1, <1>2, <1>3
     DEF Next, Cycle, JobStep, vars, StartSymbols, Reconcile, ReconcileFails,
         Enter, Build, Reuse, Call, Answer, CallFails, Tick

-----------------------------------------------------------------------------
(* The age of a price *)

LEMMA Leads == PriceLead \in Nat /\ Ttl["coin"] \in Nat
               /\ Ttl["coin"] - 1 <= PriceLead /\ MaxLatency <= PriceLead
<1>1. Ttl["coin"] \in Nat /\ MaxLatency \in Nat
  BY Constants DEF Endpoints
<1>2. QED  BY <1>1 DEF PriceLead, Larger

\* What a symbol collects keeps its place behind the price: the price itself
\* is no older than PriceLead, and a later part waited for at most one call.
LEMMA CollectedPrompt ==
  ASSUME TypeInv, Prompt, NEW j \in Symbols, step[j] \in 1..Len(Route(j)),
         NEW answer \in Answers, answer.fetched <= Reached(j),
         step[j] = 1 => now <= answer.fetched + PriceLead,
         now <= Reached(j) + MaxLatency,
         parts' = Collected(j, answer), step' = [step EXCEPT ![j] = step[j] + 1],
         now' = now, sent'[j] = Idle
  PROVE  PromptAt(j)'
<1> DEFINE stamp == answer.fetched  from == Reached(j)  lead == PriceLead
<1>1. /\ j \in Callers /\ j # "global" /\ step[j] \in 1..3 /\ step'[j] = step[j] + 1
      /\ Reached(j)' = now /\ PromptAt(j)
  <2>1. j \in Callers /\ j # "global" /\ step[j] \in 1..3
    BY Constants, RouteBounds DEF Callers
  <2>2. step'[j] = step[j] + 1
    BY DEF TypeInv, TypeOK, Jobs
  <2>3. QED  BY <2>1, <2>2 DEF Prompt, Reached
<1>2. /\ DOMAIN parts'[j] = DOMAIN parts[j] \cup {Endpoint(j)}
      /\ \A e \in DOMAIN parts[j] \cup {Endpoint(j)} :
           parts'[j][e] = IF e = Endpoint(j) THEN answer ELSE parts[j][e]
  BY <1>1, CollectedFacts DEF TypeInv
<1>3. /\ now \in Nat /\ from \in Nat /\ stamp \in Nat /\ lead \in Nat /\ MaxLatency \in Nat
      /\ MaxLatency <= lead
      /\ \A e \in DOMAIN parts[j] : parts[j][e].fetched \in Nat
  <2>1. now \in Nat /\ from \in Nat
    BY <1>1, Constants DEF Reached, TypeInv, TypeOK, Times, Jobs, Callers
  <2>2. stamp \in Nat /\ \A e \in DOMAIN parts[j] : parts[j][e].fetched \in Nat
    BY Constants DEF TypeInv, TypeOK, Answers, Times
  <2>3. QED  BY <2>1, <2>2, Leads, Constants
<1>4. CASE step[j] = 1
  <2>1. Endpoint(j) = "coin" /\ DOMAIN parts[j] = {} /\ step'[j] = 2
    BY <1>1, <1>4, Routes DEF Endpoint, PromptAt
  <2>2. DOMAIN parts'[j] = {"coin"} /\ parts'[j]["coin"] = answer /\ Price(j)' = stamp
    BY <1>2, <2>1 DEF Price
  <2>3. now <= stamp + lead /\ stamp <= stamp + lead + MaxLatency
    BY <1>3, <1>4
  <2>4. QED  BY <1>1, <1>3, <2>1, <2>2, <2>3 DEF PromptAt
<1>5. CASE step[j] \in {2, 3}
  <2> DEFINE price == Price(j)
             slack == IF step[j] = 2 THEN 0 ELSE MaxLatency
  <2>1. Endpoint(j) # "coin" /\ "coin" \in DOMAIN parts[j] /\ step'[j] \in {3, 4}
    BY <1>1, <1>5, Routes DEF Endpoint, PromptAt
  <2>2. "coin" \in DOMAIN parts'[j] /\ parts'[j]["coin"] = parts[j]["coin"]
    BY <1>2, <2>1
  <2>3. Price(j)' = price /\ price \in Nat
    BY <1>3, <2>1, <2>2 DEF Price
  <2>4. from <= price + lead + slack
    BY <1>1, <1>5 DEF PromptAt
  <2>5. now <= from + MaxLatency /\ stamp <= from
    OBVIOUS
  <2>6. stamp <= price + lead + MaxLatency
    <3> HIDE DEF stamp, from, lead, price
    <3>1. slack <= MaxLatency /\ slack \in Nat
      BY <1>3
    <3> HIDE DEF slack
    <3>2. QED  BY <1>3, <2>3, <2>4, <2>5, <3>1
  <2>7. ASSUME step'[j] = 3 PROVE now <= price + lead + MaxLatency
    <3>1. slack = 0
      BY <1>1, <2>7
    <3> HIDE DEF stamp, from, lead, price, slack
    <3>2. QED  BY <1>3, <2>3, <2>4, <2>5, <3>1
  <2>8. \A e \in DOMAIN parts'[j] : parts'[j][e].fetched <= price + lead + MaxLatency
    BY <1>1, <1>2, <2>1, <2>6 DEF PromptAt
  <2>9. QED  BY <1>1, <2>1, <2>2, <2>3, <2>7, <2>8 DEF PromptAt
<1>6. QED  BY <1>1, <1>4, <1>5

LEMMA PromptStep == TypeInv /\ Stored /\ Prompt /\ [Next]_vars => Prompt'
<1> SUFFICES ASSUME TypeInv, Stored, Prompt, [Next]_vars, NEW s \in Symbols
             PROVE  PromptAt(s)'
  BY DEF Prompt
<1>1. s \in Jobs /\ s \in Callers /\ s # "global" /\ s # "account" /\ PromptAt(s)
  BY Constants DEF Jobs, Callers, Prompt
<1>2. CASE StartCycle
  BY <1>1, <1>2 DEF StartCycle, Nothing, PromptAt
<1>3. CASE Decide \/ Reconcile \/ ReconcileFails
  <2>1. sent'[s] = sent[s] /\ now' = now /\ parts' = parts /\ step' = step
    BY <1>1, <1>3 DEF Decide, Reconcile, ReconcileFails, TypeInv, TypeOK
  <2>2. QED  BY <1>1, <2>1 DEF PromptAt, Reached, Price
<1>4. CASE StartSymbols \/ UNCHANGED vars
  BY <1>1, <1>4 DEF StartSymbols, vars, PromptAt, Reached, Price
<1>5. ASSUME NEW t \in Symbols, Enter(t) PROVE PromptAt(s)'
  <2>1. step'[s] = step[s] \/ (step[s] = 0 /\ step'[s] = 1)
    BY <1>1, <1>5 DEF Enter, MayEnter, TypeInv, TypeOK
  <2>2. QED  BY <1>1, <1>5, <2>1 DEF Enter, PromptAt, Reached, Price
<1>6. ASSUME NEW t \in Symbols, Build(t) PROVE PromptAt(s)'
  <2>1. CASE t = s
    <3>1. step'[s] = Done /\ (parts'[s] = parts[s] \/ DOMAIN parts'[s] = {})
      BY <1>1, <1>6, <2>1 DEF Build, Nothing, TypeInv, TypeOK
    <3>2. QED  BY <1>1, <3>1 DEF PromptAt, Price, Done
  <2>2. CASE t # s
    <3>1. step'[s] = step[s] /\ parts'[s] = parts[s]
      BY <1>1, <1>6, <2>2 DEF Build, TypeInv, TypeOK
    <3>2. QED  BY <1>1, <1>6, <3>1 DEF Build, PromptAt, Reached, Price
  <2>3. QED  BY <2>1, <2>2
<1>7. ASSUME NEW j \in Jobs, Reuse(j) PROVE PromptAt(s)'
  <2>1. j \in Callers /\ step[j] \in 1..Len(Route(j)) /\ sent[j] = Idle
    BY <1>7 DEF Reuse, Ready, AtCall, Callers
  <2>2. CASE j = s
    <3> DEFINE a == cache[CacheKey(j)]
    <3>1. /\ a \in Answers /\ a.fetched <= now /\ now - a.fetched < Ttl[Endpoint(j)]
      BY <1>7 DEF Reuse, Fresh, Stored, TypeInv, TypeOK
    <3>2. Reached(j) = now /\ now \in Nat /\ a.fetched \in Nat
      BY <2>1, <3>1, Constants DEF Reached, TypeInv, TypeOK, Times, Answers
    <3>3. ASSUME step[j] = 1 PROVE now <= a.fetched + PriceLead
      <4>1. Endpoint(j) = "coin"
        BY <2>2, <3>3, Routes DEF Endpoint
      <4>2. now - a.fetched < Ttl["coin"]
        BY <3>1, <4>1
      <4> HIDE DEF a
      <4>3. QED  BY <3>2, <4>2, Leads
    <3>4. now <= Reached(j) + MaxLatency /\ a.fetched <= Reached(j)
      BY <3>1, <3>2, Constants
    <3>5. /\ parts' = Collected(j, a) /\ step' = [step EXCEPT ![j] = step[j] + 1]
          /\ now' = now /\ sent'[j] = Idle
      BY <1>7, <2>1 DEF Reuse
    <3> HIDE DEF a
    <3>6. PromptAt(j)'
      BY <2>1, <2>2, <3>1, <3>3, <3>4, <3>5, CollectedPrompt
    <3>7. QED  BY <2>2, <3>6 DEF PromptAt, Reached, Price
  <2>3. CASE j # s
    <3>1. step'[s] = step[s] /\ parts'[s] = parts[s]
      BY <1>1, <1>7, <2>1, <2>3, CollectedFacts DEF Reuse, TypeInv, TypeOK
    <3>2. QED  BY <1>1, <1>7, <3>1 DEF Reuse, PromptAt, Reached, Price
  <2>4. QED  BY <2>2, <2>3
<1>8. ASSUME NEW j \in Jobs, Call(j) PROVE PromptAt(s)'
  <2>1. Reached(s)' = Reached(s)
    BY <1>1, <1>8, Constants DEF Call, AtCall, Reached, TypeInv, TypeOK, Times, Idle
  <2>2. QED  BY <1>1, <1>8, <2>1 DEF Call, PromptAt, Price
<1>9. ASSUME NEW j \in Jobs, Answer(j) PROVE PromptAt(s)'
  <2>1. j \in Callers /\ step[j] \in 1..Len(Route(j)) /\ sent[j] \in Times
    BY <1>9 DEF Answer, Jobs, Callers, TypeInv, Calling, TypeOK
  <2>2. CASE j = s
    <3>1. /\ Stamp(j) \in Answers /\ Stamp(j).fetched = sent[j] /\ Reached(j) = sent[j]
          /\ now <= sent[j] + MaxLatency
      BY <1>9, <2>1 DEF Stamp, Answers, Answer, Reached, TypeInv, Calling
    <3>2. sent[j] \in Nat /\ now \in Nat /\ MaxLatency \in Nat
      BY <2>1, Constants DEF TypeInv, TypeOK, Times
    <3>3. now <= sent[j] + PriceLead
      BY <3>1, <3>2, Leads
    <3>4. sent'[j] = Idle
      BY <1>9 DEF Answer, TypeInv, TypeOK
    <3>5. /\ parts' = Collected(j, Stamp(j)) /\ step' = [step EXCEPT ![j] = step[j] + 1]
          /\ now' = now /\ Stamp(j).fetched <= Reached(j)
      BY <1>9, <3>1, <3>2 DEF Answer
    <3>6. PromptAt(j)'
      BY <2>1, <2>2, <3>1, <3>3, <3>4, <3>5, CollectedPrompt
    <3>7. QED  BY <2>2, <3>6 DEF PromptAt, Reached, Price
  <2>3. CASE j # s
    <3>1. step'[s] = step[s] /\ parts'[s] = parts[s] /\ sent'[s] = sent[s]
      BY <1>1, <1>9, <2>1, <2>3, CollectedFacts DEF Answer, TypeInv, TypeOK
    <3>2. QED  BY <1>1, <1>9, <3>1 DEF Answer, PromptAt, Reached, Price
  <2>4. QED  BY <2>2, <2>3
<1>10. ASSUME NEW j \in Jobs, CallFails(j) PROVE PromptAt(s)'
  <2>1. CASE j = s
    <3>1. step'[s] = Done /\ DOMAIN parts'[s] = {}
      BY <1>1, <1>10, <2>1 DEF CallFails, Nothing, TypeInv, TypeOK
    <3>2. QED  BY <3>1 DEF PromptAt, Done
  <2>2. CASE j # s
    <3>1. step'[s] = step[s] /\ parts'[s] = parts[s] /\ sent'[s] = sent[s]
      BY <1>1, <1>10, <2>2 DEF CallFails, TypeInv, TypeOK
    <3>2. QED  BY <1>1, <1>10, <3>1 DEF CallFails, PromptAt, Reached, Price
  <2>3. QED  BY <2>1, <2>2
<1>11. CASE Tick
  <2>1. ASSUME step[s] \in {2, 3} PROVE sent[s] # Idle
    <3>1. phase = "symbols"
      BY <2>1 DEF TypeInv, Working
    <3>2. step[s] \in 1..Len(Route(s))
      BY <2>1, Routes
    <3>3. ~Ready(s)
      BY <1>1, <1>11 DEF Tick, Waiting
    <3>4. QED  BY <3>1, <3>2, <3>3 DEF Ready, AtCall
  <2>2. QED  BY <1>1, <1>11, <2>1 DEF Tick, PromptAt, Reached, Price
<1>12. QED
  BY <1>2, <1>3, <1>4, <1>5, <1>6, <1>7, <1>8, <1>9, <1>10, <1>11 DEF Next, Cycle, JobStep

\* Between two cycles nothing collects, so what was decided on stays.
LEMMA UndecidedStep == Undecided /\ [Next]_vars => Undecided'
<1> SUFFICES ASSUME Undecided, [Next]_vars PROVE Undecided'  OBVIOUS
<1>1. CASE StartCycle
  BY <1>1 DEF StartCycle, Undecided
<1>2. CASE Decide \/ ReconcileFails
  BY <1>2 DEF Decide, ReconcileFails, Undecided
<1>3. CASE StartSymbols \/ Reconcile
  BY <1>3 DEF StartSymbols, Reconcile, Gathered, Undecided
<1>4. CASE phase' = phase /\ verdict' = verdict
  BY <1>4 DEF Undecided
<1>5. QED
  BY <1>1, <1>2, <1>3, <1>4
     DEF Next, Cycle, JobStep, vars, Enter, Build, Reuse, Call, Answer, CallFails, Tick

LEMMA PriceAgeDecided ==
  ASSUME TypeInv, Prompt, NEW s \in Symbols, Decide, verdict'[s] = "candidate"
  PROVE  PriceAge(s)' <= DefenseAge + PriceLead + MaxLatency
<1> DEFINE price == Price(s)  age == AgeAtDecision(s)  lead == PriceLead
<1>1. HasFeature(s) /\ ~InDefense(s)
  <2>1. Verdict(s) = "candidate"
    BY DEF Decide
  <2>2. HasFeature(s)
    BY <2>1 DEF Verdict
  <2>3. AgeAtStart(s) > KillAge \/ AgeAtStart(s) <= KillAge
    <3>1. FeatureTime(s) \in Nat
      BY <2>2, YoungestPart DEF TypeInv, HasFeature, Parts
    <3>2. cycleStart \in Nat
      BY Constants DEF TypeInv, TypeOK, Times
    <3>3. QED  BY <3>1, <3>2, Constants DEF AgeAtStart
  <2>4. QED  BY <2>1, <2>2, <2>3 DEF Verdict
<1>2. DOMAIN parts[s] = Parts /\ "coin" \in Parts
  BY <1>1 DEF HasFeature, Parts
<1>3. PICK f \in Parts : FeatureTime(s) = parts[s][f].fetched
  BY <1>2, YoungestPart DEF TypeInv
<1>4. parts[s][f].fetched <= price + lead + MaxLatency
  BY <1>2 DEF Prompt, PromptAt
<1>5. FeatureTime(s) \in Nat /\ price \in Nat /\ now \in Nat
  BY <1>2, <1>3, Constants DEF TypeInv, TypeOK, Answers, Times, Price
<1>6. age = now - FeatureTime(s)
  BY DEF AgeAtDecision
<1>7. age <= DefenseAge
  BY <1>1, <1>5, <1>6, Constants DEF InDefense
<1>8. PriceAge(s)' = now - price
  <2>1. parts' = parts /\ wake' = now + Interval
    BY DEF Decide
  <2>2. (now + Interval) - Interval = now
    BY <1>5, Constants
  <2>3. QED  BY <2>1, <2>2 DEF PriceAge, DecidedAt, Price
<1> HIDE DEF price, age, lead
<1>9. lead \in Nat /\ MaxLatency \in Nat /\ DefenseAge \in Nat
  BY Leads, Constants DEF lead
<1>10. now - price <= DefenseAge + lead + MaxLatency
  BY <1>3, <1>4, <1>5, <1>6, <1>7, <1>9
<1>11. QED  BY <1>8, <1>10 DEF lead

LEMMA PriceAgeStep ==
  TypeInv /\ Prompt /\ Undecided /\ PriceAgeBounded /\ [Next]_vars => PriceAgeBounded'
<1> SUFFICES ASSUME TypeInv, Prompt, Undecided, PriceAgeBounded, [Next]_vars,
                    NEW s \in Symbols, phase' = "sleeping", verdict'[s] = "candidate"
             PROVE  PriceAge(s)' <= DefenseAge + Larger(Ttl["coin"] - 1 + MaxLatency, 2 * MaxLatency)
  BY DEF PriceAgeBounded
<1>1. CASE Decide
  <2>1. DefenseAge + PriceLead + MaxLatency
          = DefenseAge + Larger(Ttl["coin"] - 1 + MaxLatency, 2 * MaxLatency)
    BY Constants, Leads DEF PriceLead, Larger
  <2>2. QED  BY <1>1, <2>1, PriceAgeDecided
<1>2. ASSUME phase = "sleeping", ~StartCycle, ~Decide
      PROVE  parts' = parts /\ wake' = wake /\ verdict' = verdict
  <2>1. \A j \in Callers : sent[j] = Idle
    BY <1>2 DEF TypeInv, Calling
  <2>2. \A t \in Symbols : step[t] \notin 1..4
    BY <1>2 DEF TypeInv, Working
  <2>3. \A j \in Jobs : ~Reuse(j) /\ ~Answer(j) /\ ~CallFails(j)
    BY <1>2, <2>1 DEF Reuse, Answer, CallFails, Ready, Jobs, Callers
  <2>4. QED
    BY <1>2, <2>3 DEF Next, Cycle, JobStep, vars, StartSymbols, Reconcile,
       ReconcileFails, Enter, Build, Call, Tick
<1>3. ASSUME phase # "sleeping", ~Decide PROVE FALSE
  <2>1. verdict'[s] = verdict[s]
    BY <1>3 DEF Next, Cycle, JobStep, vars, StartCycle, StartSymbols, Reconcile, ReconcileFails,
                Enter, Build, Reuse, Call, Answer, CallFails, Tick
  <2>2. QED  BY <1>3, <2>1 DEF Undecided
<1>4. ~StartCycle
  BY DEF StartCycle
<1>5. QED  BY <1>1, <1>2, <1>3, <1>4 DEF PriceAgeBounded, PriceAge, DecidedAt

-----------------------------------------------------------------------------
(* Theorems *)

\* The feed keeps its types: whatever calls fail and in whatever order their
\* answers come, a job is at a step of its route and what it collected are
\* answers of its endpoints.
THEOREM FeedTypeCorrect == Spec => []TypeOK
<1>1. Spec => []TypeInv
  BY TypeInit, TypeStep, PTL DEF Spec
<1>2. QED  BY <1>1, PTL DEF TypeInv

\* The response cache keeps its limit for any number of symbols, permits and
\* concurrent calls: every answer makes its own room.
THEOREM CacheBoundedAlways == Spec => []CacheBounded
<1>1. Spec => [](TypeInv /\ Stored)
  BY TypeInit, TypeStep, StoredInit, StoredStep, PTL DEF Spec
<1>2. QED  BY <1>1, PTL DEF Stored

\* No part a cycle works with was older than its endpoint's TTL when the
\* cycle began, for all TTLs, latencies and cache limits: the stamp is read
\* before the call, so waiting for an answer never makes it look younger.
THEOREM PartsWithinTtlAlways == Spec => []PartsWithinTtl
<1>1. Init => Kept
  BY DEF Init, Nothing, Kept, PartsWithinTtl
<1>2. Spec => [](TypeInv /\ Stored /\ Kept)
  BY <1>1, TypeInit, TypeStep, StoredInit, StoredStep, KeptStep, PTL DEF Spec
<1>3. QED  BY <1>2, PTL DEF Kept

\* The gate of nofx_stale_kill_seconds in run_cycle() never turns a symbol
\* away when one of the three TTLs is within that limit.
THEOREM StaleGateIdleAlways == Spec => []StaleGateIdle
<1>1. Init => Kept /\ StaleGateIdle
  BY DEF Init, Nothing, Kept, PartsWithinTtl, StaleGateIdle
<1>2. Spec => [](TypeInv /\ Stored /\ Kept /\ StaleGateIdle)
  BY <1>1, TypeInit, TypeStep, StoredInit, StoredStep, KeptStep, GateStep, PTL DEF Spec
<1>3. QED  BY <1>2, PTL

\* How old the price behind a candidate can be, for all TTLs, latencies,
\* limits and symbols: DEFENSE judges the youngest part, and the price is
\* behind it by its age in the cache and one call, or by two calls.  That
\* nothing else adds to its age is the scheduling: what is ready runs before
\* time passes, so a job only ages while it waits for NOFX.
THEOREM PriceAgeBoundedAlways == Spec => []PriceAgeBounded
<1>1. Init => Prompt /\ Undecided /\ PriceAgeBounded
  <2> SUFFICES ASSUME Init PROVE Prompt /\ Undecided /\ PriceAgeBounded  OBVIOUS
  <2>1. \A s \in Symbols : DOMAIN parts[s] = {} /\ step[s] = Done /\ verdict[s] = "none"
    BY DEF Init, Nothing, Jobs
  <2>2. QED  BY <2>1 DEF Prompt, PromptAt, Undecided, PriceAgeBounded, Done
<1>2. Spec => [](TypeInv /\ Stored /\ Prompt /\ Undecided /\ PriceAgeBounded)
  BY <1>1, TypeInit, TypeStep, StoredInit, StoredStep, PromptStep, UndecidedStep,
     PriceAgeStep, PTL DEF Spec
<1>3. QED  BY <1>2, PTL
=============================================================================
