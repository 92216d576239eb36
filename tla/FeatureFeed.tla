---------------------------- MODULE FeatureFeed ----------------------------
(***************************************************************************)
(* DecisionRuntimeService, the data half of run_cycle(): the response      *)
(* cache in front of NOFX, the coroutines that build one feature per       *)
(* symbol, the two staleness gates, and the loop that repeats the cycle.   *)
(*                                                                         *)
(* A job is a coroutine with a route of endpoints: the two global lists    *)
(* are one job, run first, and every symbol is one.  The event loop runs   *)
(* everything that is ready before time passes.  What a payload says is    *)
(* left out; the time its content was current is kept, because the code    *)
(* never looks at it.                                                      *)
(***************************************************************************)
EXTENDS Integers, FiniteSets, Sequences

CONSTANTS
  Symbols,     \* configured_symbols()
  Ttl,         \* seconds an answer of an endpoint is reused, in ticks
  Permits,     \* of the semaphore around the symbol jobs
  MaxCache,    \* _cache_max_size
  KillAge,     \* nofx_stale_kill_seconds
  DefenseAge,  \* RegimeEngine answers DEFENSE beyond it
  Interval,    \* core_loop_interval_seconds
  MaxLatency,  \* an HTTP call ends within so many ticks
  PaperMode,   \* the account is local; otherwise reconcile() is awaited
  MaxTime      \* bound: ticks

Endpoints == {"query_rank", "ai300_list", "coin", "funding_rate", "heatmap_future"}
Parts == {"coin", "funding_rate", "heatmap_future"}

ASSUME FeedAssumption ==
  /\ Ttl \in [Endpoints -> Nat]
  /\ "global" \notin Symbols /\ "account" \notin Symbols
  /\ IsFiniteSet(Symbols)
  /\ {Permits, MaxCache, Interval} \subseteq Nat \ {0}
  /\ {KillAge, DefenseAge, MaxLatency, MaxTime} \subseteq Nat
  /\ PaperMode \in BOOLEAN

VARIABLES
  now,         \* ticks
  phase,       \* of the loop: "sleeping", "global", "symbols", "account"
  cycleStart,  \* cycle_started_at
  wake,        \* the loop sleeps until then
  cache,       \* response_cache: (endpoint, key) to the stored answer
  step,        \* where a job stands: 0 waits for a permit, n is at its n-th endpoint
  sent,        \* when the running call of a job was made
  parts,       \* what a symbol's job has collected, by endpoint
  verdict      \* what the last decision loop did with a symbol

vars == <<now, phase, cycleStart, wake, cache, step, sent, parts, verdict>>

Jobs == Symbols \cup {"global", "account"}
Idle == -1                       \* no call is running
Done == 9                        \* the job has returned
Route(j) == IF j = "global" THEN <<"query_rank", "ai300_list">>
                            ELSE <<"coin", "funding_rate", "heatmap_future">>
Times == 0..MaxTime

\* fetched is the time stored beside the payload, asOf the time its content
\* was current.
Answers == [fetched : Times, asOf : Times]
CacheKeys == Endpoints \X (Symbols \cup {"global"})

Endpoint(j) == Route(j)[step[j]]
CacheKey(j) == <<Endpoint(j), j>>

\* The semaphore admits a symbol and releases it however its job ends.
Inside == {s \in Symbols : step[s] \in 1..4}

MayEnter(s) == phase = "symbols" /\ step[s] = 0 /\ Cardinality(Inside) < Permits
AtCall(j) == step[j] \in 1..Len(Route(j)) /\ sent[j] = Idle
Ready(j) ==
  \/ j = "global" /\ phase = "global" /\ AtCall(j)
  \/ j \in Symbols /\ phase = "symbols" /\ (AtCall(j) \/ step[j] = 4)

TypeOK ==
  /\ now \in Times /\ cycleStart \in Times /\ wake \in 0..(MaxTime + Interval)
  /\ phase \in {"sleeping", "global", "symbols", "account"}
  /\ DOMAIN cache \subseteq CacheKeys
  /\ \A k \in DOMAIN cache : cache[k] \in Answers
  /\ step \in [Jobs -> 0..4 \cup {Done}]
  /\ sent \in [Jobs -> Times \cup {Idle}]
  /\ DOMAIN parts = Symbols
  /\ \A s \in Symbols : DOMAIN parts[s] \subseteq Parts
                        /\ \A e \in DOMAIN parts[s] : parts[s][e] \in Answers
  /\ verdict \in [Symbols -> {"none", "stale", "defense", "candidate"}]

Nothing == [e \in {} |-> {}]

Init ==
  /\ now = 0 /\ cycleStart = 0 /\ wake = 0
  /\ phase = "sleeping"
  /\ cache = Nothing
  /\ step = [j \in Jobs |-> Done]
  /\ sent = [j \in Jobs |-> Idle]
  /\ parts = [s \in Symbols |-> Nothing]
  /\ verdict = [s \in Symbols |-> "none"]

(***************************************************************************)
(* The cache: an answer younger than its endpoint's TTL is reused.  A full *)
(* cache gives up one of its oldest answers, and does so even when the new *)
(* answer replaces one it holds.                                           *)
(***************************************************************************)
\* Mutant: an answer is still served at the age of its TTL.
FreshAtTtl(key, ttl) == key \in DOMAIN cache /\ now - cache[key].fetched <= ttl

Fresh(key, ttl) == key \in DOMAIN cache /\ now - cache[key].fetched < ttl

Oldest == {k \in DOMAIN cache :
             \A l \in DOMAIN cache : cache[k].fetched <= cache[l].fetched}

\* Mutant: room is made one answer too late.
StoreThenTrim(key, answer) ==
  \E gone \in IF Cardinality(DOMAIN cache) > MaxCache
              THEN {{k} : k \in Oldest} ELSE {{}} :
    cache' = [k \in (DOMAIN cache \ gone) \cup {key} |->
                IF k = key THEN answer ELSE cache[k]]

Store(key, answer) ==
  \E gone \in IF Cardinality(DOMAIN cache) >= MaxCache
              THEN {{k} : k \in Oldest} ELSE {{}} :
    cache' = [k \in (DOMAIN cache \ gone) \cup {key} |->
                IF k = key THEN answer ELSE cache[k]]

\* Mutant: the stamp is read after the call.
StampOnArrival(j) == [fetched |-> now, asOf |-> sent[j]]

\* The answer is stamped with the time read before the call; its content
\* was current when NOFX received the call, at the earliest.
Stamp(j) == [fetched |-> sent[j], asOf |-> sent[j]]

Collected(j, answer) ==
  IF j = "global" THEN parts
  ELSE [parts EXCEPT ![j] = [e \in DOMAIN parts[j] \cup {Endpoint(j)} |->
                               IF e = Endpoint(j) THEN answer ELSE parts[j][e]]]

\* --- One cycle -----------------------------------------------------------
StartCycle ==
  /\ phase = "sleeping" /\ now >= wake
  /\ phase' = "global"
  /\ cycleStart' = now
  /\ step' = [j \in Jobs |-> IF j = "global" THEN 1 ELSE 0]
  /\ parts' = [s \in Symbols |-> Nothing]
  /\ verdict' = [s \in Symbols |-> "none"]
  /\ UNCHANGED <<now, wake, cache, sent>>

\* The gather() starts once the global lists were tried.
StartSymbols ==
  /\ phase = "global" /\ step["global"] = 3
  /\ phase' = "symbols"
  /\ UNCHANGED <<now, cycleStart, wake, cache, step, sent, parts, verdict>>

Enter(s) ==
  /\ MayEnter(s)
  /\ step' = [step EXCEPT ![s] = 1]
  /\ UNCHANGED <<now, phase, cycleStart, wake, cache, sent, parts, verdict>>

Reuse(j) ==
  /\ Ready(j) /\ AtCall(j)
  /\ Fresh(CacheKey(j), Ttl[Endpoint(j)])
  /\ parts' = Collected(j, cache[CacheKey(j)])
  /\ step' = [step EXCEPT ![j] = @ + 1]
  /\ UNCHANGED <<now, phase, cycleStart, wake, cache, sent, verdict>>

Call(j) ==
  /\ Ready(j) /\ AtCall(j)
  /\ ~Fresh(CacheKey(j), Ttl[Endpoint(j)])
  /\ sent' = [sent EXCEPT ![j] = now]
  /\ UNCHANGED <<now, phase, cycleStart, wake, cache, step, parts, verdict>>

Answer(j) ==
  /\ j # "account" /\ sent[j] # Idle
  /\ Store(CacheKey(j), Stamp(j))
  /\ parts' = Collected(j, Stamp(j))
  /\ step' = [step EXCEPT ![j] = @ + 1]
  /\ sent' = [sent EXCEPT ![j] = Idle]
  /\ UNCHANGED <<now, phase, cycleStart, wake, verdict>>

\* Mutant: a failed part is asked for again at once.
CallFailsAndRetries(j) ==
  /\ j # "account" /\ sent[j] # Idle
  /\ step' = [step EXCEPT ![j] = IF j = "global" THEN @ + 1 ELSE @]
  /\ sent' = [sent EXCEPT ![j] = Idle]
  /\ UNCHANGED <<now, phase, cycleStart, wake, cache, parts, verdict>>

\* A failed global list is skipped; a failed part drops the symbol.
CallFails(j) ==
  /\ j # "account" /\ sent[j] # Idle
  /\ step' = [step EXCEPT ![j] = IF j = "global" THEN @ + 1 ELSE Done]
  /\ parts' = IF j = "global" THEN parts ELSE [parts EXCEPT ![j] = Nothing]
  /\ sent' = [sent EXCEPT ![j] = Idle]
  /\ UNCHANGED <<now, phase, cycleStart, wake, cache, verdict>>

\* normalize_coin_snapshot() raises on a payload of the wrong shape, which
\* stays in the cache.
Build(s) ==
  /\ phase = "symbols" /\ step[s] = 4
  /\ step' = [step EXCEPT ![s] = Done]
  /\ parts' \in {parts, [parts EXCEPT ![s] = Nothing]}
  /\ UNCHANGED <<now, phase, cycleStart, wake, cache, sent, verdict>>

\* --- The feature and its two ages ----------------------------------------
HasFeature(s) == step[s] = Done /\ DOMAIN parts[s] = Parts

\* Mutant: the earliest of the three fetches.
FeatureTimeEarliest(s) ==
  CHOOSE t \in {parts[s][e].fetched : e \in Parts} :
    \A e \in Parts : parts[s][e].fetched >= t

\* feature.ts: the latest of the three fetches.
FeatureTime(s) ==
  CHOOSE t \in {parts[s][e].fetched : e \in Parts} :
    \A e \in Parts : parts[s][e].fetched <= t

\* stale_seconds as _build_feature() and then as FeatureEngine.enrich() set it.
AgeAtStart(s) == cycleStart - FeatureTime(s)
AgeAtDecision(s) == now - FeatureTime(s)

InDefense(s) == AgeAtDecision(s) > DefenseAge

Verdict(s) ==
  CASE ~HasFeature(s) -> "none"
    [] HasFeature(s) /\ AgeAtStart(s) > KillAge -> "stale"
    [] HasFeature(s) /\ AgeAtStart(s) <= KillAge /\ InDefense(s) -> "defense"
    [] OTHER -> "candidate"

Gathered == phase = "symbols" /\ \A s \in Symbols : step[s] = Done

\* The loop over the symbols awaits nothing: it is one step.
Decide ==
  /\ IF PaperMode THEN Gathered ELSE phase = "account"
  /\ verdict' = [s \in Symbols |-> Verdict(s)]
  /\ phase' = "sleeping"
  /\ wake' = now + Interval
  /\ sent' = [sent EXCEPT !["account"] = Idle]
  /\ UNCHANGED <<now, cycleStart, cache, step, parts>>

\* reconcile() is counted as one call; PriceAgeBounded does not depend on it.
Reconcile ==
  /\ ~PaperMode /\ Gathered
  /\ phase' = "account"
  /\ sent' = [sent EXCEPT !["account"] = now]
  /\ UNCHANGED <<now, cycleStart, wake, cache, step, parts, verdict>>

\* reconcile() raises: the cycle is given up and the loop sleeps.
ReconcileFails ==
  /\ phase = "account"
  /\ phase' = "sleeping"
  /\ wake' = now + Interval
  /\ sent' = [sent EXCEPT !["account"] = Idle]
  /\ UNCHANGED <<now, cycleStart, cache, step, parts, verdict>>

\* Time passes when every coroutine waits for a call, a permit or the clock.
Waiting ==
  /\ \A j \in Jobs : ~Ready(j)
  /\ \A j \in Jobs : sent[j] # Idle => now - sent[j] < MaxLatency
  /\ \/ phase = "sleeping" /\ now < wake
     \/ \E j \in Jobs : sent[j] # Idle
  /\ \A s \in Symbols : ~MayEnter(s)

Tick ==
  /\ now < MaxTime
  /\ Waiting
  /\ now' = now + 1
  /\ UNCHANGED <<phase, cycleStart, wake, cache, step, sent, parts, verdict>>

JobStep(j) == Reuse(j) \/ Call(j) \/ Answer(j) \/ CallFails(j)
Cycle ==
  \/ StartSymbols \/ Decide \/ Reconcile \/ ReconcileFails
  \/ \E s \in Symbols : Enter(s) \/ Build(s)
  \/ \E j \in Jobs : JobStep(j)

Next == StartCycle \/ Cycle \/ Tick
Spec == Init /\ [][Next]_vars

\* Every call ends (the HTTP client has a timeout) and the event loop runs
\* what is ready.
FairSpec == Spec /\ WF_vars(Cycle)

(***************************************************************************)
(* Properties                                                              *)
(***************************************************************************)
\* The cache never outgrows its limit, though several jobs wait for answers
\* at the same time and each makes room only for its own.
CacheBounded == Cardinality(DOMAIN cache) <= MaxCache

\* No part of a feature was out of date for longer than its endpoint's TTL
\* when the cycle began, counted from when its content was current and not
\* from when it arrived.
PartsWithinTtl ==
  \A s \in Symbols : \A e \in DOMAIN parts[s] :
    \/ parts[s][e].asOf >= cycleStart
    \/ cycleStart - parts[s][e].asOf < Ttl[e]

\* The first staleness gate cannot fire when one of the three TTLs is at most
\* nofx_stale_kill_seconds: a feature is as old as its youngest part, a
\* failed fetch drops the symbol, and the shipped TTL of 30 s is far below
\* the shipped limit of 120 s.
StaleGateIdle ==
  (\E e \in Parts : Ttl[e] <= KillAge) => \A s \in Symbols : verdict[s] # "stale"

DecidedAt == wake - Interval
PriceAge(s) == DecidedAt - parts[s]["coin"].fetched
Larger(a, b) == IF a > b THEN a ELSE b

\* How old the price behind a candidate can be: the age the regime check
\* tolerates, and what it cannot see, the cached price's age and one call,
\* or two calls.
PriceAgeBounded ==
  \A s \in Symbols : phase = "sleeping" /\ verdict[s] = "candidate" =>
    PriceAge(s) <= DefenseAge + Larger(Ttl["coin"] - 1 + MaxLatency, 2 * MaxLatency)

\* A cycle that began its symbols ends, whatever calls fail and however few
\* permits there are.
CycleEnds == phase = "symbols" ~> phase = "sleeping"

\* Stale NOFX data vetoes an entry (docs/RISK_CONSTITUTION.md:68): no symbol
\* is a candidate on a price older than what DEFENSE is declared at.
EntryOnFreshPrice ==
  \A s \in Symbols : phase = "sleeping" /\ verdict[s] = "candidate" =>
    PriceAge(s) <= DefenseAge
=============================================================================
