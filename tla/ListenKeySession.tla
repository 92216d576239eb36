-------------------------- MODULE ListenKeySession --------------------------
(***************************************************************************)
(* UserStreamSession: the listenKey of the private stream, the task that   *)
(* keeps it alive, and the start and end of the gateway process around it. *)
(*                                                                         *)
(* Time passes in ticks.  The exchange (external) lets a key expire when   *)
(* it has not been kept alive for Lifetime ticks; the private stream URL   *)
(* holds the key it was built with, so an expired key is a stream without  *)
(* events for the rest of the process.                                     *)
(*                                                                         *)
(* The session runs in the process of AccountGateway; its names differ     *)
(* from those, so that one module can extend both.                         *)
(***************************************************************************)
EXTENDS Naturals

CONSTANTS
  Interval,    \* keepalive_interval_seconds, in ticks
  Lifetime,    \* of a listenKey on the exchange, in ticks
  MaxLatency,  \* a REST call ends within so many ticks (httpx timeout)
  MaxTime      \* bound: ticks

\* Fifty minutes, sixty minutes, and ten seconds satisfy it.
ASSUME SessionAssumption ==
  /\ Interval \in Nat \ {0}
  /\ Lifetime \in Nat
  /\ MaxLatency \in Nat
  /\ Interval + MaxLatency + MaxLatency < Lifetime
  /\ MaxTime \in Nat

VARIABLES
  now,       \* ticks since the process started
  main,      \* main(): "starting", "streaming", "closing", "closed", "failed"
  keyAge,    \* ticks since the exchange last heard of the key
  task,      \* _keepalive_loop: "none", "sleeping", "calling", "raised", "cancelled"
  timer,     \* ticks left to sleep
  latency,   \* ticks the running call has taken
  running,   \* UserStreamSession._running
  restOpen   \* the REST client has not been closed

sessionVars == <<now, main, keyAge, task, timer, latency, running, restOpen>>

SessionTypeOK ==
  /\ now \in 0..MaxTime
  /\ main \in {"starting", "streaming", "closing", "closed", "failed"}
  /\ keyAge \in Nat
  /\ task \in {"none", "sleeping", "calling", "raised", "cancelled"}
  /\ timer \in 0..Interval
  /\ latency \in 0..MaxLatency
  /\ running \in BOOLEAN
  /\ restOpen \in BOOLEAN

SessionInit ==
  /\ now = 0
  /\ main = "starting"
  /\ keyAge = 0
  /\ task = "none"
  /\ timer = 0
  /\ latency = 0
  /\ running = FALSE
  /\ restOpen = TRUE

\* start(): the key is created and the loop begins with a full sleep.
Start ==
  /\ main = "starting"
  /\ \E age \in 0..MaxLatency : keyAge' = age
  /\ main' = "streaming"
  /\ running' = TRUE
  /\ task' = "sleeping"
  /\ timer' = Interval
  /\ UNCHANGED <<now, latency, restOpen>>

\* The request raises, or its answer holds no key: main() ends before its try.
StartFails ==
  /\ main = "starting"
  /\ main' = "failed"
  /\ UNCHANGED <<now, keyAge, task, timer, latency, running, restOpen>>

\* Time passes unless a sleep is over or a call has used its time.
Tick ==
  /\ main = "streaming"
  /\ now < MaxTime
  /\ now' = now + 1
  /\ keyAge' = keyAge + 1
  /\ \/ task = "sleeping" /\ timer > 0 /\ timer' = timer - 1 /\ UNCHANGED latency
     \/ task = "calling" /\ latency < MaxLatency /\ latency' = latency + 1 /\ UNCHANGED timer
     \/ task = "raised" /\ UNCHANGED <<timer, latency>>
  /\ UNCHANGED <<main, task, running, restOpen>>

\* The sleep is over: await keepalive_user_stream().
BeginKeepalive ==
  /\ main = "streaming"
  /\ task = "sleeping"
  /\ timer = 0
  /\ task' = "calling"
  /\ latency' = 0
  /\ UNCHANGED <<now, main, keyAge, timer, running, restOpen>>

\* Mutant of KeepaliveSucceeds: the next sleep lasts as long as the key.
KeepaliveThenOversleep ==
  /\ main = "streaming" /\ task = "calling" /\ keyAge < Lifetime
  /\ keyAge' = 0 /\ task' = "sleeping" /\ timer' = Interval + Interval /\ latency' = 0
  /\ UNCHANGED <<now, main, running, restOpen>>

\* The exchange knew the key, and renewed it at some instant of the call.
KeepaliveSucceeds ==
  /\ main = "streaming"
  /\ task = "calling"
  /\ keyAge < Lifetime
  /\ \E age \in 0..latency : keyAge' = age
  /\ task' = "sleeping"
  /\ timer' = Interval
  /\ latency' = 0
  /\ UNCHANGED <<now, main, running, restOpen>>

\* The call raises, and so does the task: the loop has no try.
KeepaliveFails ==
  /\ main = "streaming"
  /\ task = "calling"
  /\ task' = "raised"
  /\ UNCHANGED <<now, main, keyAge, timer, latency, running, restOpen>>

\* The consumers return or raise: main() enters its finally block.
ConsumersEnd ==
  /\ main = "streaming"
  /\ main' = "closing"
  /\ UNCHANGED <<now, keyAge, task, timer, latency, running, restOpen>>

\* Mutant of Close: cancelled tasks and raised ones are treated alike.
CloseSuppressesAll ==
  /\ main = "closing"
  /\ running' = FALSE
  /\ task' = "cancelled" /\ main' = "closed" /\ restOpen' = FALSE
  /\ UNCHANGED <<now, keyAge, timer, latency>>

\* close() cancels the task and awaits it; only CancelledError is suppressed,
\* so what the task raised long ago comes up here and binance.close() is left
\* out.
Close ==
  /\ main = "closing"
  /\ running' = FALSE
  /\ IF task = "raised"
     THEN main' = "failed" /\ UNCHANGED <<task, restOpen>>
     ELSE main' = "closed" /\ task' = "cancelled" /\ restOpen' = FALSE
  /\ UNCHANGED <<now, keyAge, timer, latency>>

SessionNext ==
  \/ Start \/ StartFails \/ Tick \/ BeginKeepalive \/ KeepaliveSucceeds
  \/ KeepaliveFails \/ ConsumersEnd \/ Close

SessionSpec == SessionInit /\ [][SessionNext]_sessionVars

-----------------------------------------------------------------------------
(* Properties *)

\* The margin between the two periods is enough: however long the calls take,
\* a key expires only after a keepalive has raised.
OnlyFailureLosesKey ==
  main = "streaming" /\ keyAge >= Lifetime => task = "raised"

\* A failed keepalive is not lost for good: a process that has seen one never
\* ends as if all had been well.
FailureSurfaces == [][task = "raised" => main' # "closed"]_sessionVars

-----------------------------------------------------------------------------
(* What the documents say and the code does not do *)

\* Any connector failure must be recoverable: while the gateway streams, its
\* key is valid.
KeyStaysValid == main = "streaming" => keyAge < Lifetime
=============================================================================
