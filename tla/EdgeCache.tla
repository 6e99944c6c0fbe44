----------------------------- MODULE EdgeCache -----------------------------
(***************************************************************************)
(* The cache in strict mode (app/cache.py, class Cache with a Redis        *)
(* client): worker threads serve get_segment() calls through the breaker.  *)
(* A worker's step is what runs between two points where another thread    *)
(* can be scheduled with effect: a method of the breaker is one step, a    *)
(* Redis command one, each write of a shared health field one.             *)
(*                                                                         *)
(* Redis is external: it answers while it is up and fails while it is      *)
(* down; a SET whose answer is lost may still have been applied, and it    *)
(* may come back with or without its data.  Segment bytes are a function   *)
(* of the id, so the store is the set of segments cached.                  *)
(***************************************************************************)
EXTENDS CircuitBreaker

CONSTANTS
    Workers,    \* threads of the pool that serve /segment
    Segments,   \* segment ids requested
    MaxCall,    \* longest Redis command, in ticks: the client's timeouts
    CbEnabled   \* REDIS_CB_ENABLED

ASSUME WorkloadAssumption == Workers # {} /\ Segments # {} /\ MaxCall \in Nat
ASSUME CbEnabledAssumption == CbEnabled \in BOOLEAN

VARIABLES
    job,             \* what each worker is doing
    age,             \* ticks since a worker's Redis command was admitted
    last_redis_ok,   \* _last_redis_ok, the health status() reports
    redis_up,        \* the Prometheus gauge
    redis,           \* "up" or "down"
    store,           \* segments that Redis holds
    cache_bypass     \* the chaos lever, read when a request starts

healthVars == <<last_redis_ok, redis_up>>
redisVars == <<redis, store>>
vars == <<breakerVars, job, age, healthVars, redisVars, cache_bypass>>

\* A worker goes through these steps for a read, then through the origin, then
\* from "ask" on for the write of what it fetched.
Steps == {"idle", "tag", "ask", "call", "report", "flag", "gauge", "origin"}
Jobs == [at : Steps, seg : Segments, op : {"read", "write", "bypass"},
         outcome : {"none", "ok", "failed", "refused"},
         cached : {"None", "data"}, circuit_state : States]
Idle == [at |-> "idle", seg |-> CHOOSE s \in Segments : TRUE, op |-> "read",
         outcome |-> "none", cached |-> "None", circuit_state |-> CLOSED]

TypeOK ==
    /\ BreakerTypeOK
    /\ job \in [Workers -> Jobs]
    /\ age \in [Workers -> 0..MaxCall]
    /\ last_redis_ok \in BOOLEAN
    /\ redis_up \in {0, 1}
    /\ redis \in {"up", "down"}
    /\ store \subseteq Segments
    /\ cache_bypass \in BOOLEAN

\* A strict-mode client starts optimistic, whatever Redis does.
Init ==
    /\ BreakerInit
    /\ job = [w \in Workers |-> Idle]
    /\ age = [w \in Workers |-> 0]
    /\ last_redis_ok = TRUE
    /\ redis_up = 1
    /\ redis \in {"up", "down"}
    /\ store = {}
    /\ cache_bypass = FALSE

At(w, step) == job[w].at = step

\* Worker w goes to a step; `Finish' ends its request.
Go(w, step) == job' = [job EXCEPT ![w].at = step]
Finish(w) == job' = [job EXCEPT ![w] = Idle]

breaker_state == IF CbEnabled THEN state ELSE CLOSED
status == [backend |-> "redis", redis_up |-> last_redis_ok]

-----------------------------------------------------------------------------
\* get_segment() starts; with the bypass lever on it goes straight to origin.
Begin(w, s) ==
    /\ At(w, "idle")
    /\ job' = [job EXCEPT ![w] =
          IF cache_bypass
          THEN [Idle EXCEPT !.at = "origin", !.seg = s, !.op = "bypass"]
          ELSE [Idle EXCEPT !.at = "tag", !.seg = s]]
    /\ UNCHANGED <<breakerVars, age, healthVars, redisVars, cache_bypass>>

\* The lookup span is tagged with the breaker's state, read without its lock
\* and before allow() is asked.  redis.skipped is derived from it.
skipped(w) == job[w].circuit_state = OPEN

Tag(w) ==
    /\ At(w, "tag")
    /\ job' = [job EXCEPT ![w].at = "ask",
                          ![w].circuit_state = breaker_state]
    /\ UNCHANGED <<breakerVars, age, healthVars, redisVars, cache_bypass>>

\* Slips a change to _read and _write could make, for the mutation runs.
AskIgnoringAnswer(w) ==
    /\ At(w, "ask")
    /\ Go(w, "call")
    /\ Allow \/ (~MayCall /\ UNCHANGED breakerVars)
    /\ UNCHANGED <<age, healthVars, redisVars, cache_bypass>>
AskUntilAllowed(w) ==
    /\ At(w, "ask")
    /\ CbEnabled => MayCall
    /\ Go(w, "call")
    /\ IF CbEnabled THEN Allow ELSE UNCHANGED breakerVars
    /\ UNCHANGED <<age, healthVars, redisVars, cache_bypass>>

\* _read and _write ask the breaker before they call Redis.
Ask(w) ==
    /\ At(w, "ask")
    /\ \/ /\ CbEnabled => MayCall
          /\ IF CbEnabled THEN Allow ELSE UNCHANGED breakerVars
          /\ Go(w, "call")
       \/ /\ CbEnabled /\ ~MayCall
          /\ job' = [job EXCEPT ![w].at = "flag", ![w].outcome = "refused"]
          /\ UNCHANGED breakerVars
    /\ UNCHANGED <<age, healthVars, redisVars, cache_bypass>>

\* The command returns: GET with or without a value, SET with the key stored.
Return(w) ==
    /\ At(w, "call")
    /\ redis = "up"
    /\ job' = [job EXCEPT
          ![w].at = "report", ![w].outcome = "ok",
          ![w].cached = IF job[w].op = "read" /\ job[w].seg \in store
                        THEN "data" ELSE "None"]
    /\ store' = (IF job[w].op = "write" THEN store \union {job[w].seg} ELSE store)
    /\ UNCHANGED <<breakerVars, age, healthVars, redis, cache_bypass>>

\* The command raises; a SET may have reached Redis before it was lost.
Raise(w) ==
    /\ At(w, "call")
    /\ redis = "down"
    /\ job' = [job EXCEPT ![w].at = "report", ![w].outcome = "failed"]
    /\ store' = store \/ (job[w].op = "write" /\ store' = store \union {job[w].seg})
    /\ UNCHANGED <<breakerVars, age, healthVars, redis, cache_bypass>>

ReportReadsOnly(w) ==
    /\ At(w, "report")
    /\ IF job[w].outcome = "ok" \/ job[w].op = "write"
       THEN RecordSuccess ELSE RecordFailure
    /\ Go(w, "flag")
    /\ age' = [age EXCEPT ![w] = 0]
    /\ UNCHANGED <<healthVars, redisVars, cache_bypass>>

\* record_success() or record_failure(), also with the breaker disabled.
Report(w) ==
    /\ At(w, "report")
    /\ IF job[w].outcome = "ok" THEN RecordSuccess ELSE RecordFailure
    /\ Go(w, "flag")
    /\ age' = [age EXCEPT ![w] = 0]
    /\ UNCHANGED <<healthVars, redisVars, cache_bypass>>

\* The two health fields are written one after the other, under no lock.
SetFlag(w) ==
    /\ At(w, "flag")
    /\ last_redis_ok' = (job[w].outcome = "ok")
    /\ Go(w, "gauge")
    /\ UNCHANGED <<breakerVars, age, redis_up, redisVars, cache_bypass>>

\* A hit and a write end the request; a miss, a failure and a refusal of the
\* read go to the origin.
Continue(w) ==
    IF job[w].op = "write" \/ job[w].cached = "data"
    THEN Finish(w)
    ELSE job' = [job EXCEPT ![w].at = "origin", ![w].outcome = "none",
                            ![w].circuit_state = CLOSED]

GaugeShowsErrorsOnly(w) ==
    /\ At(w, "gauge")
    /\ redis_up' = (IF job[w].outcome = "failed" THEN 0 ELSE 1)
    /\ Continue(w)
    /\ UNCHANGED <<breakerVars, age, last_redis_ok, redisVars, cache_bypass>>

SetGauge(w) ==
    /\ At(w, "gauge")
    /\ redis_up' = (IF job[w].outcome = "ok" THEN 1 ELSE 0)
    /\ Continue(w)
    /\ UNCHANGED <<breakerVars, age, last_redis_ok, redisVars, cache_bypass>>

\* The segment is fetched and, unless the cache is bypassed, written back.
FetchOrigin(w) ==
    /\ At(w, "origin")
    /\ IF job[w].op = "bypass"
       THEN Finish(w)
       ELSE job' = [job EXCEPT ![w].at = "ask", ![w].op = "write"]
    /\ UNCHANGED <<breakerVars, age, healthVars, redisVars, cache_bypass>>

-----------------------------------------------------------------------------
\* Outside the workers.

\* flush() swallows the error of a Redis that is down and tells the breaker
\* nothing.
Flush ==
    /\ redis = "up"
    /\ store' = {}
    /\ UNCHANGED <<breakerVars, job, age, healthVars, redis, cache_bypass>>

SetBypass ==
    /\ cache_bypass' = ~cache_bypass
    /\ UNCHANGED <<breakerVars, job, age, healthVars, redisVars>>

Expire(s) ==
    /\ s \in store
    /\ store' = store \ {s}
    /\ UNCHANGED <<breakerVars, job, age, healthVars, redis, cache_bypass>>

Outage ==
    /\ redis = "up" /\ redis' = "down"
    /\ store' \in {store, {}}
    /\ UNCHANGED <<breakerVars, job, age, healthVars, cache_bypass>>

Recovery ==
    /\ redis = "down" /\ redis' = "up"
    /\ UNCHANGED <<breakerVars, job, age, healthVars, store, cache_bypass>>

InFlight == {w \in Workers : At(w, "call") \/ At(w, "report")}

\* Time passes unless a command would outlive its timeouts.
Tick ==
    /\ \A w \in InFlight : age[w] < MaxCall
    /\ Elapse
    /\ age' = [w \in Workers |-> IF w \in InFlight THEN age[w] + 1 ELSE age[w]]
    /\ UNCHANGED <<job, healthVars, redisVars, cache_bypass>>

-----------------------------------------------------------------------------
\* A worker that has a request.
Serve(w) ==
    \/ Tag(w) \/ Ask(w) \/ Return(w) \/ Raise(w) \/ Report(w)
    \/ SetFlag(w) \/ SetGauge(w) \/ FetchOrigin(w)

Environment ==
    \/ Flush \/ SetBypass \/ Outage \/ Recovery
    \/ \E s \in Segments : Expire(s)

Next ==
    \/ \E w \in Workers : Serve(w) \/ \E s \in Segments : Begin(w, s)
    \/ Environment
    \/ Tick

\* Workers are scheduled, clients keep asking for every segment, time passes.
\* Nothing is assumed of Redis, of expiry or of the operator.
Fairness ==
    /\ \A w \in Workers : WF_vars(Serve(w))
    /\ \A s \in Segments : SF_vars(\E w \in Workers : Begin(w, s))
    /\ WF_vars(Tick)

SafeSpec == Init /\ [][Next]_vars
Spec == SafeSpec /\ Fairness

-----------------------------------------------------------------------------
\* With the breaker enabled, reads and writes together use it the way its own
\* model says threads do: a refused command never reaches Redis, every admitted
\* one reports exactly once.
PhaseIn(j) == CASE j.at = "call"   -> "calling"
                [] j.at = "report" -> j.outcome
                [] OTHER           -> "idle"
Phase == [w \in Workers |-> PhaseIn(job[w])]
B == INSTANCE Breaker WITH Threads <- Workers, phase <- Phase
UsesBreaker == B!SafeSpec

\* Once the breaker has been open for as long as a command can last, no worker
\* waits for Redis or has an answer to report.
OpenFreesWorkers == state = OPEN /\ opened_for > MaxCall => InFlight = {}

\* Every request is answered, whatever Redis, the breaker and the other
\* workers do: nobody waits for the probe.
RequestsFinish == \A w \in Workers : ~At(w, "idle") ~> At(w, "idle")

\* An outage that lasts is seen by /healthz and by the gauge, and stays seen
\* while the breaker keeps requests away from Redis.
StaysDown == <>[](redis = "down" /\ ~cache_bypass)
OutageStaysVisible == StaysDown => <>[](~status.redis_up /\ redis_up = 0)

\* An outage that lasts trips the breaker for good: no late success and no
\* refused command closes it.
OutageKeepsTripped == StaysDown => <>[](state # CLOSED)

\* When Redis stays up again the breaker closes, both health fields agree that
\* it is up, and nothing undoes that.
StaysUp == <>[](redis = "up" /\ ~cache_bypass)
RecoveryIsSeen ==
    StaysUp => <>[](state = CLOSED /\ status.redis_up /\ redis_up = 1)

\* Once Redis stays up, every segment gets cached again and again, however
\* often it expires or is flushed: a tripped breaker is not the end of caching.
CacheRefills == StaysUp => \A s \in Segments : []<>(s \in store)

-----------------------------------------------------------------------------
\* What a doc says of the code, and a run refutes.

\* docs/TRACING.md: a trace with redis.skipped=true skipped Redis.
SkippedMeansSkipped ==
    \A w \in Workers : At(w, "call") /\ job[w].op = "read" => ~skipped(w)
=============================================================================
