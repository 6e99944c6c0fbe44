# Verification of the edge-cache service

TLA+ models, TLC runs and TLAPS proofs for `edge-reliability-lab`: a FastAPI
service that serves video segments from Redis, or from a dict when it has none,
with a circuit breaker in front of Redis, a runtime chaos lever, Prometheus
metrics, tracing, SLO alerts and a capacity forecast. Everything here is
translated from the source under `src/`; the line numbers each definition stands
for are in `PROJECT.json`, `map`.

## Inventory

| part | state | operations | what is hard | what makes it correct |
|---|---|---|---|---|
| circuit breaker, `app/cache.py` `_CircuitBreaker` | state, consecutive failures, pending mark, opening time, gauge | `allow`, `record_success`, `record_failure`, `reset`, all under one lock | the call it guards runs outside the lock, so reports are about a breaker that may have changed; time | one probe at a time; open frees the threads; no state it cannot leave |
| edge cache, `Cache` | Redis client, `_last_redis_ok`, `redis_up` gauge | `get_segment`, `_read`, `_write`, `flush`, `status`, `breaker_state` | worker threads share unlocked health fields; Redis fails between read and write | breaker used once per call; outage and recovery are seen; every request is answered |
| in-memory store, `_InMemoryStore` | dict with expiry times | `get`, `set`, `flushdb` | check-then-pop of an expired entry against a `set` | a read serves nothing that was expired or gone when it looked; forgetting ends |
| chaos lever, `app/chaos.py`, `/admin/chaos` | three faults, three gauges | `update`, `reset`, `clamp`, `publish_metrics`, the readers | field-by-field, unlocked, read-modify-write | resets and partial updates behave as if atomic; gauges show the state |
| request handlers, `app/main.py`, `app/metrics.py` | in-flight gauge; hit, miss, request counters; latency and origin histograms | `get_segment`, `_observe` | exceptions between counters; re-read levers | every request counted once |
| tracing, `app/tracing.py` | setup flags, span queue, exemplars | sampling, spans, bounded export, exemplar id | a full queue; an exemplar shown before its trace has ended | no half-recorded trace; exemplars resolve; the collector blocks nobody |
| alert rules, `k8s/slo-rules.yaml` | rule windows, `for` timers | evaluation | window and hold against outage length; replicas that restart or vanish | lasting outages page in time; a page ends when the trouble has |
| capacity forecast, `docs/capacity/capacity_forecast.py` | none; the queue it speaks of | arithmetic | rounding; the backlog of a stall | the least number of replicas that keeps up |
| deployment, scripts, Terraform, dashboards, load test | none | - | - | not modelled |

How the parts interact: a request thread enters `main.get_segment`, passes the
chaos lever, calls `Cache.get_segment`, which asks the breaker before each Redis
command and reports to it after; the metrics are shared by all threads and
scraped by Prometheus, whose rules fire the alerts; `/admin/chaos` changes the
lever, and can flush Redis, from other threads of the same pool. Both endpoints
are synchronous functions, so FastAPI runs each request on a thread of a pool:
the breaker has a lock, the cache's health fields, the lever and the handler's
sequence of metric updates have none. Outside a lock, CPython 3.12 (the image's
version) changes threads at calls; that is where the models put their step
boundaries.

## Modules

| module | models | composed with |
|---|---|---|
| `CircuitBreaker` | `_CircuitBreaker`: one operator per method, the settings as `__init__` clamps them, the clock | extended by the next two |
| `Breaker` | threads that ask, call, and report late | implements `BreakerPromise` |
| `BreakerPromise` | abstract: who may call, and who settles a half-open breaker | - |
| `EdgeCache` | `Cache` with a Redis client, its workers, Redis, key expiry, flush, bypass | its workers implement `Breaker` |
| `SegmentStore` | abstract: a store that may forget at any time and never invents | - |
| `MemoryStore` | `Cache` without a Redis client: `_InMemoryStore` under its unlocked workers | implements `SegmentStore` |
| `ChaosLever` | `app/chaos.py` and `POST /admin/chaos`, access by access | extended by the next |
| `SegmentHandler` | `GET /segment`: the lever's readers and the metrics | abstracts `EdgeCache` to hit or miss |
| `Tracing` | sampling, the spans of a request, exemplars, the export queue and its thread | abstracts the request to the spans it opens |
| `AlertRules` | four alerts of `k8s/slo-rules.yaml` over the gauges and the traffic of the replicas | abstracts the service to its metrics |
| `Capacity` | the forecast's replica arithmetic and the queue it speaks of | - |
| `BreakerProofs`, `EdgeCacheProofs`, `LeverProofs`, `MemoryStoreProofs`, `SegmentHandlerProofs`, `TracingProofs`, `AlertRulesProofs`, `CapacityProofs` | theorems | - |
| `MCBreaker`, `MCEdgeCache`, `MCMemoryStore`, `MCChaosLever`, `MCSegmentHandler`, `MCTracing`, `MCAlertRules`, `MCCapacity` | instances for TLC | - |

Definitions of the form `AllowWithoutPending` or `ClampFirst` are slips that a
change to the code could make. No specification uses them; `PROJECT.json`
(`mutants`) pairs each with the property that notices it.

### State and code

- `CircuitBreaker`: `state`, `failures`, `half_open_pending` and
  `redis_circuit_state` are the fields and the gauge of the same name.
  `opened_for` is `time.monotonic() - _opened_at`, in ticks. `failures` stops at the
  threshold and `opened_for` at the cooldown, because the code compares them with
  those and looks at nothing else of them.
- `Breaker`: `phase` is where a thread stands between `allow()` and the report, `age`
  how long ago it was admitted. `Tick` is refused while a call would get older
  than `MaxCall`: `socket_timeout` and `socket_connect_timeout` end it.
- `EdgeCache`: `job[w].at` is the next thing `get_segment`, `_read` or `_write` does on
  worker `w`. `_last_redis_ok` and `redis_up` are two writes, so two steps.
  `circuit_state` is what the lookup span was tagged with, before `allow()`. Redis
  is external: it answers while up and fails while down, an outage may keep or lose
  its data, and a `SET` whose answer is lost may have been applied. Segment bytes
  are a function of the id, so `store` is a set of ids. `flush()` talks to Redis
  directly and never asks the breaker.
- `MemoryStore`: `store` is the dict, with the time each entry has left in place of its
  expiry time. A dict operation and a read of the clock are a step each: `get()` is
  `Lookup`, `ReadClock` and perhaps `Pop`, `set()` is the clock read at the end of
  `FetchOrigin` and `Set`. Time passes for the entries and for what a worker holds
  of one alike. `ttl = 0` is the entry that never expires.
- `ChaosLever`: `Program` is what `update()` does, in order: three assignments, three
  clamps and three publications, each clamp and publication a read and a write.
  `reset()` is one assignment of all fields and the last part of that program.
  Rates are percentages.
- `SegmentHandler`: `req[t].at` is the next line of the handler; a 500 raised by
  `time.sleep()` leaves through `finally` without being counted, as in the code.
- `Tracing`: `enabled`, `instrumented` and `ratio` are what `setup_tracing()` found.
  `req[r].current` is the decision in the context a span is started in, `ran` the
  spans that were opened. `recorded`, `queue` and `batch` are spans that ended, wait
  and are being sent; `lossy` are the requests of which some span was dropped by the
  full queue or a failed export. OpenTelemetry is external, the queue and what it
  drops included; `setup_tracing()` only installs it.
- `AlertRules`: an evaluation comes 30 s after the one before, and any number of
  changes of Redis and of pods come between. `samples` is what the traffic met
  since the evaluation before, in kinds of traffic at the rates of
  `k8s/tests/slo-rules.test.yaml`, so that the rules' own numbers (one lookup per second,
  50 %, 1.44 %) are what they are compared with. A window is what its last samples
  add up to; `rate()`'s extrapolation is left out. `recorded` are the error ratios,
  or rather whether each is over the threshold, as the recording group left them:
  an alert reads them from before that group ran or from after. `held[a]` are the
  evaluations in a row that the condition of alert `a` held, so it fires above
  `For[a]`. `running` are the replicas that are scraped, `redis_up` is each one's gauge.
  The gauge is set after Redis has answered and outside any lock, so a worker of a
  replica in `late` may set it to what Redis was before its last change. `blind`,
  `met_for` and `lasts` are history for the properties: which gauges have met the
  present outage, for how many evaluations there was one, and for how many the
  traffic was of one of the kinds of `Spells`, whatever the rules made of it. ServiceDown
  is modelled without a property: all there is to it is its definition.
- `Capacity`: `ReplicasNeeded` is `replicas_needed()` over `capacity_per_replica()`, in
  whole numbers; the other variables are the service those formulas speak of, one
  thread per request for its whole service time, which the script does not
  simulate and its conclusions rely on. `leaving[i]` are the threads whose request
  is done within `i` ticks, so `leaving[service]` are the threads in use.

Left out: `redis_errors_total`, log lines, span attributes other than
`redis.skipped`, response bodies. Nothing in the modelled code reads them.

## Runs

| run | instance | what it shows |
|---|---|---|
| `breaker` | 3 threads, threshold 2, cooldown 3, calls up to 2 | Late reports never desynchronise the pending mark, the failure count and the state; a probe is alone; an open breaker drains the pool; only a reset or a straggler's success cuts a cooldown short; the breaker implements `BreakerPromise`. |
| `breaker_edge_settings` | threshold 0 (clamped to 1), cooldown 2, calls up to 2 | Where a call can last as long as the cooldown, so that a straggler's failure can restart a cooldown that is nearly over and re-open a breaker that is being probed, neither OPEN nor HALF_OPEN is final. |
| `cache` | 2 workers, threshold 2, cooldown 2, calls up to 1 | Reads, writes and refusals use the breaker as `Breaker` assumes, and an open breaker frees the workers. |
| `cache_live` | same, cooldown 1 | Requests finish; a lasting outage stays visible and keeps the breaker tripped; a lasting recovery closes it, is seen, and the cache refills. |
| `memory_store` | 3 workers, 1 segment, lifetimes -1, 0 and 1 | The fallback store forgets and never invents; stale readers run out, so a segment that nobody flushes is cached for good. |
| `lever` | 2 admins, four updates, two of them out of range | At rest every fault is in range. |
| `requests` | 2 handlers, 1 admin, 3 requests | In-flight, outcome, origin, latency and request metrics keep step on every path out of the handler; the operator's gauges are current. |
| `tracing` | 2 requests, queue of 2, ratio settings below, above and no number | Traces are whole, exemplars resolve unless a loss explains it, the queue keeps its limit, and nobody waits for the collector. |
| `alerts` | 2 replicas, windows 4 and 2 | An outage that some replica has met for three evaluations, four minutes of misses, and errors of 5 % for half the long window each page in time; an idle cache does not page; the fast burn ends with the short window. |
| `capacity` | 4 threads and 2 starts a tick per replica, service 1 or 3, rates 1 to 8, up to 7 replicas | The replicas asked for keep up, fewer fall behind, headroom drains a backlog. |

Runs that end in a counterexample, each to a sentence of the repository:

| run | the sentence | what happens |
|---|---|---|
| `cache_skipped_tag` | `redis.skipped` selects the requests that skipped Redis and nothing else | The half-open probe is tagged as skipped and calls Redis. |
| `lever_lost_change` | an update is a partial dict | The clamp of a field an update does not give writes back a stale value over another request's change or reset. |

Bounds.

- Three breaker threads are a probe, a straggler and a refused one, which is every role
  a thread can have. Threshold 2 separates the first failure from the one that trips.
  The cooldown is longer than a call in `breaker` and `cache`, as deployed, and as
  long as a call in `breaker_edge_settings` and `cache_live`, since only their order
  decides anything. A cooldown below 0 counts as 0, and then restarting it is
  nothing; the theorems of `BreakerProofs` hold for it too. Two cache workers make
  every race on the health fields, which are pairwise; segments meet only in the
  breaker and in Redis.
- A lost entry of the fallback store takes a stale reader, a writer and a reader
  that misses it: three workers, on the one key they meet at. The lifetimes are
  one that is over at once, one that never ends and one that ends.
- Two lever requests make the lost change. `MaxRequests` ends the counters of
  `requests`; three requests on two threads let a thread start again beside one
  that is still inside. That run has one operator, for with two a gauge can be
  stale (see below).
- Two requests of up to four spans overfill a queue of two, in one trace and across traces.
- The windows of the fast burn are 120 and 10 samples in the rules and 4 and 2 in the
  run; the hit ratio's 2 m window, all holds and all thresholds are the real ones, in
  evaluations. `Enough` is where the histories stop counting: the window, the lag
  behind the recorded ratios and the hold of the alert they are compared with.
  Two replicas are one that meets the outage and one that restarts, is idle or sets
  its gauge late, in turn.
- The scaled numbers of `capacity` keep what decides: hits bound by the CPU, misses by
  the threads, rates at, just above and just below exact multiples. `MaxBacklog` is a
  stall, and `RunAway` stands for infinity: with enough replicas the queue never
  reaches it, with fewer it does again and again. It has to lie beyond what a stall
  alone can leave, its backlog and a request on each thread (`RunAwayAssumption`).

Symmetry is used where only safety is checked; the temporal `KeepsPromise` and
`OnlyStragglersCutShort` are checked with it because they are symmetric in the
threads and speak of single steps. `tracing` does not check for deadlock: it is
over when its requests are.

Fairness. Threads are scheduled (weak fairness of the steps of a worker, a lever
request or a request being traced), the socket timeouts end every command (so the
answer of a call is fair whichever it is), time passes, and clients keep asking:
the thread pool takes requests from a queue in order, which is strong fairness of
starting each segment's request in `EdgeCache` and `MemoryStore`. Nothing is
assumed of Redis, of expiry, of flushes, of the exporter or of the operator:
outages and recoveries may alternate for ever, and the properties about a lasting
one, about an undisturbed store and about a running exporter say so in their
premise. In `Capacity` time passes. `ChaosLever` and `AlertRules` have safety
properties only and state no fairness.

## Proofs

All are for any number of threads, replicas, requests or segments and any settings,
under the assumptions on constants that each module names.

- `BreakerProofs`. `Untimed` (types, the pending mark is set exactly in HALF_OPEN, the
  failure count is at the threshold exactly when the breaker is tripped) is
  inductive for every setting; from it follow `TypeCorrect`, `PendingMarksHalfOpen` and
  `FailuresDecideState`. `PendingMarksHalfOpen` shows that the last two lines
  of `allow()` cannot be reached. `ProbeIsAlone`, `OpenFreesTheThreads`, `CooldownIsKept`
  and `BreakerKeepsPromise` also need `TimelyCalls`, that a call is shorter than the
  cooldown (0.25 s against 5 s as deployed). They rest on `Timed`: on an open breaker
  every call in flight is at least as old as the opening. No call gets older than
  `MaxCall`, so when the cooldown is over nobody is left, the probe starts alone,
  and nobody can join it. `GaugeShowsState`, that no method leaves the gauge at
  another state, holds for every setting. Without `TimelyCalls` these properties fail: a straggler's failure re-opens the half-open
  breaker and a second probe can start beside the first.
- `EdgeCacheProofs`. With the breaker enabled each step of the cache is a step of
  `Breaker` under the mapping `Phase`, or a stutter (`CacheUsesBreaker`): no path through
  `_read` and `_write` forgets a report or makes one too many. The theorems of
  `BreakerProofs` then hold of the cache: `CacheFreesWorkers`, `CacheProbesAlone`,
  `CacheKeepsCooldown` and `CacheKeepsPromise` say of its workers what is proved of
  threads. `CacheTypeCorrect` does not need the breaker to be enabled: its
  invariant `CacheInv` keeps the breaker's bookkeeping by the lemmas about its
  methods, whoever calls them.
  `OutageStaysSeen` and `RecoveryStaysSeen` are the safety parts of three liveness
  properties of `cache_live`: what breaker, health flag and gauge agree on stays, once
  no outcome from before it is on its way to them (`OutageSettled`, `RecoverySettled`);
  that they come to agree takes fairness, and is TLC's.
- `MemoryStoreProofs`. Each step is a step of `SegmentStore` or a stutter
  (`StoreOnlyForgets`). The abstract reader may serve only what it saw present, and
  the concrete one decides later, by a clock it reads after the lookup; the
  invariant `HoldsWhatItSaw` joins the two: an entry that has not expired when the
  clock is read was fresh when it was looked up, since time only ages it.
  `StoreTypeCorrect` bounds the time left of every entry.
- `LeverProofs`. "This request has clamped the field" is not inductive, for another
  request may assign after it. `ClampComes` is: while a field is out of range, some
  request has yet to clamp that field. At rest nobody has, hence
  `FaultsEndInRange`. `GaugesFollow` and `UpdatesArePartial` have the premise
  `[]OneAtATime`, that no two lever requests are under way together; the
  invariant `AloneInv` says that the gauge of a field that has changed has its
  publication ahead in the one that is, and that what this request has read is
  still current. `UpdatesArePartial` is the counterpart of `lever_lost_change`: the
  lost change takes two requests.
- `SegmentHandlerProofs`. `MetricsKeepStep` equates counters with counts of the threads at
  certain lines. The proof is that each step moves one thread into or out of such a
  set and one counter with it, given that a request's status and outcome fit the
  line it is at (`MetricsAgree`). `HandlerTypeCorrect` adds that what is answered and
  what is inside are together at most `MaxRequests`, and every counter at most
  that. The lever below is `ChaosLever` with its readers added, so
  `GaugesFollowUnderLoad` comes from `LeverProofs`.
- `TracingProofs`. `Decided` says that every instrumented request has one decision for
  all its spans, the upstream one where there is one, and `TracesFine` that what is
  recorded of it are exactly the spans that ran or none. `TracesAreWhole` follows
  when the request is done. `QueueStaysWithinLimit` is the limit of the queue.
  `ExemplarsAreRecorded` is what `ExemplarsResolve` has of safety: an exemplar is of a
  sampled trace (`ExemplarInv`), and when its request is done every span of it was
  recorded, so that the queue and the network are all that can lose it.
- `AlertRulesProofs`. `BlindIsHeld`: a gauge that has met the outage says 0 for as long
  as the history says so, hence the hold of RedisDown is at least `met_for`. The
  other alerts look back, so `SpellsShow` first says that a spell of traffic is what
  `samples` end with. Sums over a window then come from lemmas on counting
  (`SpellDecidesRatio`, `ErrorsBurn`, `CleanIsQuiet`): misses that fill the window
  collapse the ratio, light traffic that fills it has too few lookups, errors in half
  of a window are above 1.44 % of all it holds, and none are not. `RatioIsHeld` and
  `BurnIsHeld` say that the hold lags a spell by its window, that of the fast burn by
  one evaluation more, as the alert may read what was recorded before. From these
  follow `OutagesArePaged`, `CollapsesArePaged`, `IdleCachesAreQuiet`, `BurnsArePaged` and
  `BurnsClear`, the last two for fast burn windows of any length, 120 and 10
  included. `RulesTypeCorrect` also needs that no hold outgrows the bound it stops at
  (`Reaches`).
- `CapacityProofs`. `NeededIsLeast` says that `replicas_needed()` rounds to the least
  count whose threads and CPU meet the rate, whichever of the two binds; it rests on
  a lemma about rounding up (`CeilingIsLeast`) and on nonlinear arithmetic alone.
  That the queue then stays short (`EnoughReplicasKeepUp`) is not inductive: how many
  requests start in a tick depends on when those in the threads started.
  `RecentlyShort` bounds what was waiting in each tick of the last service time, as
  far as the threads tell, by `MaxBacklog` and a request per thread; in each tick
  either nothing is left waiting, or the CPU takes as many as come, or the threads are
  full of what was started within one service time.

Every safety property of a passing run is stated by a theorem, some under a premise
that its run has built in: `TimelyCalls` (the settings of `breaker` and `cache`),
`CbEnabled`, and `OneAtATime` (the one operator of `requests`).

Only model-checked: the liveness properties (fairness is out of the prover's
reach), namely `OpenIsLeft`, `HalfOpenIsLeft`, `RequestsFinish` of the cache and of
tracing, `OutageStaysVisible`, `OutageKeepsTripped`, `RecoveryIsSeen`, `CacheRefills`,
`StaleReadersRunOut`, `ExemplarsResolve`, `FewerFallBehind` and `HeadroomDrains`; and the
counterexamples.

## Seen while modelling

None of these contradicts a property above; they are what its wording or its
premise makes room for.

- A success admitted before the breaker opened closes it at once, where
  `cache.py:80-84` says that an open breaker skips Redis for the cooldown
  (`OnlyStragglersCutShort` names this exception).
- A worker delayed between its report and the gauge sets `redis_up` to 1 after the
  breaker has opened, until the next request; `cache.py:89` says that the outage is
  never masked (`OutageStaysVisible` is that it is not masked for good). Two workers
  with different outcomes can leave `_last_redis_ok` and `redis_up` different at rest
  (`cache.py:279-280`).
- With the breaker disabled its state machine runs on: the gauge can show open
  while `breaker_state()` says closed (`cache.py:362-363`).
- Two operators that publish at once can leave a `chaos_*` gauge at an old value
  (`chaos.py:43-45`). `GaugesAreCurrent` is checked with one, and proved for one at a
  time.
- The bypass lever is read for the lookup and again for the request's span
  (`main.py:122`, `main.py:130`): if it moves in between, a hit is shown as bypassed, or
  a bypassed request as not.
- A latency above what `time.sleep()` accepts makes every request a 500 that no
  counter shows (`chaos.py:37`); `flushed_cache` is reported although `flush()`
  swallows a failed `flushdb` (`main.py:189-191`).
- RedisDown is a minimum over gauges that show the last request: a replica that
  restarts, or a late success, puts its gauge back to 1 in an outage, and where no
  other replica has met the outage the alert's hold starts again
  (`OutageIsPaged` has that premise).
- A replica without traffic keeps `redis_up` at 0 after Redis is back, and RedisDown
  keeps firing for it (`k8s/slo-rules.yaml:176-182`). The comments at
  `scripts/run-incident.sh:24-25,53` describe an older window and hold of the hit
  ratio alert than the rules have.
- `replicas_needed()` divides floats; where the quotient should be a whole number its
  rounding may ask for one replica more. `CeilDiv` is exact and does not show it.
- At a utilisation of exactly 100 % (800 rps on three replicas of 266.67)
  `replicas_needed()` is content and the backlog of a stall never drains
  (`capacity_forecast.py:110-112`); `HeadroomDrains` asks for more than that.
- With tracing on but FastAPI not instrumented each span is a trace of its own, so
  `WholeTraces` speaks of instrumented services.

## Not modelled

- `months_to()` and the chart of the capacity forecast: logarithms and output.
- The slow burn and the latency burn alerts: the fast burn's form with other numbers.
- What `/metrics` renders, log formats, span attributes other than `redis.skipped`, response bodies.
- Terraform, the Kubernetes deployment, the load test, dashboards and drill scripts:
  declarative, or driving the service from outside without state of their own.
  Replicas that crash, restart, appear and vanish are steps of `AlertRules`.

What is left of the plan: the composition of `EdgeCache` with `AlertRules`, so that
the gauge the alerts read is the one the breaker's workers write; today `AlertRules`
has the last lookup decide it, or a late worker.
