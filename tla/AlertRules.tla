----------------------------- MODULE AlertRules -----------------------------
(***************************************************************************)
(* The alerts of k8s/slo-rules.yaml over the metrics of the replicas.  A   *)
(* step is an evaluation of the rules, 30 s after the one before; between  *)
(* them Redis and the replicas come and go.  An evaluation looks back at   *)
(* samples of the traffic since the last ones; a condition that holds for  *)
(* as many evaluations as its alert's `for' makes the alert fire.  The     *)
(* error ratios are recorded by a group of rules of its own, which runs    *)
(* before or after the alerts that read them.                              *)
(***************************************************************************)
EXTENDS Integers, FiniteSets, Sequences

CONSTANTS
    Replicas,      \* pods of the deployment
    LongWindow,    \* samples in the long and the short window of the fast burn
    ShortWindow    \* alert; its 1 h and 5 m are 120 and 10

ASSUME WindowAssumption ==
    LongWindow \in Nat /\ ShortWindow \in 1..LongWindow

VARIABLES
    redis,      \* "up" or "down"
    running,    \* replicas that are scraped; others crashed or were scaled away
    redis_up,   \* each replica's gauge
    late,       \* replicas where a worker still has to set the gauge, to what
                \* Redis was before it changed
    samples,    \* what the traffic met, newest last
    recorded,   \* whether each recorded error ratio is over the threshold
    held,       \* evaluations in a row that each alert's condition held
    blind,      \* history: replicas whose gauge has met the present outage
    met_for,    \* history: evaluations in a row with such a replica
    lasts       \* history: evaluations in a row with traffic of some kinds

podVars == <<running, redis_up, late>>
vars == <<redis, podVars, samples, recorded, held, blind, met_for, lasts>>

\* The rules, in evaluations.
SluggishFor == 10
HitRatioWindow == 4
HitRatioFor == 4
For == [ServiceDown |-> 2, HitRatioCollapsed |-> HitRatioFor, RedisDown |-> 2, FastBurn |-> 4]
Alerts == DOMAIN For

\* Traffic of 30 s at the rates of k8s/tests/slo-rules.test.yaml: at most half a
\* miss a second; 95 hits and 5 misses; 128 misses; 95 hits and 5 errors.
Kinds == {"light", "hits", "misses", "errors"}
Depth == IF LongWindow > HitRatioWindow THEN LongWindow ELSE HitRatioWindow
Least(a, b) == IF a < b THEN a ELSE b

\* Spells of traffic, and how long, in evaluations, the properties give them:
\* four minutes of misses, two without real traffic, errors for half the long
\* window and 2.5 minutes, the short window and one evaluation without errors.
Spells == [misses |-> {"misses"}, light |-> {"light"}, errors |-> {"errors"},
           clean |-> Kinds \ {"errors"}]
HalfOfLong == (LongWindow + 1) \div 2
Enough == [misses |-> 8, light |-> 4, errors |-> HalfOfLong + 5, clean |-> ShortWindow + 1]

TypeOK ==
    /\ redis \in {"up", "down"}
    /\ running \subseteq Replicas /\ late \subseteq running /\ blind \subseteq running
    /\ redis_up \in [Replicas -> {0, 1}]
    /\ samples \in Seq(Kinds) /\ Len(samples) <= Depth
    /\ recorded \in [long : BOOLEAN, short : BOOLEAN]
    /\ held \in [Alerts -> 0..11] /\ \A a \in Alerts : held[a] <= For[a] + 1
    /\ met_for \in 0..3
    /\ DOMAIN lasts = DOMAIN Spells /\ \A s \in DOMAIN Spells : lasts[s] \in 0..Enough[s]

Init ==
    /\ redis \in {"up", "down"}
    /\ running = Replicas /\ late = {} /\ blind = {}
    /\ redis_up = [r \in Replicas |-> 1]
    /\ samples = <<>>
    /\ recorded = [long |-> FALSE, short |-> FALSE]
    /\ held = [a \in Alerts |-> 0]
    /\ met_for = 0
    /\ lasts = [s \in DOMAIN Spells |-> 0]

-----------------------------------------------------------------------------
\* The conditions, over the samples of a window.
Count(window, kind) == Cardinality({i \in DOMAIN window : window[i] = kind})
Hits(window) == 2850 * (Count(window, "hits") + Count(window, "errors"))
Misses(window) ==
    150 * Count(window, "hits") + 3840 * Count(window, "misses") + 15 * Count(window, "light")
Errors(window) == 150 * Count(window, "errors")
RecentAndOlder(n) == samples
Recent(n) == SubSeq(samples, 1 + (IF n < Len(samples) THEN Len(samples) - n ELSE 0), Len(samples))

\* "or vector(0)": no target at all is 0 targets up.
ServiceDown == running = {}

\* Fewer hits than half of all lookups, of which there is more than 1 per second
\* of the window.
HitRatioOfAny ==
    LET window == Recent(HitRatioWindow) IN 2 * Hits(window) < Hits(window) + Misses(window)
HitRatioCollapsed ==
    LET window == Recent(HitRatioWindow)
        hits == Hits(window)
        all == hits + Misses(window)
        seconds == 30 * HitRatioWindow
    IN  2 * hits < (IF all < seconds THEN seconds ELSE all) /\ all > seconds

RedisDownEverywhere == running # {} /\ \A r \in running : redis_up[r] = 0
\* A minimum over no replica is no value, and no alert.
RedisDown == \E r \in running : redis_up[r] = 0

\* More than 14.4 * 0.001 of the requests failed.
BurningLatencyBudget(window) ==
    1000 * Errors(window) > 144 * (Hits(window) + Misses(window) + Errors(window))
Burning(window) ==
    10000 * Errors(window) > 144 * (Hits(window) + Misses(window) + Errors(window))
FastBurnInEither(ratios) == ratios.long \/ ratios.short
FastBurn(ratios) == ratios.long /\ ratios.short

\* The alerts whose condition holds, by the traffic of a window or by the replicas.
HoldingByTraffic(ratios) ==
    (IF HitRatioCollapsed THEN {"HitRatioCollapsed"} ELSE {})
    \union (IF FastBurn(ratios) THEN {"FastBurn"} ELSE {})
HoldingByReplicas ==
    (IF ServiceDown THEN {"ServiceDown"} ELSE {}) \union (IF RedisDown THEN {"RedisDown"} ELSE {})

\* An alert is pending from the first evaluation of its condition on and fires
\* when the `for' has passed since.
Firing(a) == held[a] > For[a]

-----------------------------------------------------------------------------
\* The traffic since the last evaluation met one kind of answer.
Meet(kind) ==
    /\ kind # "light" => running # {}
    /\ kind \in {"hits", "errors"} => redis = "up"
    /\ samples' = Append(Recent(Depth - 1), kind)
    /\ lasts' = [s \in DOMAIN Spells |->
          IF kind \in Spells[s] THEN Least(lasts[s] + 1, Enough[s]) ELSE 0]

Record ==
    recorded' = [long |-> Burning(Recent(LongWindow))', short |-> Burning(Recent(ShortWindow))']

\* Replicas that looked in Redis set their gauge, unless it was overwritten since; a
\* bypassed request does not look.
\* The gauge is set after the answer, outside any lock: a worker that had its
\* answer before Redis changed can set it last.
Serve(kind, lookers, overwritten) ==
    /\ kind \in {"hits", "errors"} => lookers \union overwritten # {}
    /\ redis_up' = [r \in Replicas |->
          IF r \in overwritten THEN (IF redis = "up" THEN 0 ELSE 1)
          ELSE IF r \in lookers THEN (IF redis = "up" THEN 1 ELSE 0) ELSE redis_up[r]]
    /\ late' = late \ overwritten
    /\ blind' = (IF redis = "down" THEN blind \union lookers ELSE {}) \ overwritten
    /\ met_for' = IF blind' # {} THEN Least(met_for + 1, 3) ELSE 0

\* The alerts read the ratios that are recorded before them or after.
Evaluate(kind) ==
    /\ UNCHANGED <<redis, running>>
    /\ Meet(kind)
    /\ Record
    /\ \E ratios \in {recorded, recorded'} : \E holding \in {HoldingByTraffic(ratios)'} :
          \E overwritten \in SUBSET late : \E lookers \in SUBSET (running \ overwritten) :
             /\ Serve(kind, lookers, overwritten)
             /\ held' = [a \in Alerts |->
                   IF a \in holding \union HoldingByReplicas'
                   THEN Least(held[a] + 1, For[a] + 1) ELSE 0]

Unevaluated == UNCHANGED <<samples, recorded, held, met_for, lasts>>

RedisChanges ==
    /\ redis' \in {"up", "down"} \ {redis}
    /\ late' \in SUBSET running
    /\ blind' = {}
    /\ Unevaluated /\ UNCHANGED <<running, redis_up>>

\* A pod that stops, or starts again with a gauge that says 1, whatever Redis does.
PodChanges(r) ==
    /\ running' = IF r \in running THEN running \ {r} ELSE running \union {r}
    /\ redis_up' = [redis_up EXCEPT ![r] = 1]
    /\ late' = late \ {r}
    /\ blind' = blind \ {r}
    /\ Unevaluated /\ UNCHANGED redis

Next ==
    \/ \E kind \in Kinds : Evaluate(kind)
    \/ RedisChanges
    \/ \E r \in Replicas : PodChanges(r)

Spec == Init /\ [][Next]_vars

-----------------------------------------------------------------------------
\* An outage is paged in time: RedisDown fires at the third evaluation in a row
\* at which some replica has met it.  Replicas may restart one after the other, with
\* a gauge that says 1, serve nothing, or show a success from before the outage, as
\* long as another has met it, be it another one each time.
OutageIsPaged == met_for = 3 => Firing("RedisDown")

\* Four minutes of misses fire HitRatioCollapsed, whatever hits were before: an
\* incident of nine minutes does not stay pending.
CollapseIsPaged == lasts["misses"] = Enough["misses"] => Firing("HitRatioCollapsed")

\* Below one request per second the hit ratio means nothing: after the window the
\* alert is quiet, neither firing nor pending, whatever was before.
IdleIsQuiet == lasts["light"] = Enough["light"] => held["HitRatioCollapsed"] = 0

\* Errors of 5% page after half the long window, the time the alerts lag behind
\* the recorded ratios and the hold, however much traffic without errors the long
\* window still shows.
BurnIsPaged == lasts["errors"] = Enough["errors"] => Firing("FastBurn")

\* When errors stop, the fast burn alert is over one evaluation after the short
\* window has passed, although the long one still shows them.
BurnClears == lasts["clean"] = Enough["clean"] => held["FastBurn"] = 0
=============================================================================
