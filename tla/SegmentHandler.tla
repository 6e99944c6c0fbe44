--------------------------- MODULE SegmentHandler ---------------------------
(***************************************************************************)
(* GET /segment of app/main.py: threads of the pool serve requests, each   *)
(* reading the chaos lever where its code does and moving the Prometheus   *)
(* metrics one at a time, while /admin/chaos requests change the lever.    *)
(*                                                                         *)
(* cache.get_segment() is one step here (EdgeCache has its inside): a      *)
(* bypassed request misses, another may hit or miss.                       *)
(***************************************************************************)
EXTENDS ChaosLever, FiniteSets

CONSTANTS
    Handlers,     \* threads that serve /segment
    MaxSleep,     \* longest latency that time.sleep() accepts
    MaxRequests   \* bound: requests in a behaviour

ASSUME HandlerAssumption ==
    IsFiniteSet(Handlers) /\ MaxSleep \in Nat /\ MaxRequests \in Nat

VARIABLES
    req,            \* each thread's request
    inflight,       \* inflight_requests
    hits, misses,   \* cache_hits_total, cache_misses_total
    origin_count,   \* observations of origin_fetch_latency_seconds
    latency_count,  \* observations of request_latency_seconds
    total,          \* http_requests_total by status
    answered        \* responses, by status or as an exception that was raised

metricVars == <<inflight, hits, misses, origin_count, latency_count, total>>
handlerVars == <<req, metricVars, answered>>
vars == <<leverVars, handlerVars>>

Statuses == {"200", "500"}
Endings == Statuses \union {"raised"}
NoRequest == [at |-> "idle", status |-> "200", bypass |-> FALSE, hit |-> FALSE]

Init ==
    /\ LeverInit
    /\ req = [t \in Handlers |-> NoRequest]
    /\ inflight = 0
    /\ hits = 0 /\ misses = 0 /\ origin_count = 0
    /\ latency_count = 0
    /\ total = [s \in Statuses |-> 0]
    /\ answered = [s \in Endings |-> 0]

At(t, step) == req[t].at = step
Inside == {t \in Handlers : ~At(t, "idle")}
\* Requests so far.
Requests == answered["200"] + answered["500"] + answered["raised"] + Cardinality(Inside)
Becomes(t, r) == req' = [req EXCEPT ![t] = r]
Go(t, step) == Becomes(t, [req[t] EXCEPT !.at = step])
Uncounted == UNCHANGED <<metricVars, answered>>

-----------------------------------------------------------------------------
EnterUncounted(t) ==
    /\ At(t, "idle")
    /\ Requests < MaxRequests
    /\ Go(t, "latency")
    /\ Uncounted
Enter(t) ==
    /\ At(t, "idle")
    /\ Requests < MaxRequests
    /\ Go(t, "latency")
    /\ inflight' = inflight + 1
    /\ UNCHANGED <<hits, misses, origin_count, latency_count, total, answered>>

\* apply_latency(); no call comes between its two reads.  A sleep that raises
\* leaves the handler through its finally clause.
ApplyLatency(t) ==
    /\ At(t, "latency")
    /\ IF chaos["latency_seconds"] > MaxSleep
       THEN Becomes(t, [req[t] EXCEPT !.at = "leave", !.status = "raised"])
       ELSE Go(t, "rate")
    /\ Uncounted

\* should_error() reads the rate, draws, and reads it again.
CheckRate(t) ==
    /\ At(t, "rate")
    /\ Go(t, IF chaos["error_rate"] <= 0 THEN "serve" ELSE "draw")
    /\ Uncounted

Fail(t) ==
    /\ At(t, "draw")
    /\ chaos["error_rate"] > 0
    /\ Becomes(t, [req[t] EXCEPT !.at = "observe", !.status = "500"])
    /\ Uncounted

Spare(t) ==
    /\ At(t, "draw")
    /\ chaos["error_rate"] < 100
    /\ Go(t, "serve")
    /\ Uncounted

ReadBypass(t) ==
    /\ At(t, "serve")
    /\ Becomes(t, [req[t] EXCEPT !.at = "lookup", !.bypass = chaos["cache_bypass"] = 1])
    /\ Uncounted

GetSegment(t) ==
    /\ At(t, "lookup")
    /\ \E hit \in BOOLEAN :
          /\ req[t].bypass => ~hit
          /\ Becomes(t, [req[t] EXCEPT !.at = "count", !.hit = hit])
    /\ Uncounted

CountOutcome(t) ==
    /\ At(t, "count")
    /\ IF req[t].hit THEN hits' = hits + 1 /\ UNCHANGED misses
                     ELSE misses' = misses + 1 /\ UNCHANGED hits
    /\ Becomes(t, [NoRequest EXCEPT !.at = IF req[t].hit THEN "observe" ELSE "origin"])
    /\ UNCHANGED <<inflight, origin_count, latency_count, total, answered>>

\* A miss also shows how long the origin took.
ObserveOrigin(t) ==
    /\ At(t, "origin")
    /\ origin_count' = origin_count + 1
    /\ Go(t, "observe")
    /\ UNCHANGED <<inflight, hits, misses, latency_count, total, answered>>

\* _observe(): the latency, then the request.
ObserveLatency(t) ==
    /\ At(t, "observe")
    /\ latency_count' = latency_count + 1
    /\ Go(t, "total")
    /\ UNCHANGED <<inflight, hits, misses, origin_count, total, answered>>

CountRequest(t) ==
    /\ At(t, "total")
    /\ total' = [total EXCEPT ![req[t].status] = @ + 1]
    /\ Go(t, "leave")
    /\ UNCHANGED <<inflight, hits, misses, origin_count, latency_count, answered>>

LeaveUncounted(t) ==
    /\ At(t, "leave")
    /\ inflight' = IF req[t].status # "raised" THEN inflight - 1 ELSE inflight
    /\ answered' = [answered EXCEPT ![req[t].status] = @ + 1]
    /\ Becomes(t, NoRequest)
    /\ UNCHANGED <<hits, misses, origin_count, latency_count, total>>
Leave(t) ==
    /\ At(t, "leave")
    /\ inflight' = inflight - 1
    /\ answered' = [answered EXCEPT ![req[t].status] = @ + 1]
    /\ Becomes(t, NoRequest)
    /\ UNCHANGED <<hits, misses, origin_count, latency_count, total>>

Handle(t) ==
    \/ Enter(t) \/ ApplyLatency(t) \/ CheckRate(t) \/ Fail(t) \/ Spare(t)
    \/ ReadBypass(t) \/ GetSegment(t) \/ CountOutcome(t) \/ ObserveOrigin(t)
    \/ ObserveLatency(t) \/ CountRequest(t) \/ Leave(t)

\* Requests to the lever go on meanwhile.
MoveLever == LeverNext /\ UNCHANGED handlerVars

Next ==
    \/ (\E t \in Handlers : Handle(t)) /\ UNCHANGED leverVars
    \/ MoveLever

Spec == Init /\ [][Next]_vars

-----------------------------------------------------------------------------
TypeOK ==
    /\ LeverTypeOK
    /\ req \in [Handlers ->
          [at : {"idle", "latency", "rate", "draw", "serve", "lookup", "count",
                 "origin", "observe", "total", "leave"},
           status : Endings, bypass : BOOLEAN, hit : BOOLEAN]]
    /\ {inflight, hits, misses, origin_count, latency_count} \subseteq 0..MaxRequests
    /\ total \in [Statuses -> 0..MaxRequests]
    /\ answered \in [Endings -> 0..MaxRequests]

\* How many requests of a status are at one of these steps.
Between(status, steps) ==
    Cardinality({t \in Handlers : req[t].status = status /\ req[t].at \in steps})

\* Whatever path requests leave by and however they interleave, in-flight counts
\* the requests inside, every served segment is a hit, or a miss whose origin
\* fetch is observed, and every response but one that raised is counted and its
\* latency observed: the metrics differ only by the requests between two of them.
MetricsKeepStep ==
    /\ inflight = Cardinality(Inside)
    /\ hits + misses = total["200"] + Between("200", {"origin", "observe", "total"})
    /\ misses = origin_count + Between("200", {"origin"})
    /\ latency_count = total["200"] + total["500"]
                       + Between("200", {"total"}) + Between("500", {"total"})
    /\ \A s \in Statuses : total[s] = answered[s] + Between(s, {"leave"})
=============================================================================
