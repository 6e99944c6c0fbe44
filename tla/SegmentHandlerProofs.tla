------------------------ MODULE SegmentHandlerProofs ------------------------
(***************************************************************************)
(* For any number of handler threads, lever requests and updates, the      *)
(* metrics of /segment keep step.                                          *)
(***************************************************************************)
EXTENDS SegmentHandler, LeverProofs, FiniteSetTheorems, TLAPS

Reqs == [at : {"idle", "latency", "rate", "draw", "serve", "lookup", "count",
               "origin", "observe", "total", "leave"},
         status : Endings, bypass : BOOLEAN, hit : BOOLEAN]

\* A request has a status of its own only once its fate is decided: it answers
\* 500 or raises from the step on that says so.
Fated(r) ==
    /\ r.at \in {"idle", "latency", "rate", "draw", "serve", "lookup", "count",
                 "origin"} => r.status = "200"
    /\ r.at \in {"observe", "total"} => r.status \in Statuses

Counters ==
    /\ {inflight, hits, misses, origin_count, latency_count} \subseteq Int
    /\ total \in [Statuses -> Int]
    /\ answered \in [Endings -> Int]
ReqsOK == req \in [Handlers -> Reqs] /\ \A t \in Handlers : Fated(req[t])
HandlerInv == ReqsOK /\ Counters /\ MetricsKeepStep

-----------------------------------------------------------------------------
(***************************************************************************)
(* Counting the requests that are at some steps.                           *)
(***************************************************************************)
\* One element more or less.
LEMMA OneMovesOver ==
  ASSUME NEW A, NEW B, NEW t, IsFiniteSet(A), IsFiniteSet(B), A \ {t} = B \ {t}
  PROVE  /\ Cardinality(A) \in Nat /\ Cardinality(B) \in Nat
         /\ Cardinality(B) = Cardinality(A) + (IF t \in B THEN 1 ELSE 0)
                                            - (IF t \in A THEN 1 ELSE 0)
<1>1. Cardinality(A) \in Nat /\ Cardinality(B) \in Nat
  BY FS_CardinalityType
<1>2. Cardinality(A \ {t}) = IF t \in A THEN Cardinality(A) - 1 ELSE Cardinality(A)
  BY FS_RemoveElement
<1>3. Cardinality(B \ {t}) = IF t \in B THEN Cardinality(B) - 1 ELSE Cardinality(B)
  BY FS_RemoveElement
<1> QED
  BY <1>1, <1>2, <1>3

Counts(r, status, steps) == IF r.status = status /\ r.at \in steps THEN 1 ELSE 0
IsInside(r) == IF r.at # "idle" THEN 1 ELSE 0

\* What a step of one request does to every count.
LEMMA CountsChange ==
  ASSUME ReqsOK, NEW t \in Handlers, NEW r \in Reqs, Becomes(t, r), Fated(r)
  PROVE  /\ ReqsOK'
         /\ Cardinality(Inside) \in Nat /\ Cardinality(Inside)' \in Nat
         /\ Cardinality(Inside)' = Cardinality(Inside) + IsInside(r) - IsInside(req[t])
         /\ \A status, steps :
               /\ Between(status, steps) \in Nat /\ Between(status, steps)' \in Nat
               /\ Between(status, steps)' = Between(status, steps)
                     + Counts(r, status, steps) - Counts(req[t], status, steps)
<1>1. /\ req' \in [Handlers -> Reqs] /\ req'[t] = r
      /\ \A u \in Handlers : u # t => req'[u] = req[u]
  BY DEF ReqsOK, Becomes
<1>2. ReqsOK'
  BY <1>1 DEF ReqsOK, Fated
<1>3. /\ Cardinality(Inside) \in Nat /\ Cardinality(Inside)' \in Nat
      /\ Cardinality(Inside)' = Cardinality(Inside) + IsInside(r) - IsInside(req[t])
  <2>1. PICK A : A = Inside
    OBVIOUS
  <2>2. PICK B : B = Inside'
    OBVIOUS
  <2>3. A \subseteq Handlers /\ B \subseteq Handlers
    BY <2>1, <2>2 DEF Inside
  <2>4. IsFiniteSet(A) /\ IsFiniteSet(B)
    BY <2>3, FS_Subset, HandlerAssumption
  <2>5. /\ A \ {t} = B \ {t}
        /\ t \in A <=> req[t].at # "idle"
        /\ t \in B <=> r.at # "idle"
    BY <1>1, <2>1, <2>2 DEF Inside, At
  <2>6. /\ Cardinality(A) \in Nat /\ Cardinality(B) \in Nat
        /\ Cardinality(B) = Cardinality(A) + (IF t \in B THEN 1 ELSE 0)
                                           - (IF t \in A THEN 1 ELSE 0)
    BY <2>4, <2>5, OneMovesOver
  <2>7. /\ Cardinality(A) \in Nat /\ Cardinality(B) \in Nat
        /\ Cardinality(B) = Cardinality(A) + IsInside(r) - IsInside(req[t])
    BY <2>5, <2>6 DEF IsInside
  <2> QED
    BY <2>1, <2>2, <2>7
<1>4. ASSUME NEW status, NEW steps
      PROVE  /\ Between(status, steps) \in Nat /\ Between(status, steps)' \in Nat
             /\ Between(status, steps)' = Between(status, steps)
                   + Counts(r, status, steps) - Counts(req[t], status, steps)
  <2>1. PICK A : A = {u \in Handlers : req[u].status = status /\ req[u].at \in steps}
    OBVIOUS
  <2>2. PICK B : B = {u \in Handlers : req'[u].status = status /\ req'[u].at \in steps}
    OBVIOUS
  <2>3. IsFiniteSet(A) /\ IsFiniteSet(B)
    BY <2>1, <2>2, FS_Subset, HandlerAssumption
  <2>4. /\ A \ {t} = B \ {t}
        /\ t \in A <=> req[t].status = status /\ req[t].at \in steps
        /\ t \in B <=> r.status = status /\ r.at \in steps
    BY <1>1, <2>1, <2>2
  <2>5. /\ Cardinality(A) \in Nat /\ Cardinality(B) \in Nat
        /\ Cardinality(B) = Cardinality(A) + (IF t \in B THEN 1 ELSE 0)
                                           - (IF t \in A THEN 1 ELSE 0)
    BY <2>3, <2>4, OneMovesOver
  <2>6. /\ Cardinality(A) \in Nat /\ Cardinality(B) \in Nat
        /\ Cardinality(B) = Cardinality(A)
              + Counts(r, status, steps) - Counts(req[t], status, steps)
    BY <2>4, <2>5 DEF Counts
  <2>7. Between(status, steps) = Cardinality(A)
    BY <2>1 DEF Between
  <2>8. Between(status, steps)' = Cardinality(B)
    BY <2>2 DEF Between
  <2> QED
    BY <2>6, <2>7, <2>8
<1> QED
  BY <1>2, <1>3, <1>4

Served == {"origin", "observe", "total"}

\* A step keeps the balance if each metric moves with the counts it is compared
\* with.
LEMMA BalanceKept ==
  ASSUME HandlerInv, NEW t \in Handlers, NEW r \in Reqs, Becomes(t, r), Fated(r),
         Counters',
         inflight' = inflight + IsInside(r) - IsInside(req[t]),
         (hits' + misses') - total'["200"] = (hits + misses) - total["200"]
            + Counts(r, "200", Served) - Counts(req[t], "200", Served),
         misses' - origin_count' = misses - origin_count
            + Counts(r, "200", {"origin"}) - Counts(req[t], "200", {"origin"}),
         latency_count' - (total'["200"] + total'["500"])
            = latency_count - (total["200"] + total["500"])
            + Counts(r, "200", {"total"}) - Counts(req[t], "200", {"total"})
            + Counts(r, "500", {"total"}) - Counts(req[t], "500", {"total"}),
         \A s \in Statuses : total'[s] - answered'[s] = total[s] - answered[s]
            + Counts(r, s, {"leave"}) - Counts(req[t], s, {"leave"})
  PROVE  HandlerInv'
<1>1. /\ ReqsOK'
      /\ Cardinality(Inside) \in Nat /\ Cardinality(Inside)' \in Nat
      /\ Cardinality(Inside)' = Cardinality(Inside) + IsInside(r) - IsInside(req[t])
  BY CountsChange DEF HandlerInv
<1>2. \A status, steps :
         /\ Between(status, steps) \in Nat /\ Between(status, steps)' \in Nat
         /\ Between(status, steps)' = Between(status, steps)
               + Counts(r, status, steps) - Counts(req[t], status, steps)
  BY CountsChange DEF HandlerInv
<1>3. \A status, steps : Counts(r, status, steps) \in Int /\ Counts(req[t], status, steps) \in Int
  BY DEF Counts
<1>4. IsInside(r) \in Int /\ IsInside(req[t]) \in Int
  BY DEF IsInside
<1>5. /\ {inflight, hits, misses, origin_count, latency_count} \subseteq Int
      /\ {inflight', hits', misses', origin_count', latency_count'} \subseteq Int
      /\ \A s \in Statuses : /\ total[s] \in Int /\ total'[s] \in Int
                             /\ answered[s] \in Int /\ answered'[s] \in Int
      /\ "200" \in Statuses /\ "500" \in Statuses
  BY DEF HandlerInv, Counters, Statuses, Endings
<1>6. inflight' = Cardinality(Inside)'
  BY <1>1, <1>4, <1>5 DEF HandlerInv, MetricsKeepStep
<1>7. hits' + misses' = total'["200"] + Between("200", Served)'
  <2>1. hits + misses = total["200"] + Between("200", Served)
    BY DEF HandlerInv, MetricsKeepStep, Served
  <2> QED
    BY <2>1, <1>2, <1>3, <1>5
<1>8. misses' = origin_count' + Between("200", {"origin"})'
  <2>1. misses = origin_count + Between("200", {"origin"})
    BY DEF HandlerInv, MetricsKeepStep
  <2> QED
    BY <2>1, <1>2, <1>3, <1>5
<1>9. latency_count' = total'["200"] + total'["500"]
                       + Between("200", {"total"})' + Between("500", {"total"})'
  <2>1. latency_count = total["200"] + total["500"]
                        + Between("200", {"total"}) + Between("500", {"total"})
    BY DEF HandlerInv, MetricsKeepStep
  <2> QED
    BY <2>1, <1>2, <1>3, <1>5
<1>10. ASSUME NEW s \in Statuses
       PROVE  total'[s] = answered'[s] + Between(s, {"leave"})'
  <2>1. total[s] = answered[s] + Between(s, {"leave"})
    BY DEF HandlerInv, MetricsKeepStep
  <2> QED
    BY <2>1, <1>2, <1>3, <1>5
<1>11. MetricsKeepStep'
  BY <1>6, <1>7, <1>8, <1>9, <1>10 DEF MetricsKeepStep, Served
<1> QED
  BY <1>1, <1>11 DEF HandlerInv

-----------------------------------------------------------------------------
(***************************************************************************)
(* The steps of the handler.                                               *)
(***************************************************************************)
Early == {"latency", "rate", "draw", "serve", "lookup"}

\* Up to its fate a request touches no metric but the in-flight gauge.
LEMMA QuietStep ==
  ASSUME HandlerInv, NEW t \in Handlers, NEW r \in Reqs, Becomes(t, r), Uncounted,
         req[t].at \in Early, req[t].status = "200",
         \/ r.at \in Early \union {"count"} /\ r.status = "200"
         \/ r.at = "observe" /\ r.status = "500"
         \/ r.at = "leave" /\ r.status = "raised"
  PROVE  HandlerInv'
<1>1. Fated(r)
  BY DEF Fated, Early, Statuses
<1>2. Counters' /\ Counters
  BY DEF HandlerInv, Counters, Uncounted, metricVars
<1>3. /\ inflight' = inflight /\ hits' = hits /\ misses' = misses
      /\ origin_count' = origin_count /\ latency_count' = latency_count
      /\ total' = total /\ answered' = answered
  BY DEF Uncounted, metricVars
<1>4. IsInside(r) = 1 /\ IsInside(req[t]) = 1
  BY DEF IsInside, Early
<1>5. /\ Counts(r, "200", Served) = 0 /\ Counts(req[t], "200", Served) = 0
      /\ Counts(r, "200", {"origin"}) = 0 /\ Counts(req[t], "200", {"origin"}) = 0
      /\ Counts(r, "200", {"total"}) = 0 /\ Counts(req[t], "200", {"total"}) = 0
      /\ Counts(r, "500", {"total"}) = 0 /\ Counts(req[t], "500", {"total"}) = 0
      /\ \A s \in Statuses : Counts(r, s, {"leave"}) = 0 /\ Counts(req[t], s, {"leave"}) = 0
  BY DEF Counts, Served, Early, Statuses
<1>6. /\ {inflight, hits, misses, origin_count, latency_count} \subseteq Int
      /\ \A s \in Statuses : total[s] \in Int /\ answered[s] \in Int
      /\ "200" \in Statuses /\ "500" \in Statuses
  BY <1>2 DEF Counters, Statuses, Endings
<1> QED
  BY <1>1, <1>2, <1>3, <1>4, <1>5, <1>6, BalanceKept

LEMMA EarlySteps ==
  ASSUME HandlerInv, NEW t \in Handlers,
         \/ ApplyLatency(t) \/ CheckRate(t) \/ Fail(t) \/ Spare(t)
         \/ ReadBypass(t) \/ GetSegment(t)
  PROVE  HandlerInv'
<1>1. req[t] \in Reqs /\ Fated(req[t])
  BY DEF HandlerInv, ReqsOK
<1>2. Uncounted /\ req[t].at \in Early /\ req[t].status = "200"
  BY <1>1 DEF ApplyLatency, CheckRate, Fail, Spare, ReadBypass, GetSegment, At, Early, Fated
<1>3. ASSUME NEW step \in Early \union {"count"}, Go(t, step) PROVE HandlerInv'
  <2>1. PICK r : r = [req[t] EXCEPT !.at = step]
    OBVIOUS
  <2>2. r \in Reqs /\ r.at = step /\ r.status = "200"
    BY <1>1, <1>2, <2>1 DEF Reqs, Early
  <2>3. Becomes(t, r)
    BY <1>3, <2>1 DEF Go
  <2> QED
    BY <1>2, <2>2, <2>3, QuietStep
<1>4. CASE ApplyLatency(t)
  <2>1. CASE chaos["latency_seconds"] > MaxSleep
    <3>1. PICK r : r = [req[t] EXCEPT !.at = "leave", !.status = "raised"]
      OBVIOUS
    <3>2. r \in Reqs /\ r.at = "leave" /\ r.status = "raised"
      BY <1>1, <3>1 DEF Reqs, Endings, Statuses
    <3>3. Becomes(t, r)
      BY <1>4, <2>1, <3>1 DEF ApplyLatency
    <3> QED
      BY <1>2, <3>2, <3>3, QuietStep
  <2>2. CASE ~(chaos["latency_seconds"] > MaxSleep)
    BY <1>3, <1>4, <2>2 DEF ApplyLatency, Early
  <2> QED
    BY <2>1, <2>2
<1>5. CASE CheckRate(t)
  <2>1. PICK step \in {"serve", "draw"} : Go(t, step)
    BY <1>5 DEF CheckRate
  <2> QED
    BY <1>3, <2>1 DEF Early
<1>6. CASE Fail(t)
  <2>1. PICK r : r = [req[t] EXCEPT !.at = "observe", !.status = "500"]
    OBVIOUS
  <2>2. r \in Reqs /\ r.at = "observe" /\ r.status = "500"
    BY <1>1, <2>1 DEF Reqs, Endings, Statuses
  <2>3. Becomes(t, r)
    BY <1>6, <2>1 DEF Fail
  <2> QED
    BY <1>2, <2>2, <2>3, QuietStep
<1>7. CASE Spare(t)
  BY <1>3, <1>7 DEF Spare, Early
<1>8. CASE ReadBypass(t)
  <2>1. PICK b \in BOOLEAN : b = (chaos["cache_bypass"] = 1)
    OBVIOUS
  <2>2. PICK r : r = [req[t] EXCEPT !.at = "lookup", !.bypass = b]
    OBVIOUS
  <2>3. r \in Reqs /\ r.at = "lookup" /\ r.status = "200"
    BY <1>1, <1>2, <2>1, <2>2 DEF Reqs
  <2>4. Becomes(t, r)
    BY <1>8, <2>1, <2>2 DEF ReadBypass
  <2> QED
    BY <1>2, <2>3, <2>4, QuietStep DEF Early
<1>9. CASE GetSegment(t)
  <2>1. PICK hit \in BOOLEAN : Becomes(t, [req[t] EXCEPT !.at = "count", !.hit = hit])
    BY <1>9 DEF GetSegment
  <2>2. PICK r : r = [req[t] EXCEPT !.at = "count", !.hit = hit]
    OBVIOUS
  <2>3. r \in Reqs /\ r.at = "count" /\ r.status = "200"
    BY <1>1, <1>2, <2>2 DEF Reqs
  <2> QED
    BY <1>2, <2>1, <2>2, <2>3, QuietStep DEF Early
<1> QED
  BY <1>4, <1>5, <1>6, <1>7, <1>8, <1>9

\* What the remaining steps share: the request moves on with its status.
LEMMA RequestGoes ==
  ASSUME ReqsOK, NEW t \in Handlers,
         NEW step \in {"latency", "observe", "total", "leave"}, Go(t, step)
  PROVE  \E r \in Reqs : Becomes(t, r) /\ r.at = step /\ r.status = req[t].status
<1>1. req[t] \in Reqs
  BY DEF ReqsOK
<1>2. PICK r : r = [req[t] EXCEPT !.at = step]
  OBVIOUS
<1>3. r \in Reqs /\ r.at = step /\ r.status = req[t].status
  BY <1>1, <1>2 DEF Reqs
<1> QED
  BY <1>2, <1>3 DEF Go

LEMMA EnterStep ==
  ASSUME HandlerInv, NEW t \in Handlers, Enter(t)
  PROVE  HandlerInv'
<1>1. /\ req[t].at = "idle" /\ Go(t, "latency") /\ inflight' = inflight + 1
      /\ UNCHANGED <<hits, misses, origin_count, latency_count, total, answered>>
  BY DEF Enter, At
<1>2. req[t].status = "200"
  BY <1>1 DEF HandlerInv, ReqsOK, Fated
<1>3. PICK r \in Reqs : Becomes(t, r) /\ r.at = "latency" /\ r.status = "200"
  BY <1>1, <1>2, RequestGoes DEF HandlerInv
<1>4. Fated(r)
  BY <1>3 DEF Fated
<1>5. Counters' /\ Counters
  BY <1>1 DEF HandlerInv, Counters
<1>6. IsInside(r) = 1 /\ IsInside(req[t]) = 0
  BY <1>1, <1>3 DEF IsInside
<1>7. \A s : /\ Counts(r, s, Served) = 0 /\ Counts(req[t], s, Served) = 0
             /\ Counts(r, s, {"origin"}) = 0 /\ Counts(req[t], s, {"origin"}) = 0
             /\ Counts(r, s, {"total"}) = 0 /\ Counts(req[t], s, {"total"}) = 0
             /\ Counts(r, s, {"leave"}) = 0 /\ Counts(req[t], s, {"leave"}) = 0
  BY <1>1, <1>3 DEF Counts, Served
<1>8. /\ {inflight, hits, misses, origin_count, latency_count} \subseteq Int
      /\ \A s \in Statuses : total[s] \in Int /\ answered[s] \in Int
      /\ "200" \in Statuses /\ "500" \in Statuses
  BY <1>5 DEF Counters, Statuses, Endings
<1> QED
  BY <1>1, <1>3, <1>4, <1>5, <1>6, <1>7, <1>8, BalanceKept

LEMMA CountOutcomeStep ==
  ASSUME HandlerInv, NEW t \in Handlers, CountOutcome(t)
  PROVE  HandlerInv'
<1>1. /\ req[t].at = "count"
      /\ UNCHANGED <<inflight, origin_count, latency_count, total, answered>>
  BY DEF CountOutcome, At
<1>2. req[t].status = "200"
  BY <1>1 DEF HandlerInv, ReqsOK, Fated
<1>3. PICK r : r = [NoRequest EXCEPT !.at = IF req[t].hit THEN "observe" ELSE "origin"]
  OBVIOUS
<1>4. r = [at |-> IF req[t].hit THEN "observe" ELSE "origin", status |-> "200",
           bypass |-> FALSE, hit |-> FALSE]
  BY <1>3 DEF NoRequest
<1>5. r \in Reqs /\ r.status = "200" /\ Becomes(t, r) /\ Fated(r)
  <2>1. Becomes(t, r)
    BY <1>3 DEF CountOutcome
  <2>2. r.at \in {"observe", "origin"} /\ r.status = "200"
    BY <1>4
  <2>3. r \in Reqs
    BY <1>4, <2>2 DEF Reqs, Endings, Statuses
  <2> QED
    BY <2>1, <2>2, <2>3 DEF Fated, Statuses
<1>6. Counters
  BY DEF HandlerInv
<1>7. IsInside(r) = 1 /\ IsInside(req[t]) = 1
  BY <1>1, <1>4 DEF IsInside
<1>8. /\ Counts(r, "200", Served) = 1 /\ Counts(req[t], "200", Served) = 0
      /\ Counts(req[t], "200", {"origin"}) = 0
      /\ \A s : /\ Counts(r, s, {"total"}) = 0 /\ Counts(req[t], s, {"total"}) = 0
                /\ Counts(r, s, {"leave"}) = 0 /\ Counts(req[t], s, {"leave"}) = 0
  BY <1>1, <1>4 DEF Counts, Served
<1>9. /\ {inflight, hits, misses, origin_count, latency_count} \subseteq Int
      /\ \A s \in Statuses : total[s] \in Int /\ answered[s] \in Int
      /\ "200" \in Statuses /\ "500" \in Statuses
  BY <1>6 DEF Counters, Statuses, Endings
<1>10. CASE req[t].hit
  <2>1. hits' = hits + 1 /\ misses' = misses
    BY <1>10 DEF CountOutcome
  <2>2. Counts(r, "200", {"origin"}) = 0
    BY <1>4, <1>10 DEF Counts
  <2>3. Counters'
    BY <1>1, <1>6, <2>1 DEF Counters
  <2> QED
    BY <1>1, <1>5, <1>7, <1>8, <1>9, <2>1, <2>2, <2>3, BalanceKept
<1>11. CASE ~req[t].hit
  <2>1. misses' = misses + 1 /\ hits' = hits
    BY <1>11 DEF CountOutcome
  <2>2. Counts(r, "200", {"origin"}) = 1
    BY <1>4, <1>11 DEF Counts
  <2>3. Counters'
    BY <1>1, <1>6, <2>1 DEF Counters
  <2> QED
    BY <1>1, <1>5, <1>7, <1>8, <1>9, <2>1, <2>2, <2>3, BalanceKept
<1> QED
  BY <1>10, <1>11

LEMMA ObserveOriginStep ==
  ASSUME HandlerInv, NEW t \in Handlers, ObserveOrigin(t)
  PROVE  HandlerInv'
<1>1. /\ req[t].at = "origin" /\ Go(t, "observe") /\ origin_count' = origin_count + 1
      /\ UNCHANGED <<inflight, hits, misses, latency_count, total, answered>>
  BY DEF ObserveOrigin, At
<1>2. req[t].status = "200"
  BY <1>1 DEF HandlerInv, ReqsOK, Fated
<1>3. PICK r \in Reqs : Becomes(t, r) /\ r.at = "observe" /\ r.status = "200"
  BY <1>1, <1>2, RequestGoes DEF HandlerInv
<1>4. Fated(r)
  BY <1>3 DEF Fated, Statuses
<1>5. Counters' /\ Counters
  BY <1>1 DEF HandlerInv, Counters
<1>6. IsInside(r) = 1 /\ IsInside(req[t]) = 1
  BY <1>1, <1>3 DEF IsInside
<1>7. /\ Counts(r, "200", Served) = 1 /\ Counts(req[t], "200", Served) = 1
      /\ Counts(r, "200", {"origin"}) = 0 /\ Counts(req[t], "200", {"origin"}) = 1
      /\ \A s : /\ Counts(r, s, {"total"}) = 0 /\ Counts(req[t], s, {"total"}) = 0
                /\ Counts(r, s, {"leave"}) = 0 /\ Counts(req[t], s, {"leave"}) = 0
  BY <1>1, <1>2, <1>3 DEF Counts, Served
<1>8. /\ {inflight, hits, misses, origin_count, latency_count} \subseteq Int
      /\ \A s \in Statuses : total[s] \in Int /\ answered[s] \in Int
      /\ "200" \in Statuses /\ "500" \in Statuses
  BY <1>5 DEF Counters, Statuses, Endings
<1> QED
  BY <1>1, <1>3, <1>4, <1>5, <1>6, <1>7, <1>8, BalanceKept

LEMMA ObserveLatencyStep ==
  ASSUME HandlerInv, NEW t \in Handlers, ObserveLatency(t)
  PROVE  HandlerInv'
<1>1. /\ req[t].at = "observe" /\ Go(t, "total") /\ latency_count' = latency_count + 1
      /\ UNCHANGED <<inflight, hits, misses, origin_count, total, answered>>
  BY DEF ObserveLatency, At
<1>2. req[t].status \in Statuses
  BY <1>1 DEF HandlerInv, ReqsOK, Fated
<1>3. PICK r \in Reqs : Becomes(t, r) /\ r.at = "total" /\ r.status = req[t].status
  BY <1>1, RequestGoes DEF HandlerInv
<1>4. Fated(r)
  BY <1>2, <1>3 DEF Fated
<1>5. Counters' /\ Counters
  BY <1>1 DEF HandlerInv, Counters
<1>6. IsInside(r) = 1 /\ IsInside(req[t]) = 1
  BY <1>1, <1>3 DEF IsInside
<1>7. /\ Counts(r, "200", Served) = Counts(req[t], "200", Served)
      /\ Counts(req[t], "200", Served) \in Int
      /\ Counts(r, "200", {"total"}) + Counts(r, "500", {"total"}) = 1
      /\ Counts(r, "200", {"total"}) \in Int /\ Counts(r, "500", {"total"}) \in Int
      /\ \A s : /\ Counts(r, s, {"origin"}) = 0 /\ Counts(req[t], s, {"origin"}) = 0
                /\ Counts(req[t], s, {"total"}) = 0
                /\ Counts(r, s, {"leave"}) = 0 /\ Counts(req[t], s, {"leave"}) = 0
  BY <1>1, <1>2, <1>3 DEF Counts, Served, Statuses
<1>8. /\ {inflight, hits, misses, origin_count, latency_count} \subseteq Int
      /\ \A s \in Statuses : total[s] \in Int /\ answered[s] \in Int
      /\ "200" \in Statuses /\ "500" \in Statuses
  BY <1>5 DEF Counters, Statuses, Endings
<1> QED
  BY <1>1, <1>3, <1>4, <1>5, <1>6, <1>7, <1>8, BalanceKept

LEMMA CountRequestStep ==
  ASSUME HandlerInv, NEW t \in Handlers, CountRequest(t)
  PROVE  HandlerInv'
<1>1. /\ req[t].at = "total" /\ Go(t, "leave")
      /\ total' = [total EXCEPT ![req[t].status] = @ + 1]
      /\ UNCHANGED <<inflight, hits, misses, origin_count, latency_count, answered>>
  BY DEF CountRequest, At
<1>2. PICK status \in Statuses : status = req[t].status
  BY <1>1 DEF HandlerInv, ReqsOK, Fated
<1>3. PICK r \in Reqs : Becomes(t, r) /\ r.at = "leave" /\ r.status = status
  BY <1>1, <1>2, RequestGoes DEF HandlerInv
<1>4. Fated(r)
  BY <1>3 DEF Fated
<1>5. Counters
  BY DEF HandlerInv
<1>6. /\ total' \in [Statuses -> Int]
      /\ \A s \in Statuses : total'[s] = total[s] + IF s = status THEN 1 ELSE 0
  BY <1>1, <1>2, <1>5 DEF Counters
<1>7. Counters'
  BY <1>1, <1>5, <1>6 DEF Counters
<1>8. IsInside(r) = 1 /\ IsInside(req[t]) = 1
  BY <1>1, <1>3 DEF IsInside
<1>9. /\ Counts(r, "200", Served) = 0
      /\ Counts(req[t], "200", Served) = IF status = "200" THEN 1 ELSE 0
      /\ Counts(req[t], "200", {"total"}) = IF status = "200" THEN 1 ELSE 0
      /\ Counts(req[t], "500", {"total"}) = IF status = "500" THEN 1 ELSE 0
      /\ \A s : /\ Counts(r, s, {"origin"}) = 0 /\ Counts(req[t], s, {"origin"}) = 0
                /\ Counts(r, s, {"total"}) = 0 /\ Counts(req[t], s, {"leave"}) = 0
                /\ Counts(r, s, {"leave"}) = IF s = status THEN 1 ELSE 0
  BY <1>1, <1>2, <1>3 DEF Counts, Served
<1>10. /\ {inflight, hits, misses, origin_count, latency_count} \subseteq Int
       /\ \A s \in Statuses : total[s] \in Int /\ answered[s] \in Int
       /\ "200" \in Statuses /\ "500" \in Statuses /\ status \in {"200", "500"}
  BY <1>5 DEF Counters, Statuses, Endings
<1> QED
  BY <1>1, <1>3, <1>4, <1>6, <1>7, <1>8, <1>9, <1>10, BalanceKept

LEMMA LeaveStep ==
  ASSUME HandlerInv, NEW t \in Handlers, Leave(t)
  PROVE  HandlerInv'
<1>1. /\ req[t].at = "leave" /\ Becomes(t, NoRequest) /\ inflight' = inflight - 1
      /\ answered' = [answered EXCEPT ![req[t].status] = @ + 1]
      /\ UNCHANGED <<hits, misses, origin_count, latency_count, total>>
  BY DEF Leave, At
<1>2. PICK status \in Endings : status = req[t].status
  BY DEF HandlerInv, ReqsOK, Reqs
<1>3. NoRequest \in Reqs /\ NoRequest.at = "idle" /\ Fated(NoRequest)
  BY DEF NoRequest, Reqs, Endings, Statuses, Fated
<1>4. Counters
  BY DEF HandlerInv
<1>5. /\ answered' \in [Endings -> Int]
      /\ \A s \in Endings : answered'[s] = answered[s] + IF s = status THEN 1 ELSE 0
  BY <1>1, <1>2, <1>4 DEF Counters
<1>6. Counters'
  BY <1>1, <1>4, <1>5 DEF Counters
<1>7. IsInside(NoRequest) = 0 /\ IsInside(req[t]) = 1
  BY <1>1, <1>3 DEF IsInside
<1>8. \A s : /\ Counts(NoRequest, s, Served) = 0 /\ Counts(req[t], s, Served) = 0
             /\ Counts(NoRequest, s, {"origin"}) = 0 /\ Counts(req[t], s, {"origin"}) = 0
             /\ Counts(NoRequest, s, {"total"}) = 0 /\ Counts(req[t], s, {"total"}) = 0
             /\ Counts(NoRequest, s, {"leave"}) = 0
             /\ Counts(req[t], s, {"leave"}) = IF s = status THEN 1 ELSE 0
  BY <1>1, <1>2, <1>3 DEF Counts, Served
<1>9. /\ {inflight, hits, misses, origin_count, latency_count} \subseteq Int
      /\ \A s \in Statuses : total[s] \in Int /\ answered[s] \in Int /\ s \in Endings
      /\ "200" \in Statuses /\ "500" \in Statuses
  BY <1>4 DEF Counters, Statuses, Endings
<1> QED
  BY <1>1, <1>3, <1>5, <1>6, <1>7, <1>8, <1>9, BalanceKept

\* The lever's requests leave every request where it is.
LEMMA MoveLeverStep ==
  ASSUME HandlerInv, MoveLever
  PROVE  HandlerInv'
  BY DEF MoveLever, handlerVars, metricVars, HandlerInv, ReqsOK, Counters,
     MetricsKeepStep, Inside, At, Between

LEMMA HandlerStarts == Init => HandlerInv
<1> SUFFICES ASSUME Init PROVE HandlerInv
  OBVIOUS
<1>1. \A t \in Handlers : req[t] = NoRequest
  BY DEF Init
<1>2. NoRequest \in Reqs /\ NoRequest.at = "idle" /\ NoRequest.status = "200"
  BY DEF NoRequest, Reqs, Endings, Statuses
<1>3. ReqsOK
  BY <1>1, <1>2 DEF Init, ReqsOK, Fated
<1>4. Counters
  BY DEF Init, Counters
<1>5. Inside = {}
  BY <1>1, <1>2 DEF Inside, At
<1>6. ASSUME NEW status, NEW steps, "idle" \notin steps PROVE Between(status, steps) = 0
  <2>1. {t \in Handlers : req[t].status = status /\ req[t].at \in steps} = {}
    BY <1>1, <1>2, <1>6
  <2> QED
    BY <2>1, FS_EmptySet DEF Between
<1>7. /\ \A s : Between(s, {"leave"}) = 0 /\ Between(s, {"total"}) = 0
      /\ Between("200", {"origin"}) = 0
      /\ Between("200", {"origin", "observe", "total"}) = 0
  BY <1>6
<1>8. MetricsKeepStep
  BY <1>5, <1>7, FS_EmptySet DEF Init, MetricsKeepStep, Statuses, Endings
<1> QED
  BY <1>3, <1>4, <1>8 DEF HandlerInv

LEMMA HandlerKeeps == HandlerInv /\ [Next]_vars => HandlerInv'
<1> SUFFICES ASSUME HandlerInv, [Next]_vars PROVE HandlerInv'
  OBVIOUS
<1>1. ASSUME NEW t \in Handlers, Handle(t) PROVE HandlerInv'
  BY <1>1, EarlySteps, EnterStep, CountOutcomeStep, ObserveOriginStep,
     ObserveLatencyStep, CountRequestStep, LeaveStep DEF Handle
<1>2. ASSUME UNCHANGED vars PROVE HandlerInv'
  BY <1>2 DEF vars, handlerVars, metricVars, HandlerInv, ReqsOK, Counters,
     MetricsKeepStep, Inside, At, Between
<1> QED
  BY <1>1, <1>2, MoveLeverStep DEF Next

\* Whatever path requests leave by, and however many threads, lever requests and
\* updates interleave, the metrics agree but for the requests between two of them.
THEOREM MetricsAgree == Spec => []MetricsKeepStep
<1>1. HandlerInv => MetricsKeepStep
  BY DEF HandlerInv
<1> QED
  BY <1>1, HandlerStarts, HandlerKeeps, PTL DEF Spec

-----------------------------------------------------------------------------
(***************************************************************************)
(* The counters never go below zero, nor any above the requests there      *)
(* were: what a counter shows is an answer given or a request inside.      *)
(***************************************************************************)
NatCounters ==
    /\ {hits, misses, origin_count} \subseteq Nat
    /\ answered \in [Endings -> Nat]
    /\ answered["200"] + answered["500"] + answered["raised"] + inflight <= MaxRequests
SizeInv == LeverTypeOK /\ HandlerInv /\ NatCounters

\* Requests at some steps, of one status or of both, are requests inside.
LEMMA BetweenAreInside ==
  ASSUME NEW A, NEW B, "idle" \notin A, "idle" \notin B
  PROVE  /\ Between("200", A) \in Nat /\ Between("500", B) \in Nat
         /\ Cardinality(Inside) \in Nat
         /\ Between("200", A) + Between("500", B) <= Cardinality(Inside)
<1>1. PICK I : I = Inside
  OBVIOUS
<1>2. PICK S : S = {t \in Handlers : req[t].status = "200" /\ req[t].at \in A}
  OBVIOUS
<1>3. PICK T : T = {t \in Handlers : req[t].status = "500" /\ req[t].at \in B}
  OBVIOUS
<1>4. IsFiniteSet(I) /\ I \subseteq Handlers
  BY <1>1, HandlerAssumption, FS_Subset DEF Inside
<1>5. S \subseteq I /\ T \subseteq I /\ S \intersect T = {}
  BY <1>1, <1>2, <1>3 DEF Inside, At
<1>6. IsFiniteSet(S) /\ IsFiniteSet(T) /\ S \union T \in SUBSET I
  BY <1>4, <1>5, FS_Subset
<1>7. Cardinality(S \union T) <= Cardinality(I)
  BY <1>4, <1>6, FS_Subset
<1>8. Cardinality(S \union T) = Cardinality(S) + Cardinality(T) - Cardinality(S \intersect T)
  BY <1>6, FS_Union
<1>9. Cardinality(S \intersect T) = 0
  BY <1>5, FS_EmptySet
<1>10. Cardinality(S) \in Nat /\ Cardinality(T) \in Nat /\ Cardinality(I) \in Nat
  BY <1>4, <1>6, FS_CardinalityType
<1>11. Cardinality(S) + Cardinality(T) <= Cardinality(I)
  BY <1>7, <1>8, <1>9, <1>10
<1> QED
  BY <1>1, <1>2, <1>3, <1>10, <1>11 DEF Between

\* Requests of one status at two places count once each.
LEMMA TwoPlaces ==
  ASSUME NEW status, NEW A, NEW B, A \intersect B = {}
  PROVE  Between(status, A \union B) = Between(status, A) + Between(status, B)
<1>1. PICK S : S = {t \in Handlers : req[t].status = status /\ req[t].at \in A}
  OBVIOUS
<1>2. PICK T : T = {t \in Handlers : req[t].status = status /\ req[t].at \in B}
  OBVIOUS
<1>3. S \union T = {t \in Handlers : req[t].status = status /\ req[t].at \in A \union B}
  BY <1>1, <1>2
<1>4. IsFiniteSet(S) /\ IsFiniteSet(T) /\ S \intersect T = {}
  BY <1>1, <1>2, HandlerAssumption, FS_Subset
<1>5. Cardinality(S \union T) = Cardinality(S) + Cardinality(T) - Cardinality(S \intersect T)
  BY <1>4, FS_Union
<1>6. Cardinality(S \intersect T) = 0
  BY <1>4, FS_EmptySet
<1>7. Cardinality(S) \in Nat /\ Cardinality(T) \in Nat
  BY <1>4, FS_CardinalityType
<1>8. Cardinality(S \union T) = Cardinality(S) + Cardinality(T)
  BY <1>5, <1>6, <1>7
<1> QED
  BY <1>1, <1>2, <1>3, <1>8 DEF Between

LEMMA SizesBounded == SizeInv => TypeOK
<1> SUFFICES ASSUME SizeInv PROVE TypeOK
  OBVIOUS
<1>1. LeverTypeOK /\ HandlerInv /\ NatCounters
  BY DEF SizeInv
<1>2. req \in [Handlers -> Reqs]
  BY <1>1 DEF HandlerInv, ReqsOK
<1>3. PICK n : n = Cardinality(Inside)
  OBVIOUS
<1>4. /\ n \in Nat /\ inflight = n
      /\ answered["200"] \in Nat /\ answered["500"] \in Nat /\ answered["raised"] \in Nat
      /\ answered["200"] + answered["500"] + answered["raised"] + n <= MaxRequests
  <2>1. IsFiniteSet(Inside)
    BY HandlerAssumption, FS_Subset DEF Inside
  <2>2. n \in Nat
    BY <1>3, <2>1, FS_CardinalityType
  <2> QED
    BY <1>1, <1>3, <2>2 DEF HandlerInv, MetricsKeepStep, NatCounters, Endings, Statuses
<1>5. answered \in [Endings -> 0..MaxRequests]
  <2>1. \A e \in Endings : answered[e] \in 0..MaxRequests
    BY <1>4, HandlerAssumption DEF Endings, Statuses
  <2> QED
    BY <1>1, <2>1 DEF NatCounters
<1>6. total["200"] = answered["200"] + Between("200", {"leave"})
  BY <1>1 DEF HandlerInv, MetricsKeepStep, Statuses
<1>7. total["500"] = answered["500"] + Between("500", {"leave"})
  BY <1>1 DEF HandlerInv, MetricsKeepStep, Statuses
<1>8. /\ Between("200", {"leave"}) \in Nat /\ Between("500", {"leave"}) \in Nat
      /\ Between("200", {"leave"}) + Between("500", {"leave"}) <= n
  BY <1>3, BetweenAreInside
<1>9. total \in [Statuses -> 0..MaxRequests]
  <2>1. total["200"] \in 0..MaxRequests /\ total["500"] \in 0..MaxRequests
    BY <1>4, <1>6, <1>7, <1>8, HandlerAssumption
  <2> QED
    BY <1>1, <2>1 DEF HandlerInv, Counters, Statuses
<1>10. hits + misses <= MaxRequests
  <2>1. Between("200", Served \union {"leave"})
          = Between("200", Served) + Between("200", {"leave"})
    BY TwoPlaces DEF Served
  <2>2. /\ Between("200", Served \union {"leave"}) \in Nat
        /\ Between("200", Served \union {"leave"}) + Between("500", {}) <= n
        /\ Between("500", {}) \in Nat
    BY <1>3, BetweenAreInside DEF Served
  <2>3. Between("200", Served) \in Nat
    BY BetweenAreInside DEF Served
  <2>4. hits + misses = total["200"] + Between("200", Served)
    BY <1>1 DEF HandlerInv, MetricsKeepStep, Served
  <2> QED
    BY <1>4, <1>6, <1>8, <2>1, <2>2, <2>3, <2>4, HandlerAssumption
<1>11. origin_count <= misses
  <2>1. Between("200", {"origin"}) \in Nat
    BY BetweenAreInside
  <2> QED
    BY <1>1, <2>1 DEF HandlerInv, MetricsKeepStep, NatCounters
<1>12. latency_count \in 0..MaxRequests
  <2>1. /\ Between("200", {"total"} \union {"leave"})
             = Between("200", {"total"}) + Between("200", {"leave"})
        /\ Between("500", {"total"} \union {"leave"})
             = Between("500", {"total"}) + Between("500", {"leave"})
    BY TwoPlaces
  <2>2. Between("200", {"total"} \union {"leave"})
          + Between("500", {"total"} \union {"leave"}) <= n
    BY <1>3, BetweenAreInside
  <2>3. Between("200", {"total"}) \in Nat /\ Between("500", {"total"}) \in Nat
    BY BetweenAreInside
  <2>4. latency_count = total["200"] + total["500"]
                        + Between("200", {"total"}) + Between("500", {"total"})
    BY <1>1 DEF HandlerInv, MetricsKeepStep
  <2> QED
    BY <1>4, <1>6, <1>7, <1>8, <2>1, <2>2, <2>3, <2>4, HandlerAssumption
<1>13. {inflight, hits, misses, origin_count, latency_count} \subseteq 0..MaxRequests
  BY <1>1, <1>4, <1>10, <1>11, <1>12, HandlerAssumption DEF NatCounters
<1> QED
  BY <1>1, <1>2, <1>5, <1>9, <1>13 DEF TypeOK, Reqs

\* A step of a handler counts up, and moves a request in or from inside to
\* answered; one that starts has room.
LEMMA CountsUp ==
  ASSUME HandlerInv, NEW t \in Handlers, Handle(t)
  PROVE  /\ hits' \in {hits, hits + 1} /\ misses' \in {misses, misses + 1}
         /\ origin_count' \in {origin_count, origin_count + 1}
         /\ \/ answered' = answered /\ inflight' = inflight
            \/ answered' = answered /\ inflight' = inflight + 1 /\ Requests < MaxRequests
            \/ /\ answered' = [answered EXCEPT ![req[t].status] = answered[req[t].status] + 1]
               /\ inflight' = inflight - 1
<1>1. CASE ApplyLatency(t) \/ CheckRate(t) \/ Fail(t) \/ Spare(t)
           \/ ReadBypass(t) \/ GetSegment(t)
  BY <1>1 DEF ApplyLatency, CheckRate, Fail, Spare, ReadBypass, GetSegment,
              Uncounted, metricVars
<1>2. CASE CountOutcome(t) \/ ObserveOrigin(t) \/ ObserveLatency(t) \/ CountRequest(t)
  BY <1>2 DEF CountOutcome, ObserveOrigin, ObserveLatency, CountRequest
<1>3. CASE Enter(t) \/ Leave(t)
  BY <1>3 DEF Enter, Leave
<1> QED
  BY <1>1, <1>2, <1>3 DEF Handle

LEMMA SizeKeeps == SizeInv /\ LeverTypeOK' /\ [Next]_vars => SizeInv'
<1> SUFFICES ASSUME SizeInv, LeverTypeOK', [Next]_vars PROVE SizeInv'
  OBVIOUS
<1>1. HandlerInv /\ NatCounters /\ HandlerInv'
  BY HandlerKeeps DEF SizeInv
<1>2. ASSUME NEW t \in Handlers, Handle(t) PROVE NatCounters'
  <2>1. /\ hits' \in {hits, hits + 1} /\ misses' \in {misses, misses + 1}
        /\ origin_count' \in {origin_count, origin_count + 1}
        /\ \/ answered' = answered /\ inflight' = inflight
           \/ answered' = answered /\ inflight' = inflight + 1 /\ Requests < MaxRequests
           \/ /\ answered' = [answered EXCEPT ![req[t].status] = answered[req[t].status] + 1]
              /\ inflight' = inflight - 1
    BY <1>1, <1>2, CountsUp
  <2>2. req[t].status \in Endings /\ inflight \in Int
    BY <1>1 DEF HandlerInv, ReqsOK, Reqs, Counters
  <2>3. Requests = answered["200"] + answered["500"] + answered["raised"] + inflight
    BY <1>1 DEF HandlerInv, MetricsKeepStep, Requests
  <2>4. answered' \in [Endings -> Nat]
    BY <1>1, <2>1, <2>2 DEF NatCounters
  <2>5. answered'["200"] + answered'["500"] + answered'["raised"] + inflight' <= MaxRequests
    <3>1. /\ answered["200"] \in Nat /\ answered["500"] \in Nat /\ answered["raised"] \in Nat
          /\ answered["200"] + answered["500"] + answered["raised"] + inflight <= MaxRequests
      BY <1>1 DEF NatCounters, Endings, Statuses
    <3>2. CASE answered' = answered
      BY <2>1, <2>2, <2>3, <3>1, <3>2, HandlerAssumption
    <3>3. CASE /\ answered' = [answered EXCEPT ![req[t].status] = answered[req[t].status] + 1]
               /\ inflight' = inflight - 1
      <4>1. req[t].status \in {"200", "500", "raised"}
        BY <2>2 DEF Endings, Statuses
      <4>2. \A e \in {"200", "500", "raised"} :
               answered'[e] = IF e = req[t].status THEN answered[e] + 1 ELSE answered[e]
        BY <1>1, <3>3 DEF NatCounters, Endings, Statuses
      <4>3. answered'["200"] + answered'["500"] + answered'["raised"]
              = answered["200"] + answered["500"] + answered["raised"] + 1
        BY <3>1, <4>1, <4>2
      <4> QED
        BY <2>2, <3>1, <3>3, <4>3, HandlerAssumption
    <3> QED
      BY <2>1, <3>2, <3>3
  <2>6. {hits', misses', origin_count'} \subseteq Nat
    BY <1>1, <2>1 DEF NatCounters
  <2> QED
    BY <2>4, <2>5, <2>6 DEF NatCounters
<1>3. ASSUME MoveLever \/ UNCHANGED vars PROVE NatCounters'
  BY <1>1, <1>3 DEF MoveLever, metricVars, vars, handlerVars, NatCounters
<1> QED
  BY <1>1, <1>2, <1>3 DEF SizeInv, Next

\* The lever under the handlers is the lever.
LEMMA LeverBelow == Spec => LeverInit /\ [][LeverNext]_leverVars
<1>1. Init => LeverInit
  BY DEF Init
<1>2. [Next]_vars => [LeverNext]_leverVars
  BY DEF Next, MoveLever, vars
<1> QED
  BY <1>1, <1>2, PTL DEF Spec

\* The handlers and the lever keep their types, and no counter exceeds the
\* requests there were, for any number of threads, requests and updates.
THEOREM HandlerTypeCorrect == Spec => []TypeOK
<1>1. Init => HandlerInv /\ NatCounters
  <2>1. ASSUME Init PROVE NatCounters
    BY <2>1, HandlerAssumption DEF Init, NatCounters, Endings, Statuses
  <2> QED
    BY <2>1, HandlerStarts
<1>2. LeverInit /\ [][LeverNext]_leverVars => []LeverTypeOK
  <2>1. LeverInv => LeverTypeOK
    BY DEF LeverInv
  <2> QED
    BY <2>1, LeverStarts, LeverKeeps, PTL
<1>3. LeverTypeOK /\ HandlerInv /\ NatCounters => SizeInv
  BY DEF SizeInv
<1> QED
  BY <1>1, <1>2, <1>3, LeverBelow, SizeKeeps, SizesBounded, PTL DEF Spec

\* Beside any number of handlers that read the lever, its gauges show the faults
\* when no lever request is under way, if there is one at a time.
THEOREM GaugesFollowUnderLoad == Spec /\ []OneAtATime => []GaugesAreCurrent
<1>1. LeverInit /\ [][LeverNext]_leverVars => []LeverTypeOK
  <2>1. LeverInv => LeverTypeOK
    BY DEF LeverInv
  <2> QED
    BY <2>1, LeverStarts, LeverKeeps, PTL
<1> QED
  BY <1>1, LeverBelow, AloneStarts, AloneKeeps, AloneShows, PTL
=============================================================================
