---------------------------- MODULE TracingProofs ----------------------------
(***************************************************************************)
(* For any requests, sampling ratios and queue limits, traces are whole,   *)
(* exemplars name traces that are kept, and the export queue stays within  *)
(* its limit.                                                              *)
(***************************************************************************)
EXTENDS Tracing, FiniteSetTheorems, TLAPS

Reqs == [at : {"waiting", "chaos", "lookup", "origin", "bypass", "write",
               "observe", "respond", "done"},
         upstream : Decisions, current : Decisions,
         exemplar : BOOLEAN, ran : SUBSET Names]

\* Once a request has a trace every span of it shares one decision, the upstream
\* service's if it made one; only what the instrumentation excludes has none.
Decided(q) ==
    /\ q.at = "waiting" => q.current = "none"
    /\ q.current = "none" =>
          q.at \in {"waiting", "observe", "respond", "done"} /\ q.ran = {} /\ q.upstream = "none"
    /\ q.upstream # "none" => q.current = q.upstream

Expected(r, q) == IF q.current = "sampled" THEN {r} \X q.ran ELSE {}
TracesFine ==
    instrumented => /\ enabled
                    /\ \A r \in Requests : Decided(req[r]) /\ SpansOf(r) = Expected(r, req[r])
TraceInv == TypeOK /\ TracesFine

-----------------------------------------------------------------------------
\* Queueing a span keeps the queue within its limit and records the span.
LEMMA EndKeepsQueue ==
  ASSUME TypeOK, NEW r \in Requests, NEW name \in Names, NEW d \in Decisions,
         End(<<r, name>>, d)
  PROVE  /\ {recorded', queue', batch'} \subseteq SUBSET Spans /\ lossy' \subseteq Requests
         /\ IsFiniteSet(queue') /\ Cardinality(queue') <= MaxQueue
         /\ recorded' = recorded \union (IF d = "sampled" THEN {<<r, name>>} ELSE {})
<1> DEFINE span == <<r, name>>
<1>1. span \in Spans /\ span[1] = r
  BY DEF Spans
<1>2. /\ IsFiniteSet(queue) /\ Cardinality(queue) <= MaxQueue /\ queue \subseteq Spans
      /\ recorded \subseteq Spans /\ batch \subseteq Spans /\ lossy \subseteq Requests
      /\ MaxQueue \in Nat
  BY TracingAssumption DEF TypeOK
<1>3. Cardinality(queue) \in Nat
  BY <1>2, FS_CardinalityType
<1>4. /\ IsFiniteSet(queue \union {span})
      /\ Cardinality(queue \union {span}) \in Nat
      /\ Cardinality(queue \union {span}) <= Cardinality(queue) + 1
  <2>1. /\ IsFiniteSet(queue \union {span})
        /\ Cardinality(queue \union {span})
             = IF span \in queue THEN Cardinality(queue) ELSE Cardinality(queue) + 1
    BY <1>2, FS_AddElement
  <2> QED
    BY <1>3, <2>1
<1> HIDE DEF span
<1>5. CASE d = "sampled" /\ Cardinality(queue) < MaxQueue
  <2>1. /\ queue' = queue \union {span} /\ lossy' = lossy
        /\ recorded' = recorded \union {span} /\ batch' = batch
    BY <1>5 DEF End, Enqueue, span
  <2>2. IsFiniteSet(queue') /\ Cardinality(queue') <= MaxQueue
    BY <1>2, <1>3, <1>4, <1>5, <2>1
  <2> QED
    BY <1>1, <1>2, <1>5, <2>1, <2>2 DEF span
<1>6. CASE d = "sampled" /\ ~(Cardinality(queue) < MaxQueue)
  <2>1. /\ recorded' = recorded \union {span} /\ batch' = batch
    BY <1>6 DEF End, span
  <2>2. PICK victim \in queue \union {span} :
          /\ queue' = (queue \union {span}) \ {victim}
          /\ lossy' = lossy \union {victim[1]}
    BY <1>6 DEF End, Enqueue, span
  <2>3. /\ IsFiniteSet(queue')
        /\ Cardinality(queue') = Cardinality(queue \union {span}) - 1
    BY <1>4, <2>2, FS_RemoveElement
  <2>4. Cardinality(queue') <= MaxQueue
    BY <1>2, <1>3, <1>4, <2>3
  <2>5. victim[1] \in Requests /\ queue' \subseteq Spans
    BY <1>1, <1>2, <2>2 DEF Spans
  <2> QED
    BY <1>1, <1>2, <1>6, <2>1, <2>2, <2>3, <2>4, <2>5 DEF span
<1>7. CASE d # "sampled"
  <2>1. UNCHANGED spanVars
    BY <1>7 DEF End, spanVars
  <2> QED
    BY <1>2, <1>7, <2>1 DEF spanVars
<1> QED
  BY <1>5, <1>6, <1>7

\* It is enough to look at the request that changes and the span it records.
LEMMA OneTraceChanges ==
  ASSUME TraceInv, NEW r \in Requests, NEW q \in Reqs, NEW new,
         Becomes(r, q), UNCHANGED setupVars,
         {recorded', queue', batch'} \subseteq SUBSET Spans, lossy' \subseteq Requests,
         IsFiniteSet(queue'), Cardinality(queue') <= MaxQueue,
         new \subseteq {r} \X Names, recorded' = recorded \union new,
         instrumented => Decided(q) /\ SpansOf(r) \union new = Expected(r, q)
  PROVE  TraceInv'
<1>1. req \in [Requests -> Reqs]
  BY DEF TraceInv, TypeOK, Reqs
<1>2. /\ req' \in [Requests -> Reqs] /\ req'[r] = q
      /\ \A u \in Requests : u # r => req'[u] = req[u]
  BY <1>1 DEF Becomes
<1>3. TypeOK'
  BY <1>2 DEF TraceInv, TypeOK, Reqs, setupVars
<1>4. /\ SpansOf(r)' = SpansOf(r) \union new
      /\ \A u \in Requests : u # r => SpansOf(u)' = SpansOf(u)
  BY DEF SpansOf
<1>5. TracesFine'
  <2> SUFFICES ASSUME instrumented
               PROVE  /\ enabled
                      /\ \A u \in Requests :
                            Decided(req'[u]) /\ SpansOf(u)' = Expected(u, req'[u])
    BY DEF TracesFine, Decided, Expected, setupVars
  <2> QED
    BY <1>2, <1>4 DEF TraceInv, TracesFine
<1> QED
  BY <1>3, <1>5 DEF TraceInv

\* A step that records nothing.
LEMMA SpanlessStep ==
  ASSUME TraceInv, NEW r \in Requests, NEW q \in Reqs,
         Becomes(r, q), UNCHANGED <<setupVars, spanVars>>,
         instrumented => Decided(q) /\ SpansOf(r) = Expected(r, q)
  PROVE  TraceInv'
<1>1. /\ {recorded', queue', batch'} \subseteq SUBSET Spans /\ lossy' \subseteq Requests
      /\ IsFiniteSet(queue') /\ Cardinality(queue') <= MaxQueue
      /\ recorded' = recorded \union {} /\ UNCHANGED setupVars
  BY DEF TraceInv, TypeOK, spanVars, setupVars
<1>2. {} \subseteq {r} \X Names /\ SpansOf(r) \union {} = SpansOf(r)
  OBVIOUS
<1> QED
  BY <1>1, <1>2, OneTraceChanges

-----------------------------------------------------------------------------
LEMMA ArriveTracedStep ==
  ASSUME TraceInv, NEW r \in Requests, NEW upstream \in Decisions, ArriveTraced(r, upstream)
  PROVE  TraceInv'
<1>1. req[r] \in Reqs
  BY DEF TraceInv, TypeOK, Reqs
<1>2. PICK d \in Decide(upstream) :
        Becomes(r, [req[r] EXCEPT !.at = "chaos", !.upstream = upstream, !.current = d])
  BY DEF ArriveTraced
<1>3. d \in Decisions \ {"none"} /\ (upstream # "none" => d = upstream)
  BY DEF Decide, Dice, Decisions
<1>4. PICK q : q = [req[r] EXCEPT !.at = "chaos", !.upstream = upstream, !.current = d]
  OBVIOUS
<1>5. /\ q \in Reqs /\ q.at = "chaos" /\ q.upstream = upstream /\ q.current = d
      /\ q.ran = req[r].ran
  BY <1>1, <1>3, <1>4 DEF Reqs
<1>6. instrumented => req[r].ran = {} /\ SpansOf(r) = {}
  BY DEF ArriveTraced, At, TraceInv, TracesFine, Decided, Expected
<1>7. instrumented => Decided(q) /\ SpansOf(r) = Expected(r, q)
  BY <1>3, <1>5, <1>6 DEF Decided, Expected
<1>8. UNCHANGED <<setupVars, spanVars>>
  BY DEF ArriveTraced
<1> QED
  BY <1>2, <1>4, <1>5, <1>7, <1>8, SpanlessStep

LEMMA ArriveUntracedStep ==
  ASSUME TraceInv, NEW r \in Requests, ArriveUntraced(r)
  PROVE  TraceInv'
<1>1. req[r] \in Reqs
  BY DEF TraceInv, TypeOK, Reqs
<1>2. PICK q : q = [req[r] EXCEPT !.at = "chaos"]
  OBVIOUS
<1>3. q \in Reqs
  BY <1>1, <1>2 DEF Reqs
<1>4. Becomes(r, q) /\ ~instrumented /\ UNCHANGED <<setupVars, spanVars>>
  BY <1>2 DEF ArriveUntraced, Go
<1> QED
  BY <1>3, <1>4, SpanlessStep

\* Steps that move a request on without a span of its own.
LEMMA GoStep ==
  ASSUME TraceInv, NEW r \in Requests, UNCHANGED <<setupVars, spanVars>>,
         NEW step \in {"observe", "respond", "lookup", "bypass"}, Go(r, step),
         \/ req[r].at = "chaos"
         \/ req[r].at = "waiting" /\ step = "observe"
  PROVE  TraceInv'
<1>1. req[r] \in Reqs
  BY DEF TraceInv, TypeOK, Reqs
<1>2. PICK q : q = [req[r] EXCEPT !.at = step]
  OBVIOUS
<1>3. /\ q \in Reqs /\ q.at = step /\ q.upstream = req[r].upstream
      /\ q.current = req[r].current /\ q.ran = req[r].ran
  BY <1>1, <1>2 DEF Reqs
<1>4. instrumented => Decided(q) /\ SpansOf(r) = Expected(r, q)
  BY <1>3 DEF TraceInv, TracesFine, Decided, Expected
<1>5. Becomes(r, q)
  BY <1>2 DEF Go
<1> QED
  BY <1>3, <1>4, <1>5, SpanlessStep

LEMMA ObserveStep ==
  ASSUME TraceInv, NEW r \in Requests, Observe(r)
  PROVE  TraceInv'
<1>1. req[r] \in Reqs /\ req[r].at = "observe"
  BY DEF TraceInv, TypeOK, Reqs, Observe, At
<1>2. PICK e \in BOOLEAN : e = (req[r].current = "sampled")
  OBVIOUS
<1>3. PICK q : q = [req[r] EXCEPT !.at = "respond", !.exemplar = e]
  OBVIOUS
<1>4. /\ q \in Reqs /\ q.at = "respond" /\ q.upstream = req[r].upstream
      /\ q.current = req[r].current /\ q.ran = req[r].ran
  BY <1>1, <1>2, <1>3 DEF Reqs
<1>5. instrumented => Decided(q) /\ SpansOf(r) = Expected(r, q)
  BY <1>1, <1>4 DEF TraceInv, TracesFine, Decided, Expected
<1>6. Becomes(r, q) /\ UNCHANGED <<setupVars, spanVars>>
  BY <1>2, <1>3 DEF Observe
<1> QED
  BY <1>4, <1>5, <1>6, SpanlessStep

\* A span of a request that has a trace decides as its request did.
LEMMA SpanStep ==
  ASSUME TraceInv, NEW r \in Requests, NEW name \in Names,
         NEW step \in {"observe", "origin", "write"},
         req[r].at \in {"lookup", "origin", "bypass", "write"}, Span(r, name, step)
  PROVE  TraceInv'
<1>1. req[r] \in Reqs
  BY DEF TraceInv, TypeOK, Reqs
<1>2. PICK q : q = [req[r] EXCEPT !.at = step, !.ran = req[r].ran \union {name}]
  OBVIOUS
<1>3. /\ q \in Reqs /\ q.at = step /\ q.upstream = req[r].upstream
      /\ q.current = req[r].current /\ q.ran = req[r].ran \union {name}
  BY <1>1, <1>2 DEF Reqs
<1>4. Becomes(r, q) /\ UNCHANGED setupVars
  BY <1>2 DEF Span
<1>5. instrumented => /\ enabled /\ req[r].current # "none" /\ Decided(req[r])
                      /\ SpansOf(r) = Expected(r, req[r])
  BY DEF TraceInv, TracesFine, Decided
<1>6. instrumented => Decided(q)
  BY <1>3, <1>5 DEF Decided
<1>7. CASE enabled
  <2>1. PICK d \in Decide(req[r].current) : End(<<r, name>>, d)
    BY <1>7 DEF Span
  <2>2. d \in Decisions /\ (instrumented => d = req[r].current)
    BY <1>1, <1>5 DEF Decide, Dice, Decisions, Reqs
  <2>3. PICK new : new = IF d = "sampled" THEN {<<r, name>>} ELSE {}
    OBVIOUS
  <2>4. /\ {recorded', queue', batch'} \subseteq SUBSET Spans /\ lossy' \subseteq Requests
        /\ IsFiniteSet(queue') /\ Cardinality(queue') <= MaxQueue
        /\ recorded' = recorded \union new
    BY <2>1, <2>2, <2>3, EndKeepsQueue DEF TraceInv
  <2>5. new \subseteq {r} \X Names
    BY <2>3
  <2>6. instrumented => SpansOf(r) \union new = Expected(r, q)
    BY <1>3, <1>5, <2>2, <2>3 DEF Expected
  <2> QED
    BY <1>3, <1>4, <1>6, <2>4, <2>5, <2>6, OneTraceChanges
<1>8. CASE ~enabled
  <2>1. ~instrumented /\ UNCHANGED <<setupVars, spanVars>>
    BY <1>4, <1>5, <1>8 DEF Span
  <2> QED
    BY <1>3, <1>4, <2>1, SpanlessStep
<1> QED
  BY <1>7, <1>8

LEMMA RespondStep ==
  ASSUME TraceInv, NEW r \in Requests, Respond(r)
  PROVE  TraceInv'
<1>1. req[r] \in Reqs /\ req[r].at = "respond"
  BY DEF TraceInv, TypeOK, Reqs, Respond, At
<1>2. PICK span \in SUBSET {"request"} :
        span = IF req[r].current = "none" THEN {} ELSE {"request"}
  OBVIOUS
<1>3. PICK q : q = [req[r] EXCEPT !.at = "done", !.ran = req[r].ran \union span]
  OBVIOUS
<1>4. /\ q \in Reqs /\ q.at = "done" /\ q.upstream = req[r].upstream
      /\ q.current = req[r].current /\ q.ran = req[r].ran \union span
  BY <1>1, <1>2, <1>3 DEF Reqs, Names
<1>5. Becomes(r, q) /\ End(<<r, "request">>, req[r].current) /\ UNCHANGED setupVars
  BY <1>2, <1>3 DEF Respond
<1>6. PICK new : new = IF req[r].current = "sampled" THEN {<<r, "request">>} ELSE {}
  OBVIOUS
<1>7. /\ {recorded', queue', batch'} \subseteq SUBSET Spans /\ lossy' \subseteq Requests
      /\ IsFiniteSet(queue') /\ Cardinality(queue') <= MaxQueue
      /\ recorded' = recorded \union new
  BY <1>1, <1>5, <1>6, EndKeepsQueue DEF TraceInv, Reqs, Names
<1>8. new \subseteq {r} \X Names
  BY <1>6 DEF Names
<1>9. ASSUME instrumented PROVE Decided(q) /\ SpansOf(r) \union new = Expected(r, q)
  <2>1. Decided(req[r]) /\ SpansOf(r) = Expected(r, req[r])
    BY <1>9 DEF TraceInv, TracesFine
  <2>2. Decided(q)
    BY <1>1, <1>2, <1>4, <2>1 DEF Decided
  <2>3. SpansOf(r) \union new = Expected(r, q)
    BY <1>2, <1>4, <1>6, <2>1 DEF Expected
  <2> QED
    BY <2>2, <2>3
<1> QED
  BY <1>4, <1>5, <1>7, <1>8, <1>9, OneTraceChanges

LEMMA ServeStep ==
  ASSUME TraceInv, NEW r \in Requests, Serve(r)
  PROVE  TraceInv'
<1>1. CASE PassChaos(r)
  <2>1. PICK step \in {"observe", "respond", "lookup", "bypass"} : Go(r, step)
    BY <1>1 DEF PassChaos
  <2>2. req[r].at = "chaos" /\ UNCHANGED <<setupVars, spanVars>>
    BY <1>1 DEF PassChaos, At
  <2> QED
    BY <2>1, <2>2, GoStep
<1>2. CASE Lookup(r) \/ FetchOrigin(r) \/ Write(r)
  <2>1. req[r].at \in {"lookup", "origin", "bypass", "write"}
    BY <1>2 DEF Lookup, FetchOrigin, Write, At
  <2>2. PICK name \in Names, step \in {"observe", "origin", "write"} : Span(r, name, step)
    BY <1>2 DEF Lookup, FetchOrigin, Write, Names
  <2> QED
    BY <2>1, <2>2, SpanStep
<1> QED
  BY <1>1, <1>2, ObserveStep, RespondStep DEF Serve

\* The exporter takes what is queued and touches no trace.
LEMMA ExportStep ==
  ASSUME TraceInv, Export
  PROVE  TraceInv'
<1>1. UNCHANGED <<setupVars, req, recorded>>
  BY DEF Export, TakeBatch, SendBatch
<1>2. TracesFine'
  BY <1>1 DEF TraceInv, TracesFine, Decided, Expected, SpansOf, setupVars
<1>3. /\ queue \subseteq Spans /\ batch \subseteq Spans /\ lossy \subseteq Requests
      /\ IsFiniteSet(queue) /\ Cardinality(queue) <= MaxQueue
  BY DEF TraceInv, TypeOK
<1>4. /\ {queue', batch'} \subseteq SUBSET Spans /\ lossy' \subseteq Requests
      /\ IsFiniteSet(queue') /\ Cardinality(queue') <= MaxQueue
  <2>1. CASE TakeBatch
    <3>1. queue' = {} /\ batch' = queue /\ lossy' = lossy
      BY <2>1 DEF TakeBatch
    <3> QED
      BY <1>3, <3>1, FS_EmptySet, TracingAssumption
  <2>2. CASE SendBatch
    <3>1. /\ queue' = queue /\ batch' = {}
          /\ lossy' \in {lossy, lossy \union {span[1] : span \in batch}}
      BY <2>2 DEF SendBatch
    <3>2. \A span \in batch : span[1] \in Requests
      BY <1>3 DEF Spans
    <3> QED
      BY <1>3, <3>1, <3>2
  <2> QED
    BY <2>1, <2>2 DEF Export
<1>5. TypeOK'
  BY <1>1, <1>4 DEF TraceInv, TypeOK, setupVars
<1> QED
  BY <1>2, <1>5 DEF TraceInv

LEMMA TraceStarts == Init => TraceInv
<1> SUFFICES ASSUME Init PROVE TraceInv
  OBVIOUS
<1>1. ratio \in 0..100
  <2>1. PICK s \in Settings : ratio = SampleRatio(s)
    BY DEF Init
  <2>2. s = Invalid \/ s \in Int
    BY TracingAssumption
  <2> QED
    BY <2>1, <2>2 DEF SampleRatio, Clamped
<1>2. Waiting \in Reqs
  BY DEF Waiting, Reqs, Decisions
<1>3. req \in [Requests -> Reqs] /\ \A r \in Requests : req[r] = Waiting
  BY <1>2 DEF Init
<1>4. IsFiniteSet(queue) /\ Cardinality(queue) <= MaxQueue
  BY FS_EmptySet, TracingAssumption DEF Init
<1>5. TypeOK
  BY <1>1, <1>3, <1>4 DEF Init, TypeOK, Reqs
<1>6. \A r \in Requests : Decided(req[r]) /\ SpansOf(r) = Expected(r, req[r])
  BY <1>3 DEF Init, Decided, Expected, SpansOf, Waiting
<1>7. instrumented => enabled
  BY DEF Init
<1> QED
  BY <1>5, <1>6, <1>7 DEF TraceInv, TracesFine

LEMMA TraceKeeps == TraceInv /\ [Next]_vars => TraceInv'
<1> SUFFICES ASSUME TraceInv, [Next]_vars PROVE TraceInv'
  OBVIOUS
<1>1. ASSUME NEW r \in Requests, ArriveHealthz(r) PROVE TraceInv'
  BY <1>1, GoStep DEF ArriveHealthz, At
<1>2. CASE UNCHANGED vars
  BY <1>2 DEF vars, setupVars, spanVars, TraceInv, TypeOK, TracesFine, Decided,
     Expected, SpansOf
<1> QED
  BY <1>1, <1>2, ServeStep, ArriveTracedStep, ArriveUntracedStep, ExportStep DEF Next

\* Tracing keeps its types, and the queue its limit, for any number of requests.
THEOREM QueueStaysWithinLimit == Spec => []TypeOK
<1>1. TraceInv => TypeOK
  BY DEF TraceInv
<1> QED
  BY <1>1, TraceStarts, TraceKeeps, PTL DEF Spec

\* No trace is half-recorded, and the upstream service's decision is heeded,
\* whatever the ratio, the queue's limit and the exporter do.
THEOREM TracesAreWhole == Spec => []WholeTraces
<1>1. TraceInv => WholeTraces
  BY DEF TraceInv, TracesFine, WholeTraces, Decided, Expected, At, TypeOK, Decisions
<1> QED
  BY <1>1, TraceStarts, TraceKeeps, PTL DEF Spec

-----------------------------------------------------------------------------
(***************************************************************************)
(* Exemplars.  A latency gets its exemplar before the request's span has   *)
(* ended, so what makes it resolvable is decided after it was shown.       *)
(***************************************************************************)
\* Only an instrumented request has a current trace; an exemplar is of a sampled
\* one; and a sampled request ends with its own span.
Exemplary(q) ==
    /\ q.current # "none" => instrumented /\ q.at # "waiting"
    /\ q.exemplar => q.current = "sampled"
    /\ q.at = "done" /\ q.current = "sampled" => "request" \in q.ran
ExemplarInv == \A r \in Requests : Exemplary(req[r])

LEMMA ExemplaryStep ==
  ASSUME TypeOK, NEW r \in Requests, Exemplary(req[r]),
         \/ Serve(r) \/ ArriveUntraced(r) \/ ArriveHealthz(r)
         \/ \E d \in Decisions : ArriveTraced(r, d)
  PROVE  \E q : Becomes(r, q) /\ Exemplary(q) /\ instrumented' = instrumented
<1>1. req[r] \in Reqs
  BY DEF TypeOK, Reqs
<1>2. CASE ArriveUntraced(r) \/ ArriveHealthz(r) \/ PassChaos(r)
  <2>1. PICK step \in {"chaos", "observe", "respond", "lookup", "bypass"} :
          Becomes(r, [req[r] EXCEPT !.at = step])
    BY <1>2 DEF ArriveUntraced, ArriveHealthz, PassChaos, Go
  <2>2. Exemplary([req[r] EXCEPT !.at = step])
    BY <1>1 DEF Exemplary, Reqs
  <2> QED
    BY <1>2, <2>1, <2>2 DEF ArriveUntraced, ArriveHealthz, PassChaos, setupVars
<1>3. CASE Lookup(r) \/ FetchOrigin(r) \/ Write(r)
  <2>1. PICK name \in Names, step \in {"observe", "origin", "write"} : Span(r, name, step)
    BY <1>3 DEF Lookup, FetchOrigin, Write, Names
  <2>2. PICK q : q = [req[r] EXCEPT !.at = step, !.ran = req[r].ran \union {name}]
    OBVIOUS
  <2>3. Exemplary(q)
    BY <1>1, <2>2 DEF Exemplary, Reqs
  <2> QED
    BY <2>1, <2>2, <2>3 DEF Span, setupVars
<1>4. CASE Observe(r)
  <2>1. PICK e \in BOOLEAN : e = (req[r].current = "sampled")
    OBVIOUS
  <2>2. PICK q : q = [req[r] EXCEPT !.at = "respond", !.exemplar = e]
    OBVIOUS
  <2>3. Exemplary(q)
    BY <1>1, <2>1, <2>2 DEF Exemplary, Reqs
  <2> QED
    BY <1>4, <2>1, <2>2, <2>3 DEF Observe, setupVars
<1>5. CASE Respond(r)
  <2>1. PICK span \in SUBSET {"request"} :
          span = IF req[r].current = "none" THEN {} ELSE {"request"}
    OBVIOUS
  <2>2. PICK q : q = [req[r] EXCEPT !.at = "done", !.ran = req[r].ran \union span]
    OBVIOUS
  <2>3. Exemplary(q)
    BY <1>1, <2>1, <2>2 DEF Exemplary, Reqs
  <2> QED
    BY <1>5, <2>1, <2>2, <2>3 DEF Respond, setupVars
<1>6. ASSUME NEW upstream \in Decisions, ArriveTraced(r, upstream)
      PROVE  \E q : Becomes(r, q) /\ Exemplary(q) /\ instrumented' = instrumented
  <2>1. PICK d : Becomes(r, [req[r] EXCEPT !.at = "chaos", !.upstream = upstream, !.current = d])
    BY <1>6 DEF ArriveTraced
  <2>2. PICK q : q = [req[r] EXCEPT !.at = "chaos", !.upstream = upstream, !.current = d]
    OBVIOUS
  <2>3. ~req[r].exemplar
    BY <1>6 DEF ArriveTraced, At, Exemplary
  <2>4. Exemplary(q)
    BY <1>1, <1>6, <2>2, <2>3 DEF Exemplary, Reqs, ArriveTraced
  <2> QED
    BY <1>6, <2>1, <2>2, <2>4 DEF ArriveTraced, setupVars
<1> QED
  BY <1>2, <1>3, <1>4, <1>5, <1>6 DEF Serve

\* An exemplar names a trace that is kept: when its request is done all of its
\* spans were recorded, the request's own among them, so the queue and the
\* network are all that can lose it.
THEOREM ExemplarsAreRecorded ==
  Spec => [](\A r \in Requests : req[r].exemplar /\ At(r, "done") =>
                "request" \in req[r].ran /\ SpansOf(r) = {r} \X req[r].ran)
<1> DEFINE Recorded == \A r \in Requests : req[r].exemplar /\ At(r, "done") =>
                          "request" \in req[r].ran /\ SpansOf(r) = {r} \X req[r].ran
<1>1. Init => ExemplarInv
  BY DEF Init, ExemplarInv, Exemplary, Waiting
<1>2. TraceInv /\ ExemplarInv /\ [Next]_vars => ExemplarInv'
  <2> SUFFICES ASSUME TraceInv, ExemplarInv, [Next]_vars PROVE ExemplarInv'
    OBVIOUS
  <2>1. ASSUME NEW r \in Requests, NEW q, Becomes(r, q), Exemplary(q), instrumented' = instrumented
        PROVE  ExemplarInv'
    <3>1. \A u \in Requests : req'[u] = IF u = r THEN q ELSE req[u]
      BY <2>1 DEF TraceInv, TypeOK, Becomes
    <3> QED
      BY <2>1, <3>1 DEF ExemplarInv, Exemplary
  <2>2. CASE Export \/ UNCHANGED vars
    BY <2>2 DEF Export, TakeBatch, SendBatch, vars, setupVars, ExemplarInv, Exemplary
  <2>3. CASE \E r \in Requests :
               \/ Serve(r) \/ ArriveUntraced(r) \/ ArriveHealthz(r)
               \/ \E d \in Decisions : ArriveTraced(r, d)
    <3>1. PICK r \in Requests :
            \/ Serve(r) \/ ArriveUntraced(r) \/ ArriveHealthz(r)
            \/ \E d \in Decisions : ArriveTraced(r, d)
      BY <2>3
    <3>2. TypeOK /\ Exemplary(req[r])
      BY DEF TraceInv, ExemplarInv
    <3>3. PICK q : Becomes(r, q) /\ Exemplary(q) /\ instrumented' = instrumented
      BY <3>1, <3>2, ExemplaryStep
    <3> QED
      BY <2>1, <3>3
  <2> QED
    BY <2>2, <2>3 DEF Next
<1>3. TraceInv /\ ExemplarInv => Recorded
  BY DEF TraceInv, TracesFine, ExemplarInv, Exemplary, Expected, At
<1> QED
  BY <1>1, <1>2, <1>3, TraceStarts, TraceKeeps, PTL DEF Spec
=============================================================================
