------------------------------- MODULE Tracing -------------------------------
(***************************************************************************)
(* Tracing of requests (app/tracing.py with the spans of app/cache.py and  *)
(* the exemplars of app/main.py): each request decides once whether its    *)
(* trace is sampled, its spans are queued as they end, and a background    *)
(* thread exports them while the latency metric already shows the trace id. *)
(*                                                                         *)
(* The sampler, the bounded queue and the exporter are OpenTelemetry's,    *)
(* modelled from the way setup_tracing() puts them together.  A span ends  *)
(* in the step that starts it: nothing of tracing happens inside it.       *)
(***************************************************************************)
EXTENDS Integers, FiniteSets

CONSTANTS
    Requests,   \* requests, each with a trace of its own
    Settings,   \* values of TRACE_SAMPLE_RATIO, in percent
    Invalid,    \* a value that is not a number
    MaxQueue    \* spans that the export queue holds

ASSUME TracingAssumption ==
    Settings \subseteq Int \union {Invalid} /\ MaxQueue \in Nat \ {0}

VARIABLES
    enabled,        \* setup_tracing() found an endpoint and OpenTelemetry
    instrumented,   \* FastAPI opens a span for each request
    ratio,          \* percent of the new traces that are sampled
    req,            \* what each request is doing
    recorded,       \* sampled spans that have ended
    queue,          \* those that wait for the exporter
    batch,          \* those that it is sending
    lossy           \* requests with a span dropped by the queue or the network

setupVars == <<enabled, instrumented, ratio>>
spanVars == <<recorded, queue, batch, lossy>>
vars == <<setupVars, req, spanVars>>

Decisions == {"none", "sampled", "unsampled"}
Names == {"request", "lookup", "origin", "write"}
Spans == Requests \X Names
Waiting == [at |-> "waiting", upstream |-> "none", current |-> "none",
            exemplar |-> FALSE, ran |-> {}]

TypeOK ==
    /\ {enabled, instrumented} \subseteq BOOLEAN /\ ratio \in 0..100
    /\ req \in [Requests ->
          [at : {"waiting", "chaos", "lookup", "origin", "bypass", "write",
                 "observe", "respond", "done"},
           upstream : Decisions, current : Decisions,
           exemplar : BOOLEAN, ran : SUBSET Names]]
    /\ {recorded, queue, batch} \subseteq SUBSET Spans /\ lossy \subseteq Requests
    /\ IsFiniteSet(queue) /\ Cardinality(queue) <= MaxQueue

\* _sample_ratio(): clamped to the percentages, 10 when it is no number.
Clamped(n) == IF n < 0 THEN 0 ELSE IF n > 100 THEN 100 ELSE n
SampleRatio(setting) == IF setting = Invalid THEN 10 ELSE Clamped(setting)

Init ==
    /\ enabled \in BOOLEAN
    /\ instrumented \in {FALSE, enabled}
    /\ ratio \in {SampleRatio(s) : s \in Settings}
    /\ req = [r \in Requests |-> Waiting]
    /\ recorded = {} /\ queue = {} /\ batch = {} /\ lossy = {}

-----------------------------------------------------------------------------
\* Whether a new span is sampled: as its parent, or for a root by the ratio.
Dice == {d \in {"sampled", "unsampled"} :
            /\ d = "sampled" => ratio > 0
            /\ d = "unsampled" => ratio < 100}
DecideAfresh(parent) == Dice
Decide(parent) == IF parent = "none" THEN Dice ELSE {parent}

EnqueueUnbounded(span) == queue' = queue \union {span} /\ UNCHANGED lossy
EnqueueWhenRoom(span) ==
    /\ Cardinality(queue) < MaxQueue
    /\ queue' = queue \union {span} /\ UNCHANGED lossy

\* The queue is OpenTelemetry's: a full one drops a span rather than block the
\* request.
Enqueue(span) ==
    IF Cardinality(queue) < MaxQueue
    THEN queue' = queue \union {span} /\ UNCHANGED lossy
    ELSE \E victim \in queue \union {span} :
            /\ queue' = (queue \union {span}) \ {victim}
            /\ lossy' = lossy \union {victim[1]}

End(span, decision) ==
    /\ IF decision = "sampled"
       THEN recorded' = recorded \union {span} /\ Enqueue(span)
       ELSE UNCHANGED <<recorded, queue, lossy>>
    /\ UNCHANGED batch

At(r, step) == req[r].at = step
Becomes(r, q) == req' = [req EXCEPT ![r] = q]
Go(r, step) == Becomes(r, [req[r] EXCEPT !.at = step])

\* start_span(): a child of the current span, or a root when there is none.
Span(r, name, step) ==
    /\ Becomes(r, [req[r] EXCEPT !.at = step, !.ran = req[r].ran \union {name}])
    /\ IF enabled
       THEN \E d \in Decide(req[r].current) : End(<<r, name>>, d)
       ELSE UNCHANGED spanVars
    /\ UNCHANGED setupVars

\* A request arrives.  The instrumentation opens its span and heeds what the
\* service upstream decided, if it did.
ArriveTraced(r, upstream) ==
    /\ At(r, "waiting") /\ instrumented
    /\ \E d \in Decide(upstream) :
          Becomes(r, [req[r] EXCEPT !.at = "chaos", !.upstream = upstream, !.current = d])
    /\ UNCHANGED <<setupVars, spanVars>>
ArriveUntraced(r) ==
    /\ At(r, "waiting") /\ ~instrumented
    /\ Go(r, "chaos")
    /\ UNCHANGED <<setupVars, spanVars>>

\* healthz is excluded from the instrumentation.
ArriveHealthz(r) ==
    /\ At(r, "waiting")
    /\ Go(r, "observe")
    /\ UNCHANGED <<setupVars, spanVars>>

\* An injected error is observed, an exception is not.
PassChaos(r) ==
    /\ At(r, "chaos")
    /\ \E step \in {"observe", "respond", "lookup", "bypass"} : Go(r, step)
    /\ UNCHANGED <<setupVars, spanVars>>

Lookup(r) == At(r, "lookup") /\ \E step \in {"observe", "origin"} : Span(r, "lookup", step)
FetchOrigin(r) ==
    \/ At(r, "origin") /\ Span(r, "origin", "write")
    \/ At(r, "bypass") /\ Span(r, "origin", "observe")
Write(r) == At(r, "write") /\ Span(r, "write", "observe")

ObserveAnyTrace(r) ==
    /\ At(r, "observe")
    /\ Becomes(r, [req[r] EXCEPT !.at = "respond", !.exemplar = req[r].current # "none"])
    /\ UNCHANGED <<setupVars, spanVars>>

\* _observe() attaches the trace id to the latency if the trace is sampled.
Observe(r) ==
    /\ At(r, "observe")
    /\ Becomes(r, [req[r] EXCEPT !.at = "respond", !.exemplar = req[r].current = "sampled"])
    /\ UNCHANGED <<setupVars, spanVars>>

\* The request's span, if it has one, is the last to end.
Respond(r) ==
    /\ At(r, "respond")
    /\ LET span == IF req[r].current = "none" THEN {} ELSE {"request"} IN
       Becomes(r, [req[r] EXCEPT !.at = "done", !.ran = req[r].ran \union span])
    /\ End(<<r, "request">>, req[r].current)
    /\ UNCHANGED setupVars

Serve(r) ==
    \/ PassChaos(r) \/ Lookup(r) \/ FetchOrigin(r) \/ Write(r) \/ Observe(r) \/ Respond(r)

\* The background thread sends a batch, which the collector takes or not.
TakeBatch ==
    /\ batch = {} /\ queue # {}
    /\ batch' = queue /\ queue' = {}
    /\ UNCHANGED <<setupVars, req, recorded, lossy>>
SendBatch ==
    /\ batch # {} /\ batch' = {}
    /\ lossy' \in {lossy, lossy \union {span[1] : span \in batch}}
    /\ UNCHANGED <<setupVars, req, recorded, queue>>
Export == TakeBatch \/ SendBatch

Next ==
    \/ \E r \in Requests :
          \/ Serve(r) \/ ArriveUntraced(r) \/ ArriveHealthz(r)
          \/ \E d \in Decisions : ArriveTraced(r, d)
    \/ Export

\* Requests are scheduled; the exporter may hang for ever.
Spec == Init /\ [][Next]_vars /\ \A r \in Requests : WF_vars(Serve(r))

-----------------------------------------------------------------------------
SpansOf(r) == {span \in recorded : span[1] = r}

\* A trace is never half-recorded: of a finished request every span that ran was
\* recorded or none, as the upstream service decided if it did.
WholeTraces ==
    \A r \in Requests : instrumented /\ At(r, "done") /\ req[r].ran # {} =>
        LET whole == {r} \X req[r].ran IN
        SpansOf(r) \in CASE req[r].upstream = "sampled"   -> {whole}
                          [] req[r].upstream = "unsampled" -> {{}}
                          [] OTHER                         -> {{}, whole}

\* Every exemplar resolves: the trace it names, which is unfinished when it is
\* shown, reaches the collector whole unless the queue or the network lost some
\* of it.  The background thread has to run for that.
Delivered(r) ==
    /\ At(r, "done") /\ SpansOf(r) # {}
    /\ SpansOf(r) \intersect (queue \union batch) = {} /\ r \notin lossy
ExemplarsResolve ==
    WF_vars(Export) =>
        \A r \in Requests : req[r].exemplar ~> Delivered(r) \/ r \in lossy

\* A slow or dead collector never blocks a request.
RequestsFinish == \A r \in Requests : ~At(r, "waiting") ~> At(r, "done")
=============================================================================
