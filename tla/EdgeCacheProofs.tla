-------------------------- MODULE EdgeCacheProofs --------------------------
(***************************************************************************)
(* For any workers, segments and settings the cache keeps its types, and   *)
(* with its breaker enabled it uses the breaker the way Breaker models it, *)
(* and so inherits what is proved of Breaker.                              *)
(***************************************************************************)
EXTENDS EdgeCache, TLAPS

\* What the refinement needs of the jobs: they are well formed, and a worker
\* about to report knows whether its command succeeded, one about to write the
\* health fields whether it was refused too.
Outcomes == {"none", "ok", "failed", "refused"}
WellFormed(j) ==
    /\ j \in Jobs
    /\ j.at = "report" => j.outcome \in {"ok", "failed"}
    /\ j.at \in {"flag", "gauge"} => j.outcome # "none"
JobsOK ==
    /\ job = [w \in Workers |-> job[w]]
    /\ \A w \in Workers : WellFormed(job[w])
    /\ state \in States

LEMMA IdleIsWellFormed == WellFormed(Idle) /\ Idle.at = "idle"
<1>1. (CHOOSE s \in Segments : TRUE) \in Segments
  BY WorkloadAssumption
<1>2. Idle \in Jobs
  BY <1>1 DEF Idle, Jobs, Steps, States
<1> QED
  BY <1>2 DEF WellFormed, Idle

\* It is enough to look at the job that changes.
LEMMA OneJobChanges ==
  ASSUME JobsOK, NEW w \in Workers, NEW j, WellFormed(j),
         job' = [job EXCEPT ![w] = j], state' \in States
  PROVE  JobsOK' /\ Phase' = [Phase EXCEPT ![w] = PhaseIn(j)]
<1>1. job'[w] = j /\ \A v \in Workers : v # w => job'[v] = job[v]
  BY DEF JobsOK
<1>2. JobsOK'
  BY <1>1 DEF JobsOK, WellFormed
<1>3. Phase' = [v \in Workers |-> PhaseIn(job'[v])]
  BY DEF Phase, PhaseIn
<1>4. \A v \in Workers :
        PhaseIn(job'[v]) = IF v = w THEN PhaseIn(j) ELSE PhaseIn(job[v])
  BY <1>1
<1>5. Phase' = [Phase EXCEPT ![w] = PhaseIn(j)]
  BY <1>3, <1>4 DEF Phase
<1> QED
  BY <1>2, <1>5

\* A step that leaves the phase alone and the breaker with it.
LEMMA QuietJobChange ==
  ASSUME JobsOK, NEW w \in Workers, NEW j, WellFormed(j),
         job' = [job EXCEPT ![w] = j], UNCHANGED breakerVars,
         PhaseIn(j) = PhaseIn(job[w])
  PROVE  JobsOK' /\ Phase' = Phase
<1>1. state' \in States
  BY DEF JobsOK, breakerVars
<1>2. JobsOK' /\ Phase' = [Phase EXCEPT ![w] = PhaseIn(job[w])]
  BY <1>1, OneJobChanges
<1> QED
  BY <1>2 DEF Phase

-----------------------------------------------------------------------------
\* The breaker inside Breaker is the breaker here.
LEMMA SameBreaker ==
    /\ B!Allow <=> Allow
    /\ B!RecordSuccess <=> RecordSuccess
    /\ B!RecordFailure <=> RecordFailure
    /\ B!Elapse <=> Elapse
    /\ B!BreakerInit <=> BreakerInit
    /\ B!breakerVars = breakerVars
  BY DEF B!Allow, B!MayCall, B!RecordSuccess, B!RecordFailure, B!Elapse,
         B!BreakerInit, B!breakerVars, B!Publish, B!StateValue, B!States,
         B!CLOSED, B!OPEN, B!HALF_OPEN, B!threshold, B!cooldown, B!UpTo,
         Allow, MayCall, RecordSuccess, RecordFailure, Elapse,
         BreakerInit, breakerVars, Publish, StateValue, States,
         CLOSED, OPEN, HALF_OPEN, threshold, cooldown, UpTo

\* Any method keeps the state one of the three.
LEMMA StatesStay ==
  ASSUME JobsOK,
         Allow \/ RecordSuccess \/ RecordFailure \/ Elapse \/ UNCHANGED breakerVars
  PROVE  state' \in States
  BY DEF JobsOK, Allow, RecordSuccess, RecordFailure, Elapse, breakerVars, States

-----------------------------------------------------------------------------
(***************************************************************************)
(* One step lemma for each kind of step: what it does to the breaker's     *)
(* view of the workers.                                                    *)
(***************************************************************************)
Quiet == Phase' = Phase /\ UNCHANGED <<breakerVars, age>>

LEMMA BeginStep ==
  ASSUME JobsOK, NEW w \in Workers, NEW s \in Segments, Begin(w, s)
  PROVE  JobsOK' /\ Quiet
<1> DEFINE j == IF cache_bypass
                THEN [Idle EXCEPT !.at = "origin", !.seg = s, !.op = "bypass"]
                ELSE [Idle EXCEPT !.at = "tag", !.seg = s]
<1>1. WellFormed(j) /\ PhaseIn(j) = "idle"
  BY IdleIsWellFormed DEF WellFormed, Jobs, Steps, PhaseIn
<1>2. PhaseIn(job[w]) = "idle" /\ job' = [job EXCEPT ![w] = j]
  BY DEF Begin, PhaseIn, At
<1> HIDE DEF j
<1> QED
  BY <1>1, <1>2, QuietJobChange DEF Quiet, Begin

LEMMA TagStep ==
  ASSUME JobsOK, NEW w \in Workers, Tag(w)
  PROVE  JobsOK' /\ Quiet
<1> DEFINE j == [job[w] EXCEPT !.at = "ask", !.circuit_state = breaker_state]
<1>1. WellFormed(job[w]) /\ breaker_state \in States
  BY DEF JobsOK, breaker_state, States
<1>2. WellFormed(j) /\ PhaseIn(j) = "idle"
  BY <1>1 DEF WellFormed, Jobs, Steps, PhaseIn
<1>3. PhaseIn(job[w]) = "idle" /\ job' = [job EXCEPT ![w] = j]
  BY DEF Tag, PhaseIn, At
<1> HIDE DEF j
<1> QED
  BY <1>2, <1>3, QuietJobChange DEF Quiet, Tag

LEMMA AskStep ==
  ASSUME JobsOK, NEW w \in Workers, Ask(w)
  PROVE  JobsOK' /\ (CbEnabled => Quiet \/ B!Admit(w))
<1>1. WellFormed(job[w]) /\ PhaseIn(job[w]) = "idle"
  BY DEF JobsOK, Ask, At, PhaseIn
<1>2. CASE CbEnabled /\ ~MayCall
  <2> DEFINE j == [job[w] EXCEPT !.at = "flag", !.outcome = "refused"]
  <2>1. WellFormed(j) /\ PhaseIn(j) = "idle"
    BY <1>1 DEF WellFormed, Jobs, Steps, PhaseIn
  <2>2. job' = [job EXCEPT ![w] = j] /\ UNCHANGED <<breakerVars, age>>
    BY <1>2 DEF Ask
  <2> HIDE DEF j
  <2> QED
    BY <1>1, <2>1, <2>2, QuietJobChange DEF Quiet
<1>3. ASSUME CbEnabled => MayCall,
             IF CbEnabled THEN Allow ELSE UNCHANGED breakerVars, Go(w, "call")
      PROVE  JobsOK' /\ (CbEnabled => B!Admit(w))
  <2> DEFINE j == [job[w] EXCEPT !.at = "call"]
  <2>1. WellFormed(j) /\ PhaseIn(j) = "calling"
    BY <1>1 DEF WellFormed, Jobs, Steps, PhaseIn
  <2>2. job' = [job EXCEPT ![w] = j] /\ UNCHANGED age
    BY <1>3 DEF Ask, Go
  <2> HIDE DEF j
  <2>3. JobsOK' /\ Phase' = [Phase EXCEPT ![w] = "calling"]
    BY <1>3, <2>1, <2>2, StatesStay, OneJobChanges
  <2>4. CbEnabled => B!Admit(w)
    BY <1>1, <1>3, <2>2, <2>3, SameBreaker DEF B!Admit, B!Move, Phase
  <2> QED
    BY <2>3, <2>4
<1> QED
  BY <1>2, <1>3 DEF Ask

LEMMA AnswerStep ==
  ASSUME JobsOK, NEW w \in Workers, Return(w) \/ Raise(w)
  PROVE  JobsOK' /\ B!Answer(w)
<1>1. WellFormed(job[w]) /\ PhaseIn(job[w]) = "calling"
  BY DEF JobsOK, Return, Raise, At, PhaseIn
<1>2. UNCHANGED <<breakerVars, age>>
  BY DEF Return, Raise
<1>3. PICK o \in {"ok", "failed"}, c \in {"None", "data"} :
        job' = [job EXCEPT ![w].at = "report", ![w].outcome = o, ![w].cached = c]
  <2>1. CASE Return(w)
    <3> DEFINE c == IF job[w].op = "read" /\ job[w].seg \in store
                    THEN "data" ELSE "None"
    <3>1. c \in {"None", "data"}
      OBVIOUS
    <3>2. job' = [job EXCEPT ![w].at = "report", ![w].outcome = "ok", ![w].cached = c]
      BY <2>1 DEF Return
    <3> HIDE DEF c
    <3> QED
      BY <3>1, <3>2
  <2>2. CASE Raise(w)
    <3>1. job[w].cached \in {"None", "data"} /\ job[w] = [job[w] EXCEPT !.cached = job[w].cached]
      BY <1>1 DEF WellFormed, Jobs
    <3>2. job' = [job EXCEPT ![w].at = "report", ![w].outcome = "failed", ![w].cached = job[w].cached]
      BY <1>1, <2>2 DEF Raise, WellFormed, Jobs
    <3> QED
      BY <3>1, <3>2
  <2> QED
    BY <2>1, <2>2
<1> DEFINE j == [job[w] EXCEPT !.at = "report", !.outcome = o, !.cached = c]
<1>4. WellFormed(j) /\ PhaseIn(j) = o
  BY <1>1 DEF WellFormed, Jobs, Steps, PhaseIn
<1>5. job' = [job EXCEPT ![w] = j]
  BY <1>3
<1> HIDE DEF j
<1>6. JobsOK' /\ Phase' = [Phase EXCEPT ![w] = o]
  BY <1>2, <1>4, <1>5, StatesStay, OneJobChanges
<1>7. Phase[w] = "calling"
  BY <1>1 DEF Phase
<1> QED
  BY <1>2, <1>6, <1>7 DEF B!Answer, B!Move, B!breakerVars, breakerVars

LEMMA ReportStep ==
  ASSUME JobsOK, NEW w \in Workers, Report(w)
  PROVE  JobsOK' /\ (B!Succeed(w) \/ B!Fail(w))
<1>1. WellFormed(job[w]) /\ job[w].at = "report" /\ job[w].outcome \in {"ok", "failed"}
  BY DEF JobsOK, WellFormed, Report, At
<1>2. PhaseIn(job[w]) = job[w].outcome
  BY <1>1 DEF PhaseIn
<1> DEFINE j == [job[w] EXCEPT !.at = "flag"]
<1>3. WellFormed(j) /\ PhaseIn(j) = "idle"
  BY <1>1 DEF WellFormed, Jobs, Steps, PhaseIn
<1>4. job' = [job EXCEPT ![w] = j] /\ age' = [age EXCEPT ![w] = 0]
  BY DEF Report, Go
<1>5. \/ job[w].outcome = "ok" /\ RecordSuccess
      \/ job[w].outcome = "failed" /\ RecordFailure
  BY <1>1 DEF Report
<1> HIDE DEF j
<1>6. JobsOK' /\ Phase' = [Phase EXCEPT ![w] = "idle"]
  BY <1>3, <1>4, <1>5, StatesStay, OneJobChanges
<1> QED
  BY <1>2, <1>4, <1>5, <1>6, SameBreaker DEF B!Succeed, B!Fail, B!Move, Phase

LEMMA FlagStep ==
  ASSUME JobsOK, NEW w \in Workers, SetFlag(w)
  PROVE  JobsOK' /\ Quiet
<1> DEFINE j == [job[w] EXCEPT !.at = "gauge"]
<1>1. WellFormed(job[w]) /\ job[w].at = "flag" /\ PhaseIn(job[w]) = "idle"
  BY DEF JobsOK, SetFlag, At, PhaseIn
<1>2. WellFormed(j) /\ PhaseIn(j) = "idle"
  BY <1>1 DEF WellFormed, Jobs, Steps, PhaseIn
<1>3. job' = [job EXCEPT ![w] = j]
  BY DEF SetFlag, Go
<1> HIDE DEF j
<1> QED
  BY <1>1, <1>2, <1>3, QuietJobChange DEF Quiet, SetFlag

LEMMA GaugeStep ==
  ASSUME JobsOK, NEW w \in Workers, SetGauge(w)
  PROVE  JobsOK' /\ Quiet
<1> DEFINE k == [job[w] EXCEPT !.at = "origin", !.outcome = "none",
                               !.circuit_state = CLOSED]
<1>1. WellFormed(job[w]) /\ PhaseIn(job[w]) = "idle"
  BY DEF JobsOK, SetGauge, At, PhaseIn
<1>2. WellFormed(k) /\ PhaseIn(k) = "idle"
  BY <1>1 DEF WellFormed, Jobs, Steps, PhaseIn, States
<1>3. WellFormed(Idle) /\ PhaseIn(Idle) = "idle"
  BY IdleIsWellFormed DEF PhaseIn
<1>4. job' = [job EXCEPT ![w] = Idle] \/ job' = [job EXCEPT ![w] = k]
  BY DEF SetGauge, Continue, Finish
<1> HIDE DEF k
<1> QED
  BY <1>1, <1>2, <1>3, <1>4, QuietJobChange DEF Quiet, SetGauge

LEMMA OriginStep ==
  ASSUME JobsOK, NEW w \in Workers, FetchOrigin(w)
  PROVE  JobsOK' /\ Quiet
<1> DEFINE k == [job[w] EXCEPT !.at = "ask", !.op = "write"]
<1>1. WellFormed(job[w]) /\ PhaseIn(job[w]) = "idle"
  BY DEF JobsOK, FetchOrigin, At, PhaseIn
<1>2. WellFormed(k) /\ PhaseIn(k) = "idle"
  BY <1>1 DEF WellFormed, Jobs, Steps, PhaseIn
<1>3. WellFormed(Idle) /\ PhaseIn(Idle) = "idle"
  BY IdleIsWellFormed DEF PhaseIn
<1>4. job' = [job EXCEPT ![w] = Idle] \/ job' = [job EXCEPT ![w] = k]
  BY DEF FetchOrigin, Finish
<1> HIDE DEF k
<1> QED
  BY <1>1, <1>2, <1>3, <1>4, QuietJobChange DEF Quiet, FetchOrigin

-----------------------------------------------------------------------------
\* A worker counts as in flight for Breaker exactly while its command runs or
\* waits to be reported.
LEMMA InFlightIs == JobsOK => B!InFlight = InFlight
<1> SUFFICES ASSUME JobsOK, NEW w \in Workers
             PROVE  Phase[w] # "idle" <=> At(w, "call") \/ At(w, "report")
  BY DEF B!InFlight, InFlight
<1>1. Phase[w] = PhaseIn(job[w])
  BY DEF Phase
<1>2. job[w].at = "report" => job[w].outcome # "idle"
  BY DEF JobsOK, WellFormed
<1> QED
  BY <1>1, <1>2 DEF PhaseIn, At

LEMMA TickStep ==
  ASSUME JobsOK, Tick
  PROVE  JobsOK' /\ B!Tick
<1>1. JobsOK'
  BY DEF JobsOK, Tick, Elapse, WellFormed
<1>2. Phase' = Phase
  BY DEF Phase, Tick
<1> QED
  BY <1>1, <1>2, InFlightIs, SameBreaker DEF Tick, B!Tick

LEMMA EnvironmentStep ==
  ASSUME JobsOK, Environment \/ UNCHANGED vars
  PROVE  JobsOK' /\ Quiet
<1>1. UNCHANGED <<breakerVars, job, age>>
  BY DEF Environment, Flush, SetBypass, Expire, Outage, Recovery, vars
<1> QED
  BY <1>1 DEF JobsOK, Quiet, Phase, breakerVars, WellFormed

LEMMA JobsOKInit == Init => JobsOK /\ B!Init
<1> SUFFICES ASSUME Init PROVE JobsOK /\ B!Init
  OBVIOUS
<1>1. JobsOK
  BY IdleIsWellFormed DEF Init, BreakerInit, JobsOK, States
<1>2. Phase = [w \in Workers |-> "idle"]
  BY IdleIsWellFormed DEF Init, Phase, PhaseIn
<1> QED
  BY <1>1, <1>2, SameBreaker DEF Init, B!Init

LEMMA StepUsesBreaker ==
  ASSUME JobsOK, [Next]_vars
  PROVE  JobsOK' /\ (CbEnabled => [B!Next]_(B!vars))
<1>1. Quiet => UNCHANGED B!vars
  BY SameBreaker DEF Quiet, B!vars, breakerVars, B!breakerVars
<1>2. ASSUME NEW w \in Workers, Serve(w) PROVE JobsOK' /\ (CbEnabled => [B!Next]_(B!vars))
  <2>1. \/ Tag(w) \/ SetFlag(w) \/ SetGauge(w) \/ FetchOrigin(w)
        \/ Ask(w) \/ Return(w) \/ Raise(w) \/ Report(w)
    BY <1>2 DEF Serve
  <2>2. /\ JobsOK'
        /\ CbEnabled => Quiet \/ B!Admit(w) \/ B!Answer(w) \/ B!Succeed(w) \/ B!Fail(w)
    BY <2>1, TagStep, AskStep, AnswerStep, ReportStep, FlagStep, GaugeStep, OriginStep
  <2> QED
    BY <1>1, <2>2 DEF B!Next
<1>3. ASSUME NEW w \in Workers, NEW s \in Segments, Begin(w, s)
      PROVE  JobsOK' /\ [B!Next]_(B!vars)
  BY <1>1, <1>3, BeginStep
<1>4. CASE Environment \/ UNCHANGED vars
  BY <1>1, <1>4, EnvironmentStep
<1>5. CASE Tick
  BY <1>5, TickStep DEF B!Next
<1> QED
  BY <1>2, <1>3, <1>4, <1>5 DEF Next

LEMMA JobsOKAlways == SafeSpec => []JobsOK
<1>1. JobsOK /\ [Next]_vars => JobsOK'
  BY StepUsesBreaker
<1> QED
  BY <1>1, JobsOKInit, PTL DEF SafeSpec

\* With the breaker enabled, the cache's reads, writes and refusals are a
\* behaviour of Breaker: each admitted command reports exactly once, a refused
\* one never reaches Redis, for any number of workers and segments.
THEOREM CacheUsesBreaker == ASSUME CbEnabled PROVE SafeSpec => UsesBreaker
<1>1. Init => B!Init
  BY JobsOKInit
<1>2. JobsOK /\ [Next]_vars => [B!Next]_(B!vars)
  BY StepUsesBreaker
<1>3. SafeSpec => []JobsOK
  BY JobsOKAlways
<1> QED
  BY <1>1, <1>2, <1>3, PTL DEF SafeSpec, UsesBreaker, B!SafeSpec

-----------------------------------------------------------------------------
(***************************************************************************)
(* What is proved of Breaker holds of the breaker in the cache.            *)
(***************************************************************************)
BP == INSTANCE BreakerProofs WITH Threads <- Workers, phase <- Phase

LEMMA BreakerAssumptions ==
    BP!SettingsAssumption /\ BP!ThreadsAssumption /\ BP!MaxCallAssumption
  BY SettingsAssumption, WorkloadAssumption
  DEF BP!SettingsAssumption, BP!ThreadsAssumption, BP!MaxCallAssumption

LEMMA SameBehaviours == UsesBreaker => BP!SafeSpec
<1>1. B!Init => BP!Init
  BY DEF B!Init, BP!Init, B!BreakerInit, BP!BreakerInit, B!CLOSED, BP!CLOSED,
         B!cooldown, BP!cooldown, B!StateValue, BP!StateValue,
         B!States, BP!States, B!OPEN, BP!OPEN, B!HALF_OPEN, BP!HALF_OPEN
<1>2. [B!Next]_(B!vars) => [BP!Next]_(BP!vars)
  BY DEF B!Next, BP!Next, B!vars, BP!vars, B!breakerVars, BP!breakerVars,
         B!Admit, BP!Admit, B!Answer, BP!Answer, B!Succeed, BP!Succeed,
         B!Fail, BP!Fail, B!ResetBreaker, BP!ResetBreaker, B!Tick, BP!Tick,
         B!Allow, BP!Allow, B!MayCall, BP!MayCall, B!Reset, BP!Reset,
         B!RecordSuccess, BP!RecordSuccess, B!RecordFailure, BP!RecordFailure,
         B!Elapse, BP!Elapse, B!UpTo, BP!UpTo, B!Publish, BP!Publish,
         B!Move, BP!Move, B!InFlight, BP!InFlight,
         B!threshold, BP!threshold, B!cooldown, BP!cooldown,
         B!StateValue, BP!StateValue, B!States, BP!States,
         B!CLOSED, BP!CLOSED, B!OPEN, BP!OPEN, B!HALF_OPEN, BP!HALF_OPEN
<1> QED
  BY <1>1, <1>2, PTL DEF UsesBreaker, B!SafeSpec, BP!SafeSpec

\* With the breaker enabled and commands shorter than the cooldown, no worker
\* waits for Redis once the breaker has been open for the longest command.
THEOREM CacheFreesWorkers ==
  ASSUME CbEnabled, B!TimelyCalls
  PROVE  SafeSpec => []OpenFreesWorkers
<1>1. BP!TimelyCalls
  BY DEF BP!TimelyCalls, B!TimelyCalls, BP!cooldown, B!cooldown
<1>2. BP!SafeSpec => [](BP!StragglersAreOlder /\ BP!NoStalledThreads)
  BY <1>1, BreakerAssumptions, BP!OpenFreesTheThreads
<1>3. SafeSpec => UsesBreaker
  BY CacheUsesBreaker
<1>4. SafeSpec => []JobsOK
  BY JobsOKAlways
<1>5. JobsOK /\ BP!NoStalledThreads => OpenFreesWorkers
  BY InFlightIs DEF BP!NoStalledThreads, OpenFreesWorkers,
     BP!InFlight, B!InFlight, BP!OPEN, OPEN
<1> QED
  BY <1>2, <1>3, <1>4, <1>5, SameBehaviours, PTL

\* SingleProbe and StragglersAreOlder of Breaker, said of the workers.
LoneProbe == state = HALF_OPEN => \E w \in Workers : InFlight = {w}
SentBefore == state = OPEN => \A w \in InFlight : age[w] >= opened_for

LEMMA CacheTimed ==
  ASSUME CbEnabled, B!TimelyCalls
  PROVE  SafeSpec => [](LoneProbe /\ SentBefore)
<1>1. BP!TimelyCalls
  BY DEF BP!TimelyCalls, B!TimelyCalls, BP!cooldown, B!cooldown
<1>2. BP!SafeSpec => [](BP!StragglersAreOlder /\ BP!NoStalledThreads)
  BY <1>1, BreakerAssumptions, BP!OpenFreesTheThreads
<1>3. BP!SafeSpec => []BP!SingleProbe
  BY <1>1, BreakerAssumptions, BP!ProbeIsAlone
<1>4. SafeSpec => UsesBreaker /\ []JobsOK
  BY CacheUsesBreaker, JobsOKAlways
<1>5. JobsOK /\ BP!StragglersAreOlder /\ BP!SingleProbe => LoneProbe /\ SentBefore
  BY InFlightIs DEF BP!StragglersAreOlder, BP!SingleProbe, BP!InFlight, B!InFlight,
     BP!OPEN, OPEN, BP!HALF_OPEN, HALF_OPEN,
     LoneProbe, SentBefore
<1> QED
  BY <1>2, <1>3, <1>4, <1>5, SameBehaviours, PTL

\* With commands shorter than the cooldown, the half-open breaker has sent one
\* worker to Redis and everyone else serves from origin, reads and writes alike.
THEOREM CacheProbesAlone ==
  ASSUME CbEnabled, B!TimelyCalls
  PROVE  SafeSpec => []LoneProbe
<1>1. SafeSpec => [](LoneProbe /\ SentBefore)
  BY CacheTimed
<1> QED
  BY <1>1, PTL

\* The rest of the cache: what the workers report of Redis, and Redis itself.
RestOK ==
    /\ last_redis_ok \in BOOLEAN /\ redis_up \in {0, 1}
    /\ redis \in {"up", "down"} /\ store \subseteq Segments
    /\ cache_bypass \in BOOLEAN

LEMMA RestStays ==
  ASSUME JobsOK, RestOK, [Next]_vars
  PROVE  RestOK'
<1>1. ASSUME NEW w \in Workers, Serve(w) \/ \E s \in Segments : Begin(w, s) PROVE RestOK'
  <2>1. job[w].seg \in Segments
    BY DEF JobsOK, WellFormed, Jobs
  <2>2. CASE Return(w) \/ Raise(w)
    BY <2>1, <2>2 DEF RestOK, Return, Raise, healthVars
  <2>3. CASE SetFlag(w)
    BY <2>3 DEF RestOK, SetFlag, redisVars
  <2>4. CASE SetGauge(w)
    BY <2>4 DEF RestOK, SetGauge, redisVars
  <2>5. CASE \/ Tag(w) \/ Ask(w) \/ Report(w) \/ FetchOrigin(w)
             \/ \E s \in Segments : Begin(w, s)
    BY <2>5 DEF RestOK, Tag, Ask, Report, FetchOrigin, Begin, healthVars, redisVars
  <2> QED
    BY <1>1, <2>2, <2>3, <2>4, <2>5 DEF Serve
<1>2. CASE Environment
  BY <1>2 DEF RestOK, Environment, Flush, SetBypass, Expire, Outage, Recovery,
     healthVars, redisVars
<1>3. CASE Tick \/ UNCHANGED vars
  BY <1>3 DEF RestOK, Tick, vars, healthVars, redisVars
<1> QED
  BY <1>1, <1>2, <1>3 DEF Next

\* Methods of the breaker keep it in order whoever calls them, also in a cache
\* whose breaker is disabled: there reports come for commands that nobody asked
\* the breaker about.
LEMMA BreakerStays ==
  ASSUME BP!BreakerOK,
         Allow \/ RecordSuccess \/ RecordFailure \/ Elapse \/ UNCHANGED breakerVars
  PROVE  BP!BreakerOK'
<1>1. /\ BP!Allow <=> Allow
      /\ BP!RecordSuccess <=> RecordSuccess
      /\ BP!RecordFailure <=> RecordFailure
      /\ BP!Elapse <=> Elapse
  BY DEF BP!Allow, BP!MayCall, BP!RecordSuccess, BP!RecordFailure, BP!Elapse,
         BP!Publish, BP!StateValue, BP!States, BP!CLOSED, BP!OPEN, BP!HALF_OPEN,
         BP!threshold, BP!cooldown, BP!UpTo,
         Allow, MayCall, RecordSuccess, RecordFailure, Elapse,
         Publish, StateValue, States, CLOSED, OPEN, HALF_OPEN, threshold, cooldown, UpTo
<1>2. CASE UNCHANGED breakerVars
  BY <1>2 DEF breakerVars, BP!BreakerOK, BP!BreakerTypeOK, BP!PendingIffHalfOpen,
              BP!FailuresMatchState
<1> QED
  BY <1>1, <1>2, BreakerAssumptions, BP!AllowKeeps, BP!SuccessKeeps, BP!FailureKeeps,
     BP!ElapseKeeps

\* No command outlives its timeouts.
AgesOK == age \in [Workers -> 0..MaxCall]

LEMMA BreakerAndAgesStay ==
  ASSUME BP!BreakerOK, AgesOK, [Next]_vars
  PROVE  BP!BreakerOK' /\ AgesOK'
<1>1. ASSUME NEW w \in Workers, Serve(w) \/ \E s \in Segments : Begin(w, s)
      PROVE  BP!BreakerOK' /\ AgesOK'
  <2>1. Allow \/ RecordSuccess \/ RecordFailure \/ UNCHANGED breakerVars
    BY <1>1 DEF Serve, Tag, Ask, Return, Raise, Report, SetFlag, SetGauge, FetchOrigin, Begin
  <2>2. UNCHANGED age \/ age' = [age EXCEPT ![w] = 0]
    BY <1>1 DEF Serve, Tag, Ask, Return, Raise, Report, SetFlag, SetGauge, FetchOrigin, Begin
  <2> QED
    BY <2>1, <2>2, BreakerStays, WorkloadAssumption DEF AgesOK
<1>2. CASE Environment \/ UNCHANGED vars
  <2>1. UNCHANGED <<breakerVars, age>>
    BY <1>2 DEF Environment, Flush, SetBypass, Expire, Outage, Recovery, vars
  <2> QED
    BY <2>1, BreakerStays DEF AgesOK
<1>3. CASE Tick
  <2>1. \A w \in Workers : (IF w \in InFlight THEN age[w] + 1 ELSE age[w]) \in 0..MaxCall
    BY <1>3, WorkloadAssumption DEF Tick, AgesOK, InFlight
  <2> QED
    BY <1>3, <2>1, BreakerStays DEF Tick, AgesOK
<1> QED
  BY <1>1, <1>2, <1>3 DEF Next

CacheInv == JobsOK /\ RestOK /\ BP!BreakerOK /\ AgesOK

LEMMA CacheInvAlways == SafeSpec => []CacheInv
<1>1. Init => CacheInv
  <2>1. BP!BreakerInit <=> BreakerInit
    BY DEF BP!BreakerInit, BreakerInit, BP!CLOSED, CLOSED, BP!cooldown, cooldown,
           BP!StateValue, StateValue, BP!States, States, BP!OPEN, OPEN, BP!HALF_OPEN, HALF_OPEN
  <2>2. Init => BP!BreakerOK
    BY <2>1, BreakerAssumptions, BP!BreakerOKAtStart DEF Init
  <2>3. Init => RestOK
    BY DEF Init, RestOK
  <2>4. Init => AgesOK
    BY WorkloadAssumption DEF Init, AgesOK
  <2> QED
    BY <2>2, <2>3, <2>4, JobsOKInit DEF CacheInv
<1>2. CacheInv /\ [Next]_vars => CacheInv'
  BY StepUsesBreaker, RestStays, BreakerAndAgesStay DEF CacheInv
<1> QED
  BY <1>1, <1>2, PTL DEF SafeSpec

\* The cache, its breaker and its workers keep their types, whether the breaker is
\* enabled or not: no worker stands between two commands without an answer to
\* act on, and no command outlives its timeouts.
THEOREM CacheTypeCorrect == SafeSpec => []TypeOK
<1>1. CacheInv => TypeOK
  BY DEF CacheInv, BP!BreakerOK, BP!BreakerTypeOK, BP!threshold, BP!cooldown, BP!States,
     BP!CLOSED, BP!OPEN, BP!HALF_OPEN, TypeOK, BreakerTypeOK, threshold, cooldown, States,
     CLOSED, OPEN, HALF_OPEN, JobsOK, WellFormed, RestOK, AgesOK
<1> QED
  BY <1>1, CacheInvAlways, PTL

\* The breaker is open no more, and its cooldown is not over.
CutShort == state = OPEN /\ state' # OPEN /\ opened_for < cooldown
LateAnswer ==
    \E w \in Workers : Report(w) /\ job[w].outcome = "ok" /\ age[w] >= opened_for

\* With commands shorter than the cooldown, an open breaker is left before its
\* cooldown is over only by the report of a command that had been sent before it
\* opened and that Redis answered.
THEOREM CacheKeepsCooldown ==
  ASSUME CbEnabled, B!TimelyCalls PROVE SafeSpec => [][CutShort => LateAnswer]_vars
<1>1. CacheInv /\ SentBefore /\ [Next]_vars => [CutShort => LateAnswer]_vars
  <2> SUFFICES ASSUME CacheInv, SentBefore, Next, CutShort PROVE LateAnswer
    OBVIOUS
  <2> USE DEF CutShort
  <2>1. /\ opened_for \in Int /\ cooldown \in Int /\ threshold \in Int
        /\ failures = threshold
    BY SettingsAssumption
    DEF CacheInv, BP!BreakerOK, BP!BreakerTypeOK, BP!FailuresMatchState, BP!threshold,
        BP!cooldown, BP!CLOSED, threshold, cooldown, OPEN
  <2>2. ~Allow /\ ~Elapse /\ ~RecordFailure /\ ~UNCHANGED breakerVars
    BY <2>1 DEF Allow, MayCall, Elapse, RecordFailure, UpTo, breakerVars, CLOSED, OPEN, HALF_OPEN
  <2>3. PICK w \in Workers : Report(w)
    BY <2>2 DEF Next, Serve, Tag, Ask, Return, Raise, SetFlag, SetGauge, FetchOrigin, Begin,
       Environment, Flush, SetBypass, Expire, Outage, Recovery, Tick
  <2>4. job[w].outcome = "ok" /\ w \in InFlight
    BY <2>2, <2>3 DEF Report, InFlight
  <2> QED
    BY <2>3, <2>4 DEF LateAnswer, SentBefore
<1>2. SafeSpec => []CacheInv
  BY CacheInvAlways
<1>3. SafeSpec => [](LoneProbe /\ SentBefore)
  BY CacheTimed
<1> QED
  BY <1>1, <1>2, <1>3, PTL DEF SafeSpec

\* With commands shorter than the cooldown the cache keeps the promise of its
\* breaker, seen as a mode and the workers that are at Redis.
THEOREM CacheKeepsPromise ==
  ASSUME CbEnabled, B!TimelyCalls PROVE SafeSpec => BP!KeepsPromise
<1>1. BP!TimelyCalls
  BY DEF BP!TimelyCalls, B!TimelyCalls, BP!cooldown, B!cooldown
<1>2. BP!SafeSpec => BP!KeepsPromise
  BY <1>1, BreakerAssumptions, BP!BreakerKeepsPromise
<1> QED
  BY <1>2, CacheUsesBreaker, SameBehaviours, PTL

-----------------------------------------------------------------------------
(***************************************************************************)
(* The safety part of OutageStaysVisible, OutageKeepsTripped and           *)
(* RecoveryIsSeen: what has been settled stays so.  That it gets settled   *)
(* takes fairness.                                                         *)
(***************************************************************************)
\* Where a worker's outcome comes from: Redis answers, fails, or is not asked.
LEMMA OutcomeIsNew ==
  ASSUME JobsOK, NEW w \in Workers, Serve(w) \/ \E s \in Segments : Begin(w, s)
  PROVE  /\ \A v \in Workers : v # w => job'[v] = job[v]
         /\ \/ job'[w].outcome \in {job[w].outcome, "none"}
            \/ job'[w].outcome = "ok" /\ redis = "up"
            \/ job'[w].outcome = "failed" /\ redis = "down"
            \/ job'[w].outcome = "refused" /\ state # CLOSED
<1>1. job = [v \in Workers |-> job[v]] /\ job[w] \in Jobs
  BY DEF JobsOK, WellFormed
<1>2. CASE Tag(w) \/ Report(w) \/ SetFlag(w)
  <2>1. PICK step, c : job' = [job EXCEPT ![w] = [job[w] EXCEPT !.at = step, !.circuit_state = c]]
    <3>1. CASE Tag(w)
      <4>1. job' = [job EXCEPT ![w] = [job[w] EXCEPT !.at = "ask", !.circuit_state = breaker_state]]
        BY <3>1 DEF Tag
      <4> QED
        BY <4>1
    <3>2. CASE Report(w) \/ SetFlag(w)
      <4>1. PICK step : job' = [job EXCEPT ![w] = [job[w] EXCEPT !.at = step]]
        BY <3>2 DEF Report, SetFlag, Go
      <4>2. [job[w] EXCEPT !.at = step]
              = [job[w] EXCEPT !.at = step, !.circuit_state = job[w].circuit_state]
        BY <1>1 DEF Jobs
      <4> QED
        BY <4>1, <4>2
    <3> QED
      BY <1>2, <3>1, <3>2
  <2> QED
    BY <1>1, <2>1 DEF Jobs
<1>3. CASE Ask(w)
  <2>1. CASE job' = [job EXCEPT ![w] = [job[w] EXCEPT !.at = "call"]]
    BY <1>1, <2>1 DEF Jobs
  <2>2. CASE ~MayCall /\ job' = [job EXCEPT ![w] = [job[w] EXCEPT !.at = "flag", !.outcome = "refused"]]
    BY <1>1, <2>2 DEF Jobs, MayCall
  <2> QED
    BY <1>3, <2>1, <2>2 DEF Ask, Go
<1>4. CASE Return(w)
  <2>1. PICK c : job' = [job EXCEPT ![w] = [job[w] EXCEPT !.at = "report", !.outcome = "ok", !.cached = c]]
    BY <1>4 DEF Return
  <2> QED
    BY <1>1, <1>4, <2>1 DEF Jobs, Return
<1>5. CASE Raise(w)
  <2>1. job' = [job EXCEPT ![w] = [job[w] EXCEPT !.at = "report", !.outcome = "failed"]]
    BY <1>5 DEF Raise
  <2> QED
    BY <1>1, <1>5, <2>1 DEF Jobs, Raise
<1>6. CASE SetGauge(w) \/ FetchOrigin(w) \/ \E s \in Segments : Begin(w, s)
  <2>1. PICK j : job' = [job EXCEPT ![w] = j] /\ j.outcome \in {job[w].outcome, "none"}
    <3>1. CASE SetGauge(w)
      <4> DEFINE k == [job[w] EXCEPT !.at = "origin", !.outcome = "none", !.circuit_state = CLOSED]
      <4>1. k.outcome = "none" /\ Idle.outcome = "none"
        BY <1>1 DEF Jobs, Idle
      <4>2. job' = [job EXCEPT ![w] = Idle] \/ job' = [job EXCEPT ![w] = k]
        BY <3>1 DEF SetGauge, Continue, Finish
      <4> HIDE DEF k
      <4> QED
        BY <4>1, <4>2
    <3>2. CASE FetchOrigin(w)
      <4> DEFINE k == [job[w] EXCEPT !.at = "ask", !.op = "write"]
      <4>1. k.outcome = job[w].outcome /\ Idle.outcome = "none"
        BY <1>1 DEF Jobs, Idle
      <4>2. job' = [job EXCEPT ![w] = Idle] \/ job' = [job EXCEPT ![w] = k]
        BY <3>2 DEF FetchOrigin, Finish
      <4> HIDE DEF k
      <4> QED
        BY <4>1, <4>2
    <3>3. ASSUME NEW s \in Segments, Begin(w, s)
          PROVE  \E j : job' = [job EXCEPT ![w] = j] /\ j.outcome \in {job[w].outcome, "none"}
      <4> DEFINE j == IF cache_bypass
                      THEN [Idle EXCEPT !.at = "origin", !.seg = s, !.op = "bypass"]
                      ELSE [Idle EXCEPT !.at = "tag", !.seg = s]
      <4>1. j.outcome = "none"
        BY DEF Idle
      <4>2. job' = [job EXCEPT ![w] = j]
        BY <3>3 DEF Begin
      <4> HIDE DEF j
      <4> QED
        BY <4>1, <4>2
    <3> QED
      BY <1>6, <3>1, <3>2, <3>3
  <2> QED
    BY <1>1, <2>1
<1> QED
  BY <1>2, <1>3, <1>4, <1>5, <1>6 DEF Serve

\* An outage that the breaker, /healthz and the gauge have seen, with no answer
\* from before it still on its way.
OutageSettled ==
    /\ state # CLOSED /\ ~last_redis_ok /\ redis_up = 0
    /\ \A w \in Workers : job[w].outcome # "ok"

\* A recovery that all three have seen, with no failure or refusal from before it
\* still on its way.
RecoverySettled ==
    /\ state = CLOSED /\ last_redis_ok /\ redis_up = 1
    /\ \A w \in Workers : job[w].outcome \notin {"failed", "refused"}

LEMMA WorkerKeepsSettled ==
  ASSUME JobsOK, RestOK, NEW w \in Workers, Serve(w) \/ \E s \in Segments : Begin(w, s)
  PROVE  /\ redis = "down" /\ OutageSettled => OutageSettled'
         /\ redis = "up" /\ RecoverySettled => RecoverySettled'
<1>1. redis = "down" /\ OutageSettled => \A v \in Workers : job'[v].outcome # "ok"
  BY OutcomeIsNew DEF OutageSettled
<1>2. redis = "up" /\ RecoverySettled =>
        \A v \in Workers : job'[v].outcome \notin {"failed", "refused"}
  BY OutcomeIsNew DEF RecoverySettled
<1>3. CASE Report(w)
  <2>1. job[w].outcome \in {"ok", "failed"} /\ UNCHANGED healthVars
    BY <1>3 DEF JobsOK, WellFormed, Report, At
  <2>2. OutageSettled => state' # CLOSED
    BY <1>3, <2>1 DEF OutageSettled, Report, RecordFailure, OPEN, CLOSED
  <2>3. RecoverySettled => state' = CLOSED
    BY <1>3, <2>1 DEF RecoverySettled, Report, RecordSuccess
  <2> QED
    BY <1>1, <1>2, <2>1, <2>2, <2>3 DEF OutageSettled, RecoverySettled, healthVars
<1>4. CASE SetFlag(w)
  <2>1. last_redis_ok' = (job[w].outcome = "ok") /\ UNCHANGED <<state, redis_up>>
    BY <1>4 DEF SetFlag, breakerVars
  <2>2. RecoverySettled => job[w].outcome = "ok"
    BY <1>4 DEF RecoverySettled, JobsOK, WellFormed, Jobs, SetFlag, At
  <2> QED
    BY <1>1, <1>2, <2>1, <2>2 DEF OutageSettled, RecoverySettled
<1>5. CASE SetGauge(w)
  <2>1. /\ redis_up' = IF job[w].outcome = "ok" THEN 1 ELSE 0
        /\ UNCHANGED <<state, last_redis_ok>>
    BY <1>5 DEF SetGauge, breakerVars
  <2>2. RecoverySettled => job[w].outcome = "ok"
    BY <1>5 DEF RecoverySettled, JobsOK, WellFormed, Jobs, SetGauge, At
  <2> QED
    BY <1>1, <1>2, <2>1, <2>2 DEF OutageSettled, RecoverySettled
<1>6. CASE \/ Tag(w) \/ Ask(w) \/ Return(w) \/ Raise(w) \/ FetchOrigin(w)
           \/ \E s \in Segments : Begin(w, s)
  <2>1. UNCHANGED healthVars /\ (Allow \/ UNCHANGED breakerVars)
    BY <1>6 DEF Tag, Ask, Return, Raise, FetchOrigin, Begin
  <2>2. state' = CLOSED <=> state = CLOSED
    BY <2>1 DEF Allow, breakerVars, CLOSED, HALF_OPEN
  <2> QED
    BY <1>1, <1>2, <2>1, <2>2 DEF OutageSettled, RecoverySettled, healthVars
<1> QED
  BY <1>3, <1>4, <1>5, <1>6 DEF Serve

LEMMA EverythingElseKeepsSettled ==
  ASSUME Tick \/ Environment \/ UNCHANGED vars
  PROVE  /\ OutageSettled => OutageSettled'
         /\ RecoverySettled => RecoverySettled'
<1>1. UNCHANGED <<state, job, healthVars>>
  BY DEF Tick, Elapse, Environment, Flush, SetBypass, Expire, Outage, Recovery, vars, breakerVars
<1> QED
  BY <1>1 DEF OutageSettled, RecoverySettled, healthVars

LEMMA SettledStays ==
  ASSUME JobsOK, RestOK, [Next]_vars
  PROVE  /\ redis = "down" /\ OutageSettled => OutageSettled'
         /\ redis = "up" /\ RecoverySettled => RecoverySettled'
BY WorkerKeepsSettled, EverythingElseKeepsSettled DEF Next

\* While Redis is down an outage that has been seen stays seen: the breaker does
\* not close, and neither /healthz nor the gauge says that Redis is up, whatever
\* is refused and whoever probes.
THEOREM OutageStaysSeen ==
  SafeSpec => [][redis = "down" /\ OutageSettled => OutageSettled']_vars
<1>1. JobsOK /\ RestOK /\ [Next]_vars =>
        [redis = "down" /\ OutageSettled => OutageSettled']_vars
  BY SettledStays
<1>2. CacheInv => JobsOK /\ RestOK
  BY DEF CacheInv
<1> QED
  BY <1>1, <1>2, CacheInvAlways, PTL DEF SafeSpec

\* While Redis is up a recovery that has been seen stays seen: no late report trips
\* the breaker again and no health field goes back.
THEOREM RecoveryStaysSeen ==
  SafeSpec => [][redis = "up" /\ RecoverySettled => RecoverySettled']_vars
<1>1. JobsOK /\ RestOK /\ [Next]_vars =>
        [redis = "up" /\ RecoverySettled => RecoverySettled']_vars
  BY SettledStays
<1>2. CacheInv => JobsOK /\ RestOK
  BY DEF CacheInv
<1> QED
  BY <1>1, <1>2, CacheInvAlways, PTL DEF SafeSpec
=============================================================================
