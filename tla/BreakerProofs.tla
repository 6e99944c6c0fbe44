--------------------------- MODULE BreakerProofs ---------------------------
(***************************************************************************)
(* Proofs about Breaker for any number of threads and any settings.        *)
(***************************************************************************)
EXTENDS Breaker, TLAPS

LEMMA Settings == threshold \in Nat /\ threshold >= 1 /\ cooldown \in Nat
  BY SettingsAssumption DEF threshold, cooldown

\* States are three different names, and the gauge encodes them as 0, 1, 2.
LEMMA Names ==
    /\ CLOSED \in States /\ HALF_OPEN \in States /\ OPEN \in States
    /\ CLOSED # OPEN /\ CLOSED # HALF_OPEN /\ OPEN # HALF_OPEN
    /\ \A s \in States : StateValue[s] \in {0, 1, 2}
  BY DEF CLOSED, HALF_OPEN, OPEN, States, StateValue

-----------------------------------------------------------------------------
(***************************************************************************)
(* Untimed part: what holds whatever the calls' durations are.  One lemma  *)
(* for each method of the breaker, then the steps of the threads.          *)
(***************************************************************************)
BreakerOK == BreakerTypeOK /\ PendingIffHalfOpen /\ FailuresMatchState
ThreadsOK == phase \in [Threads -> Phases] /\ age \in [Threads -> 0..MaxCall]
Untimed == BreakerOK /\ ThreadsOK

LEMMA BreakerOKAtStart == BreakerInit => BreakerOK
<1> SUFFICES ASSUME BreakerInit PROVE BreakerOK
  OBVIOUS
<1>1. state \in States /\ redis_circuit_state \in {0, 1, 2}
  BY Names DEF BreakerInit
<1>2. failures \in 0..threshold /\ opened_for \in 0..cooldown
  BY Settings DEF BreakerInit
<1>3. half_open_pending \in BOOLEAN
  BY DEF BreakerInit
<1>4. PendingIffHalfOpen
  BY Names DEF BreakerInit, PendingIffHalfOpen
<1>5. FailuresMatchState
  BY Settings, Names DEF BreakerInit, FailuresMatchState
<1> QED
  BY <1>1, <1>2, <1>3, <1>4, <1>5 DEF BreakerOK, BreakerTypeOK

LEMMA AllowKeeps == BreakerOK /\ Allow => BreakerOK'
<1> SUFFICES ASSUME BreakerOK, Allow PROVE BreakerOK'
  OBVIOUS
<1>1. state' \in States /\ redis_circuit_state' \in {0, 1, 2}
  BY Names DEF Allow, Publish, BreakerOK, BreakerTypeOK
<1>2. failures' \in 0..threshold /\ opened_for' \in 0..cooldown
  BY DEF Allow, BreakerOK, BreakerTypeOK
<1>3. half_open_pending' \in BOOLEAN
  BY DEF Allow, BreakerOK, BreakerTypeOK
<1>4. PendingIffHalfOpen'
  BY Names DEF Allow, BreakerOK, PendingIffHalfOpen
<1>5. FailuresMatchState'
  BY Names DEF Allow, BreakerOK, FailuresMatchState
<1> QED
  BY <1>1, <1>2, <1>3, <1>4, <1>5 DEF BreakerOK, BreakerTypeOK

\* record_success() and reset() leave the breaker in the same states.
LEMMA SuccessKeeps == BreakerOK /\ (RecordSuccess \/ Reset) => BreakerOK'
<1> SUFFICES ASSUME BreakerOK, RecordSuccess \/ Reset PROVE BreakerOK'
  OBVIOUS
<1>1. state' \in States /\ redis_circuit_state' \in {0, 1, 2}
  BY Names DEF RecordSuccess, Reset, Publish
<1>2. failures' \in 0..threshold /\ opened_for' \in 0..cooldown
  BY Settings DEF RecordSuccess, Reset, BreakerOK, BreakerTypeOK
<1>3. half_open_pending' \in BOOLEAN
  BY DEF RecordSuccess, Reset
<1>4. PendingIffHalfOpen'
  BY Names DEF RecordSuccess, Reset, PendingIffHalfOpen
<1>5. FailuresMatchState'
  BY Names, Settings DEF RecordSuccess, Reset, FailuresMatchState
<1> QED
  BY <1>1, <1>2, <1>3, <1>4, <1>5 DEF BreakerOK, BreakerTypeOK

LEMMA FailureKeeps == BreakerOK /\ RecordFailure => BreakerOK'
<1> SUFFICES ASSUME BreakerOK, RecordFailure PROVE BreakerOK'
  OBVIOUS
<1> USE DEF RecordFailure, BreakerOK
<1>1. state' \in States /\ redis_circuit_state' \in {0, 1, 2}
  BY Names DEF Publish, BreakerTypeOK
<1>2. failures' \in 0..threshold /\ opened_for' \in 0..cooldown
  BY Settings DEF BreakerTypeOK, UpTo
<1>3. half_open_pending' \in BOOLEAN
  OBVIOUS
<1>4. failures' = threshold <=> failures' >= threshold
  BY <1>2, Settings
<1>5. state # CLOSED => failures' = threshold
  BY Settings DEF FailuresMatchState, BreakerTypeOK, UpTo
<1>6. state' # HALF_OPEN
  BY <1>4, Names
<1>7. PendingIffHalfOpen'
  BY <1>6 DEF PendingIffHalfOpen
<1>8. FailuresMatchState'
  BY <1>4, <1>5, Names DEF FailuresMatchState
<1> QED
  BY <1>1, <1>2, <1>3, <1>7, <1>8 DEF BreakerTypeOK

LEMMA ElapseKeeps == BreakerOK /\ Elapse => BreakerOK'
<1> SUFFICES ASSUME BreakerOK, Elapse PROVE BreakerOK'
  OBVIOUS
<1> USE DEF Elapse, BreakerOK
<1>1. opened_for' \in 0..cooldown
  BY Settings DEF BreakerTypeOK, UpTo
<1>2. PendingIffHalfOpen' /\ FailuresMatchState'
  BY DEF PendingIffHalfOpen, FailuresMatchState
<1> QED
  BY <1>1, <1>2 DEF BreakerTypeOK

LEMMA UntimedInit == Init => Untimed
  BY BreakerOKAtStart, MaxCallAssumption DEF Init, Untimed, ThreadsOK, Phases

LEMMA UntimedStep == Untimed /\ [Next]_vars => Untimed'
<1> SUFFICES ASSUME Untimed, [Next]_vars PROVE Untimed'
  OBVIOUS
<1> USE MaxCallAssumption DEF Untimed, ThreadsOK
<1>1. ASSUME NEW t \in Threads, Admit(t) PROVE Untimed'
  BY <1>1, AllowKeeps DEF Admit, Move, Phases
<1>2. ASSUME NEW t \in Threads, Answer(t) PROVE Untimed'
  <2>1. BreakerOK'
    BY <1>2 DEF Answer, breakerVars, BreakerOK, BreakerTypeOK,
                PendingIffHalfOpen, FailuresMatchState
  <2> QED
    BY <1>2, <2>1 DEF Answer, Move, Phases
<1>3. ASSUME NEW t \in Threads, Succeed(t) PROVE Untimed'
  BY <1>3, SuccessKeeps DEF Succeed, Move, Phases
<1>4. ASSUME NEW t \in Threads, Fail(t) PROVE Untimed'
  BY <1>4, FailureKeeps DEF Fail, Move, Phases
<1>5. CASE ResetBreaker
  BY <1>5, SuccessKeeps DEF ResetBreaker
<1>6. CASE Tick
  BY <1>6, ElapseKeeps DEF Tick, InFlight
<1>7. CASE UNCHANGED vars
  BY <1>7 DEF vars, breakerVars, BreakerOK, BreakerTypeOK,
              PendingIffHalfOpen, FailuresMatchState
<1> QED
  BY <1>1, <1>2, <1>3, <1>4, <1>5, <1>6, <1>7 DEF Next

LEMMA UntimedAlways == SafeSpec => []Untimed
  BY UntimedInit, UntimedStep, PTL DEF SafeSpec

-----------------------------------------------------------------------------
\* Every variable of the breaker and of the threads keeps its type: the
\* failure count and the clock stay within what the code compares them with.
THEOREM TypeCorrect == SafeSpec => []TypeOK
<1>1. Untimed => TypeOK
  BY DEF Untimed, BreakerOK, ThreadsOK, TypeOK
<1> QED
  BY <1>1, UntimedAlways, PTL

\* A probe is marked in flight exactly while the breaker is half-open, so
\* the last two lines of allow() are never reached: no order of reports,
\* probes and resets leaves a half-open breaker that waits for nobody.
THEOREM PendingMarksHalfOpen == SafeSpec => []PendingIffHalfOpen
<1>1. Untimed => PendingIffHalfOpen
  BY DEF Untimed, BreakerOK, ThreadsOK, TypeOK
<1> QED
  BY <1>1, UntimedAlways, PTL

\* The breaker is tripped exactly when it has counted threshold failures in a
\* row, for every order in which the threads report.
THEOREM FailuresDecideState == SafeSpec => []FailuresMatchState
<1>1. Untimed => FailuresMatchState
  BY DEF Untimed, BreakerOK, ThreadsOK, TypeOK
<1> QED
  BY <1>1, UntimedAlways, PTL

\* Whatever the threads do, the gauge shows the state that the breaker is in: no
\* method changes the state without publishing it, and none publishes another.
THEOREM GaugeShowsState == SafeSpec => [](redis_circuit_state = StateValue[state])
<1> DEFINE Shown == redis_circuit_state = StateValue[state]
<1>1. Init => Shown
  BY DEF Init, BreakerInit
<1>2. Shown /\ (Allow \/ RecordSuccess \/ RecordFailure \/ Reset \/ Elapse) => Shown'
  BY DEF Allow, RecordSuccess, RecordFailure, Reset, Elapse, Publish
<1>3. Shown /\ UNCHANGED breakerVars => Shown'
  BY DEF breakerVars
<1>4. Shown /\ [Next]_vars => Shown'
  BY <1>2, <1>3 DEF Next, Admit, Answer, Succeed, Fail, ResetBreaker, Tick, vars
<1> QED
  BY <1>1, <1>4, PTL DEF SafeSpec

-----------------------------------------------------------------------------
(***************************************************************************)
(* Timed part: calls are shorter than the cooldown.  The ages of the calls *)
(* in flight carry the argument: on an open breaker every one of them is   *)
(* at least as old as the opening, so when the cooldown is over none can   *)
(* be left, and the probe starts alone.                                    *)
(***************************************************************************)
Timed == Untimed /\ StragglersAreOlder /\ SingleProbe

\* With all calls older than the cooldown nobody is in flight.
LEMMA NobodyLeft ==
  ASSUME TimelyCalls, Timed, state = OPEN, opened_for > MaxCall
  PROVE  InFlight = {}
  BY Settings, MaxCallAssumption
  DEF Timed, Untimed, ThreadsOK, BreakerOK, BreakerTypeOK, StragglersAreOlder,
      InFlight

\* allow() admits a thread to a breaker that is not closed only as its probe,
\* when nobody else is calling.
LEMMA ProbeStartsAlone ==
  ASSUME TimelyCalls, Timed, NEW t \in Threads, Admit(t), state # CLOSED
  PROVE  /\ state = OPEN /\ state' = HALF_OPEN
         /\ InFlight = {} /\ InFlight' = {t}
<1>1. state = OPEN /\ opened_for >= cooldown
  BY DEF Admit, Allow, MayCall, Timed, Untimed, BreakerOK, PendingIffHalfOpen
<1>2. opened_for > MaxCall
  BY <1>1, Settings, MaxCallAssumption
  DEF TimelyCalls, Timed, Untimed, BreakerOK, BreakerTypeOK
<1>3. InFlight = {}
  BY <1>1, <1>2, NobodyLeft
<1>4. InFlight' = {t}
  BY <1>3 DEF Admit, Move, InFlight, Timed, Untimed, ThreadsOK
<1> QED
  BY <1>1, <1>3, <1>4 DEF Admit, Allow

LEMMA TimedInit == Init => Timed
  BY UntimedInit, Names
  DEF Timed, Init, BreakerInit, StragglersAreOlder, SingleProbe

LEMMA TimedStep == TimelyCalls /\ Timed /\ [Next]_vars => Timed'
<1> SUFFICES ASSUME TimelyCalls, Timed, [Next]_vars
             PROVE  StragglersAreOlder' /\ SingleProbe'
  BY UntimedStep DEF Timed
<1> USE Names
<1>1. Untimed /\ Untimed' /\ StragglersAreOlder /\ SingleProbe
  BY UntimedStep DEF Timed
<1>2. state' = CLOSED => StragglersAreOlder' /\ SingleProbe'
  BY DEF StragglersAreOlder, SingleProbe
<1>3. ASSUME NEW t \in Threads, Admit(t)
      PROVE  StragglersAreOlder' /\ SingleProbe'
  <2>1. CASE state = CLOSED
    BY <1>2, <1>3, <2>1 DEF Admit, Allow
  <2>2. CASE state # CLOSED
    BY <1>3, <2>2, ProbeStartsAlone DEF StragglersAreOlder, SingleProbe
  <2> QED
    BY <2>1, <2>2
<1>4. ASSUME NEW t \in Threads, Answer(t)
      PROVE  StragglersAreOlder' /\ SingleProbe'
  <2>1. InFlight' = InFlight
    BY <1>1, <1>4 DEF Answer, Move, InFlight, Untimed, ThreadsOK
  <2> QED
    BY <1>1, <1>4, <2>1
    DEF Answer, breakerVars, StragglersAreOlder, SingleProbe
<1>5. ASSUME NEW t \in Threads, Succeed(t)
      PROVE  StragglersAreOlder' /\ SingleProbe'
  BY <1>2, <1>5 DEF Succeed, RecordSuccess
<1>6. ASSUME NEW t \in Threads, Fail(t)
      PROVE  StragglersAreOlder' /\ SingleProbe'
  <2>1. state' # HALF_OPEN
    BY <1>1, <1>6
    DEF Fail, RecordFailure, Untimed, BreakerOK, PendingIffHalfOpen
  <2>2. state' = OPEN => opened_for' = 0
    <3>1. state = OPEN => failures' >= threshold
      BY <1>1, <1>6, Settings
      DEF Fail, RecordFailure, UpTo, Untimed, BreakerOK, FailuresMatchState
    <3> QED
      BY <1>6, <3>1 DEF Fail, RecordFailure
  <2>3. \A u \in Threads : age'[u] >= 0
    BY <1>1, MaxCallAssumption DEF Untimed, ThreadsOK
  <2> QED
    BY <2>1, <2>2, <2>3 DEF StragglersAreOlder, SingleProbe, InFlight
<1>7. CASE ResetBreaker
  BY <1>2, <1>7 DEF ResetBreaker, Reset
<1>8. CASE Tick
  <2>1. InFlight' = InFlight /\ state' = state
    BY <1>8 DEF Tick, Elapse, InFlight
  <2>2. opened_for' <= opened_for + 1
    BY <1>1, <1>8, Settings
    DEF Tick, Elapse, UpTo, Untimed, BreakerOK, BreakerTypeOK
  <2>3. \A u \in InFlight : age'[u] = age[u] + 1
    BY <1>8 DEF Tick, InFlight
  <2>4. opened_for \in Nat /\ opened_for' \in Nat /\ age \in [Threads -> Nat]
    BY <1>1, Settings, MaxCallAssumption
    DEF Untimed, BreakerOK, BreakerTypeOK, ThreadsOK
  <2>5. StragglersAreOlder'
    BY <1>1, <2>1, <2>2, <2>3, <2>4 DEF StragglersAreOlder, InFlight
  <2> QED
    BY <1>1, <2>1, <2>5 DEF SingleProbe
<1>9. CASE UNCHANGED vars
  BY <1>1, <1>9
  DEF vars, breakerVars, StragglersAreOlder, SingleProbe, InFlight
<1> QED
  BY <1>3, <1>4, <1>5, <1>6, <1>7, <1>8, <1>9 DEF Next

LEMMA TimedAlways == ASSUME TimelyCalls PROVE SafeSpec => []Timed
<1>1. Timed /\ [Next]_vars => Timed'
  BY TimedStep
<1> QED
  BY <1>1, TimedInit, PTL DEF SafeSpec

\* If no call outlives the cooldown, a half-open breaker has exactly one Redis
\* call in flight: no straggler can settle it in the probe's place.
THEOREM ProbeIsAlone ==
  ASSUME TimelyCalls PROVE SafeSpec => []SingleProbe
<1>1. Timed => SingleProbe
  BY DEF Timed
<1>2. SafeSpec => []Timed
  BY TimedAlways
<1> QED
  BY <1>1, <1>2, PTL

\* If no call outlives the cooldown, every call in flight on an open breaker
\* was admitted before it opened, and once the breaker has been open for the
\* longest call no worker thread waits for Redis.
THEOREM OpenFreesTheThreads ==
  ASSUME TimelyCalls
  PROVE  SafeSpec => [](StragglersAreOlder /\ NoStalledThreads)
<1>1. Timed => StragglersAreOlder /\ NoStalledThreads
  BY NobodyLeft DEF Timed, NoStalledThreads
<1>2. SafeSpec => []Timed
  BY TimedAlways
<1> QED
  BY <1>1, <1>2, PTL

\* If no call outlives the cooldown, only a reset or the success of a call that
\* was admitted before the breaker opened ends the cooldown early.
THEOREM CooldownIsKept ==
  ASSUME TimelyCalls PROVE SafeSpec => OnlyStragglersCutShort
<1> DEFINE CutShort ==
      state = OPEN /\ state' # OPEN /\ opened_for < cooldown
        => ResetBreaker \/ \E t \in Threads : Succeed(t) /\ age[t] >= opened_for
<1>1. ASSUME Timed, [Next]_vars PROVE CutShort
  <2> SUFFICES ASSUME state = OPEN, state' # OPEN, opened_for < cooldown
               PROVE  ResetBreaker \/ \E t \in Threads : Succeed(t) /\ age[t] >= opened_for
    OBVIOUS
  <2>1. ASSUME NEW t \in Threads, Admit(t) PROVE FALSE
    <3>1. opened_for \in Nat /\ cooldown \in Nat
      BY <1>1, Settings DEF Timed, Untimed, BreakerOK, BreakerTypeOK
    <3> QED
      BY <2>1, <3>1, Names DEF Admit, Allow, MayCall
  <2>2. ASSUME NEW t \in Threads, Answer(t) PROVE FALSE
    BY <2>2 DEF Answer, breakerVars
  <2>3. ASSUME NEW t \in Threads, Succeed(t) PROVE age[t] >= opened_for
    BY <1>1, <2>3 DEF Timed, StragglersAreOlder, Succeed, InFlight
  <2>4. ASSUME NEW t \in Threads, Fail(t) PROVE FALSE
    BY <1>1, <2>4, Settings, Names
    DEF Fail, RecordFailure, UpTo, Timed, Untimed, BreakerOK, FailuresMatchState
  <2>5. ASSUME Tick \/ UNCHANGED vars PROVE FALSE
    BY <2>5 DEF Tick, Elapse, vars, breakerVars
  <2> QED
    BY <1>1, <2>1, <2>2, <2>3, <2>4, <2>5 DEF Next
<1>2. Timed /\ [Next]_vars => [CutShort]_vars
  BY <1>1
<1>3. SafeSpec => []Timed
  BY TimedAlways
<1> QED
  BY <1>2, <1>3, PTL DEF SafeSpec, OnlyStragglersCutShort

-----------------------------------------------------------------------------
LEMMA PromiseStep ==
  ASSUME TimelyCalls, Timed, [Next]_vars
  PROVE  [Promise!Next]_<<state, InFlight>>
<1> USE DEF Promise!Next, CLOSED, OPEN, HALF_OPEN
<1>1. phase \in [Threads -> Phases]
  BY DEF Timed, Untimed, ThreadsOK
<1>2. ASSUME NEW t \in Threads, Admit(t) PROVE Promise!Next
  <2>1. t \notin InFlight /\ InFlight' = InFlight \union {t}
    BY <1>1, <1>2 DEF Admit, Move, InFlight
  <2>2. CASE state = CLOSED
    BY <1>2, <2>1, <2>2 DEF Promise!Join, Admit, Allow
  <2>3. CASE state # CLOSED
    BY <1>2, <2>3, ProbeStartsAlone DEF Promise!Probe
  <2> QED
    BY <2>2, <2>3
<1>3. ASSUME NEW t \in Threads, Answer(t) PROVE UNCHANGED <<state, InFlight>>
  BY <1>1, <1>3 DEF Answer, Move, InFlight, breakerVars
<1>4. ASSUME NEW t \in Threads, Succeed(t) PROVE Promise!Next
  <2>1. t \in InFlight /\ InFlight' = InFlight \ {t}
    BY <1>1, <1>4 DEF Succeed, Move, InFlight
  <2> QED
    BY <1>4, <2>1 DEF Promise!ReportSuccess, Succeed, RecordSuccess
<1>5. ASSUME NEW t \in Threads, Fail(t) PROVE Promise!Next
  <2>1. t \in InFlight /\ InFlight' = InFlight \ {t}
    BY <1>1, <1>5 DEF Fail, Move, InFlight
  <2>2. state = OPEN => failures' >= threshold
    BY <1>5, Settings DEF Fail, RecordFailure, UpTo, Timed, Untimed,
                          BreakerOK, FailuresMatchState
  <2>3. state \in {CLOSED, OPEN, HALF_OPEN}
    BY DEF Timed, Untimed, BreakerOK, BreakerTypeOK, States
  <2>4. state' = OPEN \/ (state = CLOSED /\ state' = CLOSED)
    BY <1>5, <2>2, <2>3 DEF Fail, RecordFailure
  <2> QED
    BY <2>1, <2>4 DEF Promise!ReportFailure
<1>6. CASE ResetBreaker
  BY <1>6 DEF ResetBreaker, Reset, InFlight, Promise!ForceClosed
<1>7. CASE Tick
  BY <1>7 DEF Tick, Elapse, InFlight
<1>8. CASE UNCHANGED vars
  BY <1>8 DEF vars, breakerVars, InFlight
<1> QED
  BY <1>2, <1>3, <1>4, <1>5, <1>6, <1>7, <1>8 DEF Next

\* If no call outlives the cooldown the breaker implements its promise: to the
\* threads it is a mode and a set of callers, with a lone caller as the probe.
THEOREM BreakerKeepsPromise ==
  ASSUME TimelyCalls PROVE SafeSpec => KeepsPromise
<1>1. Init => Promise!Init
  BY DEF Init, BreakerInit, Promise!Init, InFlight, CLOSED
<1>2. Timed /\ [Next]_vars => [Promise!Next]_<<state, InFlight>>
  BY PromiseStep
<1>3. SafeSpec => []Timed
  BY TimedAlways
<1> QED
  BY <1>1, <1>2, <1>3, PTL
  DEF SafeSpec, KeepsPromise, Promise!Spec, Promise!promiseVars
=============================================================================
