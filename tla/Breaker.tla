------------------------------ MODULE Breaker ------------------------------
(***************************************************************************)
(* The circuit breaker under concurrent use.  Worker threads ask allow(),  *)
(* call Redis outside the lock, and report the outcome with                *)
(* record_success() or record_failure() (app/cache.py, _read and _write).  *)
(* Between the question and the report other threads may open, probe or    *)
(* close the breaker: a report can be about a breaker that no longer       *)
(* exists.  Any mix of outcomes is possible here; EdgeCache ties them to   *)
(* the state of Redis.                                                     *)
(*                                                                         *)
(* A thread that is refused skips Redis and leaves no trace, so a refusal  *)
(* is a stuttering step.                                                   *)
(***************************************************************************)
EXTENDS CircuitBreaker

CONSTANTS
    Threads,   \* worker threads sharing the breaker
    MaxCall    \* longest time, in ticks, from allow() to the report; the
               \* socket timeouts of the client bound it

ASSUME ThreadsAssumption == Threads # {}
ASSUME MaxCallAssumption == MaxCall \in Nat

VARIABLES
    phase,   \* where each thread is in its Redis call
    age      \* ticks since the thread's call was admitted; 0 without a call

vars == <<breakerVars, phase, age>>

Phases == {"idle", "calling", "ok", "failed"}

TypeOK ==
    /\ BreakerTypeOK
    /\ phase \in [Threads -> Phases]
    /\ age \in [Threads -> 0..MaxCall]

Init ==
    /\ BreakerInit
    /\ phase = [t \in Threads |-> "idle"]
    /\ age = [t \in Threads |-> 0]

\* Threads that were admitted and have not reported yet.
InFlight == {t \in Threads : phase[t] # "idle"}

Move(t, to) == phase' = [phase EXCEPT ![t] = to]

-----------------------------------------------------------------------------
Admit(t) ==
    /\ phase[t] = "idle"
    /\ Allow
    /\ Move(t, "calling")
    /\ UNCHANGED age

\* The client returns a value or raises; the breaker does not know it yet.
Answer(t) ==
    /\ phase[t] = "calling"
    /\ \E outcome \in {"ok", "failed"} : Move(t, outcome)
    /\ UNCHANGED <<breakerVars, age>>

Succeed(t) ==
    /\ phase[t] = "ok"
    /\ RecordSuccess
    /\ Move(t, "idle")
    /\ age' = [age EXCEPT ![t] = 0]

Fail(t) ==
    /\ phase[t] = "failed"
    /\ RecordFailure
    /\ Move(t, "idle")
    /\ age' = [age EXCEPT ![t] = 0]

\* Nothing in the service calls reset(); it is public, so it may come any time.
ResetBreaker ==
    /\ Reset
    /\ UNCHANGED <<phase, age>>

\* Time passes unless a call would outlive its timeouts.
Tick ==
    /\ \A t \in InFlight : age[t] < MaxCall
    /\ Elapse
    /\ age' = [t \in Threads |-> IF t \in InFlight THEN age[t] + 1 ELSE age[t]]
    /\ UNCHANGED phase

Next ==
    \/ \E t \in Threads : Admit(t) \/ Answer(t) \/ Succeed(t) \/ Fail(t)
    \/ ResetBreaker
    \/ Tick

\* Threads run, sockets answer or time out, time passes and requests arrive.
Fairness ==
    /\ WF_vars(Tick)
    /\ WF_vars(\E t \in Threads : Admit(t))
    /\ \A t \in Threads : WF_vars(Answer(t) \/ Succeed(t) \/ Fail(t))

SafeSpec == Init /\ [][Next]_vars
Spec == SafeSpec /\ Fairness

-----------------------------------------------------------------------------
\* The deployment keeps a call shorter than the cooldown: 0.25s socket
\* timeouts against a cooldown of 5s.
TimelyCalls == MaxCall < cooldown

\* A probe is marked in flight exactly while the breaker is half-open: no
\* order of late reports, probes and resets leaves a half-open breaker that
\* waits for nobody, or a stale mark that would block the next probe.
PendingIffHalfOpen == half_open_pending <=> state = HALF_OPEN

\* A closed breaker has seen fewer failures in a row than the threshold, and a
\* tripped one has seen at least that many, whatever stragglers reported since.
FailuresMatchState == (failures = threshold) <=> (state # CLOSED)

\* While the breaker is half-open exactly one Redis call is in flight, so no
\* straggler from before the outage can settle it in the probe's place.
SingleProbe == state = HALF_OPEN => \E t \in Threads : InFlight = {t}

\* Once the breaker has been open for as long as a call can last, no worker
\* thread is held by Redis any more: the stall of the outage drill is over.
NoStalledThreads == state = OPEN /\ opened_for > MaxCall => InFlight = {}

\* A call still in flight on an open breaker was admitted before it opened.
StragglersAreOlder ==
    state = OPEN => \A t \in InFlight : age[t] >= opened_for

\* Only a call that was admitted before the breaker opened can close it before
\* the cooldown is over, by a late success; the probe never comes early.
OnlyStragglersCutShort ==
    [][state = OPEN /\ state' # OPEN /\ opened_for < cooldown
         => ResetBreaker \/ \E t \in Threads : Succeed(t) /\ age[t] >= opened_for]_vars

\* An open breaker does not stay open for ever while requests arrive:
\* stragglers can restart the cooldown only finitely often.
OpenIsLeft == state = OPEN ~> state # OPEN

\* A half-open breaker is settled: the single probe cannot be lost.
HalfOpenIsLeft == state = HALF_OPEN ~> state # HALF_OPEN

\* What the threads may rely on, stated without counters and clocks.
Promise == INSTANCE BreakerPromise WITH mode <- state, callers <- InFlight
KeepsPromise == Promise!Spec
=============================================================================
