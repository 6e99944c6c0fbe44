--------------------------- MODULE CircuitBreaker ---------------------------
(***************************************************************************)
(* The breaker object of app/cache.py: class _CircuitBreaker.  Its methods *)
(* run under one lock, so each is one action here; who calls them, and     *)
(* when, is left to the modules that extend this one.                      *)
(*                                                                         *)
(* Two counters of the object are kept only as far as the code looks at    *)
(* them.  The code compares the failure count with the threshold and       *)
(* nothing else, so `failures' stops at the threshold; it compares the     *)
(* time since opened_at with the cooldown, so `opened_for', that time in   *)
(* clock ticks, stops at the cooldown.                                     *)
(***************************************************************************)
EXTENDS Integers

CONSTANTS
    FailThreshold,    \* REDIS_CB_FAIL_THRESHOLD, as configured
    CooldownSetting   \* REDIS_CB_COOLDOWN_SECONDS, as configured, in ticks

ASSUME SettingsAssumption == FailThreshold \in Int /\ CooldownSetting \in Int

VARIABLES
    state,               \* _state
    failures,            \* _failures
    half_open_pending,   \* _half_open_pending
    opened_for,          \* time.monotonic() - _opened_at
    redis_circuit_state  \* the Prometheus gauge the breaker publishes

breakerVars ==
    <<state, failures, half_open_pending, opened_for, redis_circuit_state>>

CLOSED == "closed"
HALF_OPEN == "half_open"
OPEN == "open"
States == {CLOSED, HALF_OPEN, OPEN}
StateValue == [s \in States |-> CASE s = CLOSED -> 0
                                  [] s = HALF_OPEN -> 1
                                  [] s = OPEN -> 2]

\* __init__ clamps both settings from below.
threshold == IF FailThreshold < 1 THEN 1 ELSE FailThreshold
cooldown == IF CooldownSetting < 0 THEN 0 ELSE CooldownSetting

UpTo(bound, n) == IF n > bound THEN bound ELSE n

BreakerTypeOK ==
    /\ state \in States
    /\ failures \in 0..threshold
    /\ half_open_pending \in BOOLEAN
    /\ opened_for \in 0..cooldown
    /\ redis_circuit_state \in {0, 1, 2}

BreakerInit ==
    /\ state = CLOSED
    /\ failures = 0
    /\ half_open_pending = FALSE
    /\ opened_for = cooldown          \* _opened_at = 0.0: long ago
    /\ redis_circuit_state = StateValue[CLOSED]

Publish == redis_circuit_state' = StateValue[state']

-----------------------------------------------------------------------------
\* Slips a change to the methods below could make.  Each property of the runs
\* is shown to notice one of them.
AllowWithoutPending ==
    /\ \/ state = CLOSED
       \/ state = OPEN /\ opened_for >= cooldown
       \/ state = HALF_OPEN /\ ~half_open_pending
    /\ state' = (IF state = CLOSED THEN CLOSED ELSE HALF_OPEN)
    /\ Publish
    /\ UNCHANGED <<failures, half_open_pending, opened_for>>
AllowWithoutPromotion ==
    /\ state = CLOSED \/ (state = OPEN /\ opened_for >= cooldown)
    /\ UNCHANGED breakerVars
MayCallEarly ==
    \/ state = CLOSED
    \/ state = OPEN /\ opened_for >= cooldown - 1
    \/ state = HALF_OPEN /\ ~half_open_pending
MayCallNeverProbes == state = CLOSED \/ (state = HALF_OPEN /\ ~half_open_pending)
SuccessKeepsPending ==
    /\ failures' = 0
    /\ state' = CLOSED
    /\ Publish
    /\ UNCHANGED <<half_open_pending, opened_for>>
SuccessKeepsHalfOpen ==
    /\ failures' = 0
    /\ half_open_pending' = FALSE
    /\ state' = (IF state = HALF_OPEN THEN HALF_OPEN ELSE CLOSED)
    /\ Publish
    /\ UNCHANGED opened_for
SuccessForgivesOne ==
    /\ failures' = failures - 1
    /\ half_open_pending' = FALSE
    /\ state' = CLOSED
    /\ Publish
    /\ UNCHANGED opened_for
FailureOffByOne ==
    /\ failures' = UpTo(threshold, failures + 1)
    /\ half_open_pending' = FALSE
    /\ IF state = HALF_OPEN \/ failures + 1 > threshold
       THEN state' = OPEN /\ opened_for' = 0
       ELSE UNCHANGED <<state, opened_for>>
    /\ Publish

-----------------------------------------------------------------------------
\* allow() returns True in exactly these states ...
MayCall ==
    \/ state = CLOSED
    \/ state = OPEN /\ opened_for >= cooldown
    \/ state = HALF_OPEN /\ ~half_open_pending

\* ... and then promotes an open breaker and marks the probe.  When it returns
\* False it changes nothing.
Allow ==
    /\ MayCall
    /\ IF state = CLOSED
       THEN UNCHANGED <<state, half_open_pending, redis_circuit_state>>
       ELSE /\ state' = HALF_OPEN
            /\ half_open_pending' = TRUE
            /\ Publish
    /\ UNCHANGED <<failures, opened_for>>

RecordSuccess ==
    /\ failures' = 0
    /\ half_open_pending' = FALSE
    /\ state' = CLOSED
    /\ Publish
    /\ UNCHANGED opened_for

\* A failed probe, or one failure too many, opens the breaker and restarts the
\* cooldown; on an open breaker that means the cooldown starts over.
RecordFailure ==
    /\ failures' = UpTo(threshold, failures + 1)
    /\ half_open_pending' = FALSE
    /\ IF state = HALF_OPEN \/ failures' >= threshold
       THEN state' = OPEN /\ opened_for' = 0 /\ Publish
       ELSE UNCHANGED <<state, opened_for, redis_circuit_state>>

Reset ==
    /\ state' = CLOSED
    /\ failures' = 0
    /\ half_open_pending' = FALSE
    /\ Publish
    /\ UNCHANGED opened_for

\* One tick of time.monotonic().
Elapse ==
    /\ opened_for' = UpTo(cooldown, opened_for + 1)
    /\ UNCHANGED <<state, failures, half_open_pending, redis_circuit_state>>
=============================================================================
