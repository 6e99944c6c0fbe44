--------------------------- MODULE BreakerPromise ---------------------------
(***************************************************************************)
(* What the circuit breaker promises the threads that share it, without    *)
(* counters and clocks: a breaker that is not closed admits a caller only  *)
(* when nobody is calling, so a half-open breaker has one caller; that     *)
(* caller's report, or a reset, settles it.  A report may come late, and   *)
(* a late success closes an open breaker.                                  *)
(***************************************************************************)
CONSTANT Threads

VARIABLES
    mode,     \* "closed", "half_open" or "open"
    callers   \* threads admitted to the dependency that have not reported

promiseVars == <<mode, callers>>

Init == mode = "closed" /\ callers = {}

Join(t) ==
    /\ mode = "closed"
    /\ t \notin callers
    /\ callers' = callers \union {t}
    /\ UNCHANGED mode

Probe(t) ==
    /\ mode = "open"
    /\ callers = {}
    /\ mode' = "half_open"
    /\ callers' = {t}

ReportSuccess(t) ==
    /\ t \in callers
    /\ callers' = callers \ {t}
    /\ mode' = "closed"

\* Only a closed breaker may take a failure and stay as it is.
ReportFailure(t) ==
    /\ t \in callers
    /\ callers' = callers \ {t}
    /\ mode' = "open" \/ (mode = "closed" /\ UNCHANGED mode)

ForceClosed ==
    /\ mode' = "closed"
    /\ UNCHANGED callers

Next ==
    \/ \E t \in Threads :
          Join(t) \/ Probe(t) \/ ReportSuccess(t) \/ ReportFailure(t)
    \/ ForceClosed

Spec == Init /\ [][Next]_promiseVars
=============================================================================
