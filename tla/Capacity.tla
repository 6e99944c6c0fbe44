------------------------------ MODULE Capacity ------------------------------
(***************************************************************************)
(* The replica arithmetic of docs/capacity/capacity_forecast.py, and the   *)
(* service it speaks of: each request holds a worker thread for its whole  *)
(* service time, and the CPU starts so many requests at a time.  Rates are *)
(* requests per tick, and a service time is in ticks.  As in the forecast, *)
(* replicas share the load evenly and traffic is steady.                   *)
(***************************************************************************)
EXTENDS Integers, FiniteSetsExt

CONSTANTS
    WorkersPerReplica,   \* WORKERS_PER_REPLICA
    CpuBound,            \* CPU_BOUND_RPS_PER_REPLICA
    ServiceTimes,        \* W_HIT_S and W_MISS_S
    Rates,               \* target rates that are planned for
    MaxReplicas,         \* bound: replicas that are tried
    MaxBacklog,          \* bound: requests that a stall leaves waiting
    RunAway              \* bound: a queue this long has run away

ASSUME CapacityAssumption ==
    /\ {WorkersPerReplica, CpuBound} \subseteq Nat \ {0}
    /\ ServiceTimes \subseteq Nat \ {0} /\ Rates \subseteq Nat \ {0}
    /\ MaxReplicas \in Nat /\ MaxBacklog \in Nat

\* A stall alone, with its backlog and a request on each thread, is no runaway.
ASSUME RunAwayAssumption ==
    RunAway \in Nat /\ RunAway > MaxBacklog + MaxReplicas * WorkersPerReplica

VARIABLES
    service,    \* service time of the mode: hits, or misses in an outage
    rate,       \* requests that arrive in a tick
    replicas,   \* replicas that run
    waiting,    \* requests without a thread
    leaving     \* leaving[i]: threads whose request is done within i ticks

plan == <<service, rate, replicas>>
vars == <<plan, waiting, leaving>>

\* The capacity of a replica is WorkersPerReplica / service or CpuBound, the
\* lower one; replicas_needed() rounds up, to 1 at least.  The script divides
\* floats; what their rounding does at an exact multiple is not represented.
ThreadBound == WorkersPerReplica <= CpuBound * service
FloorDiv(a, b) == a \div b
FloorPlusOne(a, b) == a \div b + 1
CeilDiv(a, b) == (a + b - 1) \div b
ReplicasNeeded ==
    Max({1, IF ThreadBound THEN CeilDiv(rate * service, WorkersPerReplica)
                           ELSE CeilDiv(rate, CpuBound)})

\* The replicas' capacity, of threads and of CPU, is at least the rate.
CapacityMeetsRate ==
    replicas * WorkersPerReplica >= rate * service /\ replicas * CpuBound >= rate
\* The headroom that summarise() prints, total capacity over peak, is above 1.
Headroom ==
    replicas * WorkersPerReplica > rate * service /\ replicas * CpuBound > rate

Threads == replicas * WorkersPerReplica
InUse == leaving[service]

TypeOK ==
    /\ service \in ServiceTimes /\ rate \in Rates /\ replicas \in 1..MaxReplicas
    /\ waiting \in 0..RunAway
    /\ leaving \in [0..service -> 0..Threads] /\ leaving[0] = 0
    /\ \A i, j \in 0..service : i <= j => leaving[i] <= leaving[j]

\* A forecast starts at rest, or after a stall: a backlog, and every thread with
\* a request that has just begun.
Init ==
    /\ service \in ServiceTimes /\ rate \in Rates /\ replicas \in 1..MaxReplicas
    /\ waiting \in 0..MaxBacklog
    /\ \E stalled \in {0, Threads} :
          leaving = [i \in 0..service |-> IF i = service THEN stalled ELSE 0]

StartedByCpu == Min({waiting + rate, replicas * CpuBound})

\* Requests that get a thread in this tick, those about to leave making room.
Started == Min({waiting + rate, Threads - (InUse - leaving[1]), replicas * CpuBound})

Tick ==
    /\ waiting' = Min({RunAway, waiting + rate - Started})
    /\ leaving' = [i \in 0..service |->
          (IF i = service THEN InUse + Started ELSE leaving[i + 1]) - leaving[1]]
    /\ UNCHANGED plan

\* Time passes.
Spec == Init /\ [][Tick]_vars /\ WF_vars(Tick)

-----------------------------------------------------------------------------
\* With the replicas that the forecast asks for the queue stays bounded, after
\* any stall.
EnoughKeepUp == replicas >= ReplicasNeeded => waiting < RunAway

\* With fewer it grows beyond any bound: the forecast asks for no more than needed.
FewerFallBehind == replicas < ReplicasNeeded => []<>(waiting = RunAway)

\* The backlog of a stall drains if the capacity exceeds the target; at exactly
\* the target, which replicas_needed() accepts, it need not.
HeadroomDrains == Headroom => <>[](waiting = 0)
=============================================================================
