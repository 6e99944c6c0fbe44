--------------------------- MODULE CapacityProofs ---------------------------
(***************************************************************************)
(* The replica count of the forecast is the least whose capacity meets the *)
(* rate, and with it the queue stays bounded after any stall, whatever the *)
(* numbers are.                                                            *)
(*                                                                         *)
(* That a queue is short says nothing of the next tick: what the threads   *)
(* hold decides how many start.  The inductive invariant bounds what was   *)
(* waiting in each tick of the last service time, as far as the requests   *)
(* in the threads tell.                                                    *)
(***************************************************************************)
EXTENDS Capacity, TLAPS

\* What was waiting i ticks ago, if the threads started what they hold then.
WaitingBefore(i) == waiting - i * rate + (InUse - leaving[service - i])
StallBound == MaxBacklog + Threads
RecentlyShort ==
    CapacityMeetsRate => \A i \in 0..service : WaitingBefore(i) <= StallBound

QueueInv == TypeOK /\ RecentlyShort

-----------------------------------------------------------------------------
\* The operators of FiniteSetsExt, on the sets that the model gives them.
LEMMA MinOfTwo ==
  ASSUME NEW a \in Int, NEW b \in Int
  PROVE  Min({a, b}) = IF a <= b THEN a ELSE b
<1>1. PICK m \in {a, b} : \A y \in {a, b} : m <= y
  OBVIOUS
<1> QED
  BY <1>1 DEF Min

LEMMA MinOfThree ==
  ASSUME NEW a \in Int, NEW b \in Int, NEW c \in Int
  PROVE  /\ Min({a, b, c}) \in {a, b, c}
         /\ Min({a, b, c}) <= a /\ Min({a, b, c}) <= b /\ Min({a, b, c}) <= c
<1>1. PICK m \in {a, b, c} : \A y \in {a, b, c} : m <= y
  OBVIOUS
<1> QED
  BY <1>1 DEF Min

LEMMA MaxOfTwo ==
  ASSUME NEW a \in Int, NEW b \in Int
  PROVE  Max({a, b}) = IF a >= b THEN a ELSE b
<1>1. PICK m \in {a, b} : \A y \in {a, b} : m >= y
  OBVIOUS
<1> QED
  BY <1>1 DEF Max

\* Rounded up, a / b is the least number of replicas of capacity b for a rate a.
LEMMA CeilingIsLeast ==
  ASSUME NEW a \in Nat, NEW b \in Nat \ {0}, NEW n \in Nat
  PROVE  CeilDiv(a, b) \in Nat /\ (n >= CeilDiv(a, b) <=> n * b >= a)
<1>1. PICK q \in Nat : q = (a + b - 1) \div b
  OBVIOUS
<1>2. q * b <= a + b - 1 /\ a + b - 1 < q * b + b
  BY <1>1
<1>3. ASSUME n >= q PROVE n * b >= a
  <2>1. n * b >= q * b
    BY <1>3
  <2> QED
    BY <1>2, <2>1
<1>4. ASSUME n < q PROVE n * b < a
  <2>1. (n + 1) * b <= q * b
    BY <1>4
  <2>2. (n + 1) * b = n * b + b
    OBVIOUS
  <2> QED
    BY <1>2, <2>1, <2>2
<1> QED
  BY <1>1, <1>3, <1>4 DEF CeilDiv

\* What can be settled of a plan: its numbers, and the products of them.
LEMMA PlanNumbers ==
  ASSUME TypeOK
  PROVE  /\ service \in Nat \ {0} /\ rate \in Nat \ {0} /\ replicas \in Nat \ {0}
         /\ replicas <= MaxReplicas
         /\ WorkersPerReplica \in Nat \ {0} /\ CpuBound \in Nat \ {0}
         /\ rate * service \in Nat /\ Threads \in Nat /\ replicas * CpuBound \in Nat
         /\ waiting \in Nat /\ InUse \in 0..Threads
         /\ leaving \in [0..service -> 0..Threads]
<1>1. /\ service \in Nat \ {0} /\ rate \in Nat \ {0} /\ replicas \in Nat \ {0}
      /\ replicas <= MaxReplicas
      /\ WorkersPerReplica \in Nat \ {0} /\ CpuBound \in Nat \ {0}
  BY CapacityAssumption DEF TypeOK
<1>2. rate * service \in Nat /\ Threads \in Nat /\ replicas * CpuBound \in Nat
  BY <1>1 DEF Threads
<1>3. waiting \in Nat /\ leaving \in [0..service -> 0..Threads] /\ service \in 0..service
  BY <1>1, RunAwayAssumption DEF TypeOK
<1> QED
  BY <1>1, <1>2, <1>3 DEF InUse

\* The forecast's count is sufficient exactly where the capacity meets the rate:
\* capacity per replica is the lower bound of the two, and rounding goes up.
LEMMA NeededIsEnough ==
  ASSUME TypeOK
  PROVE  replicas >= ReplicasNeeded <=> CapacityMeetsRate
<1>1. PICK s, r, n, w, c \in Nat \ {0} :
        /\ s = service /\ r = rate /\ n = replicas /\ w = WorkersPerReplica /\ c = CpuBound
  BY PlanNumbers
<1>2. CASE ThreadBound
  <2>1. w <= c * s
    BY <1>1, <1>2 DEF ThreadBound
  <2>2. CeilDiv(r * s, w) \in Nat /\ (n >= CeilDiv(r * s, w) <=> n * w >= r * s)
    BY CeilingIsLeast
  <2>3. ReplicasNeeded = Max({1, CeilDiv(r * s, w)})
    BY <1>1, <1>2 DEF ReplicasNeeded
  <2>4. n >= ReplicasNeeded <=> n * w >= r * s
    BY <2>2, <2>3, MaxOfTwo
  <2>5. ASSUME n * w >= r * s PROVE n * c >= r
    <3>1. n * w <= n * (c * s)
      BY <2>1
    <3>2. (n * c) * s >= r * s
      BY <2>5, <3>1
    <3>3. ASSUME n * c < r PROVE (n * c) * s < r * s
      BY <3>3
    <3> QED
      BY <3>2, <3>3
  <2> QED
    BY <1>1, <2>4, <2>5 DEF CapacityMeetsRate
<1>3. CASE ~ThreadBound
  <2>1. w > c * s
    BY <1>1, <1>3 DEF ThreadBound
  <2>2. CeilDiv(r, c) \in Nat /\ (n >= CeilDiv(r, c) <=> n * c >= r)
    BY CeilingIsLeast
  <2>3. ReplicasNeeded = Max({1, CeilDiv(r, c)})
    BY <1>1, <1>3 DEF ReplicasNeeded
  <2>4. n >= ReplicasNeeded <=> n * c >= r
    BY <2>2, <2>3, MaxOfTwo
  <2>5. ASSUME n * c >= r PROVE n * w >= r * s
    <3>1. n * w >= n * (c * s)
      BY <2>1
    <3>2. (n * c) * s >= r * s
      BY <2>5
    <3> QED
      BY <3>1, <3>2
  <2> QED
    BY <1>1, <2>4, <2>5 DEF CapacityMeetsRate
<1> QED
  BY <1>2, <1>3

-----------------------------------------------------------------------------
LEMMA QueueStarts == Init => QueueInv
<1> SUFFICES ASSUME Init PROVE QueueInv
  OBVIOUS
<1>1. /\ service \in Nat \ {0} /\ rate \in Nat \ {0} /\ replicas \in Nat \ {0}
      /\ replicas <= MaxReplicas /\ WorkersPerReplica \in Nat \ {0}
  BY CapacityAssumption DEF Init
<1>2. Threads \in Nat /\ MaxBacklog \in Nat /\ waiting \in 0..MaxBacklog
  BY <1>1, CapacityAssumption DEF Init, Threads
<1>3. PICK stalled \in {0, Threads} :
        leaving = [i \in 0..service |-> IF i = service THEN stalled ELSE 0]
  BY DEF Init
<1>4. waiting \in 0..RunAway
  <2>1. MaxReplicas * WorkersPerReplica \in Nat
    BY CapacityAssumption
  <2> QED
    BY <1>2, <2>1, RunAwayAssumption
<1>5. TypeOK
  BY <1>1, <1>2, <1>3, <1>4 DEF Init, TypeOK
<1>6. ASSUME NEW i \in 0..service PROVE WaitingBefore(i) <= StallBound
  <2>1. InUse \in 0..Threads /\ leaving[service - i] \in 0..Threads
    BY <1>1, <1>2, <1>3 DEF InUse
  <2>2. i * rate \in Nat
    BY <1>1
  <2> QED
    BY <1>2, <2>1, <2>2 DEF WaitingBefore, StallBound
<1> QED
  BY <1>5, <1>6 DEF QueueInv, RecentlyShort

\* As many start as have come and wait, as have a thread, or as the CPU admits.
LEMMA StartedIsLeast ==
  ASSUME TypeOK
  PROVE  /\ Started \in Nat
         /\ Started \in {waiting + rate, Threads - (InUse - leaving[1]), replicas * CpuBound}
         /\ Started <= waiting + rate /\ Started <= Threads - (InUse - leaving[1])
         /\ leaving[1] \in 0..InUse
<1>1. /\ 1 \in 0..service /\ service \in 0..service /\ 1 <= service
      /\ leaving \in [0..service -> 0..Threads]
      /\ waiting + rate \in Nat /\ replicas * CpuBound \in Nat
      /\ Threads \in Nat /\ InUse \in 0..Threads
  BY PlanNumbers
<1>2. leaving[1] \in 0..InUse
  BY <1>1 DEF TypeOK, InUse
<1>3. Threads - (InUse - leaving[1]) \in Nat
  BY <1>1, <1>2
<1>4. PICK a, b, c \in Nat :
        a = waiting + rate /\ b = Threads - (InUse - leaving[1]) /\ c = replicas * CpuBound
  BY <1>1, <1>3
<1>5. Started = Min({a, b, c})
  BY <1>4 DEF Started
<1>6. Started \in {a, b, c} /\ Started <= a /\ Started <= b
  BY <1>5, MinOfThree
<1> QED
  BY <1>2, <1>4, <1>6

\* A tick, in the terms of the plan's numbers.
LEMMA TickTypes ==
  ASSUME TypeOK, Tick
  PROVE  /\ TypeOK'
         /\ Threads' = Threads /\ waiting' <= waiting + rate - Started
         /\ InUse' = InUse + Started - leaving[1]
         /\ \A i \in 0..(service - 1) : leaving'[i] = leaving[i + 1] - leaving[1]
<1>1. /\ service \in Nat \ {0} /\ rate \in Nat \ {0}
      /\ Threads \in Nat /\ waiting \in Nat /\ InUse \in 0..Threads
      /\ leaving \in [0..service -> 0..Threads]
  BY PlanNumbers
<1>2. /\ Started \in Nat /\ Started <= waiting + rate
      /\ Started <= Threads - (InUse - leaving[1]) /\ leaving[1] \in 0..InUse
  BY StartedIsLeast
<1>3. /\ service' = service /\ rate' = rate /\ replicas' = replicas /\ Threads' = Threads
  BY DEF Tick, plan, Threads
<1>4. /\ leaving' \in [0..service -> Int]
      /\ leaving'[service] = InUse + Started - leaving[1]
      /\ \A i \in 0..(service - 1) : leaving'[i] = leaving[i + 1] - leaving[1]
  <2>1. leaving' = [i \in 0..service |->
           (IF i = service THEN InUse + Started ELSE leaving[i + 1]) - leaving[1]]
    BY DEF Tick
  <2>2. \A i \in 0..service :
          (IF i = service THEN InUse + Started ELSE leaving[i + 1]) - leaving[1] \in Int
    BY <1>1, <1>2
  <2> QED
    BY <1>1, <1>2, <2>1, <2>2
<1>5. waiting' = Min({RunAway, waiting + rate - Started})
  BY DEF Tick
<1>6. waiting' \in 0..RunAway /\ waiting' <= waiting + rate - Started
  <2>1. RunAway \in Nat /\ waiting + rate - Started \in Nat
    BY <1>1, <1>2, RunAwayAssumption
  <2> QED
    BY <1>5, <2>1, MinOfTwo
<1>7. ASSUME NEW i \in 0..service, NEW j \in 0..service, i <= j
      PROVE  leaving'[i] <= leaving'[j] /\ leaving'[i] \in 0..Threads
  <2>1. \A k, l \in 0..service : k <= l => leaving[k] <= leaving[l]
    BY DEF TypeOK
  <2>2. \A k \in 1..service : leaving[1] <= leaving[k] /\ leaving[k] <= InUse
    BY <1>1, <2>1 DEF InUse
  <2>3. Threads \in Nat /\ InUse \in Nat /\ leaving[1] \in Nat /\ Started \in Nat
    <3>1. PICK T \in Nat : T = Threads
      BY <1>1
    <3>2. PICK u \in Nat : u = InUse
      BY <1>1, <3>1
    <3> QED
      BY <1>2, <3>1, <3>2
  <2>4. PICK T, u, l, st \in Nat : T = Threads /\ u = InUse /\ l = leaving[1] /\ st = Started
    BY <2>3
  <2>5. u + st - l \in 0..T /\ u - l \in 0..(u + st - l)
    BY <1>1, <1>2, <2>4
  <2>6. CASE i = service
    <3>1. j = service
      BY <1>1, <1>7, <2>6
    <3>2. leaving'[i] = u + st - l /\ leaving'[j] = u + st - l
      BY <1>4, <2>6, <2>4, <3>1
    <3> QED
      BY <2>4, <2>5, <3>2
  <2>7. CASE i < service /\ j < service
    <3>1. i + 1 \in 1..service /\ j + 1 \in 1..service /\ i + 1 <= j + 1
      BY <1>1, <1>7, <2>7
    <3>2. /\ leaving[i + 1] <= leaving[j + 1] /\ leaving[1] <= leaving[i + 1]
          /\ leaving[i + 1] \in 0..T /\ leaving[j + 1] \in 0..T
      BY <1>1, <2>1, <2>2, <2>4, <3>1
    <3>3. i \in 0..(service - 1) /\ j \in 0..(service - 1)
      BY <1>1, <2>7
    <3>4. leaving'[i] = leaving[i + 1] - l /\ leaving'[j] = leaving[j + 1] - l
      BY <1>4, <2>4, <3>3
    <3>5. PICK x, y \in Nat : x = leaving[i + 1] /\ y = leaving[j + 1]
      BY <3>2
    <3>6. l <= x /\ x <= y /\ x <= T
      BY <2>4, <3>2, <3>5
    <3> QED
      BY <2>4, <3>4, <3>5, <3>6
  <2>8. CASE i < service /\ j = service
    <3>1. i + 1 \in 1..service
      BY <1>1, <2>8
    <3>2. PICK x \in Nat : x = leaving[i + 1] /\ l <= x /\ x <= u
      BY <1>1, <2>2, <2>4, <3>1
    <3>3. leaving'[i] = x - l /\ leaving'[j] = u + st - l
      BY <1>1, <1>4, <2>8, <2>4, <3>2
    <3>4. u <= T
      BY <1>1, <2>4
    <3> QED
      BY <2>4, <2>5, <3>2, <3>3, <3>4
  <2> QED
    BY <1>1, <1>7, <2>6, <2>7, <2>8
<1>8. leaving' \in [0..service -> 0..Threads]
  BY <1>1, <1>4, <1>7
<1>9. leaving'[0] = 0
  BY <1>1, <1>2, <1>4
<1>10. TypeOK'
  <2>1. service' \in ServiceTimes /\ rate' \in Rates /\ replicas' \in 1..MaxReplicas
    BY <1>3 DEF TypeOK
  <2> QED
    BY <1>3, <1>6, <1>7, <1>8, <1>9, <2>1 DEF TypeOK
<1> QED
  BY <1>3, <1>4, <1>6, <1>10 DEF InUse

\* What waited i ticks ago is what waited i - 1 ticks before the tick; and now
\* nothing waits, or the CPU takes what comes, or the threads are full of what
\* came in one service time.
LEMMA TickKeepsShort ==
  ASSUME QueueInv, Tick
  PROVE  RecentlyShort'
<1> SUFFICES ASSUME CapacityMeetsRate', NEW i \in 0..service'
             PROVE  WaitingBefore(i)' <= StallBound'
  BY DEF RecentlyShort
<1>1. PICK s, r, T, m, c, st \in Nat :
        /\ s = service /\ r = rate /\ T = Threads /\ m = MaxBacklog
        /\ c = replicas * CpuBound /\ st = Started
  BY PlanNumbers, StartedIsLeast, CapacityAssumption DEF QueueInv
<1>2. PICK w, u, l \in Nat : w = waiting /\ u = InUse /\ l = leaving[1]
  BY PlanNumbers, StartedIsLeast DEF QueueInv
<1>3. /\ service' = s /\ rate' = r /\ replicas' = replicas /\ Threads' = T
      /\ s >= 1
  BY <1>1, PlanNumbers DEF Tick, plan, Threads, QueueInv
<1>4. /\ waiting' \in Nat /\ waiting' <= w + r - st /\ InUse' = u + st - l
      /\ \A k \in 0..(s - 1) : leaving'[k] = leaving[k + 1] - l
  <2>1. /\ TypeOK' /\ waiting' <= waiting + rate - Started
        /\ InUse' = InUse + Started - leaving[1]
        /\ \A k \in 0..(service - 1) : leaving'[k] = leaving[k + 1] - leaving[1]
    BY TickTypes DEF QueueInv
  <2>2. waiting' \in 0..RunAway /\ RunAway \in Nat
    BY <2>1, RunAwayAssumption DEF TypeOK
  <2> QED
    BY <1>1, <1>2, <2>1, <2>2
<1>5. T >= r * s /\ c >= r
  BY <1>1, <1>3 DEF CapacityMeetsRate, Threads
<1>6. \A k \in 0..s : w - k * r + (u - leaving[s - k]) <= m + T
  <2>1. CapacityMeetsRate
    BY <1>1, <1>3 DEF CapacityMeetsRate
  <2> QED
    BY <1>1, <1>2, <2>1 DEF QueueInv, RecentlyShort, WaitingBefore, StallBound
<1>7. StallBound' = m + T
  BY <1>1, <1>3 DEF StallBound
<1>8. CASE i = 0
  <2>1. WaitingBefore(i)' = waiting'
    BY <1>3, <1>4, <1>8 DEF WaitingBefore, InUse
  <2>2. w <= m + T
    <3>1. 0 \in 0..s /\ w - 0 * r + (u - leaving[s - 0]) <= m + T
      BY <1>3, <1>6
    <3> QED
      BY <1>1, <1>2, <3>1 DEF InUse
  <2>3. st \in {w + r, T - (u - l), c}
    BY <1>1, <1>2, StartedIsLeast DEF QueueInv
  <2>4. CASE st = w + r
    BY <1>4, <1>7, <2>1, <2>4
  <2>5. CASE st = c
    BY <1>4, <1>5, <1>7, <2>1, <2>2, <2>5
  <2>6. CASE st = T - (u - l)
    <3>1. s - 1 \in 0..s /\ s - (s - 1) = 1
      BY <1>3
    <3>2. w - (s - 1) * r + (u - l) <= m + T
      BY <1>2, <1>6, <3>1
    <3>3. (s - 1) * r = r * s - r
      BY <1>3
    <3> QED
      BY <1>4, <1>5, <1>7, <2>1, <2>6, <3>2, <3>3
  <2> QED
    BY <2>3, <2>4, <2>5, <2>6
<1>9. CASE i # 0
  <2>1. PICK k \in 0..s : i = k + 1 /\ s - i \in 0..(s - 1) /\ (s - i) + 1 = s - k
    BY <1>3, <1>9
  <2>2. leaving'[s - i] = leaving[s - k] - l
    BY <1>4, <2>1
  <2>3. PICK x \in Nat : x = leaving[s - k]
    BY <1>1, <2>1, PlanNumbers DEF QueueInv
  <2>4. w - k * r + (u - x) <= m + T
    BY <1>6, <2>1, <2>3
  <2>5. WaitingBefore(i)' = waiting' - i * r + ((u + st - l) - (x - l))
    BY <1>3, <1>4, <2>2, <2>3 DEF WaitingBefore
  <2>6. i * r = k * r + r
    BY <2>1
  <2> QED
    BY <1>4, <1>7, <2>1, <2>4, <2>5, <2>6
<1> QED
  BY <1>8, <1>9

LEMMA QueueKeeps == QueueInv /\ [Tick]_vars => QueueInv'
<1>1. ASSUME QueueInv, Tick PROVE QueueInv'
  BY <1>1, TickTypes, TickKeepsShort DEF QueueInv
<1>2. ASSUME QueueInv, UNCHANGED vars PROVE QueueInv'
  BY <1>2 DEF QueueInv, vars, plan, TypeOK, RecentlyShort, CapacityMeetsRate,
              WaitingBefore, StallBound, Threads, InUse
<1> QED
  BY <1>1, <1>2

-----------------------------------------------------------------------------
\* The threads hold no more requests than there are threads, and none for longer
\* than the service time.
THEOREM PlanTypeCorrect == Spec => []TypeOK
<1>1. QueueInv => TypeOK
  BY DEF QueueInv
<1> QED
  BY <1>1, QueueStarts, QueueKeeps, PTL DEF Spec

\* replicas_needed() is the least sufficient count: a number of replicas is at
\* least that exactly if their threads and their CPU meet the rate.
THEOREM NeededIsLeast == Spec => [](replicas >= ReplicasNeeded <=> CapacityMeetsRate)
<1>1. QueueInv => (replicas >= ReplicasNeeded <=> CapacityMeetsRate)
  BY NeededIsEnough DEF QueueInv
<1> QED
  BY <1>1, QueueStarts, QueueKeeps, PTL DEF Spec

\* With the replicas the forecast asks for no queue gets longer than the backlog
\* of a stall and a request for each thread.
THEOREM EnoughReplicasKeepUp == Spec => []EnoughKeepUp
<1>1. QueueInv => EnoughKeepUp
  <2> SUFFICES ASSUME QueueInv, replicas >= ReplicasNeeded PROVE waiting < RunAway
    BY DEF EnoughKeepUp
  <2>1. CapacityMeetsRate
    BY NeededIsEnough DEF QueueInv
  <2>2. /\ service \in Nat /\ rate \in Nat /\ waiting \in Nat /\ InUse \in Nat
        /\ Threads \in Nat /\ MaxBacklog \in Nat /\ RunAway \in Nat
        /\ MaxReplicas * WorkersPerReplica \in Nat
    BY PlanNumbers, CapacityAssumption, RunAwayAssumption DEF QueueInv
  <2>3. WaitingBefore(0) = waiting
    BY <2>2 DEF WaitingBefore, InUse
  <2>4. waiting <= MaxBacklog + Threads
    BY <2>1, <2>2, <2>3 DEF QueueInv, RecentlyShort, StallBound
  <2>5. Threads <= MaxReplicas * WorkersPerReplica
    <3>1. /\ replicas \in Nat /\ MaxReplicas \in Nat /\ WorkersPerReplica \in Nat
          /\ replicas <= MaxReplicas
      BY PlanNumbers, CapacityAssumption DEF QueueInv
    <3> QED
      BY <3>1 DEF Threads
  <2> QED
    BY <2>2, <2>4, <2>5, RunAwayAssumption
<1> QED
  BY <1>1, QueueStarts, QueueKeeps, PTL DEF Spec
=============================================================================
