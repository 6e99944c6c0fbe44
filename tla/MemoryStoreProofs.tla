-------------------------- MODULE MemoryStoreProofs --------------------------
(***************************************************************************)
(* For any workers, segments and TTLs, the unlocked in-memory store is a   *)
(* store that only forgets.                                                *)
(***************************************************************************)
EXTENDS MemoryStore, TLAPS

\* What the workers are doing, as the abstract store sees it.
Phase == [w \in Workers |-> PhaseIn(job[w])]
Seg == [w \in Workers |-> job[w].seg]
Seen == [w \in Workers |-> job[w].seen]

\* A worker that finds its entry unexpired saw it in the store: the entry it
\* holds ages no slower than the one it copied.
HoldsWhatItSaw ==
    \A w \in Workers : At(w, "clock") /\ ~Expired(job[w].left) => job[w].seen
StoreInv == TypeOK /\ HoldsWhatItSaw

Jobs == [at : {"idle", "clock", "pop", "origin", "set"},
         seg : Segments, left : Lefts, seen : BOOLEAN]

LEMMA IdleIsAJob == Idle \in Jobs /\ Idle.seen = FALSE
<1>1. (CHOOSE s \in Segments : TRUE) \in Segments
  BY StoreAssumption
<1>2. 0 \in Lefts
  BY DEF Lefts
<1> QED
  BY <1>1, <1>2 DEF Idle, Jobs

\* Ages stay in the set of ages, down to expired.
LEMMA AgingIsClosed ==
  ASSUME TypeOK, NEW n \in Lefts
  PROVE  /\ n \in Int
         /\ Aged(n) \in Lefts
         /\ ~Expired(Aged(n)) => ~Expired(n)
<1>1. /\ \A t \in Ttls : t \in Int
      /\ -1 \in Lefts /\ 0 \in Lefts
  BY StoreAssumption DEF Lefts
<1>2. CASE n \in {-1, 0}
  BY <1>1, <1>2 DEF Aged, Expired
<1>3. CASE \E t \in Ttls : n \in {t} \union 0..t
  <2> PICK t \in Ttls : n \in {t} \union 0..t
    BY <1>3
  <2>1. t \in Int /\ n \in Int
    BY <1>1
  <2>2. CASE n < 0 \/ ttl = 0
    BY <2>1, <2>2 DEF Aged, Expired
  <2>3. CASE n >= 0 /\ ttl # 0
    <3>1. n - 1 \in {-1} \union 0..t
      BY <2>1, <2>3
    <3>2. n - 1 \in Lefts
      BY <3>1, <1>1 DEF Lefts
    <3> QED
      BY <2>1, <2>3, <3>2 DEF Aged, Expired
  <2> QED
    BY <2>1, <2>2, <2>3
<1> QED
  BY <1>2, <1>3 DEF Lefts

\* It is enough to look at the job that changes.
LEMMA OneJobChanges ==
  ASSUME StoreInv, NEW w \in Workers, NEW j \in Jobs,
         job' = [job EXCEPT ![w] = j], UNCHANGED ttl,
         j.at = "clock" /\ ~Expired(j.left) => j.seen
  PROVE  /\ job' \in [Workers -> Jobs]
         /\ HoldsWhatItSaw'
         /\ Phase' = [Phase EXCEPT ![w] = PhaseIn(j)]
         /\ Seg' = [Seg EXCEPT ![w] = j.seg]
         /\ Seen' = [Seen EXCEPT ![w] = j.seen]
<1>1. job \in [Workers -> Jobs]
  BY DEF StoreInv, TypeOK, Jobs
<1>2. /\ job' \in [Workers -> Jobs] /\ job'[w] = j
      /\ \A v \in Workers : v # w => job'[v] = job[v]
  BY <1>1
<1>3. HoldsWhatItSaw'
  BY <1>2 DEF StoreInv, HoldsWhatItSaw, At, Expired
<1>4. Phase' = [Phase EXCEPT ![w] = PhaseIn(j)]
  <2>1. Phase' = [v \in Workers |-> PhaseIn(job'[v])]
    BY DEF Phase, PhaseIn
  <2>2. \A v \in Workers : PhaseIn(job'[v]) = IF v = w THEN PhaseIn(j) ELSE PhaseIn(job[v])
    BY <1>2
  <2> QED
    BY <2>1, <2>2 DEF Phase
<1>5. /\ Seg' = [Seg EXCEPT ![w] = j.seg]
      /\ Seen' = [Seen EXCEPT ![w] = j.seen]
  BY <1>2 DEF Seg, Seen
<1> QED
  BY <1>2, <1>3, <1>4, <1>5

\* The same, when only where the worker stands changes.
LEMMA WorkerMovesOn ==
  ASSUME StoreInv, NEW w \in Workers, Go(w, "idle") \/ Go(w, "pop") \/ Go(w, "origin"),
         UNCHANGED ttl
  PROVE  /\ job' \in [Workers -> Jobs]
         /\ HoldsWhatItSaw'
         /\ Phase' = [Phase EXCEPT ![w] = PhaseIn(job'[w])]
         /\ Seg' = Seg /\ Seen' = Seen
         /\ \E step \in {"idle", "pop", "origin"} : Go(w, step) /\ job'[w].at = step
<1>1. job \in [Workers -> Jobs]
  BY DEF StoreInv, TypeOK, Jobs
<1>2. PICK step \in {"idle", "pop", "origin"} : Go(w, step)
  OBVIOUS
<1>3. PICK j \in Jobs : j = [job[w] EXCEPT !.at = step]
  BY <1>1 DEF Jobs
<1>4. job' = [job EXCEPT ![w] = j]
  BY <1>1, <1>2, <1>3 DEF Go
<1>5. j.at = step /\ j.seg = job[w].seg /\ j.seen = job[w].seen
  BY <1>1, <1>3 DEF Jobs
<1>6. /\ job' \in [Workers -> Jobs] /\ HoldsWhatItSaw'
      /\ Phase' = [Phase EXCEPT ![w] = PhaseIn(j)]
      /\ Seg' = [Seg EXCEPT ![w] = j.seg]
      /\ Seen' = [Seen EXCEPT ![w] = j.seen]
  BY <1>4, <1>5, OneJobChanges
<1>7. job'[w] = j
  BY <1>1, <1>4
<1>8. Seg' = Seg /\ Seen' = Seen
  BY <1>5, <1>6 DEF Seg, Seen
<1> QED
  BY <1>2, <1>5, <1>6, <1>7, <1>8

-----------------------------------------------------------------------------
(***************************************************************************)
(* Each step keeps the invariant and is a step of the abstract store, or a *)
(* stutter.                                                                *)
(***************************************************************************)
StepsAbstractly == StoreInv' /\ [Abstract!Next]_(Abstract!vars)

\* A step of one worker that leaves the store alone.
LEMMA StoreUntouched ==
  ASSUME StoreInv, UNCHANGED <<ttl, store>>, job' \in [Workers -> Jobs], HoldsWhatItSaw'
  PROVE  StoreInv' /\ Fresh' = Fresh
BY DEF StoreInv, TypeOK, Jobs, Fresh, Expired

LEMMA LookupSteps ==
  ASSUME StoreInv, NEW w \in Workers, NEW s \in Segments, Lookup(w, s)
  PROVE  StepsAbstractly
<1> DEFINE found == s \in DOMAIN store
           goes == IF found THEN "looking" ELSE "missed"
<1>1. PICK j \in Jobs :
        /\ job' = [job EXCEPT ![w] = j]
        /\ j.seg = s /\ PhaseIn(j) = goes
        /\ j.seen = (s \in Fresh)
        /\ j.at = "clock" /\ ~Expired(j.left) => j.seen
  <2>1. CASE found
    <3>1. store[s] \in Lefts
      BY <2>1 DEF StoreInv, TypeOK, Range
    <3>2. PICK j : j = [at |-> "clock", seg |-> s, left |-> store[s], seen |-> s \in Fresh]
      OBVIOUS
    <3>3. j \in Jobs /\ PhaseIn(j) = "looking"
      BY <3>1, <3>2 DEF Jobs, PhaseIn
    <3>4. ~Expired(j.left) => j.seen
      BY <2>1, <3>2 DEF Fresh
    <3> QED
      BY <2>1, <3>2, <3>3, <3>4 DEF Lookup
  <2>2. CASE ~found
    <3>1. PICK j : j = [at |-> "origin", seg |-> s, left |-> 0, seen |-> FALSE]
      OBVIOUS
    <3>2. j \in Jobs /\ PhaseIn(j) = "missed"
      BY <3>1 DEF Jobs, PhaseIn, Lefts
    <3>3. job' = [job EXCEPT ![w] = j]
      BY <2>2, <3>1 DEF Lookup
    <3>4. j.at = "origin" /\ j.seg = s /\ j.seen = FALSE
      BY <3>1
    <3>5. (s \in Fresh) = FALSE
      BY <2>2 DEF Fresh
    <3>6. j.seen = (s \in Fresh)
      BY <3>4, <3>5, Zenon
    <3> QED
      BY <2>2, <3>2, <3>3, <3>4, <3>6
  <2> QED
    BY <2>1, <2>2
<1>2. UNCHANGED <<ttl, store>> /\ job[w].at = "idle"
  BY DEF Lookup, At
<1>3. /\ job' \in [Workers -> Jobs] /\ HoldsWhatItSaw'
      /\ Phase' = [Phase EXCEPT ![w] = goes]
      /\ Seg' = [Seg EXCEPT ![w] = s]
      /\ Seen' = [Seen EXCEPT ![w] = (s \in Fresh)]
  <2>1. ttl' = ttl
    BY <1>2
  <2>2. /\ job' \in [Workers -> Jobs] /\ HoldsWhatItSaw'
        /\ Phase' = [Phase EXCEPT ![w] = PhaseIn(j)]
        /\ Seg' = [Seg EXCEPT ![w] = j.seg]
        /\ Seen' = [Seen EXCEPT ![w] = j.seen]
    BY <1>1, <2>1, OneJobChanges
  <2> QED
    BY <1>1, <2>2
<1>4. StoreInv' /\ Fresh' = Fresh
  BY <1>2, <1>3, StoreUntouched
<1>5. Phase[w] = "idle"
  BY <1>2 DEF Phase, PhaseIn
<1>6. Abstract!Look(w, s)
  BY <1>3, <1>4, <1>5 DEF Abstract!Look, Abstract!Goes, Phase, Seg, Seen
<1> QED
  BY <1>4, <1>6 DEF StepsAbstractly, Abstract!Next

LEMMA ReadClockSteps ==
  ASSUME StoreInv, NEW w \in Workers, ReadClock(w)
  PROVE  StepsAbstractly
<1>1. /\ job[w].at = "clock" /\ UNCHANGED <<ttl, store>>
      /\ Go(w, IF Expired(job[w].left) THEN "pop" ELSE "idle")
  BY DEF ReadClock, At
<1>2. /\ job' \in [Workers -> Jobs] /\ HoldsWhatItSaw'
      /\ Phase' = [Phase EXCEPT ![w] = PhaseIn(job'[w])]
      /\ Seg' = Seg /\ Seen' = Seen
  BY <1>1, WorkerMovesOn
<1>3. StoreInv' /\ Fresh' = Fresh
  BY <1>1, <1>2, StoreUntouched
<1>4. Phase[w] = "looking"
  BY <1>1 DEF Phase, PhaseIn
<1>5. job'[w].at = IF Expired(job[w].left) THEN "pop" ELSE "idle"
  BY <1>1 DEF StoreInv, TypeOK, Go
<1>6. CASE Expired(job[w].left)
  <2>1. Abstract!Miss(w)
    BY <1>2, <1>3, <1>4, <1>5, <1>6
    DEF Abstract!Miss, Abstract!Goes, Phase, Seg, Seen, PhaseIn
  <2> QED
    BY <1>3, <2>1 DEF StepsAbstractly, Abstract!Next
<1>7. CASE ~Expired(job[w].left)
  <2>1. Seen[w]
    BY <1>1, <1>7 DEF StoreInv, HoldsWhatItSaw, At, Seen
  <2>2. Abstract!Hit(w)
    BY <1>2, <1>3, <1>4, <1>5, <1>7, <2>1
    DEF Abstract!Hit, Abstract!Goes, Phase, Seg, Seen, PhaseIn
  <2> QED
    BY <1>3, <2>2 DEF StepsAbstractly, Abstract!Next
<1> QED
  BY <1>6, <1>7

LEMMA PopSteps ==
  ASSUME StoreInv, NEW w \in Workers, Pop(w)
  PROVE  StepsAbstractly
<1>1. /\ job[w].at = "pop" /\ UNCHANGED ttl /\ Go(w, "origin")
      /\ store' = Without(job[w].seg)
  BY DEF Pop, At
<1>2. /\ job' \in [Workers -> Jobs] /\ HoldsWhatItSaw'
      /\ Phase' = [Phase EXCEPT ![w] = PhaseIn(job'[w])]
      /\ Seg' = Seg /\ Seen' = Seen
  BY <1>1, WorkerMovesOn
<1>3. /\ DOMAIN store' \subseteq DOMAIN store
      /\ \A s \in DOMAIN store' : store'[s] = store[s]
  BY <1>1 DEF Without, Restrict
<1>4. StoreInv'
  BY <1>1, <1>2, <1>3 DEF StoreInv, TypeOK, Jobs, Range
<1>5. Fresh' \subseteq Fresh
  BY <1>1, <1>3 DEF Fresh, Expired
<1>6. Phase' = Phase
  <2>1. job'[w].at = "origin"
    BY <1>1 DEF StoreInv, TypeOK, Go
  <2> QED
    BY <1>1, <1>2, <2>1 DEF Phase, PhaseIn
<1>7. Abstract!Forget
  BY <1>2, <1>5, <1>6 DEF Abstract!Forget, Phase, Seg, Seen
<1> QED
  BY <1>4, <1>7 DEF StepsAbstractly, Abstract!Next

LEMMA FetchOriginSteps ==
  ASSUME StoreInv, NEW w \in Workers, FetchOrigin(w)
  PROVE  StepsAbstractly
<1>1. job[w].at = "origin" /\ UNCHANGED <<ttl, store>>
  BY DEF FetchOrigin, At
<1>2. PICK j : j = [at |-> "set", seg |-> job[w].seg, left |-> ttl, seen |-> job[w].seen]
  OBVIOUS
<1>3. job \in [Workers -> Jobs] /\ ttl \in Lefts
  BY DEF StoreInv, TypeOK, Jobs, Lefts
<1>4. j \in Jobs /\ job' = [job EXCEPT ![w] = j]
  BY <1>2, <1>3 DEF FetchOrigin, Jobs
<1>5. /\ job' \in [Workers -> Jobs] /\ HoldsWhatItSaw'
      /\ Phase' = [Phase EXCEPT ![w] = PhaseIn(j)]
      /\ Seg' = [Seg EXCEPT ![w] = j.seg]
      /\ Seen' = [Seen EXCEPT ![w] = j.seen]
  BY <1>1, <1>2, <1>4, OneJobChanges
<1>6. StoreInv' /\ Fresh' = Fresh
  BY <1>1, <1>5, StoreUntouched
<1>7. Phase' = Phase /\ Seg' = Seg /\ Seen' = Seen
  BY <1>1, <1>2, <1>5 DEF Phase, Seg, Seen, PhaseIn
<1> QED
  BY <1>6, <1>7 DEF StepsAbstractly, Abstract!vars, Phase, Seg, Seen

LEMMA SetSteps ==
  ASSUME StoreInv, NEW w \in Workers, Set(w)
  PROVE  StepsAbstractly
<1>1. /\ job[w].at = "set" /\ UNCHANGED ttl /\ Go(w, "idle")
      /\ store' = [s \in DOMAIN store \union {job[w].seg} |->
                      IF s = job[w].seg THEN job[w].left ELSE store[s]]
  BY DEF Set, At
<1>2. /\ job' \in [Workers -> Jobs] /\ HoldsWhatItSaw'
      /\ Phase' = [Phase EXCEPT ![w] = PhaseIn(job'[w])]
      /\ Seg' = Seg /\ Seen' = Seen
  BY <1>1, WorkerMovesOn
<1>3. job[w].seg \in Segments /\ job[w].left \in Lefts
  BY DEF StoreInv, TypeOK
<1>4. StoreInv'
  BY <1>1, <1>2, <1>3 DEF StoreInv, TypeOK, Jobs, Range
<1>5. Fresh' \subseteq Fresh \union {Seg[w]}
  BY <1>1 DEF Fresh, Expired, Seg
<1>6. Phase[w] = "missed" /\ Phase' = [Phase EXCEPT ![w] = "idle"]
  <2>1. job'[w].at = "idle"
    BY <1>1 DEF StoreInv, TypeOK, Go
  <2> QED
    BY <1>1, <1>2, <2>1 DEF Phase, PhaseIn
<1>7. Abstract!Keep(w)
  BY <1>2, <1>5, <1>6 DEF Abstract!Keep, Abstract!Goes, Phase, Seg, Seen
<1> QED
  BY <1>4, <1>7 DEF StepsAbstractly, Abstract!Next

LEMMA FlushSteps ==
  ASSUME StoreInv, Flush
  PROVE  StepsAbstractly
<1>1. StoreInv'
  BY DEF StoreInv, TypeOK, HoldsWhatItSaw, At, Expired, Flush, Range
<1>2. Fresh' = {}
  BY DEF Fresh, Flush
<1>3. Abstract!Forget
  BY <1>2 DEF Abstract!Forget, Flush, PhaseIn
<1> QED
  BY <1>1, <1>3 DEF StepsAbstractly, Abstract!Next

LEMMA TickSteps ==
  ASSUME StoreInv, Tick
  PROVE  StepsAbstractly
<1>1. /\ UNCHANGED ttl
      /\ store' = [s \in DOMAIN store |-> Aged(store[s])]
  BY DEF Tick
<1>2. job \in [Workers -> Jobs]
  BY DEF StoreInv, TypeOK, Jobs
<1>3. /\ DOMAIN job' = Workers /\ job' = [w \in Workers |-> job'[w]]
      /\ \A w \in Workers :
            job'[w] = [at |-> job[w].at, seg |-> job[w].seg,
                       left |-> Aged(job[w].left), seen |-> job[w].seen]
  BY <1>2 DEF Tick, Jobs
<1>4. \A w \in Workers : job[w].left \in Lefts
  BY <1>2 DEF Jobs
<1>5. \A s \in DOMAIN store : store[s] \in Lefts
  BY DEF StoreInv, TypeOK, Range
<1>6. \A n \in Lefts : Aged(n) \in Lefts /\ (~Expired(Aged(n)) => ~Expired(n))
  BY AgingIsClosed DEF StoreInv
<1>7. job' \in [Workers -> Jobs]
  <2>1. \A w \in Workers : job'[w] \in Jobs
    BY <1>2, <1>3, <1>4, <1>6 DEF Jobs
  <2> QED
    BY <1>3, <2>1
<1>8. DOMAIN store' = DOMAIN store /\ Range(store') \subseteq Lefts
  BY <1>1, <1>5, <1>6 DEF Range
<1>9. HoldsWhatItSaw'
  BY <1>1, <1>3, <1>4, <1>6 DEF StoreInv, HoldsWhatItSaw, At, Expired
<1>10. StoreInv'
  BY <1>1, <1>7, <1>8, <1>9 DEF StoreInv, TypeOK, Jobs
<1>11. Fresh' \subseteq Fresh
  BY <1>1, <1>5, <1>6 DEF Fresh, Expired
<1>12. Phase' = Phase /\ Seg' = Seg /\ Seen' = Seen
  <2>1. \A w \in Workers : PhaseIn(job'[w]) = PhaseIn(job[w])
    BY <1>3 DEF PhaseIn
  <2> QED
    BY <1>3, <2>1 DEF Phase, Seg, Seen
<1>13. Abstract!Forget
  BY <1>11, <1>12 DEF Abstract!Forget, Phase, Seg, Seen
<1> QED
  BY <1>10, <1>13 DEF StepsAbstractly, Abstract!Next

LEMMA StoreStarts == Init => StoreInv /\ Abstract!Init
<1> SUFFICES ASSUME Init PROVE StoreInv /\ Abstract!Init
  OBVIOUS
<1>1. DOMAIN store = {} /\ job = [w \in Workers |-> Idle] /\ ttl \in Ttls
  BY DEF Init
<1>2. StoreInv
  BY <1>1, IdleIsAJob DEF StoreInv, TypeOK, HoldsWhatItSaw, At, Idle, Jobs, Range
<1>3. Fresh = {}
  BY <1>1 DEF Fresh
<1>4. \A w \in Workers : PhaseIn(job[w]) = "idle" /\ job[w].seg \in Segments /\ job[w].seen = FALSE
  BY <1>1, IdleIsAJob DEF PhaseIn, Idle, Jobs
<1> QED
  BY <1>2, <1>3, <1>4 DEF Abstract!Init

LEMMA StoreSteps == StoreInv /\ [Next]_vars => StepsAbstractly
<1> SUFFICES ASSUME StoreInv, [Next]_vars PROVE StepsAbstractly
  OBVIOUS
<1>1. ASSUME NEW w \in Workers, Serve(w) PROVE StepsAbstractly
  BY <1>1, ReadClockSteps, PopSteps, FetchOriginSteps, SetSteps DEF Serve
<1>2. ASSUME UNCHANGED vars PROVE StepsAbstractly
  <2>1. StoreInv'
    BY <1>2 DEF vars, StoreInv, TypeOK, HoldsWhatItSaw, At, Expired
  <2>2. UNCHANGED Abstract!vars
    BY <1>2 DEF vars, Abstract!vars, Fresh, Expired, PhaseIn
  <2> QED
    BY <2>1, <2>2 DEF StepsAbstractly
<1> QED
  BY <1>1, <1>2, LookupSteps, FlushSteps, TickSteps DEF Next

\* The store keeps its types: ages stop at expired, and nobody holds or stores
\* anything else, whatever the TTL.
THEOREM StoreTypeCorrect == Spec => []TypeOK
<1>1. StoreInv /\ [Next]_vars => StoreInv'
  BY StoreSteps DEF StepsAbstractly
<1>2. StoreInv => TypeOK
  BY DEF StoreInv
<1> QED
  BY <1>1, <1>2, StoreStarts, PTL DEF Spec

\* However workers, flushes and time interleave on the unlocked dict, no read
\* serves an entry that had expired or was gone when it looked, and nothing but
\* a fetched segment is stored: the store implements SegmentStore.
THEOREM StoreOnlyForgets == Spec => OnlyForgets
<1>1. StoreInv /\ [Next]_vars => StoreInv' /\ [Abstract!Next]_(Abstract!vars)
  BY StoreSteps DEF StepsAbstractly
<1> QED
  BY <1>1, StoreStarts, PTL DEF Spec, OnlyForgets, Abstract!Spec
=============================================================================
