----------------------------- MODULE MemoryStore -----------------------------
(***************************************************************************)
(* The cache in memory-fallback mode (app/cache.py, class Cache without a  *)
(* Redis client): worker threads serve get_segment() calls through one     *)
(* _InMemoryStore, which has no lock.  A dict operation is one step, and   *)
(* so is a read of the clock.  Expiry times are kept as the time left.     *)
(***************************************************************************)
EXTENDS Integers, Functions

CONSTANTS
    Workers,   \* threads of the pool that serve /segment
    Segments,  \* segment ids requested
    Ttls       \* values of SEGMENT_TTL_SECONDS, in ticks

ASSUME StoreAssumption == Workers # {} /\ Segments # {} /\ Ttls \subseteq Int

VARIABLES
    ttl,    \* the setting of this process
    store,  \* _store: time left of the entries in the dict
    job     \* what each worker is doing

vars == <<ttl, store, job>>

\* A setting of 0 makes entries that never expire.
Expired(left) == ttl # 0 /\ left < 0
AgedPastExpiry(left) == IF ttl = 0 THEN left ELSE left - 1
Aged(left) == IF ttl = 0 \/ left < 0 THEN left ELSE left - 1
Fresh == {s \in DOMAIN store : ~Expired(store[s])}
Without(s) == Restrict(store, DOMAIN store \ {s})

Idle == [at |-> "idle", seg |-> CHOOSE s \in Segments : TRUE,
         left |-> 0, seen |-> FALSE]
Lefts == {-1, 0} \union UNION {{t} \union 0..t : t \in Ttls}

TypeOK ==
    /\ ttl \in Ttls
    /\ DOMAIN store \subseteq Segments /\ Range(store) \subseteq Lefts
    /\ job \in [Workers -> [at : {"idle", "clock", "pop", "origin", "set"},
                            seg : Segments, left : Lefts, seen : BOOLEAN]]

Init ==
    /\ ttl \in Ttls
    /\ store = [s \in {} |-> 0]
    /\ job = [w \in Workers |-> Idle]

At(w, step) == job[w].at = step
Go(w, step) == job' = [job EXCEPT ![w].at = step]

-----------------------------------------------------------------------------
\* get() looks the key up; `seen' remembers, for the properties, what it found.
Lookup(w, s) ==
    /\ At(w, "idle")
    /\ job' = [job EXCEPT ![w] =
          IF s \in DOMAIN store
          THEN [at |-> "clock", seg |-> s, left |-> store[s], seen |-> s \in Fresh]
          ELSE [at |-> "origin", seg |-> s, left |-> 0, seen |-> FALSE]]
    /\ UNCHANGED <<ttl, store>>

ReadClockUnchecked(w) ==
    /\ At(w, "clock")
    /\ Go(w, "idle")
    /\ UNCHANGED <<ttl, store>>
ReadClockWithoutNever(w) ==
    /\ At(w, "clock")
    /\ Go(w, IF job[w].left < 0 \/ ttl = 0 THEN "pop" ELSE "idle")
    /\ UNCHANGED <<ttl, store>>

\* An entry that has not expired is a hit and ends the request.
ReadClock(w) ==
    /\ At(w, "clock")
    /\ Go(w, IF Expired(job[w].left) THEN "pop" ELSE "idle")
    /\ UNCHANGED <<ttl, store>>

\* pop() removes whatever is stored under the key by now.
Pop(w) ==
    /\ At(w, "pop")
    /\ store' = Without(job[w].seg)
    /\ Go(w, "origin")
    /\ UNCHANGED ttl

\* The segment is fetched; set() reads the clock and then stores the entry.
FetchOrigin(w) ==
    /\ At(w, "origin")
    /\ job' = [job EXCEPT ![w] =
          [at |-> "set", seg |-> job[w].seg, left |-> ttl, seen |-> job[w].seen]]
    /\ UNCHANGED <<ttl, store>>

Set(w) ==
    /\ At(w, "set")
    /\ store' = [s \in DOMAIN store \union {job[w].seg} |->
                    IF s = job[w].seg THEN job[w].left ELSE store[s]]
    /\ Go(w, "idle")
    /\ UNCHANGED ttl

\* flush() of /admin/chaos.
Flush ==
    /\ store' = [s \in {} |-> 0]
    /\ UNCHANGED <<ttl, job>>

\* Time passes for the entries and for what workers hold of them.
Tick ==
    /\ store' = [s \in DOMAIN store |-> Aged(store[s])]
    /\ job' = [w \in Workers |-> [job[w] EXCEPT !.left = Aged(@)]]
    /\ UNCHANGED ttl

Serve(w) == ReadClock(w) \/ Pop(w) \/ FetchOrigin(w) \/ Set(w)

Next ==
    \/ \E w \in Workers : Serve(w) \/ \E s \in Segments : Lookup(w, s)
    \/ Flush \/ Tick

\* Workers are scheduled and clients keep asking for every segment; nothing is
\* assumed of time and of flushes.
Spec ==
    /\ Init /\ [][Next]_vars
    /\ \A w \in Workers : WF_vars(Serve(w))
    /\ \A s \in Segments : SF_vars(\E w \in Workers : Lookup(w, s))

-----------------------------------------------------------------------------
\* Whatever is popped, set and flushed between its steps, a read never serves an
\* entry that had expired or was gone when it looked, and only a fetched segment
\* is stored.
PhaseIn(j) == CASE j.at = "idle" -> "idle" [] j.at = "clock" -> "looking" [] OTHER -> "missed"
Abstract == INSTANCE SegmentStore WITH
    present <- Fresh, phase <- [w \in Workers |-> PhaseIn(job[w])],
    seg <- [w \in Workers |-> job[w].seg], seen <- [w \in Workers |-> job[w].seen]
OnlyForgets == Abstract!Spec

\* A reader that saw an entry expired may remove a fresh one that was stored in
\* the meantime, but each does so once: when time and flushes leave them alone,
\* the workers run out of stale readers and every segment is cached for good.
\* Where entries expire, this bounds the losses between two ticks.
Undisturbed == <>[][~Tick /\ ~Flush]_vars
StaleReadersRunOut ==
    Undisturbed /\ ttl >= 0 => \A s \in Segments : <>[](s \in Fresh)
=============================================================================
