----------------------------- MODULE ChaosLever -----------------------------
(***************************************************************************)
(* The runtime fault lever: app/chaos.py and POST /admin/chaos of          *)
(* app/main.py.  The endpoint is synchronous, so its requests run on       *)
(* several threads, and nothing locks the shared ChaosState.  CPython (the *)
(* image runs 3.12) changes threads at calls, and there is one between any *)
(* two accesses of update(), clamp() and publish_metrics(): each field is  *)
(* assigned in a step of its own, and clamped and published in two, one    *)
(* that reads it and one that writes.                                      *)
(*                                                                         *)
(* A request runs a program of such instructions.  Fields are integers: an *)
(* error rate is a percentage, a bypass is 0 or 1.                         *)
(***************************************************************************)
EXTENDS Integers, Sequences

CONSTANTS
    Admins,       \* threads that serve /admin/chaos
    Updates,      \* bodies posted: a value or None for each field
    None,         \* a field the body does not give
    ChaosEnabled  \* CHAOS_ENABLED

FieldNames == {"latency_seconds", "error_rate", "cache_bypass"}

ASSUME UpdatesAssumption ==
    /\ None \notin Int
    /\ Updates \subseteq [FieldNames -> Int \union {None}]
    /\ \A u \in Updates : u["cache_bypass"] \in {0, 1, None}
ASSUME ChaosEnabledAssumption == ChaosEnabled \in BOOLEAN

VARIABLES
    chaos,    \* chaos.state
    gauges,   \* the chaos_* gauges
    post      \* each admin's request: where it is in its program, the update
              \* it carries, and the value it read last

leverVars == <<chaos, gauges, post>>

AllOff == [f \in FieldNames |-> 0]
NoPost == [pc |-> 0, update |-> AllOff, loaded |-> 0]

LeverInit ==
    /\ chaos = AllOff
    /\ gauges = AllOff
    /\ post = [a \in Admins |-> NoPost]

\* clamp(): what a value of each field is forced into.
Clamp(f, v) ==
    CASE f = "latency_seconds" /\ v < 0 -> 0
      [] f = "error_rate" /\ v < 0      -> 0
      [] f = "error_rate" /\ v > 100    -> 100
      [] OTHER                          -> v

\* update(): assign what is given, clamp() every field, publish_metrics().
ClampFirst ==
    << <<"read", "latency_seconds">>, <<"clamp", "latency_seconds">>,
       <<"read", "error_rate">>,      <<"clamp", "error_rate">>,
       <<"read", "cache_bypass">>,    <<"clamp", "cache_bypass">>,
       <<"assign", "latency_seconds">>, <<"assign", "error_rate">>,
       <<"assign", "cache_bypass">>,
       <<"read", "latency_seconds">>, <<"publish", "latency_seconds">>,
       <<"read", "error_rate">>,      <<"publish", "error_rate">>,
       <<"read", "cache_bypass">>,    <<"publish", "cache_bypass">> >>
Program ==
    << <<"assign", "latency_seconds">>, <<"assign", "error_rate">>,
       <<"assign", "cache_bypass">>,
       <<"read", "latency_seconds">>, <<"clamp", "latency_seconds">>,
       <<"read", "error_rate">>,      <<"clamp", "error_rate">>,
       <<"read", "cache_bypass">>,    <<"clamp", "cache_bypass">>,
       <<"read", "latency_seconds">>, <<"publish", "latency_seconds">>,
       <<"read", "error_rate">>,      <<"publish", "error_rate">>,
       <<"read", "cache_bypass">>,    <<"publish", "cache_bypass">> >>
PublishAfterLatency == 12
PublishPart == 10   \* where publish_metrics() starts

Resting(a) == post[a].pc = 0
Doing(a, do) == ~Resting(a) /\ Program[post[a].pc][1] = do
Field(a) == Program[post[a].pc][2]

\* The request goes on with what it has read, or is answered.
Advance(a, value) ==
    post' = [post EXCEPT ![a] =
        IF post[a].pc = Len(Program) THEN NoPost
        ELSE [pc |-> post[a].pc + 1, update |-> post[a].update, loaded |-> value]]

-----------------------------------------------------------------------------
PostUpdate(a, u) ==
    /\ ChaosEnabled
    /\ Resting(a)
    /\ post' = [post EXCEPT ![a] = [pc |-> 1, update |-> u, loaded |-> 0]]
    /\ UNCHANGED <<chaos, gauges>>

\* With reset set the rest of the body is ignored.  reset() sets every field,
\* with no call in between, and publishes; it has no need to clamp.
PostReset(a) ==
    /\ ChaosEnabled
    /\ Resting(a)
    /\ post' = [post EXCEPT ![a] = [NoPost EXCEPT !.pc = PublishPart]]
    /\ chaos' = AllOff
    /\ UNCHANGED gauges

AssignNone(a) ==
    /\ Doing(a, "assign")
    /\ chaos' = [chaos EXCEPT ![Field(a)] = post[a].update[Field(a)]]
    /\ Advance(a, 0)
    /\ UNCHANGED gauges
Assign(a) ==
    /\ Doing(a, "assign")
    /\ LET given == post[a].update[Field(a)] IN
       chaos' = IF given = None THEN chaos ELSE [chaos EXCEPT ![Field(a)] = given]
    /\ Advance(a, 0)
    /\ UNCHANGED gauges

Read(a) ==
    /\ Doing(a, "read")
    /\ Advance(a, chaos[Field(a)])
    /\ UNCHANGED <<chaos, gauges>>

ClampField(a) ==
    /\ Doing(a, "clamp")
    /\ chaos' = [chaos EXCEPT ![Field(a)] = Clamp(Field(a), post[a].loaded)]
    /\ Advance(a, 0)
    /\ UNCHANGED gauges

PublishField(a) ==
    /\ Doing(a, "publish")
    /\ gauges' = [gauges EXCEPT ![Field(a)] = post[a].loaded]
    /\ Advance(a, 0)
    /\ UNCHANGED chaos

Work(a) == Assign(a) \/ Read(a) \/ ClampField(a) \/ PublishField(a)

LeverNext ==
    \E a \in Admins : PostReset(a) \/ Work(a) \/ \E u \in Updates : PostUpdate(a, u)

LeverSpec == LeverInit /\ [][LeverNext]_leverVars
             /\ \A a \in Admins : WF_leverVars(Work(a))

-----------------------------------------------------------------------------
LeverTypeOK ==
    /\ chaos \in [FieldNames -> Int]
    /\ gauges \in [FieldNames -> Int]
    /\ post \in [Admins -> [pc : 0..Len(Program), loaded : Int,
                            update : [FieldNames -> Int \union {None}]]]

LeverAtRest == \A a \in Admins : Resting(a)

\* However requests interleave, once they are done no fault is left outside the
\* range that clamp() allows: a value one request has read cannot bring back
\* what another has clamped.
InRangeAtRest == LeverAtRest => \A f \in FieldNames : chaos[f] = Clamp(f, chaos[f])

\* The gauges show the current faults once the requests are done, provided that
\* one operator posts at a time.
GaugesAreCurrent == LeverAtRest => gauges = chaos

\* A request changes a field that it does not give only to clamp it: a fault in
\* range is left as it is.  The docstring of update(): a partial dict.
WorkedOn(f) == \E a \in Admins : post'[a] # post[a] /\ post[a].update[f] # None
PartialUpdate ==
    [][\A f \in FieldNames :
          chaos'[f] # chaos[f] => WorkedOn(f) \/ chaos[f] # Clamp(f, chaos[f])]_leverVars
=============================================================================
