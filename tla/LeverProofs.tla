---------------------------- MODULE LeverProofs ----------------------------
(***************************************************************************)
(* For any number of concurrent /admin/chaos requests and any updates, no  *)
(* fault stays out of the range of clamp() once the requests are done.     *)
(*                                                                         *)
(* A request that has clamped a field may have read it before another one  *)
(* assigned it, so "clamped" is nothing one request can keep to itself.    *)
(* The inductive invariant says who repairs a value: an out-of-range field *)
(* has some request that has not clamped that field yet.                   *)
(***************************************************************************)
EXTENDS ChaosLever, TLAPS

\* Where the program clamps a field.
ClampPlace == [f \in FieldNames |->
    IF f = "latency_seconds" THEN 5 ELSE IF f = "error_rate" THEN 7 ELSE 9]

OutOfRange(f) == chaos[f] # Clamp(f, chaos[f])
Pending(a, f) == post[a].pc \in 1..ClampPlace[f]
ClampComes ==
    \A f \in FieldNames : OutOfRange(f) => \E a \in Admins : Pending(a, f)

LeverInv == LeverTypeOK /\ ClampComes

-----------------------------------------------------------------------------
\* The program has fifteen steps, each on a field; it assigns a field before it
\* clamps it, and clamps it at its place.  update() of app/chaos.py.
LEMMA ProgramShape ==
    /\ Len(Program) = 15
    /\ \A i \in 1..15 :
          /\ Program[i][2] \in FieldNames
          /\ Program[i][1] = "assign" => i + 1 \in 1..ClampPlace[Program[i][2]]
          /\ Program[i][1] = "clamp" => ClampPlace[Program[i][2]] = i
          /\ \A f \in FieldNames :
                ClampPlace[f] = i => Program[i] = <<"clamp", f>>
  <1>1. \A i \in 1..15 :
           i \in {1, 2, 3, 4, 5, 6, 7, 8, 9, 10, 11, 12, 13, 14, 15}
    OBVIOUS
  <1>2. Len(Program) = 15
    BY DEF Program
  <1>3. ASSUME NEW i \in 1..15
        PROVE  /\ Program[i][2] \in FieldNames
               /\ Program[i][1] = "assign" => i + 1 \in 1..ClampPlace[Program[i][2]]
               /\ Program[i][1] = "clamp" => ClampPlace[Program[i][2]] = i
               /\ \A f \in FieldNames :
                     ClampPlace[f] = i => Program[i] = <<"clamp", f>>
    BY <1>1 DEF Program, FieldNames, ClampPlace
  <1> QED
    BY <1>2, <1>3

\* clamp() puts an integer in range, and leaves it there when it is.
LEMMA ClampInRange ==
    ASSUME NEW f \in FieldNames, NEW v \in Int
    PROVE  Clamp(f, v) \in Int /\ Clamp(f, Clamp(f, v)) = Clamp(f, v)
  BY DEF Clamp, FieldNames

LEMMA LeverStarts == LeverInit => LeverInv
  <1> SUFFICES ASSUME LeverInit PROVE LeverInv
    OBVIOUS
  <1>1. LeverTypeOK
    BY ProgramShape DEF LeverInit, LeverTypeOK, AllOff, NoPost
  <1>2. ClampComes
    BY DEF LeverInit, ClampComes, OutOfRange, AllOff, Clamp
  <1> QED
    BY <1>1, <1>2 DEF LeverInv

\* A request that moves on keeps its type, and other requests stay put; it is
\* done with a clamp only by passing that place.
LEMMA Moving ==
    ASSUME LeverTypeOK, NEW a \in Admins, NEW v \in Int, ~Resting(a), Advance(a, v)
    PROVE  /\ post' \in [Admins -> [pc : 0..Len(Program), loaded : Int,
                                    update : [FieldNames -> Int \union {None}]]]
           /\ \A b \in Admins \ {a} : post'[b] = post[b]
           /\ \A f \in FieldNames :
                 post[a].pc < ClampPlace[f] => post'[a].pc = post[a].pc + 1
  <1>1. NoPost \in [pc : 0..Len(Program), loaded : Int,
                    update : [FieldNames -> Int \union {None}]]
    BY ProgramShape DEF NoPost, AllOff
  <1>2. \A f \in FieldNames : ClampPlace[f] < 15
    BY DEF ClampPlace, FieldNames
  <1>3. post[a].pc \in 1..15
    BY ProgramShape DEF LeverTypeOK, Resting
  <1>4. post[a].update \in [FieldNames -> Int \union {None}] /\ Len(Program) = 15
    BY ProgramShape DEF LeverTypeOK
  <1> DEFINE After == IF post[a].pc = Len(Program) THEN NoPost
                      ELSE [pc |-> post[a].pc + 1, update |-> post[a].update, loaded |-> v]
  <1>5. After \in [pc : 0..Len(Program), loaded : Int,
                  update : [FieldNames -> Int \union {None}]]
    BY <1>1, <1>3, <1>4
  <1>6. post' = [post EXCEPT ![a] = After]
    BY DEF Advance
  <1>7. DOMAIN post = Admins
    BY DEF LeverTypeOK
  <1>8. post'[a] = After /\ \A b \in Admins \ {a} : post'[b] = post[b]
    BY <1>6, <1>7
  <1>9. post' \in [Admins -> [pc : 0..Len(Program), loaded : Int,
                              update : [FieldNames -> Int \union {None}]]]
    BY <1>5, <1>6 DEF LeverTypeOK
  <1>10. \A f \in FieldNames :
            post[a].pc < ClampPlace[f] => post'[a].pc = post[a].pc + 1
    <2> SUFFICES ASSUME NEW f \in FieldNames, post[a].pc < ClampPlace[f]
                 PROVE  post'[a].pc = post[a].pc + 1
      OBVIOUS
    <2>1. ClampPlace[f] \in Int
      BY DEF ClampPlace
    <2>2. post[a].pc # Len(Program)
      BY <2>1, <1>2, <1>3, <1>4
    <2> QED
      BY <1>8, <2>2
  <1> QED
    BY <1>8, <1>9, <1>10

LEMMA LeverKeeps == LeverInv /\ [LeverNext]_leverVars => LeverInv'
  <1> SUFFICES ASSUME LeverInv, [LeverNext]_leverVars PROVE LeverInv'
    OBVIOUS
  <1>t. LeverTypeOK /\ ClampComes
    BY DEF LeverInv
  <1>1. ASSUME NEW a \in Admins, NEW u \in Updates, PostUpdate(a, u)
        PROVE  LeverInv'
    <2>1. LeverTypeOK'
      <3>1. u \in [FieldNames -> Int \union {None}]
        BY UpdatesAssumption
      <3> QED
        BY <1>t, <1>1, <3>1, ProgramShape DEF PostUpdate, LeverTypeOK
    <2>2. \A b \in Admins, f \in FieldNames : Pending(b, f) => Pending(b, f)'
      BY <1>t, <1>1 DEF PostUpdate, Pending, Resting, LeverTypeOK
    <2>3. ClampComes'
      BY <1>t, <1>1, <2>2 DEF PostUpdate, ClampComes, OutOfRange
    <2> QED
      BY <2>1, <2>3 DEF LeverInv
  <1>2. ASSUME NEW a \in Admins, PostReset(a)
        PROVE  LeverInv'
    <2>1. LeverTypeOK'
      BY <1>t, <1>2, ProgramShape
      DEF PostReset, LeverTypeOK, NoPost, AllOff, PublishPart
    <2>2. ClampComes'
      BY <1>2 DEF PostReset, ClampComes, OutOfRange, AllOff, Clamp
    <2> QED
      BY <2>1, <2>2 DEF LeverInv
  <1>3. ASSUME NEW a \in Admins, Assign(a)
        PROVE  LeverInv'
    <2> PICK f : f = Field(a)
      OBVIOUS
    <2>1. post[a].pc \in 1..15 /\ f \in FieldNames /\ post[a].pc + 1 \in 1..ClampPlace[f]
      BY <1>t, <1>3, ProgramShape DEF Assign, Doing, Field, Resting, LeverTypeOK
    <2>2. Advance(a, 0) /\ ~Resting(a)
      BY <1>3 DEF Assign, Doing
    <2>3. /\ \A b \in Admins \ {a} : post'[b] = post[b]
          /\ \A g \in FieldNames :
                post[a].pc < ClampPlace[g] => post'[a].pc = post[a].pc + 1
      BY <1>t, <2>2, Moving
    <2>4. post[a].update \in [FieldNames -> Int \union {None}]
      BY <1>t DEF LeverTypeOK
    <2>5. chaos' \in [FieldNames -> Int]
      BY <1>t, <1>3, <2>1, <2>4 DEF Assign, LeverTypeOK
    <2>6. LeverTypeOK'
      BY <1>t, <1>3, <2>2, <2>5, Moving DEF Assign, LeverTypeOK
    <2>7. \A g \in FieldNames \ {f} : chaos'[g] = chaos[g]
      BY <1>t, <1>3, <2>1 DEF Assign, LeverTypeOK
    <2>8. ClampPlace[f] \in Int /\ post[a].pc < ClampPlace[f]
      BY <2>1 DEF ClampPlace, FieldNames
    <2>9. Pending(a, f)'
      BY <2>1, <2>3, <2>8 DEF Pending
    <2>10. \A g \in FieldNames : Pending(a, g) => Pending(a, g)'
      <3> SUFFICES ASSUME NEW g \in FieldNames, Pending(a, g)
                   PROVE  Pending(a, g)'
        OBVIOUS
      <3>1. ClampPlace[g] \in Int /\ post[a].pc # ClampPlace[g]
        BY <1>3, <2>1, ProgramShape DEF Assign, Doing, ClampPlace, FieldNames
      <3> QED
        BY <3>1, <2>1, <2>3 DEF Pending
    <2>11. \A b \in Admins, g \in FieldNames : Pending(b, g) => Pending(b, g)'
      BY <2>3, <2>10 DEF Pending
    <2>12. ClampComes'
      BY <1>t, <2>7, <2>9, <2>11 DEF ClampComes, OutOfRange
    <2> QED
      BY <2>6, <2>12 DEF LeverInv
  <1>4. ASSUME NEW a \in Admins, Read(a) \/ PublishField(a)
        PROVE  LeverInv'
    <2>1. post[a].pc \in 1..15 /\ Field(a) \in FieldNames
      BY <1>t, <1>4, ProgramShape
      DEF Read, PublishField, Doing, Field, Resting, LeverTypeOK
    <2>2. PICK v \in Int : Advance(a, v)
      BY <1>t, <1>4, <2>1 DEF Read, PublishField, LeverTypeOK
    <2>3. ~Resting(a)
      BY <1>4 DEF Read, PublishField, Doing
    <2>4. LeverTypeOK'
      BY <1>t, <1>4, <2>1, <2>2, <2>3, Moving DEF Read, PublishField, LeverTypeOK
    <2>5. \A g \in FieldNames : Pending(a, g) => Pending(a, g)'
      <3> SUFFICES ASSUME NEW g \in FieldNames, Pending(a, g)
                   PROVE  Pending(a, g)'
        OBVIOUS
      <3>1. ClampPlace[g] \in Int /\ post[a].pc # ClampPlace[g]
        BY <1>4, <2>1, ProgramShape DEF Read, PublishField, Doing, ClampPlace, FieldNames
      <3>2. post[a].pc < ClampPlace[g] => post'[a].pc = post[a].pc + 1
        BY <1>t, <2>2, <2>3, Moving
      <3> QED
        BY <3>1, <3>2, <2>1 DEF Pending
    <2>6. \A b \in Admins \ {a} : post'[b] = post[b]
      BY <1>t, <2>2, <2>3, Moving
    <2>7. ClampComes'
      BY <1>t, <1>4, <2>5, <2>6 DEF Read, PublishField, ClampComes, OutOfRange, Pending
    <2> QED
      BY <2>4, <2>7 DEF LeverInv
  <1>5. ASSUME NEW a \in Admins, ClampField(a)
        PROVE  LeverInv'
    <2> PICK f : f = Field(a)
      OBVIOUS
    <2>1. post[a].pc \in 1..15 /\ f \in FieldNames /\ ClampPlace[f] = post[a].pc
      BY <1>t, <1>5, ProgramShape DEF ClampField, Doing, Field, Resting, LeverTypeOK
    <2>2. Advance(a, 0) /\ ~Resting(a)
      BY <1>5 DEF ClampField, Doing
    <2>3. post[a].loaded \in Int
      BY <1>t DEF LeverTypeOK
    <2>4. /\ chaos' \in [FieldNames -> Int]
          /\ chaos'[f] = Clamp(f, post[a].loaded)
          /\ \A g \in FieldNames \ {f} : chaos'[g] = chaos[g]
      BY <1>t, <1>5, <2>1, <2>3, ClampInRange DEF ClampField, LeverTypeOK
    <2>5. LeverTypeOK'
      BY <1>t, <1>5, <2>2, <2>4, Moving DEF ClampField, LeverTypeOK
    <2>6. ~OutOfRange(f)'
      BY <2>1, <2>3, <2>4, ClampInRange DEF OutOfRange
    <2>7. \A g \in FieldNames \ {f} : Pending(a, g) => Pending(a, g)'
      <3> SUFFICES ASSUME NEW g \in FieldNames \ {f}, Pending(a, g)
                   PROVE  Pending(a, g)'
        OBVIOUS
      <3>1. ClampPlace[g] \in Int /\ post[a].pc # ClampPlace[g]
        BY <2>1 DEF ClampPlace, FieldNames
      <3>2. post[a].pc < ClampPlace[g] => post'[a].pc = post[a].pc + 1
        BY <1>t, <2>2, Moving
      <3> QED
        BY <3>1, <3>2, <2>1 DEF Pending
    <2>8. \A b \in Admins \ {a} : post'[b] = post[b]
      BY <1>t, <2>2, Moving
    <2>9. ClampComes'
      <3>1. \A g \in FieldNames \ {f}, b \in Admins : Pending(b, g) => Pending(b, g)'
        BY <2>7, <2>8 DEF Pending
      <3> QED
        BY <1>t, <2>4, <2>6, <3>1 DEF ClampComes, OutOfRange
    <2> QED
      BY <2>5, <2>9 DEF LeverInv
  <1>6. ASSUME UNCHANGED leverVars PROVE LeverInv'
    BY <1>t, <1>6
    DEF LeverInv, leverVars, LeverTypeOK, ClampComes, OutOfRange, Pending
  <1> QED
    BY <1>1, <1>2, <1>3, <1>4, <1>5, <1>6 DEF LeverNext, Work

\* Concurrent updates and resets of the lever keep its types: an absent field
\* is never assigned.  update() and reset() of app/chaos.py.
THEOREM LeverTypeCorrect == LeverSpec => []LeverTypeOK
  <1>1. LeverInv => LeverTypeOK
    BY DEF LeverInv
  <1> QED
    BY <1>1, LeverStarts, LeverKeeps, PTL DEF LeverSpec

\* However many requests run at once, once they are done every fault is in the
\* range of clamp(), although clamp() works on values read earlier.
THEOREM FaultsEndInRange == LeverSpec => []InRangeAtRest
  <1>1. LeverInv => InRangeAtRest
    <2> SUFFICES ASSUME LeverInv, LeverAtRest, NEW f \in FieldNames
                 PROVE  chaos[f] = Clamp(f, chaos[f])
      BY DEF InRangeAtRest
    <2>1. \A a \in Admins : ~Pending(a, f)
      <3>1. ClampPlace[f] \in Int
        BY DEF ClampPlace
      <3>2. TAKE a \in Admins
      <3>3. post[a].pc = 0
        BY DEF LeverAtRest, Resting
      <3> QED
        BY <3>1, <3>3 DEF Pending
    <2> QED
      BY <2>1 DEF LeverInv, ClampComes, OutOfRange
  <1> QED
    BY <1>1, LeverStarts, LeverKeeps, PTL DEF LeverSpec

-----------------------------------------------------------------------------
(***************************************************************************)
(* One operator at a time, on whichever thread of the pool.  Nothing moves *)
(* a field between a request's reading it and writing it back, so a gauge  *)
(* that is behind is one that the request under way has yet to publish.    *)
(***************************************************************************)
OneAtATime == \A a, b \in Admins : ~Resting(a) /\ ~Resting(b) => a = b

\* Where the program publishes a field.
PublishPlace == [f \in FieldNames |->
    IF f = "latency_seconds" THEN 11 ELSE IF f = "error_rate" THEN 13 ELSE 15]

GaugeComes ==
    \A f \in FieldNames : gauges[f] # chaos[f] =>
        \E a \in Admins : post[a].pc \in 1..PublishPlace[f]
LoadedIsCurrent ==
    \A a \in Admins : Doing(a, "clamp") \/ Doing(a, "publish") =>
        post[a].loaded = chaos[Field(a)]
RestIsBlank == \A a \in Admins : Resting(a) => post[a] = NoPost

AloneInv == LeverTypeOK /\ GaugeComes /\ LoadedIsCurrent /\ RestIsBlank

\* What is clamped or published was read in the step before; a field is assigned
\* and clamped before it is published, and published at its place.
LEMMA ProgramOrder ==
    \A i \in 1..15 :
        /\ Program[i][1] \in {"assign", "read", "clamp", "publish"}
        /\ i < 15 /\ Program[i + 1][1] \in {"clamp", "publish"} =>
              Program[i] = <<"read", Program[i + 1][2]>>
        /\ \A f \in FieldNames :
              /\ Program[i][1] \in {"assign", "clamp"} => i + 1 \in 1..PublishPlace[f]
              /\ PublishPlace[f] \in 1..15
              /\ PublishPlace[f] = i <=> Program[i] = <<"publish", f>>
              /\ PublishPart \in 1..PublishPlace[f]
  <1>1. \A i \in 1..15 :
           i \in {1, 2, 3, 4, 5, 6, 7, 8, 9, 10, 11, 12, 13, 14, 15}
    OBVIOUS
  <1>2. ASSUME NEW i \in 1..15, i < 15, Program[i + 1][1] \in {"clamp", "publish"}
        PROVE  Program[i] = <<"read", Program[i + 1][2]>>
    BY <1>1, <1>2 DEF Program
  <1>3. ASSUME NEW i \in 1..15, NEW f \in FieldNames
        PROVE  /\ Program[i][1] \in {"assign", "read", "clamp", "publish"}
               /\ Program[i][1] \in {"assign", "clamp"} => i + 1 \in 1..PublishPlace[f]
               /\ PublishPlace[f] \in 1..15
               /\ PublishPlace[f] = i <=> Program[i] = <<"publish", f>>
               /\ PublishPart \in 1..PublishPlace[f]
    BY <1>1 DEF Program, FieldNames, PublishPlace, PublishPart
  <1>4. "error_rate" \in FieldNames
    BY DEF FieldNames
  <1> QED
    BY <1>2, <1>3, <1>4

\* A request that moves on carries what it read, and clears what it leaves.
LEMMA MovesOn ==
    ASSUME LeverTypeOK, NEW a \in Admins, NEW v, ~Resting(a), Advance(a, v)
    PROVE  /\ post[a].pc \in 1..15 /\ post'[a] # post[a]
           /\ \A b \in Admins \ {a} : post'[b] = post[b]
           /\ post[a].pc = 15 => post'[a] = NoPost
           /\ post[a].pc < 15 => post'[a].pc = post[a].pc + 1 /\ post'[a].loaded = v
  <1>1. post[a].pc \in 1..15 /\ Len(Program) = 15
    BY ProgramShape DEF LeverTypeOK, Resting
  <1> DEFINE After == IF post[a].pc = Len(Program) THEN NoPost
                      ELSE [pc |-> post[a].pc + 1, update |-> post[a].update, loaded |-> v]
  <1>2. post'[a] = After /\ \A b \in Admins \ {a} : post'[b] = post[b]
    BY DEF Advance, LeverTypeOK
  <1>3. /\ post[a].pc = 15 => After = NoPost
        /\ post[a].pc < 15 => After.pc = post[a].pc + 1 /\ After.loaded = v
    BY <1>1
  <1>4. NoPost.pc = 0
    BY DEF NoPost
  <1>5. After.pc # post[a].pc
    BY <1>1, <1>3, <1>4
  <1> HIDE DEF After
  <1> QED
    BY <1>1, <1>2, <1>3, <1>5

\* A step of one request: it was resting before or is at work, the others rest
\* before and after it.
LEMMA OthersRest ==
    ASSUME LeverTypeOK, OneAtATime, OneAtATime', NEW a \in Admins,
           \A b \in Admins \ {a} : post'[b] = post[b],
           ~Resting(a) \/ ~Resting(a)'
    PROVE  \A b \in Admins \ {a} : post[b].pc = 0 /\ post'[b].pc = 0
  BY DEF OneAtATime, Resting

\* A step of the request under way keeps the invariant if what it carries into
\* its next step is current, and a gauge that is still behind has its place ahead.
LEMMA AloneStep ==
    ASSUME AloneInv, OneAtATime, OneAtATime', LeverTypeOK', NEW a \in Admins,
           \A b \in Admins \ {a} : post'[b] = post[b],
           ~Resting(a) \/ ~Resting(a)',
           Resting(a)' => post'[a] = NoPost,
           (Doing(a, "clamp") \/ Doing(a, "publish"))' => post'[a].loaded = chaos'[Field(a)'],
           \A f \in FieldNames : gauges'[f] # chaos'[f] => post'[a].pc \in 1..PublishPlace[f]
    PROVE  AloneInv'
  <1>1. \A b \in Admins \ {a} : post[b].pc = 0 /\ post'[b].pc = 0
    BY OthersRest DEF AloneInv
  <1>2. GaugeComes'
    BY DEF GaugeComes
  <1>3. LoadedIsCurrent'
    BY <1>1 DEF LoadedIsCurrent, Doing, Resting, Field
  <1>4. RestIsBlank'
    BY DEF AloneInv, RestIsBlank, Resting
  <1> QED
    BY <1>2, <1>3, <1>4 DEF AloneInv

LEMMA AloneStarts == LeverInit => AloneInv
  <1> SUFFICES ASSUME LeverInit PROVE AloneInv
    OBVIOUS
  <1>1. LeverTypeOK
    BY LeverStarts DEF LeverInv
  <1>2. \A a \in Admins : post[a] = NoPost /\ Resting(a)
    BY DEF LeverInit, Resting, NoPost
  <1> QED
    BY <1>1, <1>2
    DEF AloneInv, LeverInit, GaugeComes, LoadedIsCurrent, RestIsBlank, Doing

LEMMA AloneKeeps ==
    AloneInv /\ LeverTypeOK' /\ OneAtATime /\ OneAtATime' /\ [LeverNext]_leverVars
        => AloneInv'
  <1> SUFFICES ASSUME AloneInv, LeverTypeOK', OneAtATime, OneAtATime', [LeverNext]_leverVars
               PROVE  AloneInv'
    OBVIOUS
  <1>t. LeverTypeOK /\ GaugeComes /\ LoadedIsCurrent /\ RestIsBlank
    BY DEF AloneInv
  <1>1. ASSUME NEW a \in Admins, NEW u \in Updates, PostUpdate(a, u)
        PROVE  AloneInv'
    <2>1. /\ post'[a].pc = 1
          /\ \A b \in Admins \ {a} : post'[b] = post[b]
      BY <1>t, <1>1 DEF PostUpdate, LeverTypeOK
    <2>2. ~Resting(a)'
      BY <2>1 DEF Resting
    <2>3. \A b \in Admins : post[b].pc = 0
      BY <1>t, <1>1, <2>1, <2>2, OthersRest DEF PostUpdate, Resting
    <2>4. \A f \in FieldNames : gauges'[f] = chaos'[f]
      BY <1>t, <1>1, <2>3, ProgramOrder DEF PostUpdate, GaugeComes
    <2>5. ~(Doing(a, "clamp") \/ Doing(a, "publish"))'
      BY <2>1 DEF Doing, Program
    <2> QED
      BY <2>1, <2>2, <2>4, <2>5, AloneStep
  <1>2. ASSUME NEW a \in Admins, PostReset(a)
        PROVE  AloneInv'
    <2>1. /\ post'[a].pc = PublishPart
          /\ \A b \in Admins \ {a} : post'[b] = post[b]
      BY <1>t, <1>2 DEF PostReset, LeverTypeOK, NoPost
    <2>2. ~Resting(a)'
      BY <2>1 DEF Resting, PublishPart
    <2>3. \A f \in FieldNames : PublishPart \in 1..PublishPlace[f]
      BY ProgramOrder
    <2>4. ~(Doing(a, "clamp") \/ Doing(a, "publish"))'
      BY <2>1 DEF Doing, Program, PublishPart
    <2> QED
      BY <2>1, <2>2, <2>3, <2>4, AloneStep
  <1>3. ASSUME NEW a \in Admins, NEW v, ~Resting(a), Advance(a, v), Work(a),
               Doing(a, "read") => v = chaos[Field(a)] /\ chaos' = chaos,
               \A f \in FieldNames : gauges'[f] # chaos'[f] =>
                   post[a].pc < 15 /\ post[a].pc + 1 \in 1..PublishPlace[f]
        PROVE  AloneInv'
    <2>1. /\ post[a].pc \in 1..15
          /\ \A b \in Admins \ {a} : post'[b] = post[b]
          /\ post[a].pc = 15 => post'[a] = NoPost
          /\ post[a].pc < 15 => post'[a].pc = post[a].pc + 1 /\ post'[a].loaded = v
      BY <1>t, <1>3, MovesOn
    <2>2. Resting(a)' => post'[a] = NoPost
      BY <2>1 DEF Resting
    <2>3. ASSUME (Doing(a, "clamp") \/ Doing(a, "publish"))'
          PROVE  post'[a].loaded = chaos'[Field(a)']
      <3>1. post[a].pc < 15
        BY <2>1, <2>3 DEF Doing, Resting, NoPost
      <3>2. Program[post[a].pc] = <<"read", Field(a)'>>
        BY <2>1, <2>3, <3>1, ProgramOrder DEF Doing, Field
      <3>3. Doing(a, "read") /\ Field(a) = Field(a)'
        BY <1>3, <3>2 DEF Doing, Field
      <3> QED
        BY <1>3, <2>1, <3>1, <3>3
    <2>4. \A f \in FieldNames : gauges'[f] # chaos'[f] => post'[a].pc \in 1..PublishPlace[f]
      BY <1>3, <2>1
    <2> QED
      BY <1>3, <2>1, <2>2, <2>3, <2>4, AloneStep
  <1>4. ASSUME NEW a \in Admins, Assign(a) \/ ClampField(a)
        PROVE  AloneInv'
    <2>1. PICK do \in {"assign", "clamp"} : Doing(a, do) /\ Advance(a, 0)
      BY <1>4 DEF Assign, ClampField
    <2>2. ~Resting(a) /\ Program[post[a].pc][1] \in {"assign", "clamp"}
      BY <2>1 DEF Doing
    <2>3. post[a].pc \in 1..15
      BY <1>t, <2>1, <2>2, MovesOn
    <2>4. \A f \in FieldNames : post[a].pc + 1 \in 1..PublishPlace[f] /\ PublishPlace[f] \in 1..15
      BY <2>2, <2>3, ProgramOrder
    <2>5. ~Doing(a, "read")
      BY <2>2 DEF Doing
    <2> QED
      BY <1>3, <1>4, <2>1, <2>2, <2>3, <2>4, <2>5 DEF Work
  <1>5. ASSUME NEW a \in Admins, Read(a)
        PROVE  AloneInv'
    <2>1. /\ Doing(a, "read") /\ Advance(a, chaos[Field(a)])
          /\ ~Resting(a) /\ Program[post[a].pc][1] = "read"
          /\ chaos' = chaos /\ gauges' = gauges
      BY <1>5 DEF Read, Doing
    <2>2. post[a].pc \in 1..15 /\ \A b \in Admins \ {a} : post'[b] = post[b]
      BY <1>t, <2>1, MovesOn
    <2>3. \A b \in Admins \ {a} : post[b].pc = 0
      BY <1>t, <2>1, <2>2, OthersRest
    <2>4. ASSUME NEW f \in FieldNames, gauges'[f] # chaos'[f]
          PROVE  post[a].pc < 15 /\ post[a].pc + 1 \in 1..PublishPlace[f]
      <3>1. PublishPlace[f] \in 1..15 /\ post[a].pc # PublishPlace[f]
        BY <2>1, <2>2, ProgramOrder
      <3>2. post[a].pc \in 1..PublishPlace[f]
        BY <1>t, <2>1, <2>3, <2>4, <3>1 DEF GaugeComes
      <3> QED
        BY <3>1, <3>2
    <2> QED
      BY <1>3, <1>5, <2>1, <2>4 DEF Work
  <1>6. ASSUME NEW a \in Admins, PublishField(a)
        PROVE  AloneInv'
    <2>1. /\ Doing(a, "publish") /\ Advance(a, 0)
          /\ ~Resting(a) /\ Program[post[a].pc][1] = "publish"
          /\ chaos' = chaos /\ gauges' = [gauges EXCEPT ![Field(a)] = chaos[Field(a)]]
      BY <1>t, <1>6 DEF PublishField, Doing, LoadedIsCurrent
    <2>2. post[a].pc \in 1..15 /\ \A b \in Admins \ {a} : post'[b] = post[b]
      BY <1>t, <2>1, MovesOn
    <2>3. \A b \in Admins \ {a} : post[b].pc = 0
      BY <1>t, <2>1, <2>2, OthersRest
    <2>4. ASSUME NEW f \in FieldNames, gauges'[f] # chaos'[f]
          PROVE  post[a].pc < 15 /\ post[a].pc + 1 \in 1..PublishPlace[f]
      <3>1. f # Field(a) /\ gauges[f] # chaos[f]
        BY <1>t, <2>1, <2>4 DEF LeverTypeOK
      <3>2. PublishPlace[f] \in 1..15 /\ post[a].pc # PublishPlace[f]
        BY <2>2, <3>1, ProgramOrder DEF Field
      <3>3. post[a].pc \in 1..PublishPlace[f]
        BY <1>t, <2>3, <3>1, <3>2 DEF GaugeComes
      <3> QED
        BY <3>2, <3>3
    <2>5. ~Doing(a, "read")
      BY <2>1 DEF Doing
    <2> QED
      BY <1>3, <1>6, <2>1, <2>4, <2>5 DEF Work
  <1>7. ASSUME UNCHANGED leverVars PROVE AloneInv'
    BY <1>t, <1>7 DEF AloneInv, leverVars, LeverTypeOK, GaugeComes, LoadedIsCurrent,
                      RestIsBlank, Doing, Resting, Field
  <1> QED
    BY <1>1, <1>2, <1>4, <1>5, <1>6, <1>7 DEF LeverNext, Work

LEMMA AloneShows == AloneInv => GaugesAreCurrent
  <1> SUFFICES ASSUME AloneInv, LeverAtRest PROVE gauges = chaos
    BY DEF GaugesAreCurrent
  <1>1. \A a \in Admins : post[a].pc = 0
    BY DEF LeverAtRest, Resting
  <1>2. \A f \in FieldNames : gauges[f] = chaos[f]
    BY <1>1, ProgramOrder DEF AloneInv, GaugeComes
  <1> QED
    BY <1>2 DEF AloneInv, LeverTypeOK

\* With one operator at a time the gauges show the faults once the request is
\* done: every change is published after it, and nothing comes in between.
THEOREM GaugesFollow == LeverSpec /\ []OneAtATime => []GaugesAreCurrent
  BY AloneStarts, AloneKeeps, AloneShows, LeverTypeCorrect, PTL DEF LeverSpec

\* With one operator at a time an update is the partial one its docstring
\* promises: it changes a field it does not give only to bring it into range.
THEOREM UpdatesArePartial == LeverSpec /\ []OneAtATime => PartialUpdate
  <1>1. ASSUME AloneInv, [LeverNext]_leverVars
        PROVE  [\A f \in FieldNames :
                  chaos'[f] # chaos[f] => WorkedOn(f) \/ chaos[f] # Clamp(f, chaos[f])]_leverVars
    <2> SUFFICES ASSUME NEW f \in FieldNames, chaos'[f] # chaos[f], LeverNext
                 PROVE  WorkedOn(f) \/ chaos[f] # Clamp(f, chaos[f])
      BY <1>1
    <2>1. LeverTypeOK /\ LoadedIsCurrent /\ RestIsBlank
      BY <1>1 DEF AloneInv
    <2>2. ASSUME NEW a \in Admins, PostReset(a) PROVE WorkedOn(f)
      <3>1. post[a].pc = 0 /\ post[a].update[f] = 0 /\ post'[a].pc = PublishPart
        BY <2>1, <2>2 DEF PostReset, Resting, RestIsBlank, NoPost, AllOff, LeverTypeOK
      <3>2. 0 # None
        BY UpdatesAssumption
      <3> QED
        BY <3>1, <3>2 DEF WorkedOn, PublishPart
    <2>3. ASSUME NEW a \in Admins, Assign(a) PROVE WorkedOn(f)
      <3>1. Advance(a, 0) /\ ~Resting(a)
        BY <2>3 DEF Assign, Doing
      <3>2. post'[a] # post[a]
        BY <2>1, <3>1, MovesOn
      <3>3. Field(a) = f /\ post[a].update[f] # None
        BY <2>1, <2>3 DEF Assign, LeverTypeOK
      <3> QED
        BY <3>2, <3>3 DEF WorkedOn
    <2>4. ASSUME NEW a \in Admins, ClampField(a) PROVE chaos[f] # Clamp(f, chaos[f])
      <3>1. Field(a) = f
        BY <2>1, <2>4 DEF ClampField, LeverTypeOK
      <3>2. post[a].loaded = chaos[f]
        BY <2>1, <2>4, <3>1 DEF ClampField, LoadedIsCurrent
      <3> QED
        BY <2>1, <2>4, <3>1, <3>2 DEF ClampField, LeverTypeOK
    <2> QED
      BY <2>2, <2>3, <2>4 DEF LeverNext, Work, Read, PublishField, PostUpdate
  <1> QED
    BY <1>1, AloneStarts, AloneKeeps, LeverTypeCorrect, PTL DEF LeverSpec, PartialUpdate
=============================================================================
