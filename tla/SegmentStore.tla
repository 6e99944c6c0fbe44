---------------------------- MODULE SegmentStore ----------------------------
(***************************************************************************)
(* What a store of cached segments promises to the workers that read       *)
(* through it: it may forget anything at any moment and never invents.  A  *)
(* hit is a segment that was there, unexpired, when the worker looked; only *)
(* a worker that missed and fetched a segment puts it there.               *)
(***************************************************************************)
CONSTANTS Workers, Segments

VARIABLES
    present,   \* segments stored and not expired
    phase,     \* what each worker does: idle, looking, missed
    seg,       \* the segment it does that for
    seen       \* whether the segment was present when it looked

vars == <<present, phase, seg, seen>>

Init ==
    /\ present = {}
    /\ phase = [w \in Workers |-> "idle"]
    /\ seg \in [Workers -> Segments]
    /\ seen = [w \in Workers |-> FALSE]

Goes(w, from, to) == phase[w] = from /\ phase' = [phase EXCEPT ![w] = to]

Look(w, s) ==
    /\ Goes(w, "idle", "looking") \/ Goes(w, "idle", "missed")
    /\ seg' = [seg EXCEPT ![w] = s]
    /\ seen' = [seen EXCEPT ![w] = s \in present]
    /\ UNCHANGED present

Hit(w) ==
    /\ seen[w] /\ Goes(w, "looking", "idle")
    /\ UNCHANGED <<present, seg, seen>>

Miss(w) ==
    /\ Goes(w, "looking", "missed")
    /\ UNCHANGED <<present, seg, seen>>

Keep(w) ==
    /\ Goes(w, "missed", "idle")
    /\ present' \in SUBSET (present \union {seg[w]})
    /\ UNCHANGED <<seg, seen>>

Forget == present' \in SUBSET present /\ UNCHANGED <<phase, seg, seen>>

Next ==
    \/ \E w \in Workers : Hit(w) \/ Miss(w) \/ Keep(w) \/ \E s \in Segments : Look(w, s)
    \/ Forget

Spec == Init /\ [][Next]_vars
=============================================================================
