-------------------------- MODULE MCSegmentHandler --------------------------
(***************************************************************************)
(* Small instances of SegmentHandler for TLC.                              *)
(***************************************************************************)
EXTENDS SegmentHandler, TLC

Symmetry == Permutations(Handlers)

Nothing == [f \in FieldNames |-> None]

\* A latency that time.sleep() accepts and one that it does not, a certain and
\* a possible failure.
MixedUpdates ==
    {[Nothing EXCEPT !["latency_seconds"] = 1],
     [Nothing EXCEPT !["latency_seconds"] = 2],
     [Nothing EXCEPT !["error_rate"] = 100],
     [Nothing EXCEPT !["error_rate"] = 50, !["cache_bypass"] = 1]}
=============================================================================
