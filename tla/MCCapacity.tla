----------------------------- MODULE MCCapacity -----------------------------
(***************************************************************************)
(* Small instance of Capacity for TLC.                                     *)
(***************************************************************************)
EXTENDS Capacity

\* Four threads hold misses for three ticks and bind them; hits take one tick
\* and are bound by the CPU at two a tick.
HitAndMiss == {1, 3}
SomeRates == 1..8
=============================================================================
