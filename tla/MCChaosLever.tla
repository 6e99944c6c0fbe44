---------------------------- MODULE MCChaosLever ----------------------------
(***************************************************************************)
(* Small instances of ChaosLever for TLC.                                  *)
(***************************************************************************)
EXTENDS ChaosLever

Nothing == [f \in FieldNames |-> None]

\* One update for each field, one of them out of range on either side.
MixedUpdates ==
    {[Nothing EXCEPT !["latency_seconds"] = -1],
     [Nothing EXCEPT !["latency_seconds"] = 1],
     [Nothing EXCEPT !["error_rate"] = 150],
     [Nothing EXCEPT !["error_rate"] = 50, !["cache_bypass"] = 1]}
=============================================================================
