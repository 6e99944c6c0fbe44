---------------------------- MODULE MCAlertRules ----------------------------
(***************************************************************************)
(* Small instance of AlertRules for TLC.                                   *)
(***************************************************************************)
EXTENDS AlertRules, TLC

Symmetry == Permutations(Replicas)
=============================================================================
