---------------------------- MODULE MCEdgeCache ----------------------------
(***************************************************************************)
(* Small instances of EdgeCache for TLC.  No symmetry where a temporal     *)
(* property is checked.                                                    *)
(***************************************************************************)
EXTENDS EdgeCache, TLC

Symmetry == Permutations(Workers)
=============================================================================
