----------------------------- MODULE MCTracing -----------------------------
(***************************************************************************)
(* Small instance of Tracing for TLC.                                      *)
(***************************************************************************)
EXTENDS Tracing

\* Below and above the percentages, and no number at all.
AnySetting == {-50, 150, Invalid}
=============================================================================
