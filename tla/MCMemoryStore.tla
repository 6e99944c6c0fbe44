--------------------------- MODULE MCMemoryStore ---------------------------
(***************************************************************************)
(* Small instance of MemoryStore for TLC.                                  *)
(***************************************************************************)
EXTENDS MemoryStore

\* A setting that never expires, one that expires at once and one in between.
AnyTtl == {-1, 0, 1}
=============================================================================
