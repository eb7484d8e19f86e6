---------------------------- MODULE MCDebugTask ----------------------------
(***************************************************************************)
(* Model checking of DebugTask: two calls and one task of the cache for    *)
(* one permit, two competing blocks.                                       *)
(***************************************************************************)
EXTENDS DebugTask
=============================================================================
