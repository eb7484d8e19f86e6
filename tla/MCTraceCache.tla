---------------------------- MODULE MCTraceCache ----------------------------
(***************************************************************************)
(* Model checking of TraceCache and of its refinement: two calls, so that  *)
(* the batch of one can expire while the other's blocks are pooled again.  *)
(* TLC checks every combination of the two calls' ranges of blocks.        *)
(***************************************************************************)
EXTENDS TraceCacheRefinement
=============================================================================
