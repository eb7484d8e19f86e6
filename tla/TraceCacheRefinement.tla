------------------------ MODULE TraceCacheRefinement ------------------------
(***************************************************************************)
(* The cache of TraceCache, with its batches, permits, tracing tasks and   *)
(* channels, implements the service of TraceService.                       *)
(***************************************************************************)
EXTENDS TraceCache

ServiceEntry(b) ==
    CASE cached_blocks[b].state = "Missing" -> "Absent"
      [] cached_blocks[b].state = "Pooled" -> "Pending"
      [] cached_blocks[b].state = "Cached" -> cached_blocks[b].traces

Service == INSTANCE TraceService WITH
    Absent <- "Absent", Pending <- "Pending", NoBlock <- 0, NoAnswer <- "none",
    NotBatched <- "NotBatched", Closed <- "Closed",
    entry <- [b \in Blocks |-> ServiceEntry(b)],
    wanted <- [c \in Clients |-> IF pc[c] = "getting" THEN Min(todo[c]) ELSE 0],
    answer <- reply

\* Whatever batches are stopped, expire or are dropped and whichever of two
\* tasks for a block reports first, a call of trace_filter sees only the
\* service: the answer it receives is the outcome kept for the very block it
\* asked for, "not batched" if there is no such entry, or a closed channel
\* if the entry was removed while the call waited; and a block that is known
\* is not traced anew until it has been forgotten.
ImplementsService == Service!Spec
=============================================================================
