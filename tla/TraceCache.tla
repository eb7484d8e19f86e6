----------------------------- MODULE TraceCache -----------------------------
(***************************************************************************)
(* The cache behind the trace_filter RPC (client/rpc/trace/src/lib.rs).    *)
(*                                                                         *)
(* Three kinds of processes run concurrently:                              *)
(*  - RPC calls of Trace::filter (Clients), each of which starts a batch   *)
(*    of blocks, fetches the traces of its blocks one by one and stops the *)
(*    batch;                                                               *)
(*  - the one CacheTask, whose select! loop handles a request, a message   *)
(*    of a tracing task or the expiration of a batch at a time;            *)
(*  - one tracing task per cache miss, which waits for a permit of the     *)
(*    semaphore or for its cancellation, traces and reports.               *)
(*                                                                         *)
(* The blocks of a batch are a range of heights, hence distinct, and the   *)
(* loops over them treat each block on its own: a batch is a set here.     *)
(* What is traced is abstracted to whether the replay succeeded.           *)
(***************************************************************************)
EXTENDS Integers, Sequences, FiniteSets, FiniteSetsExt

CONSTANTS
    Clients,     \* calls of the RPC handler, each answered once
    Height,      \* client.info().best_number; the chain has blocks 0..Height
    Permits,     \* permits of the blocking semaphore (--ethapi-max-permits)
    MaxBatches,  \* bound on next_batch_id, a u64 in the code
    Droppable    \* calls whose future the RPC server may drop

ASSUME HeightAssumption == Height \in Nat
ASSUME PermitsAssumption == Permits \in Nat \ {0}
ASSUME MaxBatchesAssumption == MaxBatches \in Nat
ASSUME DroppableAssumption == Droppable \subseteq Clients

VARIABLES
    pc,                \* progress of each call of Trace::filter
    todo,              \* blocks each call has not fetched yet
    batch_id,          \* batch ID each call received from start_batch
    reply,             \* content of the oneshot channel of get_traces
    requests,          \* requester channel: unbounded, first in first out
    cached_blocks,     \* CacheTask::cached_blocks
    batches,           \* CacheTask::batches
    next_batch_id,     \* CacheTask::next_batch_id
    batch_expirations, \* batches whose expiration delay is running
    tasks,             \* tracing task spawned by batch i for block b
    permits,           \* permits available in the semaphore
    blocking           \* channel of the tracing tasks, 2 * Permits slots

clientVars == <<pc, todo, batch_id>>
cacheVars == <<cached_blocks, batches, next_batch_id, batch_expirations>>
taskVars == <<tasks, permits>>
vars == <<clientVars, reply, requests, cacheVars, taskVars, blocking>>

-----------------------------------------------------------------------------
Blocks == 1..Height
BatchId == 0..(MaxBatches - 1)
NoBatch == -1

\* Results of Self::cache_block: the traces, or an error (a panic included).
Results == {"Ok", "Err"}

\* "NotBatched" is the error of request_get_traces for an unknown block;
\* "Closed" is what the receiver of a dropped oneshot sender sees.
Replies == Results \cup {"none", "NotBatched", "Closed"}

StartBatch(c, bs) == [type |-> "StartBatch", client |-> c, blocks |-> bs]
GetTraces(c, b) == [type |-> "GetTraces", client |-> c, block |-> b]
StopBatch(i) == [type |-> "StopBatch", batch |-> i]

CacheRequest ==
    [type : {"StartBatch"}, client : Clients, blocks : SUBSET Blocks]
      \cup [type : {"GetTraces"}, client : Clients, block : Blocks]
      \cup [type : {"StopBatch"}, batch : BatchId]

Started(b) == [type |-> "Started", block |-> b]
Finished(b, res) == [type |-> "Finished", block |-> b, result |-> res]

BlockingTaskMessage ==
    [type : {"Started"}, block : Blocks]
      \cup [type : {"Finished"}, block : Blocks, result : Results]

\* tracer is the batch whose task holds the receiver of unqueue_sender.
CacheBlock ==
    [state : {"Missing", "Pooled", "Cached"}, active_batch_count : Nat,
     started : BOOLEAN, waiting_requests : SUBSET Clients,
     tracer : BatchId \cup {NoBatch}, traces : Results \cup {"none"}]

\* No entry for the block in the BTreeMap.
Missing ==
    [state |-> "Missing", active_batch_count |-> 0, started |-> FALSE,
     waiting_requests |-> {}, tracer |-> NoBatch, traces |-> "none"]

Pooled(i) ==
    [state |-> "Pooled", active_batch_count |-> 1, started |-> FALSE,
     waiting_requests |-> {}, tracer |-> i, traces |-> "none"]

Cached(count, res) ==
    [state |-> "Cached", active_batch_count |-> count, started |-> FALSE,
     waiting_requests |-> {}, tracer |-> NoBatch, traces |-> res]

TypeOK ==
    /\ pc \in [Clients -> {"idle", "starting", "getting", "done", "dropped"}]
    /\ todo \in [Clients -> SUBSET Blocks]
    /\ batch_id \in [Clients -> BatchId \cup {NoBatch}]
    /\ reply \in [Clients -> Replies]
    /\ requests \in Seq(CacheRequest)
    /\ cached_blocks \in [Blocks -> CacheBlock]
    /\ batches \in [BatchId -> SUBSET Blocks]
    /\ next_batch_id \in 0..MaxBatches
    /\ batch_expirations \subseteq BatchId
    /\ tasks \in [BatchId -> [Blocks -> {"none", "waiting", "acquired", "tracing"}]]
    /\ permits \in Nat
    /\ blocking \in Seq(BlockingTaskMessage)

Init ==
    /\ pc = [c \in Clients |-> "idle"]
    /\ todo = [c \in Clients |-> {}]
    /\ batch_id = [c \in Clients |-> NoBatch]
    /\ reply = [c \in Clients |-> "none"]
    /\ requests = <<>>
    /\ cached_blocks = [b \in Blocks |-> Missing]
    /\ batches = [i \in BatchId |-> {}]
    /\ next_batch_id = 0
    /\ batch_expirations = {}
    /\ tasks = [i \in BatchId |-> [b \in Blocks |-> "none"]]
    /\ permits = Permits
    /\ blocking = <<>>

-----------------------------------------------------------------------------
(***************************************************************************)
(* Trace::filter. Sending on the unbounded channel never waits, so a call  *)
(* runs without interruption from one answer to its next request.          *)
(***************************************************************************)

\* Mutant: the genesis block, which cannot be traced, is not skipped.
BlockHashesWithGenesis(from, to) == from..to

\* The blocks of from_block..=to_block; the genesis block is skipped.
BlockHashes(from, to) == (from..to) \ {0}

\* filter, up to start_batch(block_hashes).await.
FilterCall(c) ==
    /\ pc[c] = "idle"
    /\ \E from, to \in 0..Height :
          /\ pc' = [pc EXCEPT ![c] = "starting"]
          /\ todo' = [todo EXCEPT ![c] = BlockHashes(from, to)]
          /\ requests' = Append(requests, StartBatch(c, BlockHashes(from, to)))
    /\ UNCHANGED <<batch_id, reply, cacheVars, taskVars, blocking>>

\* filter returns early: an unsupported block ID, count above max_count, or
\* a height without a block.
FilterRejected(c) ==
    /\ pc[c] = "idle"
    /\ pc' = [pc EXCEPT ![c] = "done"]
    /\ UNCHANGED <<todo, batch_id, reply, requests, cacheVars, taskVars, blocking>>

\* Mutant: the loop asks for the block it has just received.
SendGetTracesAgain(c, bs) ==
    /\ pc' = [pc EXCEPT ![c] = "getting"]
    /\ todo' = [todo EXCEPT ![c] = bs]
    /\ reply' = [reply EXCEPT ![c] = "none"]
    /\ requests' = Append(requests, GetTraces(c, Min(todo[c])))

\* get_traces of the lowest of the blocks bs still to fetch.
SendGetTraces(c, bs) ==
    /\ pc' = [pc EXCEPT ![c] = "getting"]
    /\ todo' = [todo EXCEPT ![c] = bs]
    /\ reply' = [reply EXCEPT ![c] = "none"]
    /\ requests' = Append(requests, GetTraces(c, Min(bs)))

\* fetch_traces has returned; stop_batch is called whatever its result.
SendStopBatch(c) ==
    /\ pc' = [pc EXCEPT ![c] = "done"]
    /\ todo' = [todo EXCEPT ![c] = {}]
    /\ reply' = [reply EXCEPT ![c] = "none"]
    /\ requests' = Append(requests, StopBatch(batch_id[c]))

\* start_batch has returned the batch ID: the loop of fetch_traces begins.
BatchStarted(c) ==
    /\ pc[c] = "starting"
    /\ batch_id[c] # NoBatch
    /\ IF todo[c] = {} THEN SendStopBatch(c) ELSE SendGetTraces(c, todo[c])
    /\ UNCHANGED <<batch_id, cacheVars, taskVars, blocking>>

\* The block's traces do not reach "count": go on with the next block.
FetchNext(c) ==
    /\ pc[c] = "getting"
    /\ reply[c] = "Ok"
    /\ todo[c] \ {Min(todo[c])} # {}
    /\ SendGetTraces(c, todo[c] \ {Min(todo[c])})
    /\ UNCHANGED <<batch_id, cacheVars, taskVars, blocking>>

\* Mutant: an error of fetch_traces returns before stop_batch.
FilterReturnEarly(c) ==
    /\ pc[c] = "getting"
    /\ reply[c] # "none"
    /\ IF reply[c] = "Ok"
       THEN SendStopBatch(c)
       ELSE /\ pc' = [pc EXCEPT ![c] = "done"]
            /\ UNCHANGED <<todo, reply, requests>>
    /\ UNCHANGED <<batch_id, cacheVars, taskVars, blocking>>

\* That was the last block, "count" is reached, or get_traces failed.
FilterReturn(c) ==
    /\ pc[c] = "getting"
    /\ reply[c] # "none"
    /\ SendStopBatch(c)
    /\ UNCHANGED <<batch_id, cacheVars, taskVars, blocking>>

\* The RPC server drops the call's future at one of its awaits (the peer has
\* gone). Nothing runs after the await: the batch is not stopped.
FilterDropped(c) ==
    /\ c \in Droppable
    /\ pc[c] \in {"starting", "getting"}
    /\ pc' = [pc EXCEPT ![c] = "dropped"]
    /\ todo' = [todo EXCEPT ![c] = {}]
    /\ reply' = [reply EXCEPT ![c] = "none"]
    /\ UNCHANGED <<batch_id, requests, cacheVars, taskVars, blocking>>

-----------------------------------------------------------------------------
(***************************************************************************)
(* CacheTask: the handlers its event loop calls.                           *)
(***************************************************************************)

\* What the receivers of the calls cs hold after v is sent to them. A send
\* to a dropped receiver fails, and the code ignores that.
Deliver(cs, v) ==
    [c \in Clients |-> IF c \in cs /\ pc[c] = "getting" THEN v ELSE reply[c]]

\* Removing the entries of the blocks bs drops the senders they hold.
DropEntries(bs) ==
    /\ cached_blocks' = [b \in Blocks |-> IF b \in bs THEN Missing ELSE cached_blocks[b]]
    /\ reply' = Deliver(UNION {cached_blocks[b].waiting_requests : b \in bs}, "Closed")

\* A request of the given type is the next one of the requester channel.
NextRequest(type) ==
    /\ requests # <<>>
    /\ Head(requests).type = type
    /\ requests' = Tail(requests)

\* The batch ID goes to the caller even if it has been dropped since.
RequestStartBatch ==
    /\ NextRequest("StartBatch")
    /\ next_batch_id < MaxBatches
    /\ LET bs == Head(requests).blocks
           missed == {b \in bs : cached_blocks[b].state = "Missing"}
       IN  /\ batches' = [batches EXCEPT ![next_batch_id] = bs]
           /\ cached_blocks' =
                [b \in Blocks |->
                   IF b \in missed THEN Pooled(next_batch_id)
                   ELSE IF b \in bs
                        THEN [cached_blocks[b] EXCEPT !.active_batch_count = @ + 1]
                        ELSE cached_blocks[b]]
           /\ tasks' = [tasks EXCEPT ![next_batch_id] =
                          [b \in Blocks |-> IF b \in missed THEN "waiting" ELSE "none"]]
    /\ batch_id' = [batch_id EXCEPT ![Head(requests).client] = next_batch_id]
    /\ next_batch_id' = next_batch_id + 1
    /\ UNCHANGED <<pc, todo, reply, batch_expirations, permits, blocking>>

RequestGetTraces ==
    /\ NextRequest("GetTraces")
    /\ LET b == Head(requests).block
           c == Head(requests).client
       IN  \/ /\ cached_blocks[b].state = "Pooled"
              /\ cached_blocks' =
                   [cached_blocks EXCEPT ![b].waiting_requests = @ \cup {c}]
              /\ reply' = reply
           \/ /\ cached_blocks[b].state = "Cached"
              /\ reply' = Deliver({c}, cached_blocks[b].traces)
              /\ cached_blocks' = cached_blocks
           \/ /\ cached_blocks[b].state = "Missing"
              /\ reply' = Deliver({c}, "NotBatched")
              /\ cached_blocks' = cached_blocks
    /\ UNCHANGED <<clientVars, batches, next_batch_id, batch_expirations, taskVars, blocking>>

\* Blocks only this batch pools and whose tracing is not known to have started.
Unqueued(i) ==
    {b \in batches[i] : /\ cached_blocks[b].active_batch_count = 1
                        /\ cached_blocks[b].state = "Pooled"
                        /\ ~cached_blocks[b].started}

RequestStopBatch ==
    /\ NextRequest("StopBatch")
    /\ LET i == Head(requests).batch
       IN  /\ batch_expirations' = batch_expirations \cup {i}
           /\ DropEntries(Unqueued(i))
    /\ UNCHANGED <<clientVars, batches, next_batch_id, taskVars, blocking>>

NextMessage(type) ==
    /\ blocking # <<>>
    /\ Head(blocking).type = type
    /\ blocking' = Tail(blocking)

BlockingStarted ==
    /\ NextMessage("Started")
    /\ LET b == Head(blocking).block
       IN  cached_blocks' =
             [cached_blocks EXCEPT ![b].started = @ \/ cached_blocks[b].state = "Pooled"]
    /\ UNCHANGED <<clientVars, reply, requests, batches, next_batch_id,
                   batch_expirations, taskVars>>

\* Mutant: any entry takes the result, whatever its state.
BlockingFinishedOverwrites ==
    /\ NextMessage("Finished")
    /\ LET b == Head(blocking).block
           entry == cached_blocks[b]
       IN  \/ /\ entry.state # "Missing"
              /\ reply' = Deliver(entry.waiting_requests, Head(blocking).result)
              /\ cached_blocks' = [cached_blocks EXCEPT
                   ![b] = Cached(entry.active_batch_count, Head(blocking).result)]
           \/ /\ entry.state = "Missing"
              /\ UNCHANGED <<reply, cached_blocks>>
    /\ UNCHANGED <<clientVars, requests, batches, next_batch_id,
                   batch_expirations, taskVars>>

\* A result whose entry is gone, or cached already, is ignored.
BlockingFinished ==
    /\ NextMessage("Finished")
    /\ LET b == Head(blocking).block
           res == Head(blocking).result
           entry == cached_blocks[b]
       IN  \/ /\ entry.state = "Pooled"
              /\ reply' = Deliver(entry.waiting_requests, res)
              /\ cached_blocks' =
                   [cached_blocks EXCEPT ![b] = Cached(entry.active_batch_count, res)]
           \/ /\ entry.state # "Pooled"
              /\ UNCHANGED <<reply, cached_blocks>>
    /\ UNCHANGED <<clientVars, requests, batches, next_batch_id,
                   batch_expirations, taskVars>>

\* Mutant: the entry stays when its last user goes.
ExpiredBatchKeeps(i) ==
    /\ i \in batch_expirations
    /\ batch_expirations' = batch_expirations \ {i}
    /\ batches' = [batches EXCEPT ![i] = {}]
    /\ cached_blocks' =
         [b \in Blocks |->
            IF b \in batches[i] /\ cached_blocks[b].state # "Missing"
            THEN [cached_blocks[b] EXCEPT !.active_batch_count = @ - 1]
            ELSE cached_blocks[b]]
    /\ UNCHANGED <<clientVars, reply, requests, next_batch_id, taskVars, blocking>>

\* expired_batch: the batch is forgotten, each of its entries loses one user
\* and is removed with the last one.
ExpiredBatch(i) ==
    /\ i \in batch_expirations
    /\ batch_expirations' = batch_expirations \ {i}
    /\ batches' = [batches EXCEPT ![i] = {}]
    /\ LET used == {b \in batches[i] : cached_blocks[b].state # "Missing"}
           last == {b \in used : cached_blocks[b].active_batch_count = 1}
       IN  /\ cached_blocks' =
                [b \in Blocks |->
                   IF b \in last THEN Missing
                   ELSE IF b \in used
                        THEN [cached_blocks[b] EXCEPT !.active_batch_count = @ - 1]
                        ELSE cached_blocks[b]]
           /\ reply' = Deliver(UNION {cached_blocks[b].waiting_requests : b \in last},
                               "Closed")
    /\ UNCHANGED <<clientVars, requests, next_batch_id, taskVars, blocking>>

-----------------------------------------------------------------------------
(***************************************************************************)
(* The task that batch i spawned for block b. Its select! takes either     *)
(* branch when the cancellation and a permit are both ready.               *)
(***************************************************************************)

\* Mutant: unqueue_sender is dropped at once instead of kept in the entry.
CancelledAtOnce(i, b) == TRUE

\* The entry that holds the task's unqueue_sender is gone or cached.
Cancelled(i, b) == ~(cached_blocks[b].state = "Pooled" /\ cached_blocks[b].tracer = i)

HasRoom == Len(blocking) < 2 * Permits

TaskUnqueued(i, b) ==
    /\ tasks[i][b] = "waiting"
    /\ Cancelled(i, b)
    /\ tasks' = [tasks EXCEPT ![i][b] = "none"]
    /\ UNCHANGED <<clientVars, reply, requests, cacheVars, permits, blocking>>

\* Mutant: "let _ =" in place of "let _permit =" gives the permit back at once.
TaskAcquireForgets(i, b) ==
    /\ tasks[i][b] = "waiting"
    /\ permits > 0
    /\ tasks' = [tasks EXCEPT ![i][b] = "acquired"]
    /\ UNCHANGED <<clientVars, reply, requests, cacheVars, permits, blocking>>

TaskAcquire(i, b) ==
    /\ tasks[i][b] = "waiting"
    /\ permits > 0
    /\ permits' = permits - 1
    /\ tasks' = [tasks EXCEPT ![i][b] = "acquired"]
    /\ UNCHANGED <<clientVars, reply, requests, cacheVars, blocking>>

TaskStarted(i, b) ==
    /\ tasks[i][b] = "acquired"
    /\ HasRoom
    /\ blocking' = Append(blocking, Started(b))
    /\ tasks' = [tasks EXCEPT ![i][b] = "tracing"]
    /\ UNCHANGED <<clientVars, reply, requests, cacheVars, permits>>

\* Mutant: the "?" on a panic leaves the task before the result is sent.
TaskFinishedUnlessErr(i, b) ==
    /\ tasks[i][b] = "tracing"
    /\ HasRoom
    /\ blocking' \in {blocking, Append(blocking, Finished(b, "Ok"))}
    /\ tasks' = [tasks EXCEPT ![i][b] = "none"]
    /\ permits' = permits + 1
    /\ UNCHANGED <<clientVars, reply, requests, cacheVars>>

\* Mutant: a permit that is forgotten when the replay fails.
TaskFinishedKeepsPermit(i, b) ==
    /\ tasks[i][b] = "tracing"
    /\ HasRoom
    /\ \E res \in Results :
          /\ blocking' = Append(blocking, Finished(b, res))
          /\ permits' = IF res = "Ok" THEN permits + 1 ELSE permits
    /\ tasks' = [tasks EXCEPT ![i][b] = "none"]
    /\ UNCHANGED <<clientVars, reply, requests, cacheVars>>

\* spawn_blocking(cache_block) has returned; the permit is dropped once the
\* result has been sent.
TaskFinished(i, b) ==
    /\ tasks[i][b] = "tracing"
    /\ HasRoom
    /\ \E res \in Results : blocking' = Append(blocking, Finished(b, res))
    /\ tasks' = [tasks EXCEPT ![i][b] = "none"]
    /\ permits' = permits + 1
    /\ UNCHANGED <<clientVars, reply, requests, cacheVars>>

-----------------------------------------------------------------------------
HandleRequest == RequestStartBatch \/ RequestGetTraces \/ RequestStopBatch
HandleMessage == BlockingStarted \/ BlockingFinished

FilterStep(c) == BatchStarted(c) \/ FetchNext(c) \/ FilterReturn(c)

ClientNext(c) == FilterCall(c) \/ FilterRejected(c) \/ FilterStep(c) \/ FilterDropped(c)
TaskNext(i, b) ==
    TaskUnqueued(i, b) \/ TaskAcquire(i, b) \/ TaskStarted(i, b) \/ TaskFinished(i, b)

Next ==
    \/ \E c \in Clients : ClientNext(c)
    \/ HandleRequest
    \/ HandleMessage
    \/ \E i \in BatchId : ExpiredBatch(i)
    \/ \E i \in BatchId, b \in Blocks : TaskNext(i, b)

Spec == Init /\ [][Next]_vars

(***************************************************************************)
(* The executor polls every woken task, and select! picks among its ready  *)
(* branches at random, so no branch that stays ready is passed over for    *)
(* ever; timers fire and the replay of a block ends. Nothing is assumed    *)
(* about which of several calls, batches or tracing tasks goes first.      *)
(***************************************************************************)
Fairness ==
    /\ WF_vars(HandleRequest)
    /\ WF_vars(HandleMessage)
    /\ WF_vars(\E i \in BatchId : ExpiredBatch(i))
    /\ WF_vars(\E c \in Clients : FilterStep(c))
    /\ WF_vars(\E i \in BatchId, b \in Blocks : TaskNext(i, b))

FairSpec == Spec /\ Fairness

-----------------------------------------------------------------------------
(***************************************************************************)
(* Properties                                                              *)
(***************************************************************************)

Users(b) == {i \in BatchId : b \in batches[i]}

\* Every entry is counted by at least one and at most as many users as there
\* are unexpired batches with its block: the decrement of expired_batch never
\* goes below zero, and no entry outlives the last batch that wants it.
CountWithinBatches ==
    \A b \in Blocks : cached_blocks[b].state # "Missing" =>
        /\ cached_blocks[b].active_batch_count >= 1
        /\ cached_blocks[b].active_batch_count <= Cardinality(Users(b))

\* Messages of the tracing tasks about block b.
FinishedQueued(b) ==
    \E k \in 1..Len(blocking) : blocking[k].type = "Finished" /\ blocking[k].block = b

\* A block that calls may wait for is never left without a tracer: the task
\* its entry can cancel is still alive, or a result is on its way to the
\* CacheTask, however stops, expirations and late messages interleave.
PooledHasTracer ==
    \A b \in Blocks : cached_blocks[b].state = "Pooled" =>
        \/ tasks[cached_blocks[b].tracer][b] # "none"
        \/ FinishedQueued(b)

GetTracesQueued(c) ==
    \E k \in 1..Len(requests) : requests[k] = GetTraces(c, Min(todo[c]))

\* The sender of a get_traces that has no answer yet is alive: it is in the
\* requester channel or in the waiting list of the pooled block that the call
\* asked for. No handler loses it.
WaiterHasSender ==
    \A c \in Clients : pc[c] = "getting" /\ reply[c] = "none" =>
        /\ todo[c] # {}
        /\ \/ GetTracesQueued(c)
           \/ c \in cached_blocks[Min(todo[c])].waiting_requests

\* A batch that still holds blocks ends: its call has yet to stop it, its
\* stop is queued or its expiration delay is running. The exception is the
\* batch of a call that was dropped, which nothing stops.
BatchWillEnd ==
    \A i \in BatchId : batches[i] # {} =>
        \/ \E c \in Clients : batch_id[c] = i /\ pc[c] \in {"starting", "getting", "dropped"}
        \/ \E k \in 1..Len(requests) : requests[k] = StopBatch(i)
        \/ i \in batch_expirations

\* The answer cached for a block stays the same while its entry lives, even
\* though the task of a removed entry may deliver a second, different result.
CachedIsStable ==
    [][\A b \in Blocks : cached_blocks[b].state = "Cached" =>
          \/ cached_blocks'[b].state = "Missing"
          \/ /\ cached_blocks'[b].state = "Cached"
             /\ cached_blocks'[b].traces = cached_blocks[b].traces]_vars

\* The tracing tasks that hold a permit: from acquire() until the task ends.
Holders == {t \in BatchId \X Blocks : tasks[t[1]][t[2]] \in {"acquired", "tracing"}}

\* The semaphore is never over- or under-filled: at most Permits blocks are
\* traced at a time and no path of a tracing task loses a permit, the
\* cancelled one included.
PermitsConserved == permits + Cardinality(Holders) = Permits

\* Every call of the RPC handler returns, unless it is dropped; that others
\* are dropped does not stop it.
FilterReturns ==
    \A c \in Clients : pc[c] \in {"starting", "getting"} ~> pc[c] \in {"done", "dropped"}

\* Whatever is dropped, cancelled or fails, in the end all permits are back
\* (the debug RPC task, which shares them, is not starved) and the cache is
\* empty but for the blocks of batches whose calls were dropped.
Drains ==
    <>[](/\ permits = Permits
         /\ \A b \in Blocks : cached_blocks[b] # Missing => \E i \in BatchId : b \in batches[i]
         /\ \A i \in BatchId : batches[i] # {} =>
               \E c \in Clients : pc[c] = "dropped" /\ batch_id[c] = i)

\* What the documentation of CacheBlock, request_get_traces and StopBatch
\* promises together: a block contained in a batch that has not been stopped
\* is served, never reported as not batched and its request never dropped.
BatchedBlockIsServed ==
    \A c \in Clients : pc[c] = "getting" => reply[c] \notin {"NotBatched", "Closed"}

-----------------------------------------------------------------------------
(***************************************************************************)
(* The inductive invariant behind the proofs of TraceCacheProofs: batches  *)
(* that were not started yet hold no block and spawned no task, and a call *)
(* in the loop of fetch_traces has its batch.                              *)
(***************************************************************************)
GettingHasBatch == \A c \in Clients : pc[c] = "getting" => batch_id[c] # NoBatch

FreshBatches ==
    \A i \in BatchId : i >= next_batch_id =>
        batches[i] = {} /\ \A b \in Blocks : tasks[i][b] = "none"

TracerIsStarted ==
    \A b \in Blocks : cached_blocks[b].state = "Pooled" =>
        cached_blocks[b].tracer \in BatchId /\ cached_blocks[b].tracer < next_batch_id

\* Where the sender of a get_traces of call c can be: in a request of the
\* channel or in the waiting list of a block.
GetTracesOf(c) ==
    {k \in 1..Len(requests) : requests[k].type = "GetTraces" /\ requests[k].client = c}

WaitsFor(c) == {b \in Blocks : c \in cached_blocks[b].waiting_requests}

AskedOnce(c, b) ==
    \E k \in 1..Len(requests) : GetTracesOf(c) = {k} /\ requests[k].block = b

NoSender(c) == GetTracesOf(c) = {} /\ WaitsFor(c) = {}

OneSender(c, b) ==
    \/ AskedOnce(c, b) /\ WaitsFor(c) = {}
    \/ GetTracesOf(c) = {} /\ WaitsFor(c) = {b}

\* A call has one sender, for the block it is fetching, until it is answered,
\* and no other: a late answer can not be taken for the next block's.
SenderOf(c) ==
    /\ pc[c] \in {"idle", "starting"} => NoSender(c) /\ reply[c] = "none"
    /\ pc[c] = "getting" =>
          /\ todo[c] # {}
          /\ IF reply[c] = "none" THEN OneSender(c, Min(todo[c])) ELSE NoSender(c)

EntriesAreWhole ==
    \A b \in Blocks :
        /\ cached_blocks[b].state # "Pooled" => cached_blocks[b].waiting_requests = {}
        /\ cached_blocks[b].state = "Cached" => cached_blocks[b].traces \in Results

SenderInv == EntriesAreWhole /\ \A c \in Clients : SenderOf(c)

\* A call starts one batch, whose ID nobody has before it is handled.
StartBatchOf(c) ==
    {k \in 1..Len(requests) : requests[k].type = "StartBatch" /\ requests[k].client = c}

StartsOnce ==
    \A c \in Clients :
        /\ pc[c] = "idle" => StartBatchOf(c) = {} /\ batch_id[c] = NoBatch
        /\ pc[c] \in {"getting", "done"} => StartBatchOf(c) = {}
        /\ StartBatchOf(c) # {} =>
              batch_id[c] = NoBatch /\ \A k, l \in StartBatchOf(c) : k = l

IInv ==
    /\ TypeOK
    /\ GettingHasBatch
    /\ FreshBatches
    /\ CountWithinBatches
    /\ TracerIsStarted
    /\ PooledHasTracer
    /\ PermitsConserved
    /\ SenderInv
    /\ StartsOnce
    /\ BatchWillEnd
=============================================================================
