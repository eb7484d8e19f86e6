-------------------------- MODULE TraceCacheProofs --------------------------
(***************************************************************************)
(* Proofs about TraceCache for any number of calls, blocks, permits and    *)
(* batches.                                                                *)
(***************************************************************************)
EXTENDS TraceCacheRefinement, TLAPS, FiniteSetTheorems

USE HeightAssumption, PermitsAssumption, MaxBatchesAssumption, DroppableAssumption

(***************************************************************************)
(* The lowest of the blocks still to fetch is one of them.                 *)
(***************************************************************************)
LEMMA MinOfBlocks ==
    ASSUME NEW bs \in SUBSET Blocks, bs # {}
    PROVE  Min(bs) \in bs
<1> DEFINE Less == {p \in Nat \X Nat : p[1] < p[2]}
<1>1. bs \subseteq Nat
  BY DEF Blocks
<1>2. IsWellFoundedOn(Less, Nat)
  BY NatLessThanWellFounded, Zenon DEF OpToRel
<1>3. PICK x \in bs : \A y \in bs : ~(<<y, x>> \in Less)
  <2> HIDE DEF Less
  <2> QED
    BY <1>1, <1>2, WFMin
<1>4. \A y \in bs : x =< y
  <2> SUFFICES ASSUME NEW y \in bs PROVE x =< y
    OBVIOUS
  <2>1. x \in Nat /\ y \in Nat
    BY <1>1
  <2>2. ~(y < x)
    BY <2>1, <1>3
  <2> QED
    BY <2>1, <2>2
<1> QED
  BY <1>4 DEF Min


(***************************************************************************)
(* The entries that the handlers write are well-typed.                     *)
(***************************************************************************)
LEMMA EntryTypes ==
    /\ Missing \in CacheBlock
    /\ \A i \in BatchId : Pooled(i) \in CacheBlock
    /\ \A n \in Nat, res \in Results : Cached(n, res) \in CacheBlock
BY DEF CacheBlock, Missing, Pooled, Cached, Results

LEMMA CachedFields ==
    ASSUME NEW n, NEW res
    PROVE  /\ Cached(n, res).state = "Cached"
           /\ Cached(n, res).active_batch_count = n
           /\ Cached(n, res).traces = res
BY DEF Cached

\* In-place updates of an entry, and the fields that they leave alone.
LEMMA CountUpdate ==
    ASSUME NEW e \in CacheBlock, NEW n \in Nat
    PROVE  /\ [e EXCEPT !.active_batch_count = n] \in CacheBlock
           /\ [e EXCEPT !.active_batch_count = n].state = e.state
           /\ [e EXCEPT !.active_batch_count = n].tracer = e.tracer
           /\ [e EXCEPT !.active_batch_count = n].traces = e.traces
           /\ [e EXCEPT !.active_batch_count = n].active_batch_count = n
BY DEF CacheBlock

LEMMA WaiterUpdate ==
    ASSUME NEW e \in CacheBlock, NEW c \in Clients
    PROVE  /\ [e EXCEPT !.waiting_requests = @ \cup {c}] \in CacheBlock
           /\ [e EXCEPT !.waiting_requests = @ \cup {c}].state = e.state
           /\ [e EXCEPT !.waiting_requests = @ \cup {c}].active_batch_count = e.active_batch_count
           /\ [e EXCEPT !.waiting_requests = @ \cup {c}].tracer = e.tracer
           /\ [e EXCEPT !.waiting_requests = @ \cup {c}].traces = e.traces
BY DEF CacheBlock

LEMMA StartedUpdate ==
    ASSUME NEW e \in CacheBlock, NEW s \in BOOLEAN
    PROVE  /\ [e EXCEPT !.started = s] \in CacheBlock
           /\ [e EXCEPT !.started = s].state = e.state
           /\ [e EXCEPT !.started = s].active_batch_count = e.active_batch_count
           /\ [e EXCEPT !.started = s].tracer = e.tracer
           /\ [e EXCEPT !.started = s].traces = e.traces
BY DEF CacheBlock

LEMMA MessageTypes ==
    /\ \A c \in Clients, bs \in SUBSET Blocks : StartBatch(c, bs) \in CacheRequest
    /\ \A c \in Clients, b \in Blocks : GetTraces(c, b) \in CacheRequest
    /\ \A i \in BatchId : StopBatch(i) \in CacheRequest
    /\ \A b \in Blocks : Started(b) \in BlockingTaskMessage
    /\ \A b \in Blocks, res \in Results : Finished(b, res) \in BlockingTaskMessage
BY DEF StartBatch, GetTraces, StopBatch, Started, Finished, CacheRequest, BlockingTaskMessage

\* The fields of a request or a message that its type announces.
LEMMA RequestFields ==
    ASSUME NEW r \in CacheRequest
    PROVE  /\ r.type = "StartBatch" => r.client \in Clients /\ r.blocks \in SUBSET Blocks
           /\ r.type = "GetTraces" => r.client \in Clients /\ r.block \in Blocks
           /\ r.type = "StopBatch" => r.batch \in BatchId
BY DEF CacheRequest

LEMMA MessageFields ==
    ASSUME NEW m \in BlockingTaskMessage
    PROVE  /\ m.block \in Blocks
           /\ m.type = "Finished" => m.result \in Results
BY DEF BlockingTaskMessage

LEMMA DeliverType ==
    ASSUME TypeOK, NEW cs, NEW v \in Replies
    PROVE  Deliver(cs, v) \in [Clients -> Replies]
BY DEF TypeOK, Deliver

-----------------------------------------------------------------------------
(***************************************************************************)
(* Type correctness, with the fact that a call in the loop of fetch_traces *)
(* has received its batch ID: it is what stop_batch sends.                 *)
(***************************************************************************)
TypeInv == TypeOK /\ GettingHasBatch

LEMMA TypeInit == Init => TypeInv
BY EntryTypes DEF Init, TypeInv, TypeOK, GettingHasBatch, Replies, BatchId, NoBatch

LEMMA ClientType ==
    ASSUME TypeInv, NEW c \in Clients, ClientNext(c)
    PROVE  TypeInv'
<1> USE DEF TypeInv, TypeOK, GettingHasBatch
<1>1. CASE FilterCall(c)
  <2>1. PICK from \in 0..Height, to \in 0..Height :
          /\ todo' = [todo EXCEPT ![c] = BlockHashes(from, to)]
          /\ requests' = Append(requests, StartBatch(c, BlockHashes(from, to)))
    BY <1>1 DEF FilterCall
  <2>2. BlockHashes(from, to) \in SUBSET Blocks
    BY DEF BlockHashes, Blocks
  <2>3. StartBatch(c, BlockHashes(from, to)) \in CacheRequest
    BY <2>2, MessageTypes
  <2> QED
    BY <1>1, <2>1, <2>2, <2>3 DEF FilterCall, cacheVars, taskVars
<1>2. CASE FilterRejected(c)
  BY <1>2 DEF FilterRejected, cacheVars, taskVars
<1>3. ASSUME NEW bs \in SUBSET Blocks, bs # {}, batch_id[c] # NoBatch, SendGetTraces(c, bs),
             UNCHANGED <<batch_id, cacheVars, taskVars, blocking>>
      PROVE  TypeInv'
  <2>1. GetTraces(c, Min(bs)) \in CacheRequest
    BY <1>3, MinOfBlocks, MessageTypes
  <2> QED
    BY <1>3, <2>1 DEF SendGetTraces, cacheVars, taskVars, Replies
<1>4. ASSUME batch_id[c] # NoBatch, SendStopBatch(c),
             UNCHANGED <<batch_id, cacheVars, taskVars, blocking>>
      PROVE  TypeInv'
  <2>1. StopBatch(batch_id[c]) \in CacheRequest
    BY <1>4, MessageTypes
  <2> QED
    BY <1>4, <2>1 DEF SendStopBatch, cacheVars, taskVars, Replies
<1>5. CASE BatchStarted(c)
  BY <1>3, <1>4, <1>5 DEF BatchStarted
<1>6. CASE FetchNext(c)
  BY <1>3, <1>6 DEF FetchNext
<1>7. CASE FilterReturn(c)
  BY <1>4, <1>7 DEF FilterReturn
<1>8. CASE FilterDropped(c)
  BY <1>8 DEF FilterDropped, cacheVars, taskVars, Replies
<1> QED
  BY <1>1, <1>2, <1>5, <1>6, <1>7, <1>8 DEF ClientNext, FilterStep

\* The next request of the channel is well-typed, and so is what remains.
LEMMA NextRequestType ==
    ASSUME TypeOK, NEW type, NextRequest(type)
    PROVE  /\ Head(requests) \in CacheRequest
           /\ Head(requests).type = type
           /\ requests' \in Seq(CacheRequest)
BY DEF TypeOK, NextRequest

LEMMA NextMessageType ==
    ASSUME TypeOK, NEW type, NextMessage(type)
    PROVE  /\ Head(blocking) \in BlockingTaskMessage
           /\ Head(blocking).type = type
           /\ blocking' \in Seq(BlockingTaskMessage)
BY DEF TypeOK, NextMessage

LEMMA RequestType ==
    ASSUME TypeInv, HandleRequest
    PROVE  TypeInv'
<1> USE DEF TypeInv, TypeOK, GettingHasBatch
<1>1. CASE RequestStartBatch
  <2> DEFINE r == Head(requests)
             missed == {b \in r.blocks : cached_blocks[b].state = "Missing"}
  <2>1. /\ r \in CacheRequest /\ r.type = "StartBatch"
        /\ requests' \in Seq(CacheRequest)
    BY <1>1, NextRequestType DEF RequestStartBatch
  <2>2. r.client \in Clients /\ r.blocks \in SUBSET Blocks
    BY <2>1, RequestFields
  <2>3. next_batch_id \in BatchId /\ next_batch_id' \in 0..MaxBatches
    BY <1>1 DEF RequestStartBatch, BatchId
  <2>4. /\ batches' = [batches EXCEPT ![next_batch_id] = r.blocks]
        /\ cached_blocks' =
             [b \in Blocks |->
                IF b \in missed THEN Pooled(next_batch_id)
                ELSE IF b \in r.blocks
                     THEN [cached_blocks[b] EXCEPT !.active_batch_count = @ + 1]
                     ELSE cached_blocks[b]]
        /\ tasks' = [tasks EXCEPT ![next_batch_id] =
                       [b \in Blocks |-> IF b \in missed THEN "waiting" ELSE "none"]]
        /\ batch_id' = [batch_id EXCEPT ![r.client] = next_batch_id]
        /\ UNCHANGED <<pc, todo, reply, batch_expirations, permits, blocking>>
    BY <1>1 DEF RequestStartBatch
  <2> HIDE DEF r, missed
  <2>5. cached_blocks' \in [Blocks -> CacheBlock]
    <3>1. \A b \in Blocks : [cached_blocks[b] EXCEPT !.active_batch_count = @ + 1] \in CacheBlock
      <4> SUFFICES ASSUME NEW b \in Blocks
                   PROVE  [cached_blocks[b] EXCEPT !.active_batch_count = @ + 1] \in CacheBlock
        OBVIOUS
      <4>1. cached_blocks[b] \in CacheBlock /\ cached_blocks[b].active_batch_count + 1 \in Nat
        BY DEF CacheBlock
      <4> QED
        BY <4>1, CountUpdate
    <3> QED
      BY <2>3, <2>4, <3>1, EntryTypes
  <2>6. tasks' \in [BatchId -> [Blocks -> {"none", "waiting", "acquired", "tracing"}]]
    BY <2>3, <2>4
  <2>7. batch_id' \in [Clients -> BatchId \cup {NoBatch}] /\ batches' \in [BatchId -> SUBSET Blocks]
    BY <2>2, <2>3, <2>4
  <2>8. GettingHasBatch'
    BY <2>2, <2>3, <2>4 DEF BatchId, NoBatch
  <2> QED
    BY <2>1, <2>3, <2>4, <2>5, <2>6, <2>7, <2>8
<1>2. CASE RequestGetTraces
  <2> DEFINE r == Head(requests)
  <2>1. /\ r \in CacheRequest /\ r.type = "GetTraces"
        /\ requests' \in Seq(CacheRequest)
    BY <1>2, NextRequestType DEF RequestGetTraces
  <2>2. r.client \in Clients /\ r.block \in Blocks
    BY <2>1, RequestFields
  <2>3. cached_blocks' \in [Blocks -> CacheBlock]
    <3>1. [cached_blocks[r.block] EXCEPT !.waiting_requests = @ \cup {r.client}] \in CacheBlock
      BY <2>2, WaiterUpdate
    <3> QED
      BY <1>2, <2>2, <3>1 DEF RequestGetTraces
  <2>4. reply' \in [Clients -> Replies]
    <3>1. cached_blocks[r.block].state = "Cached" => cached_blocks[r.block].traces \in Replies
      BY <2>2 DEF CacheBlock, Replies
    <3>2. "NotBatched" \in Replies
      BY DEF Replies
    <3> QED
      BY <1>2, <3>1, <3>2, DeliverType DEF RequestGetTraces
  <2> QED
    BY <1>2, <2>1, <2>3, <2>4 DEF RequestGetTraces, clientVars, taskVars
<1>3. CASE RequestStopBatch
  <2>1. /\ Head(requests) \in CacheRequest /\ Head(requests).type = "StopBatch"
        /\ requests' \in Seq(CacheRequest)
    BY <1>3, NextRequestType DEF RequestStopBatch
  <2>2. Head(requests).batch \in BatchId
    BY <2>1, RequestFields
  <2>3. reply' \in [Clients -> Replies]
    BY <1>3, DeliverType DEF RequestStopBatch, DropEntries, Replies
  <2> QED
    BY <1>3, <2>1, <2>2, <2>3, EntryTypes DEF RequestStopBatch, DropEntries, clientVars, taskVars
<1> QED
  BY <1>1, <1>2, <1>3 DEF HandleRequest

LEMMA MessageType ==
    ASSUME TypeInv, HandleMessage
    PROVE  TypeInv'
<1> USE DEF TypeInv, TypeOK, GettingHasBatch
<1> DEFINE b == Head(blocking).block
<1>1. CASE BlockingStarted
  <2>1. b \in Blocks /\ blocking' \in Seq(BlockingTaskMessage)
    BY <1>1, NextMessageType, MessageFields DEF BlockingStarted
  <2>2. cached_blocks' \in [Blocks -> CacheBlock]
    <3> DEFINE s == cached_blocks[b].started \/ cached_blocks[b].state = "Pooled"
    <3>1. s \in BOOLEAN
      BY <2>1 DEF CacheBlock
    <3>2. [cached_blocks[b] EXCEPT !.started = s] \in CacheBlock
      <4> HIDE DEF s
      <4> QED
        BY <2>1, <3>1, StartedUpdate
    <3> QED
      BY <1>1, <2>1, <3>2 DEF BlockingStarted
  <2> QED
    BY <1>1, <2>1, <2>2 DEF BlockingStarted, clientVars, taskVars
<1>2. CASE BlockingFinished
  <2> DEFINE res == Head(blocking).result
             entry == cached_blocks[b]
  <2>1. b \in Blocks /\ res \in Results /\ blocking' \in Seq(BlockingTaskMessage)
    BY <1>2, NextMessageType, MessageFields DEF BlockingFinished
  <2>2. /\ Cached(entry.active_batch_count, res) \in CacheBlock
        /\ Deliver(entry.waiting_requests, res) \in [Clients -> Replies]
    <3>1. entry.active_batch_count \in Nat
      BY <2>1 DEF CacheBlock
    <3>2. res \in Replies
      BY <2>1 DEF Replies
    <3> QED
      BY <2>1, <3>1, <3>2, EntryTypes, DeliverType
  <2> QED
    BY <1>2, <2>1, <2>2, SMTT(30) DEF BlockingFinished, clientVars, taskVars
<1> QED
  BY <1>1, <1>2 DEF HandleMessage

LEMMA ExpiredType ==
    ASSUME TypeInv, CountWithinBatches, NEW i \in BatchId, ExpiredBatch(i)
    PROVE  TypeInv'
<1> USE DEF TypeInv, TypeOK, GettingHasBatch
<1>1. reply' \in [Clients -> Replies]
  BY DeliverType DEF ExpiredBatch, Replies
<1>2. cached_blocks' \in [Blocks -> CacheBlock]
  <2> SUFFICES ASSUME NEW b \in Blocks, cached_blocks[b].state # "Missing"
               PROVE  [cached_blocks[b] EXCEPT !.active_batch_count = @ - 1] \in CacheBlock
    BY EntryTypes DEF ExpiredBatch
  <2>1. cached_blocks[b] \in CacheBlock /\ cached_blocks[b].active_batch_count - 1 \in Nat
    BY DEF CacheBlock, CountWithinBatches
  <2> QED
    BY <2>1, CountUpdate
<1> QED
  BY <1>1, <1>2 DEF ExpiredBatch, clientVars, taskVars

LEMMA TaskType ==
    ASSUME TypeInv, NEW i \in BatchId, NEW b \in Blocks, TaskNext(i, b)
    PROVE  TypeInv'
<1> USE DEF TypeInv, TypeOK, GettingHasBatch, clientVars, cacheVars
<1>1. CASE TaskUnqueued(i, b)
  BY <1>1 DEF TaskUnqueued
<1>2. CASE TaskAcquire(i, b)
  BY <1>2 DEF TaskAcquire
<1>3. CASE TaskStarted(i, b)
  BY <1>3, MessageTypes DEF TaskStarted
<1>4. CASE TaskFinished(i, b)
  BY <1>4, MessageTypes DEF TaskFinished
<1> QED
  BY <1>1, <1>2, <1>3, <1>4 DEF TaskNext

-----------------------------------------------------------------------------
(***************************************************************************)
(* active_batch_count against the batches that hold the block.             *)
(***************************************************************************)
LEMMA UsersFinite ==
    ASSUME NEW b
    PROVE  IsFiniteSet(Users(b)) /\ Cardinality(Users(b)) \in Nat
<1>1. IsFiniteSet(BatchId)
  BY FS_Interval DEF BatchId
<1>2. Users(b) \subseteq BatchId
  BY DEF Users
<1> QED
  BY <1>1, <1>2, FS_Subset, FS_CardinalityType

\* Handlers that leave batches alone may remove entries and may rewrite the
\* ones they keep, provided that they do not touch the count.
LEMMA CountKept ==
    ASSUME TypeOK, CountWithinBatches, UNCHANGED batches,
           \A b \in Blocks :
              \/ cached_blocks'[b].state = "Missing"
              \/ /\ cached_blocks[b].state # "Missing"
                 /\ cached_blocks'[b].active_batch_count = cached_blocks[b].active_batch_count
    PROVE  CountWithinBatches'
<1>1. \A b \in Blocks : Users(b)' = Users(b)
  BY DEF Users
<1> QED
  BY <1>1 DEF CountWithinBatches

LEMMA StartCount ==
    ASSUME TypeInv, FreshBatches, CountWithinBatches, RequestStartBatch
    PROVE  CountWithinBatches'
<1> DEFINE n == next_batch_id
           bs == Head(requests).blocks
<1>1. bs \in SUBSET Blocks /\ n \in BatchId
  <2>1. TypeOK /\ NextRequest("StartBatch")
    BY DEF TypeInv, RequestStartBatch
  <2>2. bs \in SUBSET Blocks
    BY <2>1, NextRequestType, RequestFields
  <2>3. n \in BatchId
    BY <2>1 DEF RequestStartBatch, BatchId, TypeOK
  <2> QED
    BY <2>2, <2>3
<1>2. batches' = [batches EXCEPT ![n] = bs] /\ batches[n] = {}
  BY <1>1 DEF RequestStartBatch, FreshBatches, TypeInv, TypeOK, BatchId
<1> SUFFICES ASSUME NEW b \in Blocks, cached_blocks'[b].state # "Missing"
             PROVE  /\ cached_blocks'[b].active_batch_count >= 1
                    /\ cached_blocks'[b].active_batch_count <= Cardinality(Users(b)')
  BY DEF CountWithinBatches, Users
<1>3. cached_blocks[b] \in CacheBlock
  BY DEF TypeInv, TypeOK
<1>4. b \in bs => n \notin Users(b) /\ Users(b)' = Users(b) \cup {n}
  BY <1>1, <1>2 DEF Users, TypeInv, TypeOK
<1>5. b \notin bs => Users(b)' = Users(b)
  BY <1>1, <1>2 DEF Users, TypeInv, TypeOK
<1>6. IsFiniteSet(Users(b)) /\ Cardinality(Users(b)) \in Nat
  BY UsersFinite
<1>7. b \in bs => Cardinality(Users(b)') = Cardinality(Users(b)) + 1
  BY <1>4, <1>6, FS_AddElement
<1>8. CASE b \notin bs
  <2>1. cached_blocks'[b] = cached_blocks[b]
    BY <1>8 DEF RequestStartBatch
  <2> QED
    BY <1>5, <1>8, <2>1 DEF CountWithinBatches
<1>9. CASE b \in bs /\ cached_blocks[b].state = "Missing"
  <2>1. cached_blocks'[b] = Pooled(n)
    BY <1>9 DEF RequestStartBatch
  <2> QED
    BY <1>6, <1>7, <1>9, <2>1 DEF Pooled
<1>10. CASE b \in bs /\ cached_blocks[b].state # "Missing"
  <2>1. cached_blocks'[b] = [cached_blocks[b] EXCEPT !.active_batch_count = @ + 1]
    BY <1>10 DEF RequestStartBatch
  <2>2. cached_blocks[b].active_batch_count \in Nat
    BY <1>3 DEF CacheBlock
  <2>3. cached_blocks'[b].active_batch_count = cached_blocks[b].active_batch_count + 1
    BY <1>3, <2>1, <2>2, CountUpdate
  <2> QED
    BY <1>6, <1>7, <1>10, <2>2, <2>3 DEF CountWithinBatches
<1> QED
  BY <1>8, <1>9, <1>10

LEMMA ExpiredCount ==
    ASSUME TypeInv, CountWithinBatches, NEW i \in BatchId, ExpiredBatch(i)
    PROVE  CountWithinBatches'
<1> SUFFICES ASSUME NEW b \in Blocks, cached_blocks'[b].state # "Missing"
             PROVE  /\ cached_blocks'[b].active_batch_count >= 1
                    /\ cached_blocks'[b].active_batch_count <= Cardinality(Users(b)')
  BY DEF CountWithinBatches, Users
<1> DEFINE entry == cached_blocks[b]
<1>1. entry \in CacheBlock /\ entry.active_batch_count \in Nat
  BY DEF TypeInv, TypeOK, CacheBlock
<1>2. Users(b)' = Users(b) \ {i}
  BY DEF Users, ExpiredBatch, TypeInv, TypeOK
<1>3. IsFiniteSet(Users(b)) /\ Cardinality(Users(b)) \in Nat
  BY UsersFinite
<1>4. CASE b \notin batches[i]
  <2>1. cached_blocks'[b] = entry
    BY <1>4 DEF ExpiredBatch
  <2>2. Users(b)' = Users(b)
    BY <1>2, <1>4 DEF Users
  <2> QED
    BY <2>1, <2>2 DEF CountWithinBatches
<1>5. CASE b \in batches[i]
  <2>1. i \in Users(b)
    BY <1>5 DEF Users
  <2>2. Cardinality(Users(b)') = Cardinality(Users(b)) - 1
    BY <1>2, <1>3, <2>1, FS_RemoveElement, ZenonT(40)
  <2>3. entry.state # "Missing" /\ entry.active_batch_count # 1
    BY <1>5 DEF ExpiredBatch, Missing
  <2>4. cached_blocks'[b] = [entry EXCEPT !.active_batch_count = @ - 1]
    BY <1>5, <2>3 DEF ExpiredBatch
  <2>5. entry.active_batch_count >= 1 /\ entry.active_batch_count <= Cardinality(Users(b))
    BY <2>3 DEF CountWithinBatches
  <2>6. entry.active_batch_count - 1 \in Nat
    BY <1>1, <2>5
  <2>7. cached_blocks'[b].active_batch_count = entry.active_batch_count - 1
    <3> HIDE DEF entry
    <3> QED
      BY <1>1, <2>4, <2>6, CountUpdate
  <2> QED
    BY <1>1, <1>3, <2>2, <2>3, <2>5, <2>7
<1> QED
  BY <1>4, <1>5

\* Batches that have not been started stay without blocks and tasks.
LEMMA FreshKept ==
    ASSUME TypeInv, FreshBatches, Next
    PROVE  FreshBatches'
<1> USE DEF FreshBatches, TypeInv, TypeOK
<1>1. CASE RequestStartBatch
  <2>1. /\ next_batch_id' = next_batch_id + 1
        /\ \E bs : batches' = [batches EXCEPT ![next_batch_id] = bs]
        /\ \E ts : tasks' = [tasks EXCEPT ![next_batch_id] = ts]
    BY <1>1 DEF RequestStartBatch
  <2>2. ASSUME NEW i \in BatchId, i >= next_batch_id'
        PROVE  batches'[i] = batches[i] /\ tasks'[i] = tasks[i] /\ i >= next_batch_id
    BY <2>1, <2>2 DEF BatchId
  <2> QED
    BY <2>2
<1>2. ASSUME NEW i \in BatchId, ExpiredBatch(i) PROVE FreshBatches'
  BY <1>2 DEF ExpiredBatch, taskVars
<1>3. ASSUME NEW i \in BatchId, NEW b \in Blocks, TaskNext(i, b) PROVE FreshBatches'
  <2>1. /\ batches' = batches /\ next_batch_id' = next_batch_id
        /\ tasks[i][b] # "none"
        /\ \E t : tasks' = [tasks EXCEPT ![i][b] = t]
    BY <1>3 DEF TaskNext, TaskUnqueued, TaskAcquire, TaskStarted, TaskFinished, cacheVars
  <2>2. i < next_batch_id
    BY <2>1 DEF BatchId
  <2>3. \A j \in BatchId : j >= next_batch_id => tasks'[j] = tasks[j]
    BY <2>1, <2>2
  <2> QED
    BY <2>1, <2>3
<1>4. CASE /\ ~RequestStartBatch
           /\ (\E c \in Clients : ClientNext(c)) \/ HandleRequest \/ HandleMessage
  <2>1. UNCHANGED <<batches, next_batch_id, tasks>>
    BY <1>4 DEF ClientNext, FilterCall, FilterRejected, FilterStep, BatchStarted, FetchNext,
                FilterReturn, FilterDropped, HandleRequest, RequestGetTraces, RequestStopBatch,
                HandleMessage, BlockingStarted, BlockingFinished, cacheVars, taskVars
  <2> QED
    BY <2>1
<1> QED
  BY <1>1, <1>2, <1>3, <1>4 DEF Next

LEMMA CountStep ==
    ASSUME TypeInv, FreshBatches, CountWithinBatches, Next
    PROVE  CountWithinBatches'
<1>0. TypeOK
  BY DEF TypeInv
<1>1. ASSUME NEW c \in Clients, ClientNext(c) PROVE CountWithinBatches'
  <2>1. UNCHANGED <<batches, cached_blocks>>
    BY <1>1 DEF ClientNext, FilterCall, FilterRejected, FilterStep, BatchStarted, FetchNext,
                FilterReturn, FilterDropped, cacheVars
  <2> QED
    BY <1>0, <2>1, CountKept
<1>2. CASE RequestStartBatch
  BY <1>2, StartCount
<1>3. CASE RequestGetTraces
  <2>1. UNCHANGED batches
    BY <1>3 DEF RequestGetTraces
  <2>2. ASSUME NEW b \in Blocks
        PROVE  /\ cached_blocks'[b].state = cached_blocks[b].state
               /\ cached_blocks'[b].active_batch_count = cached_blocks[b].active_batch_count
    <3>1. cached_blocks[b] \in CacheBlock
      BY <1>0 DEF TypeOK
    <3>2. Head(requests).client \in Clients
      BY <1>0, <1>3, NextRequestType, RequestFields DEF RequestGetTraces
    <3>3. \/ cached_blocks'[b] = cached_blocks[b]
          \/ cached_blocks'[b] =
               [cached_blocks[b] EXCEPT !.waiting_requests = @ \cup {Head(requests).client}]
      BY <1>0, <1>3 DEF RequestGetTraces, TypeOK
    <3> QED
      BY <3>1, <3>2, <3>3, WaiterUpdate, ZenonT(40)
  <2> QED
    BY <1>0, <2>1, <2>2, CountKept
<1>4. CASE RequestStopBatch
  BY <1>0, <1>4, CountKept DEF RequestStopBatch, DropEntries, Missing
<1>5. CASE BlockingStarted
  <2>1. UNCHANGED batches
    BY <1>5 DEF BlockingStarted
  <2>2. ASSUME NEW b \in Blocks
        PROVE  /\ cached_blocks'[b].state = cached_blocks[b].state
               /\ cached_blocks'[b].active_batch_count = cached_blocks[b].active_batch_count
    <3>1. cached_blocks[b] \in CacheBlock
      BY <1>0 DEF TypeOK
    <3>2. \E s \in BOOLEAN : \/ cached_blocks'[b] = cached_blocks[b]
                             \/ cached_blocks'[b] = [cached_blocks[b] EXCEPT !.started = s]
      BY <1>0, <1>5 DEF BlockingStarted, TypeOK, CacheBlock
    <3> QED
      BY <3>1, <3>2, StartedUpdate, ZenonT(40)
  <2> QED
    BY <1>0, <2>1, <2>2, CountKept
<1>6. CASE BlockingFinished
  <2>1. UNCHANGED batches
    BY <1>6 DEF BlockingFinished
  <2>2. \A b \in Blocks :
           \/ cached_blocks'[b] = cached_blocks[b]
           \/ /\ cached_blocks[b].state = "Pooled"
              /\ cached_blocks'[b] =
                   Cached(cached_blocks[b].active_batch_count, Head(blocking).result)
    BY <1>0, <1>6 DEF BlockingFinished, TypeOK
  <2>3. ASSUME NEW b \in Blocks
        PROVE  \/ cached_blocks'[b].state = "Missing"
               \/ /\ cached_blocks[b].state # "Missing"
                  /\ cached_blocks'[b].active_batch_count = cached_blocks[b].active_batch_count
    BY <2>2, CachedFields
  <2> QED
    BY <1>0, <2>1, <2>3, CountKept
<1>7. ASSUME NEW i \in BatchId, ExpiredBatch(i) PROVE CountWithinBatches'
  BY <1>7, ExpiredCount
<1>8. ASSUME NEW i \in BatchId, NEW b \in Blocks, TaskNext(i, b) PROVE CountWithinBatches'
  <2>1. UNCHANGED <<batches, cached_blocks>>
    BY <1>8 DEF TaskNext, TaskUnqueued, TaskAcquire, TaskStarted, TaskFinished, cacheVars
  <2> QED
    BY <1>0, <2>1, CountKept
<1> QED
  BY <1>1, <1>2, <1>3, <1>4, <1>5, <1>6, <1>7, <1>8 DEF Next, HandleRequest, HandleMessage

-----------------------------------------------------------------------------
(***************************************************************************)
(* CacheTask never underflows active_batch_count and keeps no entry that   *)
(* no batch wants; all variables keep their types.                         *)
(***************************************************************************)
CountInv == TypeInv /\ FreshBatches /\ CountWithinBatches

LEMMA CountInvInductive == Spec => []CountInv
<1>1. Init => CountInv
  BY TypeInit DEF CountInv, Init, FreshBatches, CountWithinBatches, Missing, BatchId
<1>2. CountInv /\ [Next]_vars => CountInv'
  <2> SUFFICES ASSUME CountInv, [Next]_vars PROVE CountInv'
    OBVIOUS
  <2> USE DEF CountInv
  <2>1. CASE Next
    <3>1. TypeInv'
      BY <2>1, ClientType, RequestType, MessageType, ExpiredType, TaskType DEF Next
    <3> QED
      BY <2>1, <3>1, FreshKept, CountStep
  <2>2. CASE UNCHANGED vars
    BY <2>2 DEF vars, clientVars, cacheVars, taskVars, TypeInv, TypeOK, GettingHasBatch,
                FreshBatches, CountWithinBatches, Users
  <2> QED
    BY <2>1, <2>2
<1> QED
  BY <1>1, <1>2, PTL DEF Spec

\* Every reachable state of the cache, its calls, channels and tasks is
\* well-typed, for any chain height, number of calls, permits and batches.
THEOREM TypeCorrect == Spec => []TypeOK
<1>1. CountInv => TypeOK
  BY DEF CountInv, TypeInv
<1> QED
  BY <1>1, CountInvInductive, PTL

\* The user count of an entry of cached_blocks stays between one and the number
\* of unexpired batches with the block: "active_batch_count -= 1" of
\* expired_batch cannot underflow.
THEOREM CountCorrect == Spec => []CountWithinBatches
<1>1. CountInv => CountWithinBatches
  BY DEF CountInv
<1> QED
  BY <1>1, CountInvInductive, PTL

-----------------------------------------------------------------------------
(***************************************************************************)
(* The life of one entry: what any step may do to it.                      *)
(***************************************************************************)
SameEntry(b) ==
    /\ cached_blocks'[b].state = cached_blocks[b].state
    /\ cached_blocks'[b].tracer = cached_blocks[b].tracer
    /\ cached_blocks'[b].traces = cached_blocks[b].traces

Removed(b) == cached_blocks'[b] = Missing

PooledNow(b) ==
    /\ RequestStartBatch
    /\ cached_blocks[b].state = "Missing"
    /\ b \in Head(requests).blocks
    /\ cached_blocks'[b] = Pooled(next_batch_id)

CachedNow(b) ==
    /\ BlockingFinished
    /\ cached_blocks[b].state = "Pooled"
    /\ cached_blocks'[b].state = "Cached"

LEMMA EntryStep ==
    ASSUME TypeInv, CountWithinBatches, Next, NEW b \in Blocks
    PROVE  SameEntry(b) \/ Removed(b) \/ PooledNow(b) \/ CachedNow(b)
<1>0. TypeOK /\ cached_blocks[b] \in CacheBlock /\ cached_blocks[b].active_batch_count \in Nat
  BY DEF TypeInv, TypeOK, CacheBlock
<1>1. ASSUME UNCHANGED cached_blocks PROVE SameEntry(b)
  BY <1>1 DEF SameEntry
<1>2. ASSUME NEW c \in Clients, ClientNext(c) PROVE UNCHANGED cached_blocks
  BY <1>2 DEF ClientNext, FilterCall, FilterRejected, FilterStep, BatchStarted, FetchNext,
              FilterReturn, FilterDropped, cacheVars
<1>3. ASSUME NEW i \in BatchId, NEW d \in Blocks, TaskNext(i, d) PROVE UNCHANGED cached_blocks
  BY <1>3 DEF TaskNext, TaskUnqueued, TaskAcquire, TaskStarted, TaskFinished, cacheVars
<1>4. ASSUME NEW n \in Nat, cached_blocks'[b] = [cached_blocks[b] EXCEPT !.active_batch_count = n]
      PROVE  SameEntry(b)
  BY <1>0, <1>4, CountUpdate DEF SameEntry
<1>5. CASE RequestStartBatch
  <2>1. \/ cached_blocks'[b] = cached_blocks[b]
        \/ PooledNow(b)
        \/ cached_blocks'[b] = [cached_blocks[b] EXCEPT !.active_batch_count = @ + 1]
    BY <1>5 DEF RequestStartBatch, PooledNow
  <2>2. cached_blocks[b].active_batch_count + 1 \in Nat
    BY <1>0
  <2> QED
    BY <1>4, <2>1, <2>2 DEF SameEntry
<1>6. CASE RequestGetTraces
  <2>1. Head(requests).client \in Clients
    BY <1>0, <1>6, NextRequestType, RequestFields DEF RequestGetTraces
  <2> DEFINE updated == [cached_blocks[b] EXCEPT !.waiting_requests = @ \cup {Head(requests).client}]
  <2>2. cached_blocks'[b] = cached_blocks[b] \/ cached_blocks'[b] = updated
    BY <1>0, <1>6 DEF RequestGetTraces, TypeOK
  <2>3. /\ updated.state = cached_blocks[b].state
        /\ updated.tracer = cached_blocks[b].tracer
        /\ updated.traces = cached_blocks[b].traces
    BY <1>0, <2>1, WaiterUpdate
  <2>4. SameEntry(b)
    <3> HIDE DEF updated
    <3> QED
      BY <2>2, <2>3 DEF SameEntry
  <2> QED
    BY <2>4
<1>7. CASE RequestStopBatch
  BY <1>7 DEF RequestStopBatch, DropEntries, SameEntry, Removed
<1>8. CASE BlockingStarted
  <2> DEFINE s == cached_blocks[b].started \/ cached_blocks[b].state = "Pooled"
             updated == [cached_blocks[b] EXCEPT !.started = s]
  <2>0. s \in BOOLEAN
    BY <1>0 DEF CacheBlock
  <2>1. cached_blocks'[b] = cached_blocks[b] \/ cached_blocks'[b] = updated
    BY <1>0, <1>8 DEF BlockingStarted, TypeOK
  <2>2. /\ updated.state = cached_blocks[b].state
        /\ updated.tracer = cached_blocks[b].tracer
        /\ updated.traces = cached_blocks[b].traces
    <3> HIDE DEF s
    <3> QED
      BY <1>0, <2>0, StartedUpdate
  <2>3. SameEntry(b)
    <3> HIDE DEF updated
    <3> QED
      BY <2>1, <2>2 DEF SameEntry
  <2> QED
    BY <2>3
<1>9. CASE BlockingFinished
  <2>1. \/ cached_blocks'[b] = cached_blocks[b]
        \/ /\ cached_blocks[b].state = "Pooled"
           /\ cached_blocks'[b] =
                Cached(cached_blocks[b].active_batch_count, Head(blocking).result)
    BY <1>0, <1>9 DEF BlockingFinished, TypeOK
  <2> QED
    BY <1>9, <2>1, CachedFields DEF SameEntry, CachedNow
<1>10. ASSUME NEW i \in BatchId, ExpiredBatch(i) PROVE SameEntry(b) \/ Removed(b)
  <2>1. \/ cached_blocks'[b] = cached_blocks[b]
        \/ Removed(b)
        \/ /\ cached_blocks[b].state # "Missing"
           /\ cached_blocks'[b] = [cached_blocks[b] EXCEPT !.active_batch_count = @ - 1]
    BY <1>10 DEF ExpiredBatch, Removed
  <2>2. cached_blocks[b].state # "Missing" => cached_blocks[b].active_batch_count - 1 \in Nat
    BY <1>0 DEF CountWithinBatches
  <2> QED
    BY <1>4, <2>1, <2>2 DEF SameEntry
<1> QED
  BY <1>1, <1>2, <1>3, <1>5, <1>6, <1>7, <1>8, <1>9, <1>10 DEF Next, HandleRequest, HandleMessage

\* A cached answer never changes while its entry lives: the late result that
\* the task of an entry removed by request_stop_batch still delivers is
\* ignored by blocking_finished.
THEOREM CachedStable == Spec => CachedIsStable
<1>1. ASSUME CountInv, [Next]_vars
      PROVE  [\A b \in Blocks : cached_blocks[b].state = "Cached" =>
                \/ cached_blocks'[b].state = "Missing"
                \/ /\ cached_blocks'[b].state = "Cached"
                   /\ cached_blocks'[b].traces = cached_blocks[b].traces]_vars
  <2>1. CASE Next
    BY <1>1, <2>1, EntryStep
       DEF CountInv, SameEntry, Removed, PooledNow, CachedNow, Missing
  <2>2. CASE UNCHANGED vars
    BY <2>2
  <2> QED
    BY <1>1, <2>1, <2>2
<1> QED
  BY <1>1, CountInvInductive, PTL DEF Spec, CachedIsStable

-----------------------------------------------------------------------------
(***************************************************************************)
(* A pooled block has a tracing task or a result on its way.               *)
(***************************************************************************)

\* What the steps other than RequestStartBatch do to the task of batch i for b.
LEMMA TaskStep ==
    ASSUME TypeInv, Next, ~RequestStartBatch, NEW i \in BatchId, NEW b \in Blocks,
           tasks[i][b] # "none", ~Cancelled(i, b)
    PROVE  tasks'[i][b] # "none" \/ FinishedQueued(b)'
<1> USE DEF TypeInv, TypeOK
<1>1. ASSUME NEW j \in BatchId, NEW d \in Blocks, TaskNext(j, d), tasks'[i][b] = "none"
      PROVE  FinishedQueued(b)'
  <2>1. \/ TaskUnqueued(j, d)
        \/ \E t \in {"acquired", "tracing"} : tasks' = [tasks EXCEPT ![j][d] = t]
        \/ TaskFinished(j, d)
    BY <1>1 DEF TaskNext, TaskAcquire, TaskStarted
  <2>2. CASE \E t \in {"acquired", "tracing"} : tasks' = [tasks EXCEPT ![j][d] = t]
    BY <1>1, <2>2
  <2>3. CASE TaskUnqueued(j, d)
    <3>1. i = j /\ b = d
      BY <1>1, <2>3 DEF TaskUnqueued
    <3> QED
      BY <2>3, <3>1 DEF TaskUnqueued
  <2>4. CASE TaskFinished(j, d)
    <3>1. i = j /\ b = d
      BY <1>1, <2>4 DEF TaskFinished
    <3>2. PICK res \in Results : blocking' = Append(blocking, Finished(b, res))
      BY <2>4, <3>1 DEF TaskFinished
    <3>3. /\ Len(blocking') = Len(blocking) + 1
          /\ blocking'[Len(blocking) + 1] = Finished(b, res)
      BY <3>2
    <3>4. PICK k : k = Len(blocking) + 1 /\ k \in 1..Len(blocking')
      BY <3>3
    <3>5. blocking'[k] = Finished(b, res)
      BY <3>3, <3>4
    <3>6. blocking'[k].type = "Finished" /\ blocking'[k].block = b
      BY <3>5 DEF Finished
    <3> QED
      BY <3>4, <3>6 DEF FinishedQueued
  <2> QED
    BY <2>1, <2>2, <2>3, <2>4
<1>2. CASE (\E c \in Clients : ClientNext(c)) \/ HandleRequest \/ HandleMessage
             \/ \E j \in BatchId : ExpiredBatch(j)
  <2>1. UNCHANGED tasks
    BY <1>2 DEF ClientNext, FilterCall, FilterRejected, FilterStep, BatchStarted, FetchNext,
                FilterReturn, FilterDropped, HandleRequest, RequestGetTraces, RequestStopBatch,
                HandleMessage, BlockingStarted, BlockingFinished, ExpiredBatch, taskVars
  <2> QED
    BY <2>1
<1> QED
  BY <1>1, <1>2 DEF Next

\* A result in the channel stays there until blocking_finished has taken it,
\* and then the entry is not pooled any more.
LEMMA ResultStep ==
    ASSUME TypeInv, Next, NEW b \in Blocks, FinishedQueued(b)
    PROVE  FinishedQueued(b)' \/ cached_blocks'[b].state # "Pooled"
<1> USE DEF TypeInv, TypeOK
<1>1. PICK k \in 1..Len(blocking) : blocking[k].type = "Finished" /\ blocking[k].block = b
  BY DEF FinishedQueued
<1>2. CASE UNCHANGED blocking
  BY <1>2 DEF FinishedQueued
<1>3. ASSUME NEW m \in BlockingTaskMessage, blocking' = Append(blocking, m)
      PROVE  FinishedQueued(b)'
  <2>1. k \in 1..Len(blocking') /\ blocking'[k] = blocking[k]
    BY <1>3
  <2> QED
    BY <1>1, <2>1 DEF FinishedQueued
<1>4. ASSUME blocking # <<>>, blocking' = Tail(blocking), k # 1
      PROVE  FinishedQueued(b)'
  <2>1. k - 1 \in 1..Len(blocking') /\ blocking'[k - 1] = blocking[k]
    BY <1>4
  <2> QED
    BY <1>1, <2>1 DEF FinishedQueued
<1>5. CASE HandleMessage
  <2>1. blocking # <<>> /\ blocking' = Tail(blocking)
    BY <1>5 DEF HandleMessage, BlockingStarted, BlockingFinished, NextMessage
  <2>2. CASE k # 1
    BY <1>4, <2>1, <2>2
  <2>3. CASE k = 1
    <3>1. Head(blocking).type = "Finished" /\ Head(blocking).block = b
      BY <1>1, <2>1, <2>3
    <3>2. BlockingFinished
      BY <1>5, <3>1 DEF HandleMessage, BlockingStarted, NextMessage
    <3>3. cached_blocks[b].state = "Pooled" =>
            cached_blocks'[b] =
              Cached(cached_blocks[b].active_batch_count, Head(blocking).result)
      BY <3>1, <3>2 DEF BlockingFinished
    <3>4. cached_blocks[b].state # "Pooled" => cached_blocks'[b] = cached_blocks[b]
      BY <3>1, <3>2 DEF BlockingFinished
    <3> QED
      BY <3>3, <3>4, CachedFields
  <2> QED
    BY <2>2, <2>3
<1>6. ASSUME NEW i \in BatchId, NEW d \in Blocks, TaskNext(i, d)
      PROVE  UNCHANGED blocking \/ \E m \in BlockingTaskMessage : blocking' = Append(blocking, m)
  BY <1>6, MessageTypes DEF TaskNext, TaskUnqueued, TaskAcquire, TaskStarted, TaskFinished
<1>7. CASE (\E c \in Clients : ClientNext(c)) \/ HandleRequest \/ \E i \in BatchId : ExpiredBatch(i)
  <2>1. UNCHANGED blocking
    BY <1>7 DEF ClientNext, FilterCall, FilterRejected, FilterStep, BatchStarted, FetchNext,
                FilterReturn, FilterDropped, HandleRequest, RequestStartBatch, RequestGetTraces,
                RequestStopBatch, ExpiredBatch
  <2> QED
    BY <1>2, <2>1
<1> QED
  BY <1>2, <1>3, <1>5, <1>6, <1>7 DEF Next

TracerInv == TracerIsStarted /\ PooledHasTracer

LEMMA TracerStep ==
    ASSUME TypeInv, CountWithinBatches, TracerInv, Next
    PROVE  TracerInv'
<1> USE DEF TracerInv
<1>1. next_batch_id \in Nat /\ next_batch_id' \in {next_batch_id, next_batch_id + 1}
  <2>1. next_batch_id \in Nat
    BY DEF TypeInv, TypeOK
  <2>2. RequestStartBatch => next_batch_id' = next_batch_id + 1
    BY DEF RequestStartBatch
  <2>3. ~RequestStartBatch => UNCHANGED next_batch_id
    BY DEF Next, ClientNext, FilterCall, FilterRejected, FilterStep, BatchStarted, FetchNext,
           FilterReturn, FilterDropped, HandleRequest, RequestGetTraces, RequestStopBatch,
           HandleMessage, BlockingStarted, BlockingFinished, ExpiredBatch,
           TaskNext, TaskUnqueued, TaskAcquire, TaskStarted, TaskFinished, cacheVars
  <2> QED
    BY <2>1, <2>2, <2>3
<1> SUFFICES ASSUME NEW b \in Blocks, cached_blocks'[b].state = "Pooled"
             PROVE  /\ cached_blocks'[b].tracer \in BatchId
                    /\ cached_blocks'[b].tracer < next_batch_id'
                    /\ tasks'[cached_blocks'[b].tracer][b] # "none" \/ FinishedQueued(b)'
  BY DEF TracerIsStarted, PooledHasTracer, FinishedQueued
<1>2. SameEntry(b) \/ PooledNow(b)
  BY EntryStep DEF Removed, CachedNow, Missing
<1>3. CASE PooledNow(b)
  <2>1. next_batch_id \in BatchId /\ next_batch_id' = next_batch_id + 1
    BY <1>3 DEF PooledNow, RequestStartBatch, BatchId, TypeInv, TypeOK
  <2>2. cached_blocks'[b].tracer = next_batch_id
    BY <1>3 DEF PooledNow, Pooled
  <2>3. tasks'[next_batch_id][b] = "waiting"
    BY <1>3, <2>1 DEF PooledNow, RequestStartBatch, TypeInv, TypeOK
  <2> QED
    BY <1>1, <2>1, <2>2, <2>3
<1>4. CASE SameEntry(b)
  <2> DEFINE t == cached_blocks[b].tracer
  <2>1. cached_blocks[b].state = "Pooled" /\ cached_blocks'[b].tracer = t
    BY <1>4 DEF SameEntry
  <2>2. t \in BatchId /\ t < next_batch_id
    BY <2>1 DEF TracerIsStarted
  <2>3. tasks[t][b] # "none" \/ FinishedQueued(b)
    BY <2>1 DEF PooledHasTracer
  <2>4. ~Cancelled(t, b)
    BY <2>1 DEF Cancelled
  <2>5. CASE RequestStartBatch /\ tasks[t][b] # "none"
    <3>1. tasks'[t] = tasks[t]
      BY <1>1, <2>2, <2>5 DEF RequestStartBatch, TypeInv, TypeOK
    <3> QED
      BY <1>1, <2>1, <2>2, <2>5, <3>1 DEF BatchId
  <2>6. tasks'[t][b] # "none" \/ FinishedQueued(b)'
    BY <2>2, <2>3, <2>4, <2>5, <2>1, TaskStep, ResultStep
  <2>7. t < next_batch_id'
    BY <1>1, <2>2 DEF BatchId
  <2> QED
    BY <2>1, <2>2, <2>6, <2>7
<1> QED
  BY <1>2, <1>3, <1>4

\* A block that is pooled always has a live tracing task that its entry can
\* cancel, or a result in the channel of the CacheTask: a call waiting for it
\* is never left behind by stops, expirations or messages of older tasks.
THEOREM TracerCorrect == Spec => []PooledHasTracer
<1>1. Init => TracerInv
  BY DEF Init, TracerInv, TracerIsStarted, PooledHasTracer, Missing
<1>2. CountInv /\ TracerInv /\ [Next]_vars => TracerInv'
  <2> SUFFICES ASSUME CountInv, TracerInv, [Next]_vars PROVE TracerInv'
    OBVIOUS
  <2>1. CASE Next
    BY <2>1, TracerStep DEF CountInv
  <2>2. CASE UNCHANGED vars
    BY <2>2 DEF vars, cacheVars, taskVars, TracerInv, TracerIsStarted, PooledHasTracer,
                FinishedQueued
  <2> QED
    BY <2>1, <2>2
<1>3. TracerInv => PooledHasTracer
  BY DEF TracerInv
<1> QED
  BY <1>1, <1>2, <1>3, CountInvInductive, PTL DEF Spec

-----------------------------------------------------------------------------
(***************************************************************************)
(* The permits of the semaphore.                                           *)
(***************************************************************************)
LEMMA HoldersFinite == IsFiniteSet(Holders)
<1>1. IsFiniteSet(BatchId) /\ IsFiniteSet(Blocks)
  BY FS_Interval DEF BatchId, Blocks
<1>2. IsFiniteSet(BatchId \X Blocks)
  BY <1>1, FS_Product
<1> QED
  BY <1>2, FS_Subset DEF Holders

LEMMA PermitsStep ==
    ASSUME TypeInv, FreshBatches, PermitsConserved, Next
    PROVE  PermitsConserved'
<1> USE DEF TypeInv, TypeOK
<1>0. IsFiniteSet(Holders) /\ Cardinality(Holders) \in Nat /\ permits \in Nat
  BY HoldersFinite, FS_CardinalityType
<1>1. ASSUME UNCHANGED permits, Holders' = Holders PROVE PermitsConserved'
  BY <1>1 DEF PermitsConserved
<1>2. CASE RequestStartBatch
  <2>1. next_batch_id \in BatchId
    BY <1>2 DEF RequestStartBatch, BatchId
  <2>2. \A b \in Blocks : /\ tasks[next_batch_id][b] = "none"
                          /\ tasks'[next_batch_id][b] \in {"none", "waiting"}
    BY <1>2, <2>1 DEF RequestStartBatch, FreshBatches, BatchId
  <2>3. \A i \in BatchId : i # next_batch_id => tasks'[i] = tasks[i]
    BY <1>2 DEF RequestStartBatch
  <2>4. Holders' = Holders
    <3>1. ASSUME NEW i \in BatchId, NEW b \in Blocks
          PROVE  tasks'[i][b] \in {"acquired", "tracing"} <=> tasks[i][b] \in {"acquired", "tracing"}
      BY <2>2, <2>3
    <3> QED
      BY <3>1 DEF Holders
  <2> QED
    BY <1>1, <1>2, <2>4 DEF RequestStartBatch
<1>3. ASSUME NEW i \in BatchId, NEW b \in Blocks, TaskNext(i, b) PROVE PermitsConserved'
  <2> DEFINE t == <<i, b>>
  <2>0. t \in BatchId \X Blocks
    OBVIOUS
  <2>1. ASSUME NEW s \in {"none", "acquired", "tracing"}, tasks' = [tasks EXCEPT ![i][b] = s]
        PROVE  Holders' = IF s = "none" THEN Holders \ {t} ELSE Holders \cup {t}
    <3>1. ASSUME NEW j \in BatchId, NEW d \in Blocks
          PROVE  tasks'[j][d] = IF j = i /\ d = b THEN s ELSE tasks[j][d]
      BY <2>1
    <3> QED
      BY <3>1 DEF Holders
  <2>2. CASE TaskUnqueued(i, b)
    <3>1. t \notin Holders
      BY <2>2 DEF TaskUnqueued, Holders
    <3>2. Holders' = Holders
      BY <2>1, <2>2, <3>1 DEF TaskUnqueued
    <3> QED
      BY <1>1, <2>2, <3>2 DEF TaskUnqueued
  <2>3. CASE TaskAcquire(i, b)
    <3>1. t \notin Holders
      BY <2>3 DEF TaskAcquire, Holders
    <3>2. Holders' = Holders \cup {t}
      BY <2>1, <2>3 DEF TaskAcquire
    <3>3. Cardinality(Holders') = Cardinality(Holders) + 1
      BY <1>0, <3>1, <3>2, FS_AddElement
    <3>4. permits' = permits - 1
      BY <2>3 DEF TaskAcquire
    <3> QED
      BY <1>0, <3>3, <3>4 DEF PermitsConserved
  <2>4. CASE TaskStarted(i, b)
    <3>1. t \in Holders
      BY <2>0, <2>4 DEF TaskStarted, Holders
    <3>2. Holders' = Holders
      BY <2>1, <2>4, <3>1 DEF TaskStarted
    <3> QED
      BY <1>1, <2>4, <3>2 DEF TaskStarted
  <2>5. CASE TaskFinished(i, b)
    <3>1. t \in Holders
      BY <2>0, <2>5 DEF TaskFinished, Holders
    <3>2. Holders' = Holders \ {t}
      BY <2>1, <2>5 DEF TaskFinished
    <3>3. Cardinality(Holders') = Cardinality(Holders) - 1
      BY <1>0, <3>1, <3>2, FS_RemoveElement
    <3>4. permits' = permits + 1
      BY <2>5 DEF TaskFinished
    <3> QED
      BY <1>0, <3>3, <3>4 DEF PermitsConserved
  <2> QED
    BY <1>3, <2>2, <2>3, <2>4, <2>5 DEF TaskNext
<1>4. CASE /\ ~RequestStartBatch
           /\ (\E c \in Clients : ClientNext(c)) \/ HandleRequest \/ HandleMessage
                \/ \E i \in BatchId : ExpiredBatch(i)
  <2>1. UNCHANGED <<tasks, permits>>
    BY <1>4 DEF ClientNext, FilterCall, FilterRejected, FilterStep, BatchStarted, FetchNext,
                FilterReturn, FilterDropped, HandleRequest, RequestGetTraces, RequestStopBatch,
                HandleMessage, BlockingStarted, BlockingFinished, ExpiredBatch, taskVars
  <2> QED
    BY <1>1, <2>1 DEF Holders
<1> QED
  BY <1>2, <1>3, <1>4 DEF Next

\* No path of a tracing task loses or invents a permit: at any time the free
\* permits and the tasks that hold one add up to the semaphore's size.
THEOREM PermitsCorrect == Spec => []PermitsConserved
<1>1. Init => PermitsConserved
  <2> SUFFICES ASSUME Init PROVE PermitsConserved
    OBVIOUS
  <2>1. Holders = {}
    BY DEF Init, Holders
  <2> QED
    BY <2>1, FS_EmptySet DEF Init, PermitsConserved
<1>2. CountInv /\ PermitsConserved /\ [Next]_vars => PermitsConserved'
  <2> SUFFICES ASSUME CountInv, PermitsConserved, [Next]_vars PROVE PermitsConserved'
    OBVIOUS
  <2>1. CASE Next
    BY <2>1, PermitsStep DEF CountInv
  <2>2. CASE UNCHANGED vars
    BY <2>2 DEF vars, taskVars, PermitsConserved, Holders
  <2> QED
    BY <2>1, <2>2
<1> QED
  BY <1>1, <1>2, CountInvInductive, PTL DEF Spec

-----------------------------------------------------------------------------
(***************************************************************************)
(* The senders of the calls that wait. The requester channel is a queue:   *)
(* what a send adds to it, and what a receive leaves of it.                *)
(***************************************************************************)
LEMMA GetTracesIs ==
    ASSUME NEW r \in CacheRequest, r.type = "GetTraces"
    PROVE  r = GetTraces(r.client, r.block)
BY DEF CacheRequest, GetTraces

LEMMA RequestShapes ==
    ASSUME NEW c, NEW b, NEW bs, NEW i
    PROVE  /\ GetTraces(c, b).type = "GetTraces"
           /\ GetTraces(c, b).client = c
           /\ GetTraces(c, b).block = b
           /\ StartBatch(c, bs).type = "StartBatch"
           /\ StartBatch(c, bs).client = c
           /\ StopBatch(i).type = "StopBatch"
           /\ StopBatch(i).batch = i
BY DEF GetTraces, StartBatch, StopBatch

\* The requests of the channel after a send and after a receive.
LEMMA Sent ==
    ASSUME TypeOK, NEW r \in CacheRequest, requests' = Append(requests, r)
    PROVE  /\ Len(requests') = Len(requests) + 1
           /\ \A k \in 1..Len(requests) : requests'[k] = requests[k]
           /\ requests'[Len(requests) + 1] = r
           /\ Len(requests) \in Nat
BY DEF TypeOK

LEMMA Received ==
    ASSUME TypeOK, NEW type, NextRequest(type)
    PROVE  /\ Len(requests) \in Nat \ {0}
           /\ Len(requests') = Len(requests) - 1
           /\ \A k \in 1..Len(requests') : requests'[k] = requests[k + 1]
           /\ requests[1] = Head(requests)
           /\ Head(requests).type = type
           /\ Head(requests) \in CacheRequest
BY DEF TypeOK, NextRequest

LEMMA SentGetTraces ==
    ASSUME TypeOK, NEW r \in CacheRequest, requests' = Append(requests, r), NEW c
    PROVE  /\ r.type = "GetTraces" /\ r.client = c /\ GetTracesOf(c) = {} => AskedOnce(c, r.block)'
           /\ ~(r.type = "GetTraces" /\ r.client = c) => GetTracesOf(c)' = GetTracesOf(c)
           /\ ~(r.type = "GetTraces" /\ r.client = c) =>
                \A b : AskedOnce(c, b) => AskedOnce(c, b)'
<1> DEFINE new == IF r.type = "GetTraces" /\ r.client = c THEN {Len(requests) + 1} ELSE {}
<1>1. GetTracesOf(c)' = GetTracesOf(c) \cup new
  BY Sent DEF GetTracesOf
<1>2. Len(requests) + 1 \in 1..Len(requests')
  BY Sent
<1>3. 1..Len(requests) \subseteq 1..Len(requests')
  BY Sent
<1> QED
  BY <1>1, <1>2, <1>3, Sent DEF AskedOnce

LEMMA ReceivedGetTraces ==
    ASSUME TypeOK, NEW type, NextRequest(type), NEW c
    PROVE  /\ GetTracesOf(c) = {} => GetTracesOf(c)' = {}
           /\ type = "GetTraces" /\ Head(requests).client = c =>
                \A b : AskedOnce(c, b) => GetTracesOf(c)' = {} /\ Head(requests).block = b
           /\ ~(type = "GetTraces" /\ Head(requests).client = c) =>
                \A b : AskedOnce(c, b) => AskedOnce(c, b)'
<1>1. \A k \in 1..Len(requests') : k \in GetTracesOf(c)' <=> k + 1 \in GetTracesOf(c)
  BY Received DEF GetTracesOf
<1>2. 1 \in GetTracesOf(c) <=> type = "GetTraces" /\ Head(requests).client = c
  BY Received DEF GetTracesOf
<1>3. GetTracesOf(c)' \subseteq 1..Len(requests')
  BY DEF GetTracesOf
<1>4. GetTracesOf(c) = {} => GetTracesOf(c)' = {}
  BY <1>1, <1>3
<1>5. ASSUME NEW b, NEW k \in 1..Len(requests), GetTracesOf(c) = {k}, requests[k].block = b
      PROVE  IF k = 1 THEN GetTracesOf(c)' = {} /\ Head(requests).block = b
                      ELSE AskedOnce(c, b)'
  <2>1. CASE k = 1
    <3>1. \A l \in 1..Len(requests') : l + 1 # 1
      BY Received
    <3> QED
      BY <1>1, <1>3, <1>5, <2>1, <3>1, Received
  <2>2. CASE k # 1
    <3>1. k - 1 \in 1..Len(requests') /\ requests'[k - 1] = requests[k]
      BY <2>2, Received
    <3>2. \A l \in 1..Len(requests') : l + 1 = k <=> l = k - 1
      BY Received
    <3>3. GetTracesOf(c)' = {k - 1}
      BY <1>1, <1>3, <1>5, <3>1, <3>2
    <3> QED
      BY <1>5, <2>2, <3>1, <3>3 DEF AskedOnce
  <2> QED
    BY <2>1, <2>2
<1> QED
  BY <1>2, <1>4, <1>5 DEF AskedOnce

\* Waiting lists and traces of an entry through its in-place updates.
LEMMA WaitersKept ==
    ASSUME NEW e \in CacheBlock, NEW v, NEW c
    PROVE  /\ [e EXCEPT !.active_batch_count = v].waiting_requests = e.waiting_requests
           /\ [e EXCEPT !.started = v].waiting_requests = e.waiting_requests
           /\ [e EXCEPT !.waiting_requests = @ \cup {c}].waiting_requests =
                e.waiting_requests \cup {c}
BY DEF CacheBlock

LEMMA NewEntries ==
    ASSUME NEW n, NEW res, NEW i
    PROVE  /\ Missing.waiting_requests = {} /\ Missing.state = "Missing"
           /\ Pooled(i).waiting_requests = {} /\ Pooled(i).state = "Pooled"
           /\ Cached(n, res).waiting_requests = {} /\ Cached(n, res).state = "Cached"
           /\ Cached(n, res).traces = res
BY DEF Missing, Pooled, Cached

\* Entries stay whole: only pooled ones have waiters, cached ones have a result.
LEMMA WholeStep ==
    ASSUME TypeInv, CountWithinBatches, EntriesAreWhole, Next
    PROVE  EntriesAreWhole'
<1> SUFFICES ASSUME NEW b \in Blocks
             PROVE  /\ cached_blocks'[b].state # "Pooled" => cached_blocks'[b].waiting_requests = {}
                    /\ cached_blocks'[b].state = "Cached" => cached_blocks'[b].traces \in Results
  BY DEF EntriesAreWhole
<1>0. TypeOK /\ cached_blocks[b] \in CacheBlock /\ cached_blocks[b].active_batch_count \in Nat
      /\ cached_blocks[b].started \in BOOLEAN
  BY DEF TypeInv, TypeOK, CacheBlock
<1>1. /\ cached_blocks[b].state # "Pooled" => cached_blocks[b].waiting_requests = {}
      /\ cached_blocks[b].state = "Cached" => cached_blocks[b].traces \in Results
  BY DEF EntriesAreWhole
<1>2. ASSUME NEW c \in Clients, ClientNext(c) PROVE UNCHANGED cached_blocks
  BY <1>2 DEF ClientNext, FilterCall, FilterRejected, FilterStep, BatchStarted, FetchNext,
              FilterReturn, FilterDropped, cacheVars
<1>3. ASSUME NEW i \in BatchId, NEW d \in Blocks, TaskNext(i, d) PROVE UNCHANGED cached_blocks
  BY <1>3 DEF TaskNext, TaskUnqueued, TaskAcquire, TaskStarted, TaskFinished, cacheVars
<1>4. CASE UNCHANGED cached_blocks
  BY <1>1, <1>4
<1>5. ASSUME NEW n \in Nat, cached_blocks'[b] = [cached_blocks[b] EXCEPT !.active_batch_count = n]
      PROVE  /\ cached_blocks'[b].waiting_requests = cached_blocks[b].waiting_requests
             /\ cached_blocks'[b].state = cached_blocks[b].state
             /\ cached_blocks'[b].traces = cached_blocks[b].traces
  BY <1>0, <1>5, CountUpdate DEF CacheBlock
<1>6. CASE RequestStartBatch
  <2>1. \/ cached_blocks'[b] = cached_blocks[b]
        \/ cached_blocks'[b] = Pooled(next_batch_id)
        \/ cached_blocks'[b] = [cached_blocks[b] EXCEPT !.active_batch_count = @ + 1]
    BY <1>6 DEF RequestStartBatch
  <2>2. cached_blocks[b].active_batch_count + 1 \in Nat
    BY <1>0
  <2> QED
    BY <1>1, <1>5, <2>1, <2>2, NewEntries
<1>7. CASE RequestGetTraces
  <2>1. Head(requests).client \in Clients
    BY <1>0, <1>7, NextRequestType, RequestFields DEF RequestGetTraces
  <2> DEFINE updated == [cached_blocks[b] EXCEPT !.waiting_requests = @ \cup {Head(requests).client}]
  <2>2. \/ cached_blocks'[b] = cached_blocks[b]
        \/ cached_blocks[b].state = "Pooled" /\ cached_blocks'[b] = updated
    BY <1>0, <1>7 DEF RequestGetTraces, TypeOK
  <2>3. updated.state = cached_blocks[b].state
    BY <1>0, <2>1, WaiterUpdate
  <2> HIDE DEF updated
  <2> QED
    BY <1>1, <2>2, <2>3
<1>8. CASE RequestStopBatch
  BY <1>1, <1>8, NewEntries DEF RequestStopBatch, DropEntries
<1>9. CASE BlockingStarted
  <2> DEFINE s == cached_blocks[b].started \/ cached_blocks[b].state = "Pooled"
             updated == [cached_blocks[b] EXCEPT !.started = s]
  <2>0. s \in BOOLEAN
    BY <1>0
  <2>1. cached_blocks'[b] = cached_blocks[b] \/ cached_blocks'[b] = updated
    BY <1>0, <1>9 DEF BlockingStarted, TypeOK
  <2>2. /\ updated.state = cached_blocks[b].state
        /\ updated.waiting_requests = cached_blocks[b].waiting_requests
        /\ updated.traces = cached_blocks[b].traces
    <3> HIDE DEF s
    <3> QED
      BY <1>0, <2>0, StartedUpdate DEF CacheBlock
  <2> HIDE DEF updated
  <2> QED
    BY <1>1, <2>1, <2>2
<1>10. CASE BlockingFinished
  <2>1. \/ cached_blocks'[b] = cached_blocks[b]
        \/ cached_blocks'[b] = Cached(cached_blocks[b].active_batch_count, Head(blocking).result)
    BY <1>0, <1>10 DEF BlockingFinished, TypeOK
  <2>2. Head(blocking).result \in Results
    BY <1>0, <1>10, NextMessageType, MessageFields DEF BlockingFinished
  <2> QED
    BY <1>1, <2>1, <2>2, NewEntries
<1>11. ASSUME NEW i \in BatchId, ExpiredBatch(i)
       PROVE  /\ cached_blocks'[b].state # "Pooled" => cached_blocks'[b].waiting_requests = {}
              /\ cached_blocks'[b].state = "Cached" => cached_blocks'[b].traces \in Results
  <2>1. \/ cached_blocks'[b] = cached_blocks[b]
        \/ cached_blocks'[b] = Missing
        \/ /\ cached_blocks[b].state # "Missing"
           /\ cached_blocks'[b] = [cached_blocks[b] EXCEPT !.active_batch_count = @ - 1]
    BY <1>11 DEF ExpiredBatch
  <2>2. cached_blocks[b].state # "Missing" => cached_blocks[b].active_batch_count - 1 \in Nat
    BY <1>0 DEF CountWithinBatches
  <2> QED
    BY <1>1, <1>5, <2>1, <2>2, NewEntries
<1> QED
  BY <1>2, <1>3, <1>4, <1>6, <1>7, <1>8, <1>9, <1>10, <1>11 DEF Next, HandleRequest, HandleMessage

\* A call that a step leaves alone keeps its sender: what the step sends or
\* receives is not a get_traces of that call.
LEMMA SenderKept ==
    ASSUME TypeOK, NEW c \in Clients, SenderOf(c),
           pc'[c] = pc[c], todo'[c] = todo[c], reply'[c] = reply[c],
           WaitsFor(c)' = WaitsFor(c),
           \/ UNCHANGED requests
           \/ \E r \in CacheRequest :
                /\ requests' = Append(requests, r)
                /\ ~(r.type = "GetTraces" /\ r.client = c)
           \/ \E type : /\ NextRequest(type)
                        /\ ~(type = "GetTraces" /\ Head(requests).client = c)
    PROVE  SenderOf(c)'
<1>1. GetTracesOf(c) = {} => GetTracesOf(c)' = {}
  BY SentGetTraces, ReceivedGetTraces DEF GetTracesOf
<1>2. ASSUME NEW b, AskedOnce(c, b) PROVE AskedOnce(c, b)'
  <2>1. CASE UNCHANGED requests
    BY <1>2, <2>1 DEF AskedOnce, GetTracesOf
  <2>2. ASSUME NEW r \in CacheRequest, requests' = Append(requests, r),
               ~(r.type = "GetTraces" /\ r.client = c)
        PROVE  AskedOnce(c, b)'
    BY <1>2, <2>2, SentGetTraces
  <2>3. ASSUME NEW type, NextRequest(type), ~(type = "GetTraces" /\ Head(requests).client = c)
        PROVE  AskedOnce(c, b)'
    BY <1>2, <2>3, ReceivedGetTraces
  <2> QED
    BY <2>1, <2>2, <2>3
<1>3. NoSender(c) => NoSender(c)'
  BY <1>1 DEF NoSender
<1>4. ASSUME NEW b, OneSender(c, b) PROVE OneSender(c, b)'
  BY <1>1, <1>2, <1>4 DEF OneSender
<1> QED
  BY <1>3, <1>4 DEF SenderOf

\* The waiting lists of the blocks bs are answered with v and emptied.
LEMMA SenderReleased ==
    ASSUME TypeOK, EntriesAreWhole, NEW bs \in SUBSET Blocks, NEW v, v # "none",
           \A c \in Clients : SenderOf(c),
           UNCHANGED <<pc, todo>>,
           \/ UNCHANGED requests
           \/ NextRequest("StopBatch"),
           reply' = Deliver(UNION {cached_blocks[b].waiting_requests : b \in bs}, v),
           \A b \in Blocks : cached_blocks'[b].waiting_requests =
                IF b \in bs THEN {} ELSE cached_blocks[b].waiting_requests
    PROVE  \A c \in Clients : SenderOf(c)'
<1> SUFFICES ASSUME NEW c \in Clients PROVE SenderOf(c)'
  OBVIOUS
<1> DEFINE cs == UNION {cached_blocks[b].waiting_requests : b \in bs}
<1>0. SenderOf(c) /\ reply \in [Clients -> Replies]
  BY DEF TypeOK
<1>1. WaitsFor(c)' = WaitsFor(c) \ bs
  BY DEF WaitsFor
<1>2. c \in cs <=> WaitsFor(c) \cap bs # {}
  BY DEF WaitsFor
<1>3. reply'[c] = IF c \in cs /\ pc[c] = "getting" THEN v ELSE reply[c]
  BY DEF Deliver
<1>4. CASE c \notin cs
  <2>1. WaitsFor(c)' = WaitsFor(c)
    BY <1>1, <1>2, <1>4
  <2>2. reply'[c] = reply[c]
    BY <1>3, <1>4
  <2> QED
    BY <1>0, <2>1, <2>2, SenderKept
<1>5. CASE c \in cs /\ pc[c] = "getting"
  <2>1. WaitsFor(c) # {}
    BY <1>2, <1>5
  <2>2. todo[c] # {} /\ GetTracesOf(c) = {} /\ WaitsFor(c) = {Min(todo[c])}
    BY <1>0, <1>5, <2>1 DEF SenderOf, NoSender, OneSender
  <2>3. WaitsFor(c)' = {}
    BY <1>1, <1>2, <1>5, <2>2
  <2>4. GetTracesOf(c)' = {}
    BY <2>2, ReceivedGetTraces DEF GetTracesOf
  <2>5. reply'[c] # "none" /\ pc'[c] = "getting" /\ todo'[c] # {}
    BY <1>3, <1>5, <2>2
  <2> QED
    BY <2>3, <2>4, <2>5 DEF SenderOf, NoSender
<1>6. CASE c \in cs /\ pc[c] # "getting"
  <2>1. WaitsFor(c) # {}
    BY <1>2, <1>6
  <2>2. pc'[c] \notin {"idle", "starting", "getting"}
    BY <1>0, <1>6, <2>1 DEF SenderOf, NoSender
  <2> QED
    BY <2>2 DEF SenderOf
<1> QED
  BY <1>4, <1>5, <1>6

LEMMA SenderStep ==
    ASSUME TypeInv, TypeInv', CountWithinBatches, SenderInv, Next
    PROVE  SenderInv'
<1> USE DEF SenderInv
<1>0. TypeOK /\ EntriesAreWhole /\ EntriesAreWhole'
  BY WholeStep DEF TypeInv
<1> SUFFICES \A d \in Clients : SenderOf(d)'
  BY <1>0
<1>1. ASSUME NEW c \in Clients, NEW bs \in SUBSET Blocks, bs # {},
             SendGetTraces(c, bs), NoSender(c), UNCHANGED cached_blocks
      PROVE  \A d \in Clients : SenderOf(d)'
  <2>1. Min(bs) \in Blocks /\ GetTraces(c, Min(bs)) \in CacheRequest
    BY <1>1, MinOfBlocks, MessageTypes
  <2>2. requests' = Append(requests, GetTraces(c, Min(bs)))
    BY <1>1 DEF SendGetTraces
  <2>3. GetTraces(c, Min(bs)).type = "GetTraces" /\ GetTraces(c, Min(bs)).client = c
          /\ GetTraces(c, Min(bs)).block = Min(bs)
    BY RequestShapes
  <2>4. \A d \in Clients : WaitsFor(d)' = WaitsFor(d)
    BY <1>1 DEF WaitsFor
  <2>5. SenderOf(c)'
    <3>1. AskedOnce(c, Min(bs))'
      BY <1>0, <1>1, <2>1, <2>2, <2>3, SentGetTraces DEF NoSender
    <3>2. WaitsFor(c)' = {}
      BY <1>1, <2>4 DEF NoSender
    <3>3. pc'[c] = "getting" /\ todo'[c] = bs /\ reply'[c] = "none"
      BY <1>0, <1>1 DEF SendGetTraces, TypeOK
    <3> QED
      BY <1>1, <3>1, <3>2, <3>3 DEF SenderOf, OneSender
  <2>6. ASSUME NEW d \in Clients, d # c PROVE SenderOf(d)'
    <3>1. pc'[d] = pc[d] /\ todo'[d] = todo[d] /\ reply'[d] = reply[d]
      BY <1>0, <1>1, <2>6 DEF SendGetTraces, TypeOK
    <3> QED
      BY <1>0, <2>1, <2>2, <2>3, <2>4, <2>6, <3>1, SenderKept
  <2> QED
    BY <2>5, <2>6
\* The call becomes one of which nothing is said, or idle becomes starting.
<1>2. ASSUME NEW c \in Clients, UNCHANGED cached_blocks,
             \A d \in Clients \ {c} : pc'[d] = pc[d] /\ todo'[d] = todo[d] /\ reply'[d] = reply[d],
             \/ pc'[c] \in {"done", "dropped"}
             \/ pc[c] = "idle" /\ pc'[c] = "starting" /\ reply'[c] = reply[c],
             \/ UNCHANGED requests
             \/ \E r \in CacheRequest :
                  requests' = Append(requests, r) /\ r.type # "GetTraces"
      PROVE  \A d \in Clients : SenderOf(d)'
  <2>1. \A d \in Clients : WaitsFor(d)' = WaitsFor(d)
    BY <1>2 DEF WaitsFor
  <2>2. ASSUME NEW d \in Clients, d # c PROVE SenderOf(d)'
    BY <1>0, <1>2, <2>1, <2>2, SenderKept
  <2>3. SenderOf(c)'
    <3>1. CASE pc'[c] \in {"done", "dropped"}
      BY <3>1 DEF SenderOf
    <3>2. CASE pc[c] = "idle" /\ pc'[c] = "starting" /\ reply'[c] = reply[c]
      <4>1. NoSender(c) /\ reply[c] = "none"
        BY <3>2 DEF SenderOf
      <4>2. GetTracesOf(c)' = {}
        BY <1>0, <1>2, <4>1, SentGetTraces DEF NoSender, GetTracesOf
      <4> QED
        BY <2>1, <3>2, <4>1, <4>2 DEF SenderOf, NoSender
    <3> QED
      BY <1>2, <3>1, <3>2
  <2> QED
    BY <2>2, <2>3
<1>3. ASSUME NEW c \in Clients, ClientNext(c) PROVE \A d \in Clients : SenderOf(d)'
  <2>0. UNCHANGED cached_blocks
    BY <1>3 DEF ClientNext, FilterCall, FilterRejected, FilterStep, BatchStarted, FetchNext,
              FilterReturn, FilterDropped, cacheVars
  <2>1. CASE FilterCall(c)
    <3>1. PICK from \in 0..Height, to \in 0..Height :
          /\ pc' = [pc EXCEPT ![c] = "starting"]
          /\ todo' = [todo EXCEPT ![c] = BlockHashes(from, to)]
          /\ requests' = Append(requests, StartBatch(c, BlockHashes(from, to)))
      BY <2>1 DEF FilterCall
    <3>2. BlockHashes(from, to) \in SUBSET Blocks
      BY DEF BlockHashes, Blocks
    <3>3. /\ StartBatch(c, BlockHashes(from, to)) \in CacheRequest
          /\ StartBatch(c, BlockHashes(from, to)).type # "GetTraces"
      BY <3>2, MessageTypes, RequestShapes
    <3>4. pc[c] = "idle" /\ UNCHANGED reply
      BY <2>1 DEF FilterCall
    <3> QED
      BY <1>0, <1>2, <2>0, <3>1, <3>3, <3>4 DEF TypeOK
  <2>2. CASE FilterRejected(c) \/ FilterDropped(c)
    BY <1>0, <1>2, <2>0, <2>2 DEF FilterRejected, FilterDropped, TypeOK
  <2>3. ASSUME SendStopBatch(c), batch_id[c] # NoBatch PROVE \A d \in Clients : SenderOf(d)'
    <3>1. StopBatch(batch_id[c]) \in CacheRequest
      BY <1>0, <2>3, MessageTypes DEF TypeOK
    <3>2. StopBatch(batch_id[c]).type # "GetTraces"
      BY RequestShapes
    <3> QED
      BY <1>0, <1>2, <2>0, <2>3, <3>1, <3>2 DEF SendStopBatch, TypeOK
  <2>4. CASE BatchStarted(c)
    <3>1. NoSender(c) /\ todo[c] \in SUBSET Blocks /\ batch_id[c] # NoBatch
      BY <1>0, <2>4 DEF BatchStarted, SenderOf, TypeOK
    <3> QED
      BY <1>1, <2>0, <2>3, <2>4, <3>1 DEF BatchStarted
  <2>5. CASE FetchNext(c)
    <3>1. NoSender(c) /\ todo[c] \in SUBSET Blocks
      BY <1>0, <2>5 DEF FetchNext, SenderOf, TypeOK
    <3>2. todo[c] \ {Min(todo[c])} \in SUBSET Blocks
      BY <3>1
    <3> QED
      BY <1>1, <2>0, <2>5, <3>1, <3>2 DEF FetchNext
  <2>6. CASE FilterReturn(c)
    BY <2>3, <2>6 DEF FilterReturn, TypeInv, GettingHasBatch
  <2> QED
    BY <1>3, <2>1, <2>2, <2>4, <2>5, <2>6 DEF ClientNext, FilterStep
<1>4. ASSUME NEW i \in BatchId, NEW b \in Blocks, TaskNext(i, b)
      PROVE  \A d \in Clients : SenderOf(d)'
  <2>1. UNCHANGED <<pc, todo, reply, requests, cached_blocks>>
    BY <1>4 DEF TaskNext, TaskUnqueued, TaskAcquire, TaskStarted, TaskFinished,
                clientVars, cacheVars
  <2>2. \A d \in Clients : WaitsFor(d)' = WaitsFor(d)
    BY <2>1 DEF WaitsFor
  <2> QED
    BY <1>0, <2>1, <2>2, SenderKept
<1>5. CASE RequestStartBatch
  <2>1. ASSUME NEW b \in Blocks
        PROVE  cached_blocks'[b].waiting_requests = cached_blocks[b].waiting_requests
    <3>0. cached_blocks[b] \in CacheBlock /\ cached_blocks[b].active_batch_count + 1 \in Nat
      BY <1>0 DEF TypeOK, CacheBlock
    <3>1. \/ cached_blocks'[b] = cached_blocks[b]
          \/ cached_blocks[b].state = "Missing" /\ cached_blocks'[b] = Pooled(next_batch_id)
          \/ cached_blocks'[b] = [cached_blocks[b] EXCEPT !.active_batch_count = @ + 1]
      BY <1>5 DEF RequestStartBatch
    <3>2. cached_blocks[b].state = "Missing" => cached_blocks[b].waiting_requests = {}
      BY <1>0 DEF EntriesAreWhole
    <3>3. [cached_blocks[b] EXCEPT !.active_batch_count = @ + 1].waiting_requests =
            cached_blocks[b].waiting_requests
      BY <3>0 DEF CacheBlock
    <3> QED
      BY <3>1, <3>2, <3>3, NewEntries
  <2>2. \A d \in Clients : WaitsFor(d)' = WaitsFor(d)
    BY <2>1 DEF WaitsFor
  <2>3. NextRequest("StartBatch") /\ UNCHANGED <<pc, todo, reply>>
    BY <1>5 DEF RequestStartBatch
  <2> QED
    BY <1>0, <2>2, <2>3, SenderKept
<1>6. CASE RequestGetTraces
  <2>1. NextRequest("GetTraces") /\ UNCHANGED <<pc, todo>>
    BY <1>6 DEF RequestGetTraces, clientVars
  <2>2. PICK c \in Clients, b \in Blocks :
          Head(requests).client = c /\ Head(requests).block = b /\ Head(requests).type = "GetTraces"
    BY <1>0, <2>1, Received, RequestFields
  <2>3. ASSUME NEW d \in Clients, d # c PROVE SenderOf(d)'
    <3>1. reply'[d] = reply[d]
      BY <1>6, <2>2, <2>3 DEF RequestGetTraces, Deliver
    <3>2. WaitsFor(d)' = WaitsFor(d)
      <4>1. ASSUME NEW x \in Blocks
            PROVE  d \in cached_blocks'[x].waiting_requests <=> d \in cached_blocks[x].waiting_requests
        <5>1. \/ cached_blocks'[x] = cached_blocks[x]
              \/ cached_blocks'[x] = [cached_blocks[x] EXCEPT !.waiting_requests = @ \cup {c}]
          BY <1>0, <1>6, <2>2 DEF RequestGetTraces, TypeOK
        <5>2. [cached_blocks[x] EXCEPT !.waiting_requests = @ \cup {c}].waiting_requests =
                cached_blocks[x].waiting_requests \cup {c}
          BY <1>0 DEF TypeOK, CacheBlock
        <5> QED
          BY <2>3, <5>1, <5>2
      <4> QED
        BY <4>1 DEF WaitsFor
    <3> QED
      BY <1>0, <2>1, <2>2, <2>3, <3>1, <3>2, SenderKept
  <2>4. SenderOf(c)'
    <3>1. 1 \in GetTracesOf(c)
      BY <1>0, <2>1, <2>2, Received DEF GetTracesOf
    <3>2. pc[c] \notin {"idle", "starting"}
      BY <2>2, <3>1 DEF SenderOf, NoSender
    <3>3. ASSUME pc[c] = "getting"
          PROVE  /\ reply[c] = "none"
                 /\ todo[c] # {}
                 /\ AskedOnce(c, Min(todo[c]))
                 /\ WaitsFor(c) = {}
      BY <2>2, <3>1, <3>3 DEF SenderOf, NoSender, OneSender
    <3>4. ASSUME pc[c] = "getting" PROVE GetTracesOf(c)' = {} /\ b = Min(todo[c])
      BY <1>0, <2>1, <2>2, <3>3, <3>4, ReceivedGetTraces
    <3>5. ASSUME pc[c] = "getting", cached_blocks[b].state = "Pooled" PROVE SenderOf(c)'
      <4>1. /\ cached_blocks' = [cached_blocks EXCEPT ![b].waiting_requests = @ \cup {c}]
            /\ reply' = reply
        BY <1>6, <2>2, <3>5 DEF RequestGetTraces
      <4>2. ASSUME NEW x \in Blocks
            PROVE  cached_blocks'[x].waiting_requests =
                     IF x = b THEN cached_blocks[x].waiting_requests \cup {c}
                              ELSE cached_blocks[x].waiting_requests
        <5>1. cached_blocks[x] \in CacheBlock
          BY <1>0 DEF TypeOK
        <5>2. cached_blocks'[x] = IF x = b THEN [cached_blocks[x] EXCEPT !.waiting_requests = @ \cup {c}]
                                           ELSE cached_blocks[x]
          BY <1>0, <4>1 DEF TypeOK
        <5> QED
          BY <5>1, <5>2, WaitersKept
      <4>3. WaitsFor(c)' = {b}
        BY <2>2, <3>3, <3>5, <4>2 DEF WaitsFor
      <4> QED
        BY <2>1, <3>3, <3>4, <3>5, <4>1, <4>3 DEF SenderOf, OneSender
    <3>6. ASSUME pc[c] = "getting", cached_blocks[b].state # "Pooled" PROVE SenderOf(c)'
      <4>1. UNCHANGED cached_blocks /\ reply'[c] # "none"
        <5>1. CASE cached_blocks[b].state = "Cached"
          <6>1. UNCHANGED cached_blocks /\ reply'[c] = cached_blocks[b].traces
            BY <1>6, <2>2, <3>6, <5>1 DEF RequestGetTraces, Deliver
          <6> QED
            BY <1>0, <2>2, <5>1, <6>1 DEF EntriesAreWhole, Results
        <5>2. CASE cached_blocks[b].state = "Missing"
          BY <1>6, <2>2, <3>6, <5>2 DEF RequestGetTraces, Deliver
        <5> QED
          BY <1>6, <2>2, <3>6, <5>1, <5>2 DEF RequestGetTraces
      <4>2. WaitsFor(c)' = {}
        BY <3>3, <3>6, <4>1 DEF WaitsFor, NoSender
      <4> QED
        BY <2>1, <3>3, <3>4, <3>6, <4>1, <4>2 DEF SenderOf, NoSender
    <3>7. pc[c] # "getting" => SenderOf(c)'
      BY <2>1, <3>2 DEF SenderOf
    <3> QED
      BY <3>5, <3>6, <3>7
  <2> QED
    BY <2>3, <2>4
<1>7. CASE RequestStopBatch
  <2>1. PICK bs \in SUBSET Blocks : DropEntries(bs)
    <3>1. \A i \in BatchId : Unqueued(i) \subseteq Blocks
      BY <1>0 DEF Unqueued, TypeOK
    <3>2. Head(requests).batch \in BatchId
      BY <1>0, <1>7, NextRequestType, RequestFields DEF RequestStopBatch
    <3> QED
      BY <1>7, <3>1, <3>2 DEF RequestStopBatch
  <2>2. \A b \in Blocks : cached_blocks'[b].waiting_requests =
          IF b \in bs THEN {} ELSE cached_blocks[b].waiting_requests
    BY <2>1, NewEntries DEF DropEntries
  <2>3. reply' = Deliver(UNION {cached_blocks[b].waiting_requests : b \in bs}, "Closed")
    BY <2>1 DEF DropEntries
  <2>4. UNCHANGED <<pc, todo>> /\ NextRequest("StopBatch")
    BY <1>7 DEF RequestStopBatch, clientVars
  <2> QED
    BY <1>0, <2>2, <2>3, <2>4, SenderReleased
<1>8. CASE BlockingStarted
  <2>1. ASSUME NEW b \in Blocks
        PROVE  cached_blocks'[b].waiting_requests = cached_blocks[b].waiting_requests
    BY <1>0, <1>8 DEF BlockingStarted, TypeOK, CacheBlock
  <2>2. \A d \in Clients : WaitsFor(d)' = WaitsFor(d)
    BY <2>1 DEF WaitsFor
  <2>3. UNCHANGED <<pc, todo, reply, requests>>
    BY <1>8 DEF BlockingStarted, clientVars
  <2> QED
    BY <1>0, <2>2, <2>3, SenderKept
<1>9. CASE BlockingFinished
  <2> DEFINE b == Head(blocking).block
             res == Head(blocking).result
  <2>1. b \in Blocks /\ res \in Results
    BY <1>0, <1>9, NextMessageType, MessageFields DEF BlockingFinished
  <2>2. UNCHANGED <<pc, todo, requests>>
    BY <1>9 DEF BlockingFinished, clientVars
  <2>3. CASE cached_blocks[b].state = "Pooled"
    <3>1. /\ reply' = Deliver(cached_blocks[b].waiting_requests, res)
          /\ cached_blocks' = [cached_blocks EXCEPT
                ![b] = Cached(cached_blocks[b].active_batch_count, res)]
      BY <1>9, <2>3 DEF BlockingFinished
    <3>2. \A x \in Blocks : cached_blocks'[x].waiting_requests =
            IF x \in {b} THEN {} ELSE cached_blocks[x].waiting_requests
      BY <1>0, <2>1, <3>1, NewEntries, ZenonT(40) DEF TypeOK
    <3>3. UNION {cached_blocks[x].waiting_requests : x \in {b}} = cached_blocks[b].waiting_requests
      OBVIOUS
    <3>4. res # "none" /\ {b} \in SUBSET Blocks
      BY <2>1 DEF Results
    <3> HIDE DEF b, res
    <3> QED
      BY <1>0, <2>1, <2>2, <3>1, <3>2, <3>3, <3>4, SenderReleased
  <2>4. CASE cached_blocks[b].state # "Pooled"
    <3>1. UNCHANGED <<reply, cached_blocks>>
      BY <1>9, <2>4 DEF BlockingFinished
    <3>2. \A d \in Clients : WaitsFor(d)' = WaitsFor(d)
      BY <3>1 DEF WaitsFor
    <3> QED
      BY <1>0, <2>2, <3>1, <3>2, SenderKept
  <2> QED
    BY <2>3, <2>4
<1>10. ASSUME NEW i \in BatchId, ExpiredBatch(i) PROVE \A d \in Clients : SenderOf(d)'
  <2> DEFINE used == {b \in batches[i] : cached_blocks[b].state # "Missing"}
             last == {b \in used : cached_blocks[b].active_batch_count = 1}
  <2>1. last \in SUBSET Blocks /\ used \in SUBSET Blocks
    BY <1>0 DEF TypeOK
  <2>2. \A b \in Blocks : cached_blocks'[b].waiting_requests =
          IF b \in last THEN {} ELSE cached_blocks[b].waiting_requests
    <3> SUFFICES ASSUME NEW b \in Blocks
                 PROVE cached_blocks'[b].waiting_requests =
                         IF b \in last THEN {} ELSE cached_blocks[b].waiting_requests
      OBVIOUS
    <3>1. cached_blocks'[b] =
            IF b \in last THEN Missing
            ELSE IF b \in used
                 THEN [cached_blocks[b] EXCEPT !.active_batch_count = @ - 1]
                 ELSE cached_blocks[b]
      BY <1>10 DEF ExpiredBatch
    <3>2. [cached_blocks[b] EXCEPT !.active_batch_count = @ - 1].waiting_requests =
            cached_blocks[b].waiting_requests
      BY <1>0 DEF TypeOK, CacheBlock
    <3> HIDE DEF last, used
    <3> QED
      BY <3>1, <3>2, NewEntries
  <2>3. reply' = Deliver(UNION {cached_blocks[b].waiting_requests : b \in last}, "Closed")
    BY <1>10 DEF ExpiredBatch
  <2>4. UNCHANGED <<pc, todo, requests>>
    BY <1>10 DEF ExpiredBatch, clientVars
  <2> HIDE DEF last
  <2> QED
    BY <1>0, <2>1, <2>2, <2>3, <2>4, SenderReleased
<1> QED
  BY <1>3, <1>4, <1>5, <1>6, <1>7, <1>8, <1>9, <1>10 DEF Next, HandleRequest, HandleMessage

LEMMA SenderInvInductive == Spec => []SenderInv
<1>1. Init => SenderInv
  BY DEF Init, SenderInv, EntriesAreWhole, SenderOf, NoSender, GetTracesOf, WaitsFor, Missing
<1>2. CountInv /\ CountInv' /\ SenderInv /\ [Next]_vars => SenderInv'
  <2> SUFFICES ASSUME CountInv, CountInv', SenderInv, [Next]_vars PROVE SenderInv'
    OBVIOUS
  <2>1. CASE Next
    BY <2>1, SenderStep DEF CountInv
  <2>2. CASE UNCHANGED vars
    BY <2>2 DEF vars, clientVars, cacheVars, SenderInv, EntriesAreWhole, SenderOf, NoSender,
                OneSender, AskedOnce, GetTracesOf, WaitsFor
  <2> QED
    BY <2>1, <2>2
<1> QED
  BY <1>1, <1>2, CountInvInductive, PTL DEF Spec

\* The sender of a get_traces without an answer is never lost: it is queued or
\* in the waiting list of the very block the call is fetching, so the call is
\* answered by whatever becomes of that block.
THEOREM WaiterCorrect == Spec => []WaiterHasSender
<1>1. CountInv /\ SenderInv => WaiterHasSender
  <2> SUFFICES ASSUME CountInv, SenderInv, NEW c \in Clients, pc[c] = "getting", reply[c] = "none"
               PROVE  /\ todo[c] # {}
                      /\ \/ GetTracesQueued(c)
                         \/ c \in cached_blocks[Min(todo[c])].waiting_requests
    BY DEF WaiterHasSender
  <2>1. todo[c] # {} /\ OneSender(c, Min(todo[c]))
    BY DEF SenderInv, SenderOf
  <2>2. CASE AskedOnce(c, Min(todo[c]))
    <3>1. PICK k \in 1..Len(requests) : GetTracesOf(c) = {k} /\ requests[k].block = Min(todo[c])
      BY <2>2 DEF AskedOnce
    <3>2. requests[k].type = "GetTraces" /\ requests[k].client = c
      BY <3>1 DEF GetTracesOf
    <3>3. requests[k] \in CacheRequest
      BY DEF CountInv, TypeInv, TypeOK
    <3>4. requests[k] = GetTraces(c, Min(todo[c]))
      BY <3>1, <3>2, <3>3, GetTracesIs
    <3> QED
      BY <2>1, <3>4 DEF GetTracesQueued
  <2>3. CASE WaitsFor(c) = {Min(todo[c])}
    BY <2>1, <2>3 DEF WaitsFor
  <2> QED
    BY <2>1, <2>2, <2>3 DEF OneSender
<1> QED
  BY <1>1, CountInvInductive, SenderInvInductive, PTL

-----------------------------------------------------------------------------
(***************************************************************************)
(* Every batch ends, unless its call is dropped.                           *)
(***************************************************************************)

\* A send adds a start_batch of call c only if it is one; a receive removes
\* the first request and moves the others up.
LEMMA SentStartBatch ==
    ASSUME TypeOK, NEW r \in CacheRequest, requests' = Append(requests, r), NEW c
    PROVE  /\ r.type = "StartBatch" /\ r.client = c =>
                StartBatchOf(c)' = StartBatchOf(c) \cup {Len(requests) + 1}
           /\ ~(r.type = "StartBatch" /\ r.client = c) => StartBatchOf(c)' = StartBatchOf(c)
<1>1. Len(requests) + 1 \in 1..Len(requests')
  BY Sent
<1> QED
  BY <1>1, Sent DEF StartBatchOf

LEMMA ReceivedStartBatch ==
    ASSUME TypeOK, NEW type, NextRequest(type), NEW c
    PROVE  /\ \A k \in StartBatchOf(c)' : k + 1 \in StartBatchOf(c) /\ k \in Nat \ {0}
           /\ type = "StartBatch" /\ Head(requests).client = c => 1 \in StartBatchOf(c)
BY Received DEF StartBatchOf

StartsOnceOf(c) ==
    /\ pc[c] = "idle" => StartBatchOf(c) = {} /\ batch_id[c] = NoBatch
    /\ pc[c] \in {"getting", "done"} => StartBatchOf(c) = {}
    /\ StartBatchOf(c) # {} =>
          batch_id[c] = NoBatch /\ \A k, l \in StartBatchOf(c) : k = l

LEMMA StartsOnceStep ==
    ASSUME TypeInv, StartsOnce, Next
    PROVE  StartsOnce'
<1>0. TypeOK /\ \A c \in Clients : StartsOnceOf(c)
  BY DEF TypeInv, StartsOnce, StartsOnceOf
<1> SUFFICES ASSUME NEW d \in Clients PROVE StartsOnceOf(d)'
  BY DEF StartsOnce, StartsOnceOf
<1>1. ASSUME StartBatchOf(d)' = StartBatchOf(d), batch_id'[d] = batch_id[d],
             \/ pc'[d] = pc[d]
             \/ pc'[d] \in {"starting", "dropped"}
             \/ pc'[d] \in {"getting", "done"} /\ StartBatchOf(d) = {}
      PROVE  StartsOnceOf(d)'
  BY <1>0, <1>1 DEF StartsOnceOf
<1>2. ASSUME NEW c \in Clients, ClientNext(c) PROVE StartsOnceOf(d)'
  <2>0. UNCHANGED batch_id /\ \A e \in Clients \ {c} : pc'[e] = pc[e]
    BY <1>0, <1>2 DEF ClientNext, FilterCall, FilterRejected, FilterStep, BatchStarted, FetchNext,
              FilterReturn, FilterDropped, SendGetTraces, SendStopBatch, TypeOK
  <2>1. CASE FilterCall(c)
    <3>1. PICK bs \in SUBSET Blocks : requests' = Append(requests, StartBatch(c, bs))
      <4>1. PICK from \in 0..Height, to \in 0..Height :
              requests' = Append(requests, StartBatch(c, BlockHashes(from, to)))
        BY <2>1 DEF FilterCall
      <4>2. BlockHashes(from, to) \in SUBSET Blocks
        BY DEF BlockHashes, Blocks
      <4> QED
        BY <4>1, <4>2
    <3>2. /\ StartBatch(c, bs) \in CacheRequest
          /\ StartBatch(c, bs).type = "StartBatch" /\ StartBatch(c, bs).client = c
      BY MessageTypes, RequestShapes
    <3>3. pc[c] = "idle" /\ pc'[c] = "starting"
      BY <1>0, <2>1 DEF FilterCall, TypeOK
    <3>4. CASE d = c
      <4>1. StartBatchOf(d) = {} /\ batch_id'[d] = NoBatch
        BY <1>0, <2>0, <3>3, <3>4 DEF StartsOnceOf
      <4>2. StartBatchOf(d)' = {Len(requests) + 1}
        BY <1>0, <3>1, <3>2, <3>4, <4>1, SentStartBatch
      <4> QED
        BY <3>3, <3>4, <4>1, <4>2 DEF StartsOnceOf
    <3>5. CASE d # c
      <4>1. StartBatchOf(d)' = StartBatchOf(d)
        BY <1>0, <3>1, <3>2, <3>5, SentStartBatch
      <4> QED
        BY <1>1, <2>0, <3>5, <4>1
    <3> QED
      BY <3>4, <3>5
  <2>2. CASE FilterRejected(c) \/ FilterDropped(c)
    <3>1. StartBatchOf(d)' = StartBatchOf(d)
      BY <2>2 DEF FilterRejected, FilterDropped, StartBatchOf
    <3>2. \/ pc'[c] = "dropped"
          \/ pc[c] = "idle" /\ pc'[c] = "done"
      BY <1>0, <2>2 DEF FilterRejected, FilterDropped, TypeOK
    <3> QED
      BY <1>0, <1>1, <2>0, <3>1, <3>2 DEF StartsOnceOf
  <2>3. CASE FilterStep(c)
    <3>1. \/ pc[c] = "getting"
          \/ batch_id[c] # NoBatch
      BY <2>3 DEF FilterStep, BatchStarted, FetchNext, FilterReturn
    <3>2. StartBatchOf(c) = {} /\ batch_id[c] # NoBatch
      BY <1>0, <3>1 DEF StartsOnceOf, TypeInv, GettingHasBatch
    <3>3. pc'[c] \in {"getting", "done"}
      BY <1>0, <2>3 DEF FilterStep, BatchStarted, FetchNext, FilterReturn,
                        SendGetTraces, SendStopBatch, TypeOK
    <3>4. \E r \in CacheRequest : requests' = Append(requests, r) /\ r.type # "StartBatch"
      <4>1. batch_id[c] \in BatchId /\ todo[c] \in SUBSET Blocks
        BY <1>0, <3>2 DEF TypeOK
      <4>2. StopBatch(batch_id[c]) \in CacheRequest /\ StopBatch(batch_id[c]).type # "StartBatch"
        BY <4>1, MessageTypes, RequestShapes
      <4>3. \A bs \in SUBSET Blocks : bs # {} =>
              /\ GetTraces(c, Min(bs)) \in CacheRequest
              /\ GetTraces(c, Min(bs)).type # "StartBatch"
        BY MinOfBlocks, MessageTypes, RequestShapes
      <4>4. \/ requests' = Append(requests, StopBatch(batch_id[c]))
            \/ \E bs \in SUBSET Blocks : bs # {} /\ requests' = Append(requests, GetTraces(c, Min(bs)))
        BY <2>3, <4>1 DEF FilterStep, BatchStarted, FetchNext, FilterReturn,
                          SendGetTraces, SendStopBatch
      <4> QED
        BY <4>2, <4>3, <4>4
    <3>5. StartBatchOf(d)' = StartBatchOf(d)
      BY <1>0, <3>4, SentStartBatch
    <3> QED
      BY <1>1, <2>0, <3>2, <3>3, <3>5
  <2> QED
    BY <1>2, <2>1, <2>2, <2>3 DEF ClientNext
<1>3. ASSUME NEW type, NextRequest(type), pc'[d] = pc[d],
             \/ batch_id'[d] = batch_id[d]
             \/ type = "StartBatch" /\ Head(requests).client = d
      PROVE  StartsOnceOf(d)'
  <2>1. \A k \in StartBatchOf(d)' : k + 1 \in StartBatchOf(d) /\ k \in Nat \ {0}
    BY <1>0, <1>3, ReceivedStartBatch
  <2>2. \A k, l \in StartBatchOf(d) : k = l
    BY <1>0 DEF StartsOnceOf
  <2>3. \A k, l \in StartBatchOf(d)' : k = l
    <3> SUFFICES ASSUME NEW k \in StartBatchOf(d)', NEW l \in StartBatchOf(d)' PROVE k = l
      OBVIOUS
    <3> QED
      BY <2>1, <2>2
  <2>4. CASE type = "StartBatch" /\ Head(requests).client = d
    <3>1. 1 \in StartBatchOf(d)
      BY <1>0, <1>3, <2>4, ReceivedStartBatch
    <3>2. StartBatchOf(d)' = {}
      <4> SUFFICES ASSUME NEW k \in StartBatchOf(d)' PROVE FALSE
        OBVIOUS
      <4> QED
        BY <2>1, <2>2, <3>1
    <3>3. pc'[d] # "idle"
      BY <1>0, <1>3, <3>1 DEF StartsOnceOf
    <3> QED
      BY <3>2, <3>3 DEF StartsOnceOf
  <2>5. CASE batch_id'[d] = batch_id[d]
    <3>1. StartBatchOf(d) = {} => StartBatchOf(d)' = {}
      BY <2>1
    <3> QED
      BY <1>0, <1>3, <2>3, <2>5, <3>1 DEF StartsOnceOf
  <2> QED
    BY <1>3, <2>4, <2>5
<1>4. CASE HandleRequest
  <2>1. UNCHANGED pc
    BY <1>4 DEF HandleRequest, RequestStartBatch, RequestGetTraces, RequestStopBatch, clientVars
  <2>2. \/ NextRequest("StartBatch") /\ (Head(requests).client = d \/ batch_id'[d] = batch_id[d])
        \/ NextRequest("GetTraces") /\ batch_id'[d] = batch_id[d]
        \/ NextRequest("StopBatch") /\ batch_id'[d] = batch_id[d]
    BY <1>0, <1>4 DEF HandleRequest, RequestStartBatch, RequestGetTraces, RequestStopBatch,
                      clientVars, TypeOK
  <2> QED
    BY <1>3, <2>1, <2>2
<1>5. CASE HandleMessage \/ (\E i \in BatchId : ExpiredBatch(i))
             \/ \E i \in BatchId, b \in Blocks : TaskNext(i, b)
  <2>1. UNCHANGED <<pc, batch_id, requests>>
    BY <1>5 DEF HandleMessage, BlockingStarted, BlockingFinished, ExpiredBatch, TaskNext,
                TaskUnqueued, TaskAcquire, TaskStarted, TaskFinished, clientVars
  <2>2. StartBatchOf(d)' = StartBatchOf(d)
    BY <2>1 DEF StartBatchOf
  <2> QED
    BY <1>1, <2>1, <2>2
<1> QED
  BY <1>2, <1>4, <1>5 DEF Next

\* A queued stop_batch stays queued until request_stop_batch starts the
\* expiration delay.
StopQueued(i) == \E k \in 1..Len(requests) : requests[k] = StopBatch(i)

LEMMA StopStep ==
    ASSUME TypeInv, TypeInv', Next, NEW i \in BatchId, StopQueued(i)
    PROVE  StopQueued(i)' \/ i \in batch_expirations'
<1>0. TypeOK
  BY DEF TypeInv
<1>1. PICK k \in 1..Len(requests) : requests[k] = StopBatch(i)
  BY DEF StopQueued
<1>2. CASE UNCHANGED requests
  BY <1>2 DEF StopQueued
<1>3. ASSUME NEW r \in CacheRequest, requests' = Append(requests, r) PROVE StopQueued(i)'
  <2>1. k \in 1..Len(requests') /\ requests'[k] = requests[k]
    BY <1>0, <1>3, Sent
  <2> QED
    BY <1>1, <2>1 DEF StopQueued
<1>4. ASSUME NEW type, NextRequest(type), k # 1 PROVE StopQueued(i)'
  <2>1. k - 1 \in 1..Len(requests') /\ requests'[k - 1] = requests[k]
    BY <1>0, <1>4, Received
  <2> QED
    BY <1>1, <2>1 DEF StopQueued
<1>5. CASE HandleRequest
  <2>1. PICK type : NextRequest(type)
    BY <1>5 DEF HandleRequest, RequestStartBatch, RequestGetTraces, RequestStopBatch
  <2>2. CASE k = 1
    <3>1. Head(requests) = StopBatch(i)
      BY <1>0, <1>1, <2>1, <2>2, Received
    <3>2. Head(requests).type = "StopBatch" /\ Head(requests).batch = i
      BY <3>1, RequestShapes
    <3>3. RequestStopBatch
      BY <1>5, <3>2 DEF HandleRequest, RequestStartBatch, RequestGetTraces, NextRequest
    <3> QED
      BY <3>2, <3>3 DEF RequestStopBatch
  <2> QED
    BY <1>4, <2>1, <2>2
<1>6. ASSUME NEW c \in Clients, ClientNext(c)
      PROVE  UNCHANGED requests \/ \E r : requests' = Append(requests, r)
  BY <1>6 DEF ClientNext, FilterCall, FilterRejected, FilterStep, BatchStarted, FetchNext,
              FilterReturn, FilterDropped, SendGetTraces, SendStopBatch
<1>7. ASSUME NEW r, requests' = Append(requests, r) PROVE r \in CacheRequest
  <2>1. requests' \in Seq(CacheRequest)
    BY DEF TypeInv, TypeOK
  <2>2. requests \in Seq(CacheRequest)
    BY <1>0 DEF TypeOK
  <2>3. Len(requests) + 1 \in 1..Len(requests') /\ requests'[Len(requests) + 1] = r
    BY <1>7, <2>2
  <2> QED
    BY <2>1, <2>3
<1>8. CASE HandleMessage \/ (\E j \in BatchId : ExpiredBatch(j))
             \/ \E j \in BatchId, b \in Blocks : TaskNext(j, b)
  BY <1>2, <1>8 DEF HandleMessage, BlockingStarted, BlockingFinished, ExpiredBatch, TaskNext,
                TaskUnqueued, TaskAcquire, TaskStarted, TaskFinished
<1> QED
  BY <1>2, <1>3, <1>5, <1>6, <1>7, <1>8 DEF Next

LEMMA EndStep ==
    ASSUME TypeInv, TypeInv', StartsOnce, BatchWillEnd, Next
    PROVE  BatchWillEnd'
<1> DEFINE Active(i, c) == batch_id[c] = i /\ pc[c] \in {"starting", "getting", "dropped"}
<1> SUFFICES ASSUME NEW i \in BatchId, batches'[i] # {}
             PROVE  (\E c \in Clients : Active(i, c)') \/ StopQueued(i)' \/ i \in batch_expirations'
  BY DEF BatchWillEnd, StopQueued
<1>0. TypeOK
  BY DEF TypeInv
<1>1. batches[i] # {} => (\E c \in Clients : Active(i, c)) \/ StopQueued(i) \/ i \in batch_expirations
  BY DEF BatchWillEnd, StopQueued
<1>2. CASE StopQueued(i)
  BY <1>2, StopStep
<1>3. ASSUME UNCHANGED <<batch_id, pc, batches>>,
             i \in batch_expirations => i \in batch_expirations' \/ batches'[i] = {}
      PROVE  (\E c \in Clients : Active(i, c)') \/ StopQueued(i)' \/ i \in batch_expirations'
  BY <1>1, <1>2, <1>3
<1>4. ASSUME NEW c \in Clients, ClientNext(c)
      PROVE  (\E e \in Clients : Active(i, e)') \/ StopQueued(i)' \/ i \in batch_expirations'
  <2>1. UNCHANGED <<batch_id, batches, batch_expirations>>
    BY <1>4 DEF ClientNext, FilterCall, FilterRejected, FilterStep, BatchStarted, FetchNext,
                FilterReturn, FilterDropped, cacheVars
  <2>2. ASSUME NEW e \in Clients, Active(i, e), ~Active(i, e)' PROVE StopQueued(i)'
    <3>1. e = c
      BY <1>0, <1>4, <2>1, <2>2 DEF ClientNext, FilterCall, FilterRejected, FilterStep,
         BatchStarted, FetchNext, FilterReturn, FilterDropped, SendGetTraces, SendStopBatch, TypeOK
    <3>2. SendStopBatch(c)
      BY <1>0, <1>4, <2>1, <2>2, <3>1 DEF ClientNext, FilterCall, FilterRejected, FilterStep,
         BatchStarted, FetchNext, FilterReturn, FilterDropped, SendGetTraces, TypeOK
    <3>3. requests' = Append(requests, StopBatch(i)) /\ StopBatch(i) \in CacheRequest
      BY <2>2, <3>1, <3>2, MessageTypes DEF SendStopBatch
    <3>4. Len(requests) + 1 \in 1..Len(requests') /\ requests'[Len(requests) + 1] = StopBatch(i)
      BY <1>0, <3>3, Sent
    <3> QED
      BY <3>4 DEF StopQueued
  <2> QED
    BY <1>1, <1>2, <2>1, <2>2
<1>5. CASE RequestStartBatch
  <2>1. NextRequest("StartBatch") /\ UNCHANGED <<pc, batch_expirations>>
    BY <1>5 DEF RequestStartBatch
  <2>2. PICK c \in Clients : Head(requests).client = c
    BY <1>0, <2>1, Received, RequestFields
  <2>3. 1 \in StartBatchOf(c)
    BY <1>0, <2>1, <2>2, ReceivedStartBatch
  <2>4. pc[c] \in {"starting", "dropped"} /\ batch_id[c] = NoBatch
    BY <1>0, <2>3 DEF StartsOnce, TypeOK
  <2>5. /\ batch_id' = [batch_id EXCEPT ![c] = next_batch_id]
        /\ \A j \in BatchId : j # next_batch_id => batches'[j] = batches[j]
    BY <1>0, <1>5, <2>2 DEF RequestStartBatch, TypeOK
  <2>6. CASE i = next_batch_id
    BY <1>0, <2>1, <2>4, <2>5, <2>6 DEF TypeOK
  <2>7. CASE i # next_batch_id
    <3>1. ASSUME NEW e \in Clients, Active(i, e) PROVE Active(i, e)'
      <4>1. e # c
        BY <2>4, <3>1 DEF BatchId, NoBatch
      <4> QED
        BY <1>0, <2>1, <2>5, <3>1, <4>1 DEF TypeOK
    <3> QED
      BY <1>1, <1>2, <2>1, <2>5, <2>7, <3>1
  <2> QED
    BY <2>6, <2>7
<1>6. CASE RequestGetTraces \/ RequestStopBatch \/ HandleMessage
             \/ \E j \in BatchId, b \in Blocks : TaskNext(j, b)
  <2>1. UNCHANGED <<batch_id, pc, batches>>
    BY <1>6 DEF RequestGetTraces, RequestStopBatch, HandleMessage, BlockingStarted,
                BlockingFinished, TaskNext, TaskUnqueued, TaskAcquire, TaskStarted, TaskFinished,
                clientVars, cacheVars
  <2>2. batch_expirations \subseteq batch_expirations'
    BY <1>6 DEF RequestGetTraces, RequestStopBatch, HandleMessage, BlockingStarted,
                BlockingFinished, TaskNext, TaskUnqueued, TaskAcquire, TaskStarted, TaskFinished,
                cacheVars
  <2> QED
    BY <1>3, <2>1, <2>2
<1>7. ASSUME NEW j \in BatchId, ExpiredBatch(j)
      PROVE  (\E c \in Clients : Active(i, c)') \/ StopQueued(i)' \/ i \in batch_expirations'
  <2>1. UNCHANGED <<batch_id, pc>> /\ i # j
    BY <1>0, <1>7 DEF ExpiredBatch, clientVars, TypeOK
  <2>2. batches'[i] = batches[i] /\ (i \in batch_expirations => i \in batch_expirations')
    BY <1>0, <1>7, <2>1 DEF ExpiredBatch, TypeOK
  <2> QED
    BY <1>1, <1>2, <2>1, <2>2
<1> QED
  BY <1>4, <1>5, <1>6, <1>7 DEF Next, HandleRequest

\* A batch that holds blocks is never forgotten: its call has yet to stop it,
\* its stop_batch is queued or its expiration delay runs. Only the batch of a
\* dropped call stays for ever.
THEOREM BatchEndCorrect == Spec => []BatchWillEnd
<1>1. Init => StartsOnce /\ BatchWillEnd
  BY DEF Init, StartsOnce, BatchWillEnd, StartBatchOf
<1>2. CountInv /\ CountInv' /\ StartsOnce /\ BatchWillEnd /\ [Next]_vars
        => StartsOnce' /\ BatchWillEnd'
  <2> SUFFICES ASSUME CountInv, CountInv', StartsOnce, BatchWillEnd, [Next]_vars
               PROVE  StartsOnce' /\ BatchWillEnd'
    OBVIOUS
  <2>1. CASE Next
    BY <2>1, StartsOnceStep, EndStep DEF CountInv
  <2>2. CASE UNCHANGED vars
    BY <2>2 DEF vars, clientVars, cacheVars, StartsOnce, StartBatchOf, BatchWillEnd
  <2> QED
    BY <2>1, <2>2
<1> QED
  BY <1>1, <1>2, CountInvInductive, PTL DEF Spec

-----------------------------------------------------------------------------
(***************************************************************************)
(* The refinement mapping: what the service knows of each block, and the   *)
(* block that each call wants.                                             *)
(***************************************************************************)
Known == [b \in Blocks |-> ServiceEntry(b)]
Wanted == [c \in Clients |-> IF pc[c] = "getting" THEN Min(todo[c]) ELSE 0]

ServiceStep == Service!Next \/ UNCHANGED <<Known, Wanted, reply>>

LEMMA KnownIs ==
    ASSUME SenderInv, TypeOK, NEW b \in Blocks
    PROVE  /\ cached_blocks[b].state = "Missing" <=> Known[b] = "Absent"
           /\ cached_blocks[b].state = "Pooled" <=> Known[b] = "Pending"
           /\ cached_blocks[b].state = "Cached" => Known[b] = cached_blocks[b].traces
           /\ cached_blocks[b].state = "Cached" <=> Known[b] \in Results
<1>1. cached_blocks[b].state \in {"Missing", "Pooled", "Cached"}
  BY DEF TypeOK, CacheBlock
<1>2. cached_blocks[b].state = "Cached" => cached_blocks[b].traces \in {"Ok", "Err"}
  BY DEF SenderInv, EntriesAreWhole, Results
<1>3. Known[b] = ServiceEntry(b)
  BY DEF Known
<1> QED
  BY <1>1, <1>2, <1>3 DEF ServiceEntry, Results

LEMMA KnownSame ==
    ASSUME TypeOK, NEW b \in Blocks, cached_blocks'[b].state = cached_blocks[b].state,
           cached_blocks'[b].traces = cached_blocks[b].traces
    PROVE  Known'[b] = Known[b]
<1>1. cached_blocks[b].state \in {"Missing", "Pooled", "Cached"}
  BY DEF TypeOK, CacheBlock
<1>2. Known[b] = ServiceEntry(b) /\ Known'[b] = ServiceEntry(b)'
  BY DEF Known
<1> QED
  BY <1>1, <1>2 DEF ServiceEntry

LEMMA WantedSame ==
    ASSUME UNCHANGED <<pc, todo>>
    PROVE  UNCHANGED Wanted
BY DEF Wanted

\* The calls among cs that Deliver answers.
LEMMA DeliverIsAnswer ==
    ASSUME NEW cs, NEW v, reply' = Deliver(cs, v)
    PROVE  Service!AnswerAll({c \in Clients : c \in cs /\ pc[c] = "getting"}, v)
BY DEF Deliver, Service!AnswerAll

\* A call that waits for a block is one that the service has not answered.
LEMMA WaitersAreUnanswered ==
    ASSUME SenderInv, NEW b \in Blocks, NEW c \in Clients, pc[c] = "getting",
           c \in cached_blocks[b].waiting_requests
    PROVE  c \in Service!Unanswered(b)
<1>1. b \in WaitsFor(c)
  BY DEF WaitsFor
<1>2. reply[c] = "none" /\ b = Min(todo[c])
  BY <1>1 DEF SenderInv, SenderOf, NoSender, OneSender
<1> QED
  BY <1>2 DEF Service!Unanswered

LEMMA EvictStep ==
    ASSUME TypeOK, SenderInv, SenderInv', NEW bs \in SUBSET Blocks, UNCHANGED <<pc, todo>>,
           reply' = Deliver(UNION {cached_blocks[b].waiting_requests : b \in bs}, "Closed"),
           \A b \in Blocks :
              IF b \in bs THEN cached_blocks'[b] = Missing
              ELSE /\ cached_blocks'[b].state = cached_blocks[b].state
                   /\ cached_blocks'[b].traces = cached_blocks[b].traces
    PROVE  Service!Evict(bs)
<1> DEFINE ws == UNION {cached_blocks[b].waiting_requests : b \in bs}
           cs == {c \in Clients : c \in ws /\ pc[c] = "getting"}
<1>1. Known' = [b \in Blocks |-> IF b \in bs THEN "Absent" ELSE Known[b]]
  <2>1. ASSUME NEW b \in Blocks, b \in bs PROVE Known'[b] = "Absent"
    BY <2>1, NewEntries DEF Known, ServiceEntry
  <2>2. ASSUME NEW b \in Blocks, b \notin bs PROVE Known'[b] = Known[b]
    BY <2>2, KnownSame
  <2>3. Known' = [b \in Blocks |-> Known'[b]]
    BY DEF Known
  <2> QED
    BY <2>1, <2>2, <2>3
<1>2. UNCHANGED Wanted
  BY WantedSame
<1>3. Service!AnswerAll(cs, "Closed")
  BY DeliverIsAnswer
<1>4. ASSUME NEW c \in cs
      PROVE  \E b \in {k \in bs : Known[k] = "Pending"} : c \in Service!Unanswered(b)
  <2>1. PICK b \in bs : c \in cached_blocks[b].waiting_requests
    OBVIOUS
  <2>2. cached_blocks[b].state = "Pooled"
    BY <2>1 DEF SenderInv, EntriesAreWhole
  <2>3. Known[b] = "Pending"
    BY <2>2, KnownIs
  <2> QED
    BY <2>1, <2>3, WaitersAreUnanswered
<1>5. cs \in SUBSET UNION {Service!Unanswered(b) : b \in {k \in bs : Known[k] = "Pending"}}
  BY <1>4
<1> HIDE DEF cs
<1> QED
  BY <1>1, <1>2, <1>3, <1>5 DEF Service!Evict, Known, Wanted

LEMMA ClientService ==
    ASSUME CountInv, SenderInv, NEW c \in Clients, ClientNext(c)
    PROVE  ServiceStep
<1>0. TypeOK
  BY DEF CountInv, TypeInv
<1>1. UNCHANGED cached_blocks
  BY DEF ClientNext, FilterCall, FilterRejected, FilterStep, BatchStarted, FetchNext,
         FilterReturn, FilterDropped, cacheVars
<1>2. UNCHANGED Known
  BY <1>1 DEF Known, ServiceEntry
<1>3. ASSUME NEW bs \in SUBSET Blocks, bs # {}, SendGetTraces(c, bs),
             Wanted[c] = 0 \/ reply[c] \in Results
      PROVE  ServiceStep
  <2>1. Min(bs) \in Blocks
    BY <1>3, MinOfBlocks
  <2>2. Wanted' = [Wanted EXCEPT ![c] = Min(bs)]
    BY <1>0, <1>3 DEF SendGetTraces, Wanted, TypeOK
  <2>3. reply' = [reply EXCEPT ![c] = "none"]
    BY <1>3 DEF SendGetTraces
  <2>4. Service!Ask(c, Min(bs))
    BY <1>2, <1>3, <2>2, <2>3 DEF Service!Ask, Known, Wanted
  <2> QED
    BY <2>1, <2>4 DEF ServiceStep, Service!Next
<1>4. ASSUME pc' = [pc EXCEPT ![c] = pc'[c]], pc'[c] # "getting",
             todo' = [todo EXCEPT ![c] = {}], reply' = [reply EXCEPT ![c] = "none"]
      PROVE  ServiceStep
  <2>1. Wanted' = [Wanted EXCEPT ![c] = 0]
    BY <1>0, <1>4 DEF Wanted, TypeOK
  <2>2. Service!Leave(c)
    BY <1>2, <1>4, <2>1 DEF Service!Leave, Known, Wanted
  <2> QED
    BY <2>2 DEF ServiceStep, Service!Next
<1>5. SendStopBatch(c) => ServiceStep
  BY <1>0, <1>4 DEF SendStopBatch, TypeOK
<1>6. CASE FilterCall(c) \/ FilterRejected(c)
  <2>1. pc[c] = "idle" /\ pc'[c] # "getting" /\ UNCHANGED reply
    BY <1>0, <1>6 DEF FilterCall, FilterRejected, TypeOK
  <2>2. \A d \in Clients \ {c} : pc'[d] = pc[d] /\ todo'[d] = todo[d]
    BY <1>0, <1>6 DEF FilterCall, FilterRejected, TypeOK
  <2>3. UNCHANGED Wanted
    BY <2>1, <2>2 DEF Wanted
  <2> QED
    BY <1>2, <2>1, <2>3 DEF ServiceStep
<1>7. CASE BatchStarted(c)
  <2>1. Wanted[c] = 0 /\ todo[c] \in SUBSET Blocks
    BY <1>0, <1>7 DEF BatchStarted, Wanted, TypeOK
  <2> QED
    BY <1>3, <1>5, <1>7, <2>1 DEF BatchStarted
<1>8. CASE FetchNext(c)
  <2>1. todo[c] \ {Min(todo[c])} \in SUBSET Blocks /\ reply[c] \in Results
    BY <1>0, <1>8 DEF FetchNext, TypeOK, Results
  <2> QED
    BY <1>3, <1>8, <2>1 DEF FetchNext
<1>9. CASE FilterReturn(c)
  BY <1>5, <1>9 DEF FilterReturn
<1>10. CASE FilterDropped(c)
  BY <1>0, <1>4, <1>10 DEF FilterDropped, TypeOK
<1> QED
  BY <1>6, <1>7, <1>8, <1>9, <1>10 DEF ClientNext, FilterStep

LEMMA StartBatchService ==
    ASSUME CountInv, SenderInv, RequestStartBatch
    PROVE  ServiceStep
<1>0. TypeOK /\ NextRequest("StartBatch") /\ UNCHANGED <<pc, todo, reply>>
  BY DEF CountInv, TypeInv, RequestStartBatch
<1>1. PICK bs \in SUBSET Blocks : Head(requests).blocks = bs
  BY <1>0, Received, RequestFields
<1> DEFINE missed == {b \in bs : cached_blocks[b].state = "Missing"}
<1>2. ASSUME NEW b \in Blocks
      PROVE  Known'[b] = IF b \in missed THEN "Pending" ELSE Known[b]
  <2>0. cached_blocks[b] \in CacheBlock /\ cached_blocks[b].active_batch_count + 1 \in Nat
    BY <1>0 DEF TypeOK, CacheBlock
  <2>1. cached_blocks'[b] = IF b \in missed THEN Pooled(next_batch_id)
          ELSE IF b \in bs THEN [cached_blocks[b] EXCEPT !.active_batch_count = @ + 1]
          ELSE cached_blocks[b]
    BY <1>1 DEF RequestStartBatch
  <2>2. CASE b \in missed
    <3>1. cached_blocks'[b].state = "Pooled"
      BY <2>1, <2>2, NewEntries
    <3> QED
      BY <2>2, <3>1 DEF Known, ServiceEntry
  <2>3. CASE b \notin missed
    <3>1. /\ cached_blocks'[b].state = cached_blocks[b].state
          /\ cached_blocks'[b].traces = cached_blocks[b].traces
      <4> HIDE DEF missed
      <4> QED
        BY <2>0, <2>1, <2>3, CountUpdate
    <3> QED
      BY <1>0, <2>3, <3>1, KnownSame
  <2> QED
    BY <2>2, <2>3
<1>3. Known' = [b \in Blocks |-> IF b \in missed THEN "Pending" ELSE Known[b]]
  <2>1. Known' = [b \in Blocks |-> Known'[b]]
    BY DEF Known
  <2> HIDE DEF missed
  <2> QED
    BY <1>2, <2>1
<1>4. \A b \in missed : Known[b] = "Absent"
  BY <1>0, KnownIs
<1>5. UNCHANGED Wanted
  BY <1>0, WantedSame
<1>6. missed \in SUBSET Blocks
  OBVIOUS
<1> HIDE DEF missed
<1>7. Service!Pool(missed)
  BY <1>0, <1>3, <1>4, <1>5 DEF Service!Pool, Known, Wanted
<1> QED
  BY <1>6, <1>7 DEF ServiceStep, Service!Next

LEMMA GetTracesService ==
    ASSUME CountInv, SenderInv, RequestGetTraces
    PROVE  ServiceStep
<1>0. TypeOK /\ NextRequest("GetTraces") /\ UNCHANGED <<pc, todo>>
  BY DEF CountInv, TypeInv, RequestGetTraces, clientVars
<1>1. PICK c \in Clients, b \in Blocks :
        Head(requests).client = c /\ Head(requests).block = b /\ Head(requests).type = "GetTraces"
  BY <1>0, Received, RequestFields
<1>2. UNCHANGED Wanted
  BY <1>0, WantedSame
<1>3. CASE cached_blocks[b].state = "Pooled"
  <2>1. /\ cached_blocks' = [cached_blocks EXCEPT ![b].waiting_requests = @ \cup {c}]
        /\ UNCHANGED reply
    BY <1>1, <1>3 DEF RequestGetTraces
  <2>2. ASSUME NEW x \in Blocks PROVE Known'[x] = Known[x]
    <3>1. cached_blocks[x] \in CacheBlock
      BY <1>0 DEF TypeOK
    <3>2. \/ cached_blocks'[x] = cached_blocks[x]
          \/ cached_blocks'[x] = [cached_blocks[x] EXCEPT !.waiting_requests = @ \cup {c}]
      BY <1>0, <2>1 DEF TypeOK
    <3> QED
      BY <1>0, <3>1, <3>2, WaiterUpdate, KnownSame, ZenonT(40)
  <2>3. UNCHANGED Known
    <3>1. Known' = [x \in Blocks |-> Known'[x]] /\ Known = [x \in Blocks |-> Known[x]]
      BY DEF Known
    <3> QED
      BY <2>2, <3>1
  <2> QED
    BY <1>2, <2>1, <2>3 DEF ServiceStep
<1>4. CASE cached_blocks[b].state # "Pooled"
  <2> DEFINE v == IF cached_blocks[b].state = "Cached" THEN cached_blocks[b].traces ELSE "NotBatched"
  <2>1. reply' = Deliver({c}, v) /\ UNCHANGED cached_blocks
    BY <1>1, <1>4 DEF RequestGetTraces
  <2>2. UNCHANGED Known
    BY <2>1 DEF Known, ServiceEntry
  <2>3. CASE pc[c] # "getting"
    <3>1. UNCHANGED reply
      BY <1>0, <2>1, <2>3 DEF Deliver, TypeOK
    <3> QED
      BY <1>2, <2>2, <3>1 DEF ServiceStep
  <2>4. CASE pc[c] = "getting"
    <3>1. 1 \in GetTracesOf(c)
      BY <1>0, <1>1, Received DEF GetTracesOf
    <3>2. reply[c] = "none" /\ AskedOnce(c, Min(todo[c]))
      BY <2>4, <3>1 DEF SenderInv, SenderOf, NoSender, OneSender
    <3>3. b = Min(todo[c])
      BY <1>0, <1>1, <3>2, ReceivedGetTraces
    <3>4. c \in Service!Unanswered(b)
      BY <2>4, <3>2, <3>3 DEF Service!Unanswered
    <3>5. reply' = [d \in Clients |-> IF d \in {c} THEN v ELSE reply[d]]
      BY <2>1, <2>4 DEF Deliver
    <3>6. Service!AnswerAll({c}, v)
      BY <3>5 DEF Service!AnswerAll
    <3>7. \/ Known[b] \in Results /\ Known[b] = v
          \/ Known[b] = "Absent" /\ v = "NotBatched"
      BY <1>0, <1>4, KnownIs DEF TypeOK, CacheBlock
    <3> HIDE DEF v
    <3>8. Service!Serve(c, b)
      BY <1>2, <2>2, <3>4, <3>6, <3>7 DEF Service!Serve, Known, Wanted
    <3> QED
      BY <3>8 DEF ServiceStep, Service!Next
  <2> QED
    BY <2>3, <2>4
<1> QED
  BY <1>3, <1>4

LEMMA StopBatchService ==
    ASSUME CountInv, SenderInv, SenderInv', RequestStopBatch
    PROVE  ServiceStep
<1>0. TypeOK /\ NextRequest("StopBatch") /\ UNCHANGED <<pc, todo>>
  BY DEF CountInv, TypeInv, RequestStopBatch, clientVars
<1>1. PICK bs \in SUBSET Blocks : DropEntries(bs)
  <2>1. \A i \in BatchId : Unqueued(i) \subseteq Blocks
    BY <1>0 DEF Unqueued, TypeOK
  <2>2. Head(requests).batch \in BatchId
    BY <1>0, Received, RequestFields
  <2> QED
    BY <2>1, <2>2 DEF RequestStopBatch
<1>2. Service!Evict(bs)
  BY <1>0, <1>1, EvictStep DEF DropEntries
<1> QED
  BY <1>2 DEF ServiceStep, Service!Next

LEMMA ExpiredService ==
    ASSUME CountInv, SenderInv, SenderInv', NEW i \in BatchId, ExpiredBatch(i)
    PROVE  ServiceStep
<1>0. TypeOK /\ UNCHANGED <<pc, todo>>
  BY DEF CountInv, TypeInv, ExpiredBatch, clientVars
<1> DEFINE used == {b \in batches[i] : cached_blocks[b].state # "Missing"}
           last == {b \in used : cached_blocks[b].active_batch_count = 1}
<1>1. last \in SUBSET Blocks
  BY <1>0 DEF TypeOK
<1>2. reply' = Deliver(UNION {cached_blocks[b].waiting_requests : b \in last}, "Closed")
  BY DEF ExpiredBatch
<1>3. ASSUME NEW b \in Blocks
      PROVE  IF b \in last THEN cached_blocks'[b] = Missing
             ELSE /\ cached_blocks'[b].state = cached_blocks[b].state
                  /\ cached_blocks'[b].traces = cached_blocks[b].traces
  <2>1. cached_blocks'[b] =
          IF b \in last THEN Missing
          ELSE IF b \in used THEN [cached_blocks[b] EXCEPT !.active_batch_count = @ - 1]
          ELSE cached_blocks[b]
    BY DEF ExpiredBatch
  <2>2. cached_blocks[b] \in CacheBlock
    BY <1>0 DEF TypeOK
  <2>3. b \in used => cached_blocks[b].active_batch_count - 1 \in Nat
    BY <2>2 DEF CountInv, CountWithinBatches, CacheBlock
  <2> HIDE DEF used, last
  <2> QED
    BY <2>1, <2>2, <2>3, CountUpdate
<1> HIDE DEF last
<1>4. Service!Evict(last)
  BY <1>0, <1>1, <1>2, <1>3, EvictStep
<1> QED
  BY <1>1, <1>4 DEF ServiceStep, Service!Next

LEMMA FinishedService ==
    ASSUME CountInv, SenderInv, BlockingFinished
    PROVE  ServiceStep
<1>0. TypeOK /\ UNCHANGED <<pc, todo>>
  BY DEF CountInv, TypeInv, BlockingFinished, clientVars
<1>1. PICK b \in Blocks, res \in Results : Head(blocking).block = b /\ Head(blocking).result = res
  BY <1>0, NextMessageType, MessageFields DEF BlockingFinished
<1>2. UNCHANGED Wanted
  BY <1>0, WantedSame
<1>3. CASE cached_blocks[b].state = "Pooled"
  <2> DEFINE ws == cached_blocks[b].waiting_requests
             cs == {c \in Clients : c \in ws /\ pc[c] = "getting"}
  <2>1. /\ reply' = Deliver(ws, res)
        /\ cached_blocks' = [cached_blocks EXCEPT
              ![b] = Cached(cached_blocks[b].active_batch_count, res)]
    BY <1>1, <1>3 DEF BlockingFinished
  <2>2. ASSUME NEW x \in Blocks PROVE Known'[x] = IF x = b THEN res ELSE Known[x]
    <3>1. CASE x = b
      <4>1. cached_blocks'[x].state = "Cached" /\ cached_blocks'[x].traces = res
        <5>1. cached_blocks'[x] = Cached(cached_blocks[b].active_batch_count, res)
          BY <1>0, <2>1, <3>1 DEF TypeOK
        <5> QED
          BY <5>1, NewEntries
      <4> QED
        BY <3>1, <4>1 DEF Known, ServiceEntry
    <3>2. CASE x # b
      <4>1. cached_blocks'[x] = cached_blocks[x]
        BY <1>0, <2>1, <3>2 DEF TypeOK
      <4> QED
        BY <1>0, <3>2, <4>1, KnownSame
    <3> QED
      BY <3>1, <3>2
  <2>3. Known' = [Known EXCEPT ![b] = res]
    <3>1. Known' = [x \in Blocks |-> Known'[x]] /\ Known = [x \in Blocks |-> Known[x]]
      BY DEF Known
    <3> QED
      BY <2>2, <3>1
  <2>4. Service!AnswerAll(cs, res)
    BY <2>1, DeliverIsAnswer
  <2>5. cs \in SUBSET Service!Unanswered(b)
    BY WaitersAreUnanswered
  <2>6. Known[b] = "Pending"
    BY <1>0, <1>3, KnownIs
  <2> HIDE DEF cs
  <2>7. Service!Resolve(b, res)
    BY <1>2, <2>3, <2>4, <2>5, <2>6 DEF Service!Resolve, Known, Wanted
  <2> QED
    BY <2>7 DEF ServiceStep, Service!Next
<1>4. CASE cached_blocks[b].state # "Pooled"
  <2>1. UNCHANGED <<reply, cached_blocks>>
    BY <1>1, <1>4 DEF BlockingFinished
  <2>2. UNCHANGED Known
    BY <2>1 DEF Known, ServiceEntry
  <2> QED
    BY <1>2, <2>1, <2>2 DEF ServiceStep
<1> QED
  BY <1>3, <1>4

LEMMA StartedService ==
    ASSUME CountInv, SenderInv, BlockingStarted
    PROVE  ServiceStep
<1>0. TypeOK /\ UNCHANGED <<pc, todo, reply>>
  BY DEF CountInv, TypeInv, BlockingStarted, clientVars
<1>1. ASSUME NEW b \in Blocks PROVE Known'[b] = Known[b]
  <2> DEFINE s == cached_blocks[b].started \/ cached_blocks[b].state = "Pooled"
             updated == [cached_blocks[b] EXCEPT !.started = s]
  <2>0. s \in BOOLEAN /\ cached_blocks[b] \in CacheBlock
    BY <1>0 DEF TypeOK, CacheBlock
  <2>1. cached_blocks'[b] = cached_blocks[b] \/ cached_blocks'[b] = updated
    BY <1>0 DEF BlockingStarted, TypeOK
  <2>2. updated.state = cached_blocks[b].state /\ updated.traces = cached_blocks[b].traces
    <3> HIDE DEF s
    <3> QED
      BY <2>0, StartedUpdate
  <2>3. /\ cached_blocks'[b].state = cached_blocks[b].state
        /\ cached_blocks'[b].traces = cached_blocks[b].traces
    <3> HIDE DEF updated
    <3> QED
      BY <2>1, <2>2
  <2> QED
    BY <1>0, <2>3, KnownSame
<1>2. UNCHANGED Known
  <2>1. Known' = [x \in Blocks |-> Known'[x]] /\ Known = [x \in Blocks |-> Known[x]]
    BY DEF Known
  <2> QED
    BY <1>1, <2>1
<1> QED
  BY <1>0, <1>2, WantedSame DEF ServiceStep

\* The cache implements the service: each of its steps is one step of
\* TraceService, or changes nothing that a call can see.
THEOREM Refines == Spec => ImplementsService
<1>1. Init => Service!Init
  <2> SUFFICES ASSUME Init PROVE Service!Init
    OBVIOUS
  <2>1. \A b \in Blocks : ServiceEntry(b) = "Absent"
    BY NewEntries DEF Init, ServiceEntry
  <2> QED
    BY <2>1 DEF Init, Service!Init
<1>2. CountInv /\ SenderInv /\ SenderInv' /\ [Next]_vars => [Service!Next]_(Service!vars)
  <2> SUFFICES ASSUME CountInv, SenderInv, SenderInv', [Next]_vars
               PROVE  ServiceStep
    BY DEF ServiceStep, Service!vars, Known, Wanted
  <2>1. ASSUME NEW i \in BatchId, NEW b \in Blocks, TaskNext(i, b) PROVE ServiceStep
    <3>1. UNCHANGED <<cached_blocks, pc, todo, reply>>
      BY <2>1 DEF TaskNext, TaskUnqueued, TaskAcquire, TaskStarted, TaskFinished,
                  clientVars, cacheVars
    <3> QED
      BY <3>1 DEF ServiceStep, Known, ServiceEntry, Wanted
  <2>2. CASE UNCHANGED vars
    BY <2>2 DEF vars, clientVars, cacheVars, ServiceStep, Known, ServiceEntry, Wanted
  <2> QED
    BY <2>1, <2>2, ClientService, StartBatchService, GetTracesService, StopBatchService,
       StartedService, FinishedService, ExpiredService DEF Next, HandleRequest, HandleMessage
<1> QED
  BY <1>1, <1>2, CountInvInductive, SenderInvInductive, PTL
     DEF Spec, ImplementsService, Service!Spec

=============================================================================
