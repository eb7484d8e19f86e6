-------------------------- MODULE DebugTaskProofs --------------------------
(***************************************************************************)
(* Proofs about DebugTask for any number of calls, cache tasks, permits,   *)
(* competing blocks and reorganisations.                                   *)
(***************************************************************************)
EXTENDS DebugTask, TLAPS, FiniteSetTheorems

USE DroppableAssumption, PermitsAssumption, FiniteAssumption, MaxReorgsAssumption

(***************************************************************************)
(* Inputs and block identifiers.                                           *)
(***************************************************************************)
LEMMA InputFields ==
    ASSUME NEW input \in RequesterInput
    PROVE  /\ input.by \in {"Number", "Pending", "Hash"}
           /\ input.by = "Hash" => input.block \in Blocks
           /\ input.kind \in {"Transaction", "Block"}
BY DEF RequesterInput, RequestBlockId

LEMMA IdFields ==
    /\ ByNumber.by = "Number"
    /\ NoId.by = "None"
    /\ \A b \in Blocks : ByHash(b).by = "Hash" /\ ByHash(b).block = b
BY DEF ByNumber, NoId, ByHash

LEMMA FirstRead ==
    ASSUME NEW kind \in {"Transaction", "Block"}
    PROVE  Reads(kind)[1] = "header"
BY DEF Reads, BlockReads, TransactionReads

\* A task that reads has located a block.
LEMMA LookupType ==
    ASSUME DebugInv, NEW r \in Requests, task[r] = "reading"
    PROVE  /\ Lookup(id[r]) \in Blocks
           /\ request[r].by = "Hash" => Lookup(id[r]) = request[r].block
<1>1. request[r] \in RequesterInput
  BY DEF DebugInv, InputKnown, Holding
<1>2. CASE request[r].by = "Hash"
  <2>1. id[r] = ByHash(request[r].block) /\ request[r].block \in Blocks
    BY <1>1, <1>2, InputFields DEF DebugInv, Located
  <2> QED
    BY <2>1, IdFields DEF Lookup
<1>3. CASE request[r].by # "Hash"
  <2>1. id[r] = ByNumber
    BY <1>3 DEF DebugInv, Located
  <2> QED
    BY <1>3, <2>1, IdFields DEF Lookup, DebugInv, TypeOK
<1> QED
  BY <1>2, <1>3

\* What a read returns.
LEMMA ReadValue ==
    ASSUME DebugInv, NEW r \in Requests, task[r] = "reading"
    PROVE  LET x == IF NextRead(r) = "version" THEN read[r][1] ELSE Lookup(id[r])
           IN  x \in Blocks /\ (request[r].by = "Hash" => x = request[r].block)
<1>1. read[r] \in Seq(Blocks) /\ Len(read[r]) \in Nat
  BY DEF DebugInv, TypeOK
<1>2. CASE Len(read[r]) = 0
  <2>1. request[r].kind \in {"Transaction", "Block"}
    BY InputFields DEF DebugInv, InputKnown, Holding
  <2>2. NextRead(r) = "header"
    BY <1>2, <2>1, FirstRead DEF NextRead
  <2> QED
    BY <2>2, LookupType
<1>3. CASE Len(read[r]) # 0
  <2>1. 1 \in 1..Len(read[r])
    BY <1>1, <1>3
  <2>2. read[r][1] \in Blocks
    BY <1>1, <2>1
  <2>3. request[r].by = "Hash" => read[r][1] = request[r].block
    BY <2>1 DEF DebugInv, Located
  <2> QED
    BY <2>2, <2>3, LookupType
<1> QED
  BY <1>1, <1>2, <1>3

(***************************************************************************)
(* The inductive invariant.                                                *)
(***************************************************************************)
LEMMA InitInv == Init => DebugInv
<1> SUFFICES ASSUME Init PROVE DebugInv
  OBVIOUS
<1>1. TypeOK
  BY DEF Init, TypeOK, BlockIds
<1> QED
  BY <1>1 DEF Init, DebugInv, QueuedOnce, InputKnown, Located, Unread, Holding

LEMMA CallInv ==
    ASSUME DebugInv, NEW r \in Requests, Call(r)
    PROVE  DebugInv'
<1> USE DEF DebugInv, Call
<1>0. PICK input \in RequesterInput : request' = [request EXCEPT ![r] = input]
  OBVIOUS
<1>1. TypeOK'
  BY <1>0 DEF TypeOK, taskVars, cacheVars, chainVars
<1>2. task[r] = "none" /\ \A k \in 1..Len(requester) : requester[k] # r
  BY DEF QueuedOnce
<1>3. requester \in Seq(Requests) /\ Len(requester') = Len(requester) + 1
  BY DEF TypeOK
<1>4. \A k \in 1..Len(requester') :
        requester'[k] = IF k \in 1..Len(requester) THEN requester[k] ELSE r
  BY <1>3
<1>5. QueuedOnce'
  <2>0. task' = task
    BY DEF taskVars
  <2>1. \A k \in 1..Len(requester') : /\ call'[requester'[k]] # "idle"
                                      /\ task'[requester'[k]] = "none"
                                      /\ request'[requester'[k]] \in RequesterInput
    BY <1>0, <1>2, <1>4, <2>0 DEF QueuedOnce, TypeOK
  <2>2. \A j, k \in 1..Len(requester') : requester'[j] = requester'[k] => j = k
    BY <1>2, <1>3, <1>4 DEF QueuedOnce
  <2>3. \A s \in Requests : call'[s] = "idle" => task'[s] = "none"
    BY <2>0 DEF QueuedOnce, TypeOK
  <2> QED
    BY <2>1, <2>2, <2>3 DEF QueuedOnce
<1>6. InputKnown' /\ Located' /\ Unread'
  BY <1>0, <1>2 DEF InputKnown, Located, Unread, TypeOK, taskVars, Holding
<1> QED
  BY <1>1, <1>5, <1>6

LEMMA SpawnInv ==
    ASSUME DebugInv, Spawn
    PROVE  DebugInv'
<1> USE DEF DebugInv, Spawn
<1> DEFINE r == Head(requester)
<1>1. /\ requester \in Seq(Requests) /\ requester # <<>> /\ r \in Requests
      /\ r = requester[1] /\ Len(requester) \in Nat \ {0}
  BY DEF TypeOK
<1>2. TypeOK'
  BY <1>1 DEF TypeOK, cacheVars, chainVars
<1>3. Len(requester') = Len(requester) - 1
  BY <1>1
<1>4. \A k \in 1..Len(requester') : requester'[k] = requester[k + 1]
  BY <1>1
<1>5. task[r] = "none" /\ request[r] \in RequesterInput /\ call[r] # "idle"
  BY <1>1 DEF QueuedOnce
<1>6. \A k \in 1..Len(requester') : requester'[k] # r /\ k + 1 \in 1..Len(requester)
  BY <1>1, <1>3, <1>4 DEF QueuedOnce
<1>7. QueuedOnce'
  <2>1. \A k \in 1..Len(requester') : /\ call'[requester'[k]] # "idle"
                                      /\ task'[requester'[k]] = "none"
                                      /\ request'[requester'[k]] \in RequesterInput
    BY <1>4, <1>6 DEF QueuedOnce, TypeOK
  <2>2. \A j, k \in 1..Len(requester') : requester'[j] = requester'[k] => j = k
    <3> SUFFICES ASSUME NEW j \in 1..Len(requester'), NEW k \in 1..Len(requester'),
                        requester'[j] = requester'[k]
                 PROVE  j = k
      OBVIOUS
    <3>1. requester[j + 1] = requester[k + 1]
      BY <1>4
    <3>2. j + 1 = k + 1
      BY <1>6, <3>1 DEF QueuedOnce
    <3> QED
      BY <1>1, <1>3, <3>2
  <2>3. \A s \in Requests : call'[s] = "idle" => task'[s] = "none"
    BY <1>5 DEF QueuedOnce, TypeOK
  <2> QED
    BY <2>1, <2>2, <2>3 DEF QueuedOnce
<1>8. InputKnown' /\ Located' /\ Unread'
  BY <1>5 DEF InputKnown, Located, Unread, TypeOK
<1> QED
  BY <1>2, <1>7, <1>8

LEMMA FinishInv ==
    ASSUME DebugInv, NEW r \in Requests, NEW answer \in {"Err", "Single", "Block"},
           task[r] \in Holding, Finish(r, answer)
    PROVE  DebugInv'
<1> USE DEF DebugInv, Finish, Forget
<1>1. TypeOK'
  BY DEF TypeOK, BlockIds, cacheVars, chainVars
<1>2. \A k \in 1..Len(requester) : requester[k] # r
  BY DEF QueuedOnce, Holding
<1>3. call[r] # "idle"
  BY DEF QueuedOnce, Holding
<1>4. QueuedOnce'
  BY <1>2, <1>3 DEF QueuedOnce, TypeOK
<1>5. InputKnown' /\ Located' /\ Unread'
  BY DEF InputKnown, Located, Unread, TypeOK, Holding
<1> QED
  BY <1>1, <1>4, <1>5

LEMMA TaskInv ==
    ASSUME DebugInv, NEW r \in Requests, TaskNext(r)
    PROVE  DebugInv'
<1>1. ASSUME NEW answer \in {"Err", "Single", "Block"}, task[r] \in Holding, Finish(r, answer)
      PROVE  DebugInv'
  BY <1>1, FinishInv
<1>2. ASSUME task[r] # "none", NEW s \in {"params", "locating", "reading", "tracing"},
             task' = [task EXCEPT ![r] = s], UNCHANGED <<call, request, requester>>
      PROVE  QueuedOnce'
  <2>1. \A k \in 1..Len(requester) : requester[k] # r
    BY <1>2 DEF DebugInv, QueuedOnce
  <2> QED
    BY <1>2, <2>1 DEF DebugInv, QueuedOnce, TypeOK
<1>3. CASE Acquire(r)
  <2>1. TypeOK'
    BY <1>3 DEF Acquire, DebugInv, TypeOK, Holding, cacheVars, chainVars
  <2>2. QueuedOnce'
    BY <1>2, <1>3 DEF Acquire
  <2>3. InputKnown' /\ Located' /\ Unread'
    BY <1>3 DEF Acquire, DebugInv, TypeOK, InputKnown, Located, Unread, Holding
  <2> QED
    BY <2>1, <2>2, <2>3 DEF DebugInv
<1>4. CASE HandleParams(r)
  <2>1. CASE request[r].tracer = "Script"
    BY <1>1, <1>4, <2>1 DEF HandleParams, Fail, Holding
  <2>2. CASE request[r].tracer # "Script"
    <3>1. TypeOK'
      BY <1>4, <2>2 DEF HandleParams, DebugInv, TypeOK, Holding, cacheVars, chainVars
    <3>2. QueuedOnce'
      BY <1>2, <1>4, <2>2 DEF HandleParams
    <3>3. InputKnown' /\ Located' /\ Unread'
      BY <1>4, <2>2 DEF HandleParams, DebugInv, TypeOK, InputKnown, Located, Unread, Holding
    <3> QED
      BY <3>1, <3>2, <3>3 DEF DebugInv
  <2> QED
    BY <2>1, <2>2
<1>5. CASE Locate(r)
  <2>1. request[r] \in RequesterInput
    BY <1>5 DEF Locate, DebugInv, InputKnown, Holding
  <2>2. ReferenceId(request[r]) = IF request[r].by = "Hash" THEN ByHash(request[r].block) ELSE ByNumber
    BY <1>5, <2>1, InputFields DEF Locate, ReferenceId
  <2>3. ReferenceId(request[r]) \in BlockIds
    BY <2>1, <2>2, InputFields DEF BlockIds
  <2>4. TypeOK'
    BY <1>5, <2>3 DEF Locate, DebugInv, TypeOK, Holding, cacheVars, chainVars
  <2>5. QueuedOnce'
    BY <1>2, <1>5 DEF Locate
  <2>6. read[r] = <<>> /\ Len(read[r]) = 0
    BY <1>5 DEF Locate, DebugInv, Unread
  <2>7. Located'
    BY <1>5, <2>2, <2>6 DEF Locate, DebugInv, TypeOK, Located
  <2>8. InputKnown' /\ Unread'
    BY <1>5, <2>1 DEF Locate, DebugInv, TypeOK, InputKnown, Unread, Holding
  <2> QED
    BY <2>4, <2>5, <2>7, <2>8 DEF DebugInv
<1>6. CASE Read(r)
  <2> DEFINE x == IF NextRead(r) = "version" THEN read[r][1] ELSE Lookup(id[r])
  <2>0. task[r] = "reading" /\ read[r] \in Seq(Blocks)
    BY <1>6 DEF Read, DebugInv, TypeOK
  <2>1. x \in Blocks /\ (request[r].by = "Hash" => x = request[r].block)
    BY <2>0, ReadValue
  <2>2. read' = [read EXCEPT ![r] = Append(read[r], x)]
    BY <1>6 DEF Read
  <2> HIDE DEF x
  <2>3. Append(read[r], x) \in Seq(Blocks)
    BY <2>0, <2>1
  <2>4. \A k \in 1..Len(Append(read[r], x)) :
          Append(read[r], x)[k] = IF k \in 1..Len(read[r]) THEN read[r][k] ELSE x
    BY <2>0, <2>1
  <2>5. task' = [task EXCEPT ![r] = "tracing"] \/ task' = [task EXCEPT ![r] = "reading"]
    BY <1>6, <2>0 DEF Read, DebugInv, TypeOK
  <2>6. UNCHANGED <<call, request, requester, id, reply, permits, cache_task, canonical, reorgs>>
    BY <1>6 DEF Read, cacheVars, chainVars
  <2>7. TypeOK'
    <3>1. read' \in [Requests -> Seq(Blocks)]
      BY <2>2, <2>3 DEF DebugInv, TypeOK
    <3>2. task' \in [Requests -> {"none", "queued", "done"} \cup Holding]
      BY <2>5 DEF DebugInv, TypeOK, Holding
    <3> QED
      BY <2>6, <3>1, <3>2 DEF DebugInv, TypeOK
  <2>8. QueuedOnce'
    BY <1>2, <2>0, <2>5, <2>6
  <2>9. InputKnown' /\ Unread'
    BY <2>0, <2>2, <2>5, <2>6 DEF DebugInv, TypeOK, InputKnown, Unread, Holding
  <2>10. Located'
    <3> SUFFICES ASSUME NEW s \in Requests, task'[s] \in {"reading", "tracing"}
                 PROVE  IF request[s].by = "Hash"
                        THEN /\ id[s] = ByHash(request[s].block)
                             /\ \A k \in 1..Len(read'[s]) : read'[s][k] = request[s].block
                        ELSE id[s] = ByNumber
      BY <2>6 DEF Located
    <3>1. CASE s # r
      BY <2>2, <2>5, <3>1 DEF DebugInv, TypeOK, Located
    <3>2. CASE s = r
      <4>1. read'[r] = Append(read[r], x)
        BY <2>2 DEF DebugInv, TypeOK
      <4> QED
        BY <2>0, <2>1, <2>4, <3>2, <4>1 DEF DebugInv, Located
    <3> QED
      BY <3>1, <3>2
  <2> QED
    BY <2>7, <2>8, <2>9, <2>10 DEF DebugInv
<1>7. CASE LocateFails(r) \/ ReadFails(r) \/ NoTransactions(r)
        \/ TraceBlock(r) \/ TraceTransaction(r)
  BY <1>1, <1>7 DEF LocateFails, ReadFails, NoTransactions, TraceBlock, TraceTransaction, Fail, Holding
<1> QED
  BY <1>3, <1>4, <1>5, <1>6, <1>7 DEF TaskNext

LEMMA StepInv == DebugInv /\ [Next]_vars => DebugInv'
<1> SUFFICES ASSUME DebugInv, [Next]_vars PROVE DebugInv'
  OBVIOUS
<1> USE DEF taskVars, cacheVars, chainVars
<1>1. ASSUME NEW r \in Requests, Return(r) \/ Drop(r) PROVE DebugInv'
  <2>1. /\ UNCHANGED <<request, requester, task, id, read>>
        /\ \A s \in Requests : call'[s] = "idle" <=> call[s] = "idle"
    BY <1>1 DEF Return, Drop, DebugInv, TypeOK
  <2>2. TypeOK'
    BY <1>1 DEF Return, Drop, DebugInv, TypeOK
  <2>3. \A k \in 1..Len(requester) : requester[k] \in Requests
    BY DEF DebugInv, TypeOK
  <2> QED
    BY <2>1, <2>2, <2>3 DEF DebugInv, QueuedOnce, InputKnown, Located, Unread
<1>2. ASSUME NEW t \in CacheTasks, CacheAcquire(t) \/ CacheRelease(t) PROVE DebugInv'
  <2>1. UNCHANGED <<call, request, requester, task, id, read>>
    BY <1>2 DEF CacheAcquire, CacheRelease
  <2>2. permits' \in Nat
    BY <1>2 DEF CacheAcquire, CacheRelease, DebugInv, TypeOK
  <2>3. /\ cache_task' \in [CacheTasks -> {"idle", "tracing", "done"}]
        /\ UNCHANGED <<reply, canonical, reorgs>>
    BY <1>2 DEF CacheAcquire, CacheRelease, DebugInv, TypeOK
  <2>4. TypeOK'
    BY <2>1, <2>2, <2>3 DEF DebugInv, TypeOK
  <2> QED
    BY <2>1, <2>4 DEF DebugInv, QueuedOnce, InputKnown, Located, Unread
<1>3. CASE Reorg
  <2>1. UNCHANGED <<call, request, requester, task, id, read>>
    BY <1>3 DEF Reorg
  <2>2. TypeOK'
    BY <1>3 DEF Reorg, DebugInv, TypeOK
  <2> QED
    BY <2>1, <2>2 DEF DebugInv, QueuedOnce, InputKnown, Located, Unread
<1>4. CASE UNCHANGED vars
  BY <1>4 DEF vars, DebugInv, TypeOK, QueuedOnce, InputKnown, Located, Unread
<1> QED
  BY <1>1, <1>2, <1>3, <1>4, CallInv, SpawnInv, TaskInv DEF Next

LEMMA DebugInvInductive == Spec => []DebugInv
BY InitInv, StepInv, PTL DEF Spec

\* The calls, the channel and the tracing tasks keep their types: a task that
\* is spawned has its input, and a block to read from once it has located one.
THEOREM DebugTypeCorrect == Spec => []TypeOK
<1>1. DebugInv => TypeOK
  BY DEF DebugInv
<1> QED
  BY <1>1, DebugInvInductive, PTL

\* A transaction, and a block asked for by hash, is replayed from the data of
\* the one block it names, whatever becomes canonical meanwhile.
THEOREM OneBlockCorrect == Spec => []ReplayIsOneBlock
<1>1. DebugInv => ReplayIsOneBlock
  BY DEF DebugInv, Located, ReplayIsOneBlock
<1> QED
  BY <1>1, DebugInvInductive, PTL

-----------------------------------------------------------------------------
(***************************************************************************)
(* The permits that debug and cache tasks share.                           *)
(***************************************************************************)
LEMMA HoldersFinite ==
    /\ IsFiniteSet(DebugHolders) /\ Cardinality(DebugHolders) \in Nat
    /\ IsFiniteSet(CacheHolders) /\ Cardinality(CacheHolders) \in Nat
BY FS_Subset, FS_CardinalityType DEF DebugHolders, CacheHolders

LEMMA DebugPermitsStep ==
    ASSUME DebugInv, PermitsConserved, NEW r \in Requests, TaskNext(r)
    PROVE  PermitsConserved'
<1> USE DEF PermitsConserved, DebugInv, TypeOK
<1>0. permits \in Nat /\ Permits \in Nat
  OBVIOUS
<1>1. ASSUME NEW s \in {"none", "queued", "done"} \cup Holding, task' = [task EXCEPT ![r] = s]
      PROVE  DebugHolders' = IF s \in Holding THEN DebugHolders \cup {r} ELSE DebugHolders \ {r}
  <2>1. \A q \in Requests : task'[q] = IF q = r THEN s ELSE task[q]
    BY <1>1
  <2> QED
    BY <2>1 DEF DebugHolders
<1>2. CASE Acquire(r)
  <2>1. r \notin DebugHolders /\ DebugHolders' = DebugHolders \cup {r}
    BY <1>1, <1>2 DEF Acquire, DebugHolders, Holding
  <2>2. Cardinality(DebugHolders') = Cardinality(DebugHolders) + 1
    BY <2>1, HoldersFinite, FS_AddElement
  <2>3. permits' = permits - 1 /\ CacheHolders' = CacheHolders
    BY <1>2 DEF Acquire, CacheHolders, cacheVars
  <2> QED
    BY <1>0, <2>2, <2>3, HoldersFinite
<1>3. ASSUME NEW answer, task[r] \in Holding, Finish(r, answer) PROVE PermitsConserved'
  <2>1. r \in DebugHolders
    BY <1>3 DEF DebugHolders
  <2>2. DebugHolders' = DebugHolders \ {r}
    BY <1>1, <1>3 DEF Finish, Holding
  <2>3. Cardinality(DebugHolders') = Cardinality(DebugHolders) - 1
    BY <2>1, <2>2, HoldersFinite, FS_RemoveElement
  <2>4. permits' = permits + 1 /\ CacheHolders' = CacheHolders
    BY <1>3 DEF Finish, CacheHolders, cacheVars
  <2> QED
    BY <1>0, <2>3, <2>4, HoldersFinite
<1>4. ASSUME task[r] \in Holding, NEW s \in Holding, task' = [task EXCEPT ![r] = s],
             UNCHANGED <<permits, cache_task>>
      PROVE  PermitsConserved'
  <2>1. DebugHolders' = DebugHolders
    BY <1>1, <1>4 DEF DebugHolders
  <2>2. CacheHolders' = CacheHolders
    BY <1>4 DEF CacheHolders
  <2> QED
    BY <1>4, <2>1, <2>2
<1>5. CASE HandleParams(r)
  BY <1>3, <1>4, <1>5 DEF HandleParams, Fail, Holding, cacheVars
<1>6. CASE Locate(r)
  BY <1>4, <1>6 DEF Locate, Holding, cacheVars
<1>7. CASE Read(r)
  <2>1. task' = [task EXCEPT ![r] = "tracing"] \/ task' = [task EXCEPT ![r] = "reading"]
    BY <1>7 DEF Read
  <2> QED
    BY <1>4, <1>7, <2>1 DEF Read, Holding, cacheVars
<1>8. CASE LocateFails(r) \/ ReadFails(r) \/ NoTransactions(r)
        \/ TraceBlock(r) \/ TraceTransaction(r)
  BY <1>3, <1>8 DEF LocateFails, ReadFails, NoTransactions, TraceBlock, TraceTransaction, Fail, Holding
<1> QED
  BY <1>2, <1>5, <1>6, <1>7, <1>8 DEF TaskNext

LEMMA CachePermitsStep ==
    ASSUME DebugInv, PermitsConserved, NEW t \in CacheTasks, CacheAcquire(t) \/ CacheRelease(t)
    PROVE  PermitsConserved'
<1> USE DEF PermitsConserved, DebugInv, TypeOK
<1>0. permits \in Nat /\ Permits \in Nat
  OBVIOUS
<1>1. DebugHolders' = DebugHolders
  BY DEF CacheAcquire, CacheRelease, DebugHolders, taskVars
<1>2. CASE CacheAcquire(t)
  <2>1. t \notin CacheHolders /\ CacheHolders' = CacheHolders \cup {t}
    BY <1>2 DEF CacheAcquire, CacheHolders
  <2>2. Cardinality(CacheHolders') = Cardinality(CacheHolders) + 1
    BY <2>1, HoldersFinite, FS_AddElement
  <2>3. permits' = permits - 1
    BY <1>2 DEF CacheAcquire
  <2> QED
    BY <1>0, <1>1, <2>2, <2>3, HoldersFinite
<1>3. CASE CacheRelease(t)
  <2>1. t \in CacheHolders /\ CacheHolders' = CacheHolders \ {t}
    BY <1>3 DEF CacheRelease, CacheHolders
  <2>2. Cardinality(CacheHolders') = Cardinality(CacheHolders) - 1
    BY <2>1, HoldersFinite, FS_RemoveElement
  <2>3. permits' = permits + 1
    BY <1>3 DEF CacheRelease
  <2> QED
    BY <1>0, <1>1, <2>2, <2>3, HoldersFinite
<1> QED
  BY <1>2, <1>3

\* The permits shared by the debug RPC and the trace cache are conserved: no
\* error path, panic or abandoned call of the debug RPC loses one.
THEOREM SharedPermitsCorrect == Spec => []PermitsConserved
<1>1. Init => PermitsConserved
  <2> SUFFICES ASSUME Init PROVE PermitsConserved
    OBVIOUS
  <2>1. DebugHolders = {} /\ CacheHolders = {}
    BY DEF Init, DebugHolders, CacheHolders, Holding
  <2> QED
    BY <2>1, FS_EmptySet DEF Init, PermitsConserved
<1>2. DebugInv /\ PermitsConserved /\ [Next]_vars => PermitsConserved'
  <2> SUFFICES ASSUME DebugInv, PermitsConserved, [Next]_vars PROVE PermitsConserved'
    OBVIOUS
  <2>1. ASSUME UNCHANGED <<task, permits, cache_task>> PROVE PermitsConserved'
    BY <2>1 DEF PermitsConserved, DebugHolders, CacheHolders
  <2>2. CASE (\E r \in Requests : Call(r) \/ Return(r) \/ Drop(r)) \/ Reorg \/ UNCHANGED vars
    BY <2>1, <2>2 DEF Call, Return, Drop, Reorg, vars, taskVars, cacheVars
  <2>3. CASE Spawn
    <3>1. LET q == Head(requester)
          IN  q \in Requests /\ task[q] = "none" /\ task' = [task EXCEPT ![q] = "queued"]
      <4>1. Head(requester) = requester[1] /\ 1 \in 1..Len(requester) /\ Head(requester) \in Requests
        BY <2>3 DEF Spawn, DebugInv, TypeOK
      <4> QED
        BY <2>3, <4>1 DEF Spawn, DebugInv, QueuedOnce
    <3>2. DebugHolders' = DebugHolders
      BY <3>1 DEF DebugHolders, Holding, DebugInv, TypeOK
    <3>3. UNCHANGED permits /\ CacheHolders' = CacheHolders
      BY <2>3 DEF Spawn, CacheHolders, cacheVars
    <3> QED
      BY <3>2, <3>3 DEF PermitsConserved
  <2> QED
    BY <2>2, <2>3, DebugPermitsStep, CachePermitsStep DEF Next
<1> QED
  BY <1>1, <1>2, DebugInvInductive, PTL DEF Spec
=============================================================================
