----------------------------- MODULE DebugTask -----------------------------
(***************************************************************************)
(* The debug RPC (client/rpc/debug/src/lib.rs): handlers of                *)
(* debug_traceTransaction and debug_traceBlock, the service task that      *)
(* spawns one tracing task per request, and the tracing tasks, which share *)
(* a semaphore with those of the trace cache (node/rpc/src/tracing.rs).    *)
(*                                                                         *)
(* A tracing task reads what it replays in several steps, while the node   *)
(* imports blocks: the chain is a set of blocks of equal height, one of    *)
(* which is canonical at a time. Traces are payload; an answer is the kind *)
(* of Response or "Err".                                                   *)
(***************************************************************************)
EXTENDS Integers, Sequences, FiniteSets

CONSTANTS
    Requests,   \* calls of the RPC
    Droppable,  \* calls that the RPC server may abandon
    CacheTasks, \* tracing tasks of the trace cache
    Permits,    \* ethapi_max_permits
    Blocks,     \* competing blocks
    MaxReorgs   \* bound: changes of the canonical block

ASSUME DroppableAssumption == Droppable \subseteq Requests
ASSUME PermitsAssumption == Permits \in Nat \ {0}
ASSUME FiniteAssumption == IsFiniteSet(Requests) /\ IsFiniteSet(CacheTasks)
ASSUME MaxReorgsAssumption == MaxReorgs \in Nat

VARIABLES
    call,       \* the RPC handler's future
    request,    \* its input
    requester,  \* the unbounded channel to the service task
    task,       \* where the tracing task of a request is
    id,         \* its reference_id
    read,       \* blocks its data came from, in the order of Reads
    reply,      \* content of the oneshot channel
    permits,    \* free permits
    cache_task, \* tracing tasks of the cache
    canonical,  \* canonical block
    reorgs      \* number of reorganisations so far

taskVars == <<task, id, read>>
cacheVars == <<cache_task>>
chainVars == <<canonical, reorgs>>
vars == <<call, request, requester, taskVars, reply, permits, cacheVars, chainVars>>

-----------------------------------------------------------------------------
\* TraceParams::tracer: none given, the two that are known, or another script.
Tracers == {"None", "Blockscout", "CallTracer", "Script"}

\* How a block is named without its hash: a number, which the tags "earliest" and
\* "latest" stand for, or the tag "pending".
RequestBlockId == {"Number", "Pending"}

\* A transaction is found by its hash, in the block it is part of.
RequesterInput ==
    [kind : {"Transaction"}, by : {"Hash"}, block : Blocks, tracer : Tracers]
        \cup [kind : {"Block"}, by : {"Hash"}, block : Blocks, tracer : Tracers]
        \cup [kind : {"Block"}, by : RequestBlockId, tracer : Tracers]

NoInput == [kind |-> "None"]

\* BlockId. That of a number is the canonical block whenever it is looked up.
ByNumber == [by |-> "Number"]
ByHash(b) == [by |-> "Hash", block |-> b]
NoId == [by |-> "None"]
BlockIds == {NoId, ByNumber} \cup {ByHash(b) : b \in Blocks}

Lookup(i) == IF i.by = "Number" THEN canonical ELSE i.block

\* What the handlers read, in order: onchain_storage_schema selects the
\* override that decodes statuses and block.
BlockReads == <<"header", "schema", "statuses", "body">>
TransactionReads == <<"header", "body", "version", "schema", "block">>

Reads(kind) == IF kind = "Block" THEN BlockReads ELSE TransactionReads

Holding == {"params", "locating", "reading", "tracing"}

TypeOK ==
    /\ call \in [Requests -> {"idle", "waiting", "returned", "dropped"}]
    /\ request \in [Requests -> RequesterInput \cup {NoInput}]
    /\ requester \in Seq(Requests)
    /\ task \in [Requests -> {"none", "queued", "done"} \cup Holding]
    /\ id \in [Requests -> BlockIds]
    /\ read \in [Requests -> Seq(Blocks)]
    /\ reply \in [Requests -> {"none", "Err", "Single", "Block"}]
    /\ permits \in Nat
    /\ cache_task \in [CacheTasks -> {"idle", "tracing", "done"}]
    /\ canonical \in Blocks
    /\ reorgs \in 0..MaxReorgs

Init ==
    /\ call = [r \in Requests |-> "idle"]
    /\ request = [r \in Requests |-> NoInput]
    /\ requester = <<>>
    /\ task = [r \in Requests |-> "none"]
    /\ id = [r \in Requests |-> NoId]
    /\ read = [r \in Requests |-> <<>>]
    /\ reply = [r \in Requests |-> "none"]
    /\ permits = Permits
    /\ cache_task = [t \in CacheTasks |-> "idle"]
    /\ canonical \in Blocks
    /\ reorgs = 0

-----------------------------------------------------------------------------
(***************************************************************************)
(* The RPC handlers                                                        *)
(***************************************************************************)

\* trace_transaction and trace_block send their input and await the answer.
Call(r) ==
    /\ call[r] = "idle"
    /\ call' = [call EXCEPT ![r] = "waiting"]
    /\ \E input \in RequesterInput : request' = [request EXCEPT ![r] = input]
    /\ requester' = Append(requester, r)
    /\ UNCHANGED <<taskVars, reply, permits, cacheVars, chainVars>>

Return(r) ==
    /\ call[r] = "waiting"
    /\ reply[r] # "none"
    /\ call' = [call EXCEPT ![r] = "returned"]
    /\ UNCHANGED <<request, requester, taskVars, reply, permits, cacheVars, chainVars>>

\* The RPC server drops the future, and with it the receiver of the answer.
Drop(r) ==
    /\ r \in Droppable
    /\ call[r] = "waiting"
    /\ call' = [call EXCEPT ![r] = "dropped"]
    /\ UNCHANGED <<request, requester, taskVars, reply, permits, cacheVars, chainVars>>

-----------------------------------------------------------------------------
(***************************************************************************)
(* The service task and the tracing tasks                                  *)
(***************************************************************************)

\* The service task spawns a tracing task, whether or not it is awaited.
Spawn ==
    /\ requester # <<>>
    /\ requester' = Tail(requester)
    /\ task' = [task EXCEPT ![Head(requester)] = "queued"]
    /\ UNCHANGED <<call, request, id, read, reply, permits, cacheVars, chainVars>>

\* Mutant: the tracing task does not wait for a permit.
AcquireAlways(r) ==
    /\ task[r] = "queued"
    /\ task' = [task EXCEPT ![r] = "params"]
    /\ permits' = permits - 1
    /\ UNCHANGED <<call, request, requester, id, read, reply, cacheVars, chainVars>>

\* permit_pool.acquire()
Acquire(r) ==
    /\ task[r] = "queued"
    /\ permits > 0
    /\ task' = [task EXCEPT ![r] = "params"]
    /\ permits' = permits - 1
    /\ UNCHANGED <<call, request, requester, id, read, reply, cacheVars, chainVars>>

\* The variables of a handler end with it.
Forget(r) ==
    /\ request' = [request EXCEPT ![r] = NoInput]
    /\ id' = [id EXCEPT ![r] = NoId]
    /\ read' = [read EXCEPT ![r] = <<>>]

\* Mutant: an error leaves the task before the answer is sent.
FinishSendsOk(r, answer) ==
    /\ task' = [task EXCEPT ![r] = "done"]
    /\ permits' = permits + 1
    /\ reply' = IF call[r] = "waiting" /\ answer # "Err" THEN [reply EXCEPT ![r] = answer] ELSE reply
    /\ Forget(r)
    /\ UNCHANGED <<call, requester, cacheVars, chainVars>>

\* Mutant: the permit goes with the answer and is lost if nobody awaits it.
FinishWithReceiver(r, answer) ==
    /\ task' = [task EXCEPT ![r] = "done"]
    /\ permits' = IF call[r] = "waiting" THEN permits + 1 ELSE permits
    /\ reply' = IF call[r] = "waiting" THEN [reply EXCEPT ![r] = answer] ELSE reply
    /\ Forget(r)
    /\ UNCHANGED <<call, requester, cacheVars, chainVars>>

\* The handler returns or panics (spawn_blocking makes that an error): the
\* permit is dropped and the answer sent, if its receiver is still there.
Finish(r, answer) ==
    /\ task' = [task EXCEPT ![r] = "done"]
    /\ permits' = permits + 1
    /\ reply' = IF call[r] = "waiting" THEN [reply EXCEPT ![r] = answer] ELSE reply
    /\ Forget(r)
    /\ UNCHANGED <<call, requester, cacheVars, chainVars>>

Fail(r) == Finish(r, "Err")

\* A script that is none of the known tracers is refused.
HandleParams(r) ==
    /\ task[r] = "params"
    /\ IF request[r].tracer = "Script"
       THEN Fail(r)
       ELSE /\ task' = [task EXCEPT ![r] = "locating"]
            /\ UNCHANGED <<call, request, requester, id, read, reply, permits, cacheVars, chainVars>>

\* Mutant: the block of a hash is replaced by its height.
ReferenceIdOfHeight(input) == ByNumber

\* reference_id of an input that is found. Latest and Earliest are numbers.
ReferenceId(input) == IF input.by = "Number" THEN ByNumber ELSE ByHash(input.block)

\* Finds the block: number and tags need no access, a hash goes through
\* load_transactions and load_hash, which may fail or not know it.
Locate(r) ==
    /\ task[r] = "locating"
    /\ request[r].by # "Pending"
    /\ task' = [task EXCEPT ![r] = "reading"]
    /\ id' = [id EXCEPT ![r] = ReferenceId(request[r])]
    /\ UNCHANGED <<call, request, requester, read, reply, permits, cacheVars, chainVars>>

LocateFails(r) ==
    /\ task[r] = "locating"
    /\ request[r].by # "Number"
    /\ Fail(r)

NextRead(r) == Reads(request[r].kind)[Len(read[r]) + 1]

\* The api version is read at the parent of the header, which is a hash.
Read(r) ==
    /\ task[r] = "reading"
    /\ read' = [read EXCEPT ![r] =
         Append(@, IF NextRead(r) = "version" THEN @[1] ELSE Lookup(id[r]))]
    /\ task' = IF Len(read[r]) + 1 = Len(Reads(request[r].kind))
               THEN [task EXCEPT ![r] = "tracing"]
               ELSE task
    /\ UNCHANGED <<call, request, requester, id, reply, permits, cacheVars, chainVars>>

\* A missing header, override or version and an unreadable body are errors;
\* so is a block without the transaction. Missing statuses are none.
ReadFails(r) ==
    /\ task[r] = "reading"
    /\ NextRead(r) # "statuses"
    /\ Fail(r)

\* A block without Ethereum transactions is answered at once.
NoTransactions(r) ==
    /\ task[r] = "reading"
    /\ NextRead(r) = "statuses"
    /\ Finish(r, "Block")

\* Replay and formatter of a block, which need the callTracer.
TraceBlock(r) ==
    /\ task[r] = "tracing"
    /\ request[r].kind = "Block"
    /\ \E answer \in IF request[r].tracer = "CallTracer" THEN {"Block", "Err"} ELSE {"Err"} :
          Finish(r, answer)

\* Replay and formatter of a transaction.
TraceTransaction(r) ==
    /\ task[r] = "tracing"
    /\ request[r].kind = "Transaction"
    /\ \E answer \in {"Single", "Err"} : Finish(r, answer)

TaskNext(r) ==
    \/ Acquire(r) \/ HandleParams(r) \/ Locate(r) \/ LocateFails(r)
    \/ Read(r) \/ ReadFails(r) \/ NoTransactions(r)
    \/ TraceBlock(r) \/ TraceTransaction(r)

-----------------------------------------------------------------------------
(***************************************************************************)
(* Around them: the cache's tracing tasks and the import of blocks         *)
(***************************************************************************)

CacheAcquire(t) ==
    /\ cache_task[t] = "idle"
    /\ permits > 0
    /\ cache_task' = [cache_task EXCEPT ![t] = "tracing"]
    /\ permits' = permits - 1
    /\ UNCHANGED <<call, request, requester, taskVars, reply, chainVars>>

CacheRelease(t) ==
    /\ cache_task[t] = "tracing"
    /\ cache_task' = [cache_task EXCEPT ![t] = "done"]
    /\ permits' = permits + 1
    /\ UNCHANGED <<call, request, requester, taskVars, reply, chainVars>>

\* Another block of the same height becomes canonical.
Reorg ==
    /\ reorgs < MaxReorgs
    /\ reorgs' = reorgs + 1
    /\ canonical' \in Blocks \ {canonical}
    /\ UNCHANGED <<call, request, requester, taskVars, reply, permits, cacheVars>>

Next ==
    \/ \E r \in Requests : Call(r) \/ Return(r) \/ Drop(r) \/ TaskNext(r)
    \/ Spawn
    \/ \E t \in CacheTasks : CacheAcquire(t) \/ CacheRelease(t)
    \/ Reorg

Spec == Init /\ [][Next]_vars

\* The executor polls what is ready, and a replay ends. Nothing is assumed
\* about which of several waiting tasks gets a permit.
Fairness ==
    /\ WF_vars(Spawn)
    /\ WF_vars(\E r \in Requests : TaskNext(r))
    /\ WF_vars(\E r \in Requests : Return(r))
    /\ WF_vars(\E t \in CacheTasks : CacheRelease(t))

FairSpec == Spec /\ Fairness

-----------------------------------------------------------------------------
(***************************************************************************)
(* Properties                                                              *)
(***************************************************************************)

DebugHolders == {r \in Requests : task[r] \in Holding}
CacheHolders == {t \in CacheTasks : cache_task[t] = "tracing"}

\* Every permit is free, held by one debug task past its acquire, or held by
\* one task of the cache: no return of a handler, no panic and no dropped
\* call loses or doubles one.
PermitsConserved ==
    permits + Cardinality(DebugHolders) + Cardinality(CacheHolders) = Permits

\* What a transaction, or a block asked for by its hash, is replayed from
\* (header, extrinsics, transactions) is all of the block it names, however
\* the chain is reorganised between the reads.
ReplayIsOneBlock ==
    \A r \in Requests : task[r] = "tracing" /\ request[r].by = "Hash" =>
        \A k \in 1..Len(read[r]) : read[r][k] = request[r].block

\* Every call gets an answer, unless it is dropped: no error path of a handler
\* forgets to send one, and the tasks of the cache do not keep the permits.
EveryCallReturns ==
    \A r \in Requests : call[r] = "waiting" ~> call[r] \in {"returned", "dropped"}

\* A call that nobody awaits any more still gives its permit back.
PermitsReturn == <>[](permits = Permits)

-----------------------------------------------------------------------------
(***************************************************************************)
(* The inductive invariant behind the proofs of DebugTaskProofs: a request *)
(* is in the channel once and before it has a task, a task knows its input *)
(* until it is done, and while it reads it keeps to the block it located.  *)
(***************************************************************************)
QueuedOnce ==
    /\ \A k \in 1..Len(requester) :
          /\ call[requester[k]] # "idle"
          /\ task[requester[k]] = "none"
          /\ request[requester[k]] \in RequesterInput
    /\ \A j, k \in 1..Len(requester) : requester[j] = requester[k] => j = k
    /\ \A r \in Requests : call[r] = "idle" => task[r] = "none"

InputKnown ==
    \A r \in Requests : task[r] \in {"queued"} \cup Holding => request[r] \in RequesterInput

Located ==
    \A r \in Requests : task[r] \in {"reading", "tracing"} =>
        IF request[r].by = "Hash"
        THEN /\ id[r] = ByHash(request[r].block)
             /\ \A k \in 1..Len(read[r]) : read[r][k] = request[r].block
        ELSE id[r] = ByNumber

Unread ==
    \A r \in Requests : task[r] \notin {"reading", "tracing"} => read[r] = <<>>

DebugInv ==
    TypeOK /\ QueuedOnce /\ InputKnown /\ Located /\ Unread
=============================================================================
