# A TLA+ model of edgeware-node

edgeware-node is a Substrate node with an EVM. What it adds to Substrate and
Frontier is the tracing of Ethereum transactions (an RPC service, its cache, the
listeners that turn EVM events into traces), a consensus transition (a modified
Aura import queue and a manual-seal engine), a small pallet that mints to the
treasury, and the usual wiring. The models cover the tracing service in most
detail, since it holds most of the project's own logic and its hardest
concurrency, then the txpool RPC, the two consensus engines and the pallet.

## Inventory

| Part | Source | State | Operations | What makes it correct |
|---|---|---|---|---|
| `trace_filter` handler | `client/rpc/trace/src/lib.rs` 80-230 | the progress of each call | start a batch, fetch block by block, stop the batch | every call returns; the batch is stopped whatever the result; the answer is the requested window |
| block trace cache (`CacheTask`) | same, 232-913 | `cached_blocks`, `batches`, `next_batch_id`, expiration timers | `StartBatch`, `GetTraces`, `StopBatch`, `Started`, `Finished`, expiration | use counts, waiting requests and permits are never lost; entries are removed once |
| tracing tasks | same, 557-602 | waiting for a permit, tracing | acquire or be cancelled, report, finish | permits conserved, a result for every entry |
| CallList listener | `client/evm-tracing/src/listeners/call_list.rs` | context stack, entries per transaction, flags for two generations of runtimes | one handler per EVM event, `finish_transaction` | the entries are the call tree |
| Raw listener | `.../listeners/raw.rs` | context stack with storage caches, step logs | gas events, `Step`, `StepResult`, `SLoad`, `SStore` | every step logged at its depth, storage of a child visible to its parent |
| formatters | `.../formatters/*.rs` | none | listener state to RPC answers | tree and positions rebuilt from paths |
| debug RPC task | `client/rpc/debug/src/lib.rs` | requests in flight, permits | trace a transaction, trace a block | every request answered, permits given back, one block replayed |
| txpool RPC | `client/rpc/txpool/src/lib.rs`, `client/rpc-core/txpool` | none | content, inspect, status | what is in the pool is listed in its queue, although the two queues are read one after the other |
| runtime API | `node/runtime/src/lib.rs` 1816-1921 | none of its own | `trace_transaction`, `trace_block`, `extrinsic_filter` | replay order, only the known transactions traced, one new call list for each |
| Aura | `node/consensus-transition/aura/src`, `node/cli/src/service.rs` | none beyond the client's | slot worker: claim, propose, seal; import queue: `check_header`, `verify`, equivocation check | builder and verifiers agree, also across a change of the authorities and the end of the compatibility mode; faulty headers refused |
| manual seal | `node/consensus-transition/manual-seal/src` | command stream, mocked clock, Babe's shared epochs | `create_block`, `finalize_block`, instant seal, restart | every command answered truthfully, slots and time usable after failures and restarts |
| treasury reward and fees | `pallets/edge-treasury-reward/src/lib.rs`, `DealWithFees` in `node/runtime/src/lib.rs` | interval, payout, balances | `on_finalize`, two root calls, division of fees | every fork has minted and divided exactly what its own blocks say |
| service, CLI, chain spec, migrations, voter bags | `node/cli`, `node/runtime`, `utils` | configuration | start-up | not modelled: wiring, I/O and generated data |

Interactions: the handler and the cache talk over an unbounded request channel
and one oneshot channel per request; tracing tasks talk to the cache over a
bounded channel and are cancelled by the drop of a oneshot sender that their
cache entry holds; cache and debug task share one semaphore
(`node/rpc/src/tracing.rs`). A tracing task replays a block through the runtime
API, which calls the listener once per EVM event, synchronously; the formatter
reads the listener's state after the replay.

Aura's worker and verifier of one node get the same compatibility mode and
version from `service.rs` and meet those of other nodes over the network. The
manual-seal task takes commands of the RPC or of the pool one at a time; its
blocks run the treasury pallet and pay fees.

The hard behaviour is the interleaving of calls, cache and tracing tasks
(`started` lags behind the task, a removed entry is created again while the old
task still runs, timers fire late) and the event protocol of the EVM, which
exists in two versions and reports some exits twice and some not at all. In the
consensus code it is what two nodes compute separately and must agree on, and
what a failure or a restart between two steps of a seal leaves behind. The
hazards are listed in `PROJECT.json`, each at its line with the properties that
watch it.

## Modules

| Module | Models | Notes |
|---|---|---|
| `TraceCache` | handler, cache and tracing tasks | one action per handler or step between two awaits |
| `MCTraceCache` | | constants' symmetry for TLC |
| `TraceCacheProofs` | | theorems about `TraceCache`, and that it implements `TraceService` |
| `TraceService` | what the cache promises its callers | abstract: no batches, tasks or channels |
| `TraceCacheRefinement` | | the mapping from `TraceCache` to `TraceService` |
| `TracePaging` | `fetch_traces`: filter, `after`, `count`, maximum | the cache is what it may answer |
| `MCTracePaging`, `TracePagingProofs` | | instance and theorems |
| `CallList` | the CallList listener | one action per event |
| `CallListReplay` | `trace_block` and the EVM, composed with `CallList` | the EVM is external |
| `Formatters` | callTracer, trace_filter and Blockscout formatters | pure functions of the listener of `CallListReplay` |
| `MCCallList`, `CallListInvariants`, `CallListProofs` | | bounds for TLC; the inductive invariants, and theorems with them about `CallList` under `CallListReplay` and about `Formatters` |
| `RawListener` | the Raw listener | one action per event that changes its state |
| `RawReplay` | `trace_transaction` and the EVM, composed with `RawListener` | the EVM is external |
| `MCRawReplay`, `RawReplayProofs` | | instance and theorems |
| `DebugTask` | debug RPC: handlers, service task, tracing tasks | shares its semaphore with the cache's tasks |
| `MCDebugTask`, `DebugTaskProofs` | | instance and theorems |
| `TxPool`, `MCTxPool`, `TxPoolProofs` | txpool RPC and `extrinsic_filter` | pool and chain are external |
| `Aura`, `MCAura`, `AuraProofs` | Aura slot worker, import queue, their wiring | network, slots and client are external |
| `TreasuryReward` | the pallet and `DealWithFees` | operators on the state of a block |
| `ManualSeal`, `MCManualSeal`, `ManualSealProofs` | manual and instant seal, composed with `TreasuryReward` | pool, client and runtime are external |

### TraceCache

`pc`, `todo`, `batch_id` and `reply` are the calls of `Trace::filter`;
`requests` and `blocking` are the two channels; `cached_blocks`, `batches`,
`next_batch_id` and `batch_expirations` are the state of `CacheTask::create`
and its `inner`; `tasks` and `permits` are the spawned futures and the
semaphore. `tasks[i][b]` is the task that batch `i` spawned for block `b`; the
`tracer` of an entry names the task that its `unqueue_sender` cancels, which is
how two tasks for one block are told apart. A handler of the cache never awaits,
so each is one action. The senders stored in a dropped entry are dropped with
it, and their receivers see `"Closed"`.

The traces of a block are reduced to `"Ok"` or `"Err"`. Blocks of a batch are a
set: they come from a range of heights and the loops treat each on its own. The
expiration delay is a timer that may fire at any time after the stop, which
includes every value of `--ethapi-trace-cache-duration`. A call may leave the
loop of `fetch_traces` after any block, since `count` may be reached there.
Calls in `Droppable` may be abandoned at an await, as the RPC server does when
a peer goes away.

### TraceService and TraceCacheRefinement

`TraceService` is the cache as its callers see it: a block is absent, pending or
has a result; a call asks for one block and is answered by what becomes of that
block. The refinement maps the state of an entry to the first, the lowest block
still to fetch of a call inside the loop to the block it asks for, and its
oneshot channel to the answer. Every handler is then a step of the service or
none: a start pools, a stop and an expiration evict, a result resolves,
`GetTraces` serves or only waits.

### TracePaging

One call against any chain: blocks and their traces are chosen as they are
read. `matched`, a history variable, collects every trace that passed the
address filter; the answer is compared with it. Traces carry their place in the
chain so that they are distinct.

### CallList and CallListReplay

`CallList` keeps all of the listener's control state and its gas arithmetic,
and drops addresses, values, inputs and outputs. `CallListReplay` adds the
replay: `EmitNew` is `EvmTracer::emit_new` in `trace_block`, the other `Emit`
actions are the EVM, which is not part of this repository and is modelled from
the events that the listener handles and its comments describe. The EVM records
the call tree of each transaction in `tree`; the properties compare the
listener's entries with it. A replay of an `early` runtime has `TransactX` first
and `Exit` for every frame. A `legacy` one has neither, and a frame that ends
without a `StepResult` (out of gas, a precompile) is silent. A transaction may
be refused before it reaches the EVM, or run out of gas for its own data. The
listener then goes to one of two callers: the debug handlers run
`finish_transaction` after the replay, `cache_block` does not.

### Formatters

The three formatters as functions of the listener's maps: the sort and the
pop-and-push loop of `call_tracer.rs`, the positions of `trace_filter.rs`, the
flat list of `blockscout.rs`. Their answers are compared with the EVM's trees of
`CallListReplay` in every final state of the replay. For `trace_filter` the end
of `cache_block` belongs to it: the hash of a trace is that of the transaction at
its position among the block's statuses, which are those the runner accepted
(`EthTransactions`). `PositionsAreTransactions` takes for each of them the traces
that are given its hash and compares them with its own call tree.

### RawListener and RawReplay

One transaction at a time, as `debug_traceTransaction` replays it:
`trace_transaction` applies the extrinsics before it without a listener, which
leaves the contracts with any storage, and fails if it does not find the
transaction. The listener keeps a stack of contexts, each with the storage its
contract is known to have, and a log with one record per completed opcode. A step stands for its opcode,
memory and stack and is named by its number; a return value is named by its
frame. `RawReplay` adds the EVM, external again: a stack of frames over the
contracts' storage, with calls, re-entry and reverts. `executed`, a history
variable, collects what a correct log would say of each completed opcode.
A scenario says whether storage is logged and which unusual frames may occur:
a third frame at an address where two open ones already run, reached by calls
back and forth or by `DELEGATECALL` (`"Nested"`), accounts without code (a
`StepResult` without `Step`), precompiles (neither), and opcodes that cannot be
paid (a `Step` without `StepResult`).

### DebugTask

`call`, `request` and `reply` are the RPC futures and their oneshot channels,
`requester` the channel to the service task, `task`, `id` and `read` the spawned
tracing tasks. The two handlers differ in what they read and in which order
(`BlockReads`, `TransactionReads`); each read is a step of its own because
blocks are imported meanwhile, and `read` records the block it came from. The
chain is a set of blocks of one height, of which one is canonical: a `BlockId`
with a number is looked up anew by every read. The tracing tasks of the cache
appear only as holders of permits. A dropped call does not stop its task.

### TxPool

`call` is one call of the RPC: it reads `ready`, then `future`, then asks the
runtime of the block that is best by then. Between these steps transactions
arrive, replace each other, are promoted, demoted, included or dropped, blocks
are retracted, and the runtime is upgraded (`version` is that of its
`TxPoolRuntimeApi`). The fields `present`, `promoted` and `demoted` of the call
are history, for the property that says what two unlocked reads can promise.

### Aura

Each node has a worker and a verifier (`NewFullBase`), a clock, its imported
blocks, its best block and its equivocation store. A header's logs are a
sequence, since what is pushed and popped is the point: pre-digest, then seal.
A signature names its signer and the header it was made over; a hash is the
header. `Authorities` is the function shared by both sides, with the
compatibility mode in which the runtime first initialises the block. `Deliver`
hands any announced block to any node, in any order and repeatedly; a block that
is refused may come again. Between the pairs of nodes in `Exposed` there are
faulty peers, which deliver what `Faulty` makes of a block on its way: seals or
pre-digests lost or doubled, under the old seal or signed again, changes after
signing, other signers, another timestamp in the body.

`check_header` comes before `check_inherents`, so a header that is refused for its
inherents, or later by its execution, has already been given to
`check_equivocation` (`Recorded`). Of the headers of one slot and signer that
function, which is not in this repository, stores the first and returns at most
one proof, of the first and the header at hand; it does not look at slots older
than its capacity (`MaxSlotCapacity`). `Executes` is what the runtime refuses
after `verify` has let a block pass; a node whose version does not fit skips
`check_inherents` and relies on it.

### ManualSeal and TreasuryReward

The authorship task is `task`: it takes a command, proposes (inherent data,
digest, body), imports and replies, one action each, because the node may stop,
pools and chains may change in between, and proposal or import may fail. `time`
is the mocked clock, which advances whenever inherent data is made and is set
from the best block by a restart. For Babe `epochs` says which of the shared
epochs already carry our authorities, which `create_digest` changes before the
block exists. The pool may still hold extrinsics that the chain has (`Maintain`
comes later). How much inherent data the node's providers give and how many
extrinsics come of it are parameters of a set-up (`inherents_len`,
`inherent_extrinsics`), since `seal_block` compares the one with the other: the
providers of the node itself give three data for two extrinsics. A proposal may
fail before or after `create_digest`, which has then changed the epochs.

Blocks carry the treasury's storage: `TreasuryReward` turns the storage of the
parent and the body, in any order of its extrinsics (`Dispatched`), into that of
the block, with the calls, `DealWithFees` and `on_finalize`. A fee and a tip are
rationed separately, with a rounding each, and the author of the block has to be
known (`Author` unwraps it), which it is not without a digest provider: such
set-ups have no paid extrinsics (`AuthorAssumption`). An interval of 0 makes
`on_finalize` panic, so that no such block is built. The property `TreasuryIsMinted` says it
block by block (what root set, what was minted, what the event tells) and for
the balances as sums over all ancestors of a block.

## Runs

| Run | Instance | Shows |
|---|---|---|
| `cache` | 2 calls, both droppable, 2 blocks, 1 permit, 2 batches | bookkeeping of counts, waiters, tracers, batches and permits; every call returns; permits and cache drain; an abandoned call leaves only its batch behind; the cache implements `TraceService` |
| `cache_served` | 2 calls, 2 batches | **violated**: a batched block can be dropped under an active batch |
| `paging` | 3 blocks of up to 3 traces, 4 kinds of trace, limit 2 | the answer is the requested window; without a count it is complete |
| `paging_maximum` | the same | **violated**: a request without a count fails although its traces do not go over the maximum |
| `call_list` | early: 2 transactions of 2 and 3 nodes; legacy: 3 transactions of 3, 1 and 1; both callers | entries and callTracer's answer are the call tree; in every replay one root, distinct paths, each trace with the hash of its own transaction, Blockscout's order |
| `call_list_unfinished` | the trace cache as the caller | **violated**: the last transaction may have no root |
| `raw` | 2 contracts, 3 frames; 8 opcodes with storage, 6 with all unusual frames | the log is the execution: depth, gas and storage of every opcode; with unusual frames no opcode is missing, doubled or out of order |
| `raw_nested` | with storage, three open frames at one address | **violated**: the outermost of them can miss a write of the innermost |
| `debug` | 2 calls (one droppable), 1 task of the cache, 1 permit, 2 blocks | every call is answered, permits are conserved and come back, a replay by hash is of one block |
| `txpool` | 6 extrinsics of all types and two senders, 3 moves during the call, 2 retracted blocks | what is in the pool is listed in its queue, as far as two reads allow; inspect and content say the same of both queues |
| `aura` | 3 nodes with two modes, 3 slots, chain of 2 blocks, both of which change the authorities, faulty peers in front of the node that skips the inherents check | nodes agree, only blocks as they were built are imported, equivocations reported, blocks get through |
| `manual_seal` | 9 set-ups: Aura, Babe with and without a claim, plain, the node's own providers; manual and instant; up to 3 calls, a restart, a failure, a foreign block | slots and time, true answers, every call answered, instant seal seals, the treasury of every fork |

Bounds. Two blocks let a batch share one block with another and own one alone.
Two batches are one that is stopped and one that pools the same block again, so
that two tasks of one block run at once; one permit makes tasks queue, and with it
the channel has two slots and fills. A third call would add nothing but another
reader, and what is proved holds for any number. In the
paging run a block of three traces can cross `after` and the limit at once.
Two transactions are enough for anything the first leaves in the listener to
reach the second, three for positions to shift; three nodes give siblings
and nesting. Eight opcodes let a contract read a key, call another one that
calls it back, write the key there, leave both frames and log one more opcode:
the shortest way in which a wrong merge shows. In `debug` one permit makes the
calls and the cache wait for each other, and one reorganisation can fall
between any two reads. In `txpool` three moves promote, include and demote a
transaction within one call, and two extrinsics compete for each of two nonces. In
`aura` two blocks cross the end of the compatibility mode with a new set each,
and two nodes with the same keys equivocate; with what the faulty peers sign
again a slot has three and more headers of one signer, and in slot 2 those of slot
1 are out of capacity. In `manual_seal` three calls make
two forks and seal on the shorter one after a restart. The set-ups divide the
bounds among themselves because their product is too large; each says what it is
for. `MaxBatches` bounds a `u64`, `MaxCosts` the gas events per frame;
`MaxAfter`, `MaxBlocks` and `MaxTraces` bound request and chain; `MaxOps`,
`MaxFrames` and `MaxOther` the raw transaction; `MaxReorgs` and `MaxMoves` what
happens beside a call; `MaxSlot`, `MaxNumber` and `MaxDrift` the Aura network
(`MaxSlotCapacity` is a constant of the code it stands for);
`MaxCalls`, `MaxRestarts`, `MaxFaults` and `MaxForeign` the manual seal.

Deadlock checking is off everywhere: a model of finitely many calls, slots,
one request or one block ends. That the calls do end is what `FilterReturns` and
`EveryCallReturns` say.

Fairness. `TraceCache` and `DebugTask`: the executor polls woken tasks and
`select!` picks randomly among ready branches, so each branch of the cache's
loop that stays ready is taken in the end; a timer fires; a replay terminates
or panics, and `spawn_blocking` reports either. It is weak fairness of "some
task", "some call", "some timer": nothing is assumed about who goes first.
Nothing forces a call to be made or to be dropped. `ManualSeal`: the executor
polls the task while it lives, and the pool follows the chain; commands are not
forced, failures neither, and nothing restarts the node. `Aura`: clocks advance,
and a block that some node has and another can still import is offered to it
again, as sync does; no node is forced to build.

## Disagreements found

1. `cache_served`: `request_stop_batch` removes a pooled entry early but leaves
   the batch in `batches`. When the block is pooled again, the old batch's
   expiration decrements the new entry's count, which did not include it. The
   entry and its waiting requests are dropped while the new batch is active.
   The count remains an *under*-count (`CountWithinBatches`), so it cannot
   underflow.
2. `call_list_unfinished`: `cache_block` omits `finish_transaction`.
3. `raw_nested`: when a context exits into a parent of its own address, keys
   that the parent does not track are dropped, so a frame of the same address
   further out that tracks them keeps a stale value. `DELEGATECALL` is the short
   way there; a contract that is re-entered twice is another.
4. `paging_maximum`: an unbounded request is refused when its traces *equal* the
   maximum (`>=` in `fetch_traces`), although the comment says "If we go over" and
   the error "the amount of traces goes over the maximum".

Seen in the models, but not the subject of a run:

- Cache: the capacity of the tracing tasks' channel is twice the permits at
  creation, so `--ethapi-max-permits 0` panics at start-up.
- CallList: `entries_index == 0` holds once per block, so only the first
  transaction has its cost added. `call_type` is never reset, so in a Legacy
  replay a root call takes the type of the last call of the transaction before;
  a lingering child context there receives the larger gas snapshot of its
  parent, and `start_gas - gas` is unchecked. `record_transaction_event_only` is
  not reset either: a refused transaction after an unpaid one gets an invented
  entry. In a Legacy replay that entry has a position of its own, while the
  statuses of the block do not list the transaction, so that every later trace is
  given the hash of the transaction after its own, or the call fails
  (`PositionsAreTransactions` claims nothing from there on).
- Raw: a call to an account without code pops the context of its caller, whose
  tracked storage is then lost, although the comment expects this only for plain
  transfers.
- Debug: a request by number may mix two blocks when the chain reorganises
  between its reads.
- Txpool: a transaction promoted between the reads is in neither list, a demoted
  one in both; competing future transactions share a key, and one is shown; a
  retracted upgrade with typed transactions in the pool makes the call fail;
  `status` counts all extrinsics, `content` Ethereum ones.
- Manual seal: the time rehydrated at a restart is not aligned to a slot, so the
  first proposal can be refused by the minimum period; it is taken from the best
  block, so slots can collide with blocks on abandoned forks. `inherents_len`
  counts data items, not extrinsics: with Babe, and with the providers that
  `service.rs` has for Aura, a single extrinsic is reported as an empty pool, and
  an empty block is made although `create_empty` is false. `run_instant_seal`
  says that it "creates a new block for every transaction" (lib.rs:199-200), but
  extrinsics that are ready together share one (`InstantSeals` only says that each
  is included). A paid extrinsic panics in `Author` when nothing tells the author
  of the block. The
  `unreachable!` of Babe's `append_block_import` is reached when the first
  authority is not in the genesis epoch. A call told that the server is shutting
  down may have made its block. A minting interval of 0 halts block production
  while the call is in the pool.

## Proofs

All proofs are for every value of the constants that satisfies the named
assumptions. Most of these only give the constants their types. The others:
`Permits` is positive; `Requests` and `CacheTasks` are finite; hashes identify
extrinsics (`HashAssumption`); worker and verifier of a node are configured
together, as `service.rs` does (`ServiceAssumption`); the slot duration is
positive and the wall clock shows more than one slot since 1970
(`DurationAssumption`, `NowAssumption`: the first block is in a later slot than
genesis). Values, fees, tips and the genesis configuration of the pallet are natural
numbers (`ExtrinsicsAssumption`, `ConfigAssumption`), and where no digest tells the
author of a block nothing is paid (`AuthorAssumption`). TLC evaluates each of them
on the instances.

`TraceCacheProofs`
: `TypeCorrect` needs, beside `TypeOK`, that a call inside the loop has its
  batch (`GettingHasBatch`): otherwise `StopBatch` could carry no ID.
  `CountCorrect` adds `FreshBatches`, batches with an ID not yet given hold
  nothing, so a start really adds a user; the rest is how the set of users of a
  block grows or shrinks by one (`CountUpdate`, `StartCount`, `ExpiredCount`).
  `TracerCorrect` adds `TracerIsStarted` and argues per step that a task leaves
  `"none"` only by reporting or by being cancelled, and is cancelled only when
  its entry no longer names it. `PermitsCorrect` counts the holders of permits;
  `FreshBatches` is needed because a start overwrites the tasks of its ID.
  `WaiterCorrect` follows the sender of a `get_traces` from the request channel
  to the waiting list of a pooled block; a call waits for one block at a time,
  so it is in one of the two exactly while it has no reply. `BatchEndCorrect`
  does the same for the batch's way from its call over the stop request to the
  timer. `Refines` proves `ImplementsService`: every action maps to a step of
  `TraceService` or to none. It uses the invariants above: what a handler sends
  to its waiters is an answer of the service only because each of them waits
  for this block.

`TracePagingProofs`
: `PageInv` says that the counter is the number of matched traces already
  behind the loop minus `after`, that the answer is the part of them after
  `after`, and that the traces of the current block are the last matched ones.
  `AppendWindow` shows that skipping and appending keeps this; `WindowCorrect`
  and `UnboundedCorrect` are its consequences at the return, `PagingTypeCorrect`
  comes with it.

`CallListProofs`, the listener
: `CallListTypeCorrect` and `PathsCorrect` have one invariant. `PathsInv` says
  why paths do not repeat: the context stack is one branch of a tree (`Chain`),
  and no path that is in use, in the last map or in the pending entry of a
  `StepResult`, is that of an open context or lies below one at a child number
  that the context has still to give (`Fresh`). A new child, a popped context
  and a pushed one keep this (`ChildFresh`, `PopFresh`, `PushFresh`). The
  replay's part says when a handler is not called on an empty stack, where it
  would give the root's path again: in a running transaction there are at least
  as many contexts as frames, after silent ends more (`DepthInv`), and a
  transaction that only recorded its cost has no entry yet (`PendingInv`).
  `RootsCorrect` proves `OneRootPerTransaction` from a second invariant on top
  of the first. While a transaction is executed its root is on the stack, in the
  pending entry or in the last map, and once it has left the stack nothing is
  inserted any more that could replace it (`RootKnown`); between transactions
  the flag for unpaid ones is set exactly after an unpaid one and the refused
  ones that follow it (`FlagInv`), so that finish_transaction leaves a root for
  whatever has something to show (`FinishRoots`). `RootsUpTo` relates the maps
  to the transactions one by one, with the one place by which a refused first
  transaction shifts them; that the i-th map that is kept is that of the i-th
  transaction shown is counted with `NthOf`, from the ranks of their elements.
  `TreesCorrect` proves `EntriesAreTheTree`, which is about runtimes that emit
  `Exit`, from a third invariant on top of these. With `Exit` there is exactly
  one context per open frame, but for a frame whose `StepResult` has popped its
  context into the pending entry; each context has its node's index, type, path
  and number of children, and the gas it has counted is that of its frame since
  the frame's first snapshot (`LinksInv`). The last map holds, from the key
  `Base` on, the nodes of the transaction whose frames have closed (`NodesInv`);
  so it is the whole tree once no frame is open. `TreesUpTo` keeps that for the
  transactions before. At the end the kept maps and the kept trees are index
  sets that differ by an offset, so their i-th elements correspond
  (`NthShifted`).

`CallListProofs`, the formatters
: On top of these three invariants. `WalkCorrect` needs that the
  keys of a map follow the walk: of what the listener knows, in the last map, the
  pending entry and the stack, a smaller index is earlier in a depth-first walk of
  the paths, and everything is earlier than the next child of any open context
  (`WalkInv`). `PositionsCorrect` counts the maps that `retain` keeps: they are
  finite (`Finite`), each has one root (`RootsUpTo`), and a map that is still open
  when the trace cache takes the listener belongs to an executed transaction
  (`TakenInv`). As long as no entry was invented, the maps that are kept up to a
  transaction are as many as the accepted transactions up to it, so that the two
  are at the same place; the map then is its tree (`TreesUpTo`) or has its root.
  `NestCorrect` proves `NestedIsTheTree`. The EVM's tree branches
  (`BranchesInv`): parents come before their children, paths are distinct, and
  child numbers grow. So the place of each call in the sorted list is known
  (`SortedPlaces`): children behind their parent, the later of two siblings in
  front. Then `Round` is the invariant of the loop: with L calls left, the calls
  already put under a node are its children with places after L, complete and in
  order; popping the last one and pushing it under its parent keeps it
  (`RoundStep`), and with one call left it is the tree (`NestsTheTree`).

`RawReplayProofs`
: `OpcodesCorrect`: there is a context for the opcode that runs whatever events
  are missing (`DepthInv`); contexts that were opened in vain or not closed only
  add to the stack. `LogCorrect`: without unusual frames there is one context
  per frame (`ExactInv`), and `StorageInv` says what the listener knows of the
  contracts: the cache of a frame holds the value of every key it tracks as that
  frame sees it, also if all that it called reverts, and the collected changes
  of a frame, applied to the storage at its entry, give what the frames outside
  of it will see. It holds while no address has three open frames
  (`AtMostTwice`), which is where `raw_nested` breaks it.

`DebugTaskProofs`
: `DebugInv` says that a request is in the channel once and before it has a
  task (`QueuedOnce`), that a task knows its input (`InputKnown`), and that
  while it reads, its identifier and everything read so far are of the block it
  located (`Located`, `Unread`); `DebugTypeCorrect` and `OneBlockCorrect`
  follow. `SharedPermitsCorrect` counts the holders on both sides of the
  semaphore; it needs `QueuedOnce` so that a spawn does not overwrite a task
  that holds a permit.

`TxPoolProofs`
: `BetweenInv` and `ReadInv` say what is known after each of the two reads: of
  an extrinsic that stays in the pool, they can only disagree if it was seen to
  change queues. `ListingCorrect` and `InspectCorrect` follow for whichever of
  several extrinsics with one key the answer shows (`Winners`): the summaries of
  the maps that content may answer are the maps that inspect may answer.

`AuraProofs`
: `BlocksInv` says that every block is what its author's worker makes,
  `ExpectedInv` that each node that has a block computes its author as the one
  expected, whichever set of authorities its mode takes; `AgreementCorrect` and
  `OldSetCorrect` follow. `RefusalCorrect` takes apart what `check_header`,
  `check_inherents` and `Executes` leave of each element of `Faulty`: only what is
  equal to the header that was sent. `EquivocationCorrect` needs that the
  store has one header per slot and signer (`StoreInv`), and whatever was received
  in capacity is that header or reported with it (`SeenInv`).

`ManualSealProofs`
: `AnswersCorrect` needs that a call is behind one command and is the sender of
  the task at most once (`CommandsInv`), and that it has made no block before
  the task imports one for it (`MadeInv`); truth is kept because the chain only
  grows and finality only advances on it. `EmptyCorrect` carries who asked from
  the command to the block. `SlotsCorrect` and `SealableCorrect` are about the
  mocked clock: it is one slot ahead of everything sealed since the start
  (`RecentSlots`, `ProposalSlots`), slots grow along every chain (`ChainSlots`),
  and the start took its time from the whole best chain (`StartSlots`).
  The ancestors of a block are a recursive function; its defining equation
  (`Rooted`, `Up`) is proved from a least counterexample (`LeastNumber`), and so
  is what is said of all ancestors.
  `TreasuryCorrect` proves `TreasuryIsMinted` in three layers. A fold over a
  finite set exists (`FoldExists`) and a sum does not depend on the order of the
  summands (`SumPick`, `SumMore`). `Dispatched` are the states that the extrinsics
  of a block may leave in any order: `After` says what any part of them leaves, by a
  least counterexample over the parts, and `Follows` adds `on_finalize`. `MintInv` keeps `Follows` for every
  block and for the proposal, together with what makes the sums of a chain add up:
  no extrinsic of a block is on the chain below it, because the proposer takes
  them from `Body`. `Totals` then goes up the chain; each
  rounding is less than one unit (`RationIs`), so the authors' fifth is off by at
  most two for each extrinsic, one for its fee and one for its tip.

Only model-checked, with the reason: liveness (`FilterReturns`, `Drains`,
`EveryCallReturns`, `PermitsReturn`, `BlocksSpread`, `InstantSeals`), because the
prover has no rules for fairness. Every invariant of a passing run, and the
refinement, is also a theorem. What a recursive function or a fold computes is
proved without an induction rule: from the least element of the set of numbers for
which it would not hold (`LeastNumber`).

## Plan

Done: all modules of the table above. Left:

1. `DebugTask` and `TraceCache` composed over one semaphore in place of the
   abstract holders of `DebugTask`. `DebugTask` is checked against holders on
   the cache's side that keep a permit for any time; `TraceCache` is not checked
   against those of the debug task, of which `PermitsReturn` only says that they
   give their permits back.

## Not modelled

- Node service, command line and chain specifications beyond what Aura gets from
  them: assembly of Substrate services, parsing, genesis data.
- The runtime's pallet parameters, proxy filters and migrations. A migration
  runs once, in FRAME's executive, over data that only the live chain has.
- Generated voter bags and their generator, benchmarks, the executor's and
  runtime interface's wrappers.
- The encoding of EVM events across the runtime boundary and the conversions of
  payload data (addresses, inputs, outputs, opcodes' names): the listeners are
  given the events themselves.
- The start-up of the tracing tasks and the registration of the RPC handlers,
  beyond the semaphore they share.
