----------------------------- MODULE ManualSeal -----------------------------
(***************************************************************************)
(* Manual and instant seal (node/consensus-transition/manual-seal): the    *)
(* RPC calls, the authorship task that takes one command at a time, the    *)
(* sealing of a block with its mocked slot time and its Aura or Babe       *)
(* digest, finalization, and the rehydration of the time after a restart.  *)
(*                                                                         *)
(* External, and modelled from how this code uses it: the pool, the client *)
(* with its fork choice and finality, and the runtime, which refuses a     *)
(* block whose slot or timestamp is not far enough from its parent's and   *)
(* runs the hooks of TreasuryReward. The hash of a block is its place in   *)
(* the sequence of imported blocks.                                        *)
(***************************************************************************)
EXTENDS Integers, Sequences, FiniteSets, FiniteSetsExt, TreasuryReward

CONSTANTS
    Engines,        \* the set-ups to check: see Engine
    Extrinsics,     \* what may be submitted: calls of TreasuryReward, see Extrinsic
    GenesisConfig,  \* of TreasuryReward
    SlotDuration,   \* in milliseconds of the model
    Now             \* the clock at the first start, in milliseconds: a set

\* Who sends commands, the consensus_data_provider, how many data the inherent data
\* providers create and how many extrinsics the runtime makes of them, and for Babe
\* whether the keystore can claim a slot with the authorities of the chain and
\* whether the first authority the provider was given is one of them. Then the
\* bounds: number of RPC calls, whether they may be abandoned, whether they name
\* blocks, which values of create_empty and finalize they use, extrinsics, restarts,
\* injected failures, blocks of other nodes.
Engine ==
    [seal : {"manual", "instant"}, provider : {"none", "aura", "babe"},
     inherents_len : Nat, inherent_extrinsics : Nat,
     claims : BOOLEAN, first_in_chain : BOOLEAN,
     MaxCalls : Nat, abandons : BOOLEAN, names_blocks : BOOLEAN, create_empty : SUBSET BOOLEAN,
     finalize : SUBSET BOOLEAN, extrinsics : SUBSET Extrinsics,
     MaxRestarts : Nat, MaxFaults : Nat, MaxForeign : Nat]

ASSUME EnginesAssumption == Engines \subseteq Engine
\* Without a pre-digest nobody is the author of a block, and DealWithFees panics.
ASSUME AuthorAssumption ==
    \A e \in Engines : e.provider = "none" => \A xt \in e.extrinsics : xt.fee = 0 /\ xt.tip = 0
ASSUME ExtrinsicsAssumption == Extrinsics \subseteq Extrinsic
ASSUME ConfigAssumption == GenesisConfig \in [minting_interval : Nat, current_payout : Nat]
ASSUME DurationAssumption == SlotDuration \in Nat \ {0}
\* Milliseconds since 1970 are more than a slot.
ASSUME NowAssumption == Now \subseteq Nat /\ \A now \in Now : SlotDuration <= now

VARIABLES
    engine,    \* the set-up, never changed
    calls,     \* RPC calls: request, phase and answer
    commands,  \* commands_stream: the call behind each command, 0 for instant seal
    task,      \* the authorship task
    blocks,    \* imported blocks
    best,      \* the best block
    finalized, \* the last finalized block
    ready,     \* extrinsics in the ready queue of the pool
    time,      \* SlotTimestampProvider::unix_millis
    started,   \* time, best block and number of blocks at the last start
    epochs,    \* Babe: first block of a signalled epoch -> are its authorities ours
    faults,    \* failures so far
    restarts,
    submitted  \* extrinsics that were submitted

vars == <<engine, calls, commands, task, blocks, best, finalized, ready, time, started,
          epochs, faults, restarts, submitted>>
chain == <<blocks, best, finalized>>

-----------------------------------------------------------------------------
(***************************************************************************)
(* Commands, answers and the chain                                         *)
(***************************************************************************)
None == 0
Unknown == 99  \* a hash that no block has

SealNewBlock(create_empty, finalize, parent_hash) ==
    [command |-> "SealNewBlock", create_empty |-> create_empty, finalize |-> finalize,
     hash |-> parent_hash]
FinalizeBlock(hash) ==
    [command |-> "FinalizeBlock", create_empty |-> FALSE, finalize |-> TRUE, hash |-> hash]

\* What run_instant_seal makes of a pool notification; it has no sender.
InstantCommand == SealNewBlock(FALSE, FALSE, None)

Request(sender) == IF sender = 0 THEN InstantCommand ELSE calls[sender].request

Ok(hash) == [ok |-> TRUE, hash |-> hash, error |-> "none"]
Err(error) == [ok |-> FALSE, hash |-> None, error |-> error]

\* Error::to_code
ToCode(error) ==
    CASE error = "BlockImportError" -> 11000
      [] error = "EmptyTransactionPool" -> 12000
      [] error = "BlockNotFound" -> 13000
      [] error = "ConsensusError" -> 14000
      [] error = "InherentError" -> 15000
      [] error = "BlockchainError" -> 16000
      [] error \in {"SendError", "Canceled"} -> 10000
      [] OTHER -> 20000

Hashes == DOMAIN blocks
Ancestors(hash) ==
    LET up[h \in 0..Len(blocks)] == IF h = 0 THEN {} ELSE {h} \cup up[blocks[h].parent]
    IN  up[hash]
IncludedBy(hash) == UNION {blocks[h].body : h \in Ancestors(hash)}

-----------------------------------------------------------------------------
(***************************************************************************)
(* timestamp.rs, aura.rs, babe.rs                                          *)
(***************************************************************************)
Slot(timestamp) == timestamp \div SlotDuration
MinimumPeriod == SlotDuration \div 2

\* Mutant: the time restarts in the slot of the best block.
WithHeaderSameSlot(head, now) == IF head.number # 0 THEN head.slot * SlotDuration ELSE now

\* Mutant: the time always starts with the clock.
WithHeaderNow(head, now) == now

\* with_header: the time after a start.
WithHeader(head, now) ==
    IF head.number # 0 THEN head.slot * SlotDuration + SlotDuration ELSE now

\* The epoch of a child of this block: the genesis epoch, not imported yet, or
\* the one that the first block after genesis signalled.
EpochRoot(parent) ==
    IF blocks[parent].number = 0 THEN None
    ELSE CHOOSE h \in Ancestors(parent) : blocks[h].number = 1
Ours(epoch) == epoch # None /\ epochs[epoch]

\* create_digest: without a claim a secondary pre-digest, and in a signalled
\* epoch the announcement of one whose authorities are ours.
CreateDigest(parent) ==
    CASE engine.provider = "none" -> "empty"
      [] engine.provider = "aura" -> "slot"
      [] engine.provider = "babe" ->
           IF engine.claims \/ Ours(EpochRoot(parent)) THEN "claimed"
           ELSE IF EpochRoot(parent) = None THEN "secondary"
           ELSE "secondary, next epoch"

\* ... which changes the shared epoch at once, whatever becomes of the block.
EpochsAfterDigest(parent) ==
    IF CreateDigest(parent) = "secondary, next epoch"
    THEN [epochs EXCEPT ![EpochRoot(parent)] = TRUE]
    ELSE epochs

\* append_block_import, after create_digest: the descriptor of the epoch is kept,
\* hard coded, or the code is not reachable.
HasAuthority(parent) == Ours(EpochRoot(parent)) \/ engine.first_in_chain
AppendBlockImport(parent) ==
    IF engine.provider # "babe" \/ HasAuthority(parent) THEN "kept"
    ELSE IF EpochRoot(parent) # None THEN "hard coded"
    ELSE "unreachable"

-----------------------------------------------------------------------------
(***************************************************************************)
(* The runtime and the client, as seal_block uses them                     *)
(***************************************************************************)

\* pallet_aura or pallet_babe, and pallet_timestamp.
Fits(parent, timestamp) ==
    engine.provider = "none" \/
    /\ Slot(timestamp) > parent.slot
    /\ parent.number = 0 \/ timestamp >= parent.timestamp + MinimumPeriod

\* The proposer takes what the pool offers and the chain does not have yet.
Body(parent) == ready \ IncludedBy(parent)

\* The states that the extrinsics of a block can leave: they are dispatched one
\* after the other, in any order.
Dispatched(state, body) ==
    LET after[s \in SUBSET body] ==
          IF s = {} THEN {state}
          ELSE UNION {{Dispatch(mid, xt) : mid \in after[s \ {xt}]} : xt \in s}
    IN  after[body]

Executes(parent, timestamp, dispatched) ==
    Fits(blocks[parent], timestamp) /\ ~OnFinalizePanics(dispatched)

NewBlock(sender, parent, timestamp, digest, body, dispatched) ==
    LET number == blocks[parent].number + 1
    IN  [parent |-> parent, number |-> number, slot |-> Slot(timestamp),
         timestamp |-> timestamp, digest |-> digest, body |-> body, by |-> sender,
         storage |-> on_finalize(dispatched, number)]

GenesisBlock ==
    [parent |-> None, number |-> 0, slot |-> 0, timestamp |-> 0, digest |-> "empty",
     body |-> {}, by |-> 0, storage |-> GenesisBuild(GenesisConfig)]

\* Finality only ever moves to descendants.
MayFinalize(hash) == hash \in Hashes /\ finalized \in Ancestors(hash)

\* ForkChoiceStrategy::LongestChain, unless finality decides.
BestAfterImport(block) ==
    IF block.number > blocks[best].number THEN Len(blocks) + 1 ELSE best

BestAfterFinality(hash) == IF hash \in Ancestors(best) THEN best ELSE hash

\* Mutant: a failure to finalize is only logged.
FinalizeResultOk(hash) == Ok(hash)

\* finalize_block
FinalizeResult(hash) == IF MayFinalize(hash) THEN Ok(hash) ELSE Err("BlockchainError")

Imported(block, finalize) ==
    LET hash == Len(blocks) + 1
    IN  /\ blocks' = Append(blocks, block)
        /\ best' = IF finalize THEN hash ELSE BestAfterImport(block)
        /\ finalized' = IF finalize THEN hash ELSE finalized
        /\ epochs' = IF engine.provider = "babe" /\ block.number = 1
                     THEN [h \in DOMAIN epochs \cup {hash} |-> h \in DOMAIN epochs /\ epochs[h]]
                     ELSE epochs

\* The client refuses a block that is not above the last finalized one, and one
\* that would become best or finalized without descending from it.
ImportRefused(block, finalize) ==
    \/ block.number <= blocks[finalized].number
    \/ /\ finalize \/ block.number > blocks[best].number
       /\ finalized \notin Ancestors(block.parent)

-----------------------------------------------------------------------------
(***************************************************************************)
(* The node                                                                *)
(***************************************************************************)
Foreign == -1  \* who made the blocks that come through the import queue

Idle == [at |-> "idle"]
Stopped == [at |-> "stopped"]
Replying(sender, answer) == [at |-> "replying", sender |-> sender, answer |-> answer]

Init ==
    /\ engine \in Engines
    /\ calls = <<>> /\ commands = <<>>
    /\ task = Idle
    /\ blocks = <<GenesisBlock>> /\ best = 1 /\ finalized = 1
    /\ ready = {} /\ submitted = {}
    /\ time \in Now
    /\ started = [time |-> time, best |-> 1, len |-> 1]
    /\ epochs = [h \in {} |-> FALSE]
    /\ faults = 0 /\ restarts = 0

\* create_block and finalize_block: the command goes into the channel together
\* with the sending end of a oneshot, or there is no task to take it.
Call(request) ==
    /\ engine.seal = "manual" /\ Len(calls) < engine.MaxCalls
    /\ IF task = Stopped
       THEN /\ calls' = Append(calls, [request |-> request, phase |-> "answered",
                                      answer |-> Err("SendError")])
            /\ UNCHANGED commands
       ELSE /\ calls' = Append(calls, [request |-> request, phase |-> "waiting",
                                      answer |-> Ok(None)])
            /\ commands' = Append(commands, Len(calls) + 1)
    /\ UNCHANGED <<engine, task, chain, ready, time, started, epochs, faults, restarts, submitted>>

\* The client of a call goes away; its command stays.
Abandon(i) ==
    /\ engine.abandons /\ calls[i].phase = "waiting"
    /\ calls' = [calls EXCEPT ![i].phase = "gone"]
    /\ UNCHANGED <<engine, commands, task, chain, ready, time, started, epochs, faults, restarts,
                   submitted>>

\* Mutant: a notification is dropped while the task is busy.
NotifiedWhenIdle ==
    IF engine.seal = "instant" /\ task = Idle THEN Append(commands, 0) ELSE commands

\* run_instant_seal: import notifications are mapped to commands.
Notified == IF engine.seal = "instant" THEN Append(commands, 0) ELSE commands

\* The pool imports an extrinsic and, for instant seal, notifies the stream.
Submit(xt) ==
    /\ xt \notin submitted /\ task # Stopped
    /\ submitted' = submitted \cup {xt}
    /\ ready' = ready \cup {xt}
    /\ commands' = Notified
    /\ UNCHANGED <<engine, calls, task, chain, time, started, epochs, faults, restarts>>

\* The pool prunes what the best chain has, some time after the import.
Maintain ==
    /\ ready \cap IncludedBy(best) # {}
    /\ ready' = ready \ IncludedBy(best)
    /\ UNCHANGED <<engine, calls, commands, task, chain, time, started, epochs, faults, restarts,
                   submitted>>

\* run_manual_seal takes a command. seal_block looks at the pool first;
\* finalize_block does all its work.
TakeCommand ==
    /\ task = Idle /\ commands # <<>>
    /\ commands' = Tail(commands)
    /\ LET sender == Head(commands)
           request == Request(sender)
       IN  IF request.command = "SealNewBlock"
           THEN /\ task' = IF ready = {} /\ ~request.create_empty
                           THEN Replying(sender, Err("EmptyTransactionPool"))
                           ELSE [at |-> "sealing", sender |-> sender]
                /\ UNCHANGED <<chain, faults>>
           ELSE /\ task' = Replying(sender, FinalizeResult(request.hash))
                /\ IF MayFinalize(request.hash)
                   THEN /\ finalized' = request.hash
                        /\ best' = BestAfterFinality(request.hash)
                        /\ UNCHANGED <<blocks, faults>>
                   ELSE faults' = faults + 1 /\ UNCHANGED chain
    /\ UNCHANGED <<engine, calls, ready, time, started, epochs, restarts, submitted>>

\* provide_inherent_data: fetch_add, whatever happens afterwards.
TimeAfterInherents ==
    IF engine.provider = "none" THEN time ELSE time + SlotDuration

\* Mutant: the proposal is not looked at again.
OnlyInherentsNever(body) == FALSE

\* The second check for an empty block compares extrinsics, the ones of inherents
\* included, with inherent data.
OnlyInherents(body) == Cardinality(body) + engine.inherent_extrinsics = engine.inherents_len

ParentHash == LET asked == Request(task.sender).hash IN IF asked = None THEN best ELSE asked

\* seal_block, from the parent to the proposal. The timestamp is the time before
\* it is advanced.
Propose ==
    /\ task.at = "sealing"
    /\ LET request == Request(task.sender)
           parent == ParentHash
           body == Body(parent)
           empty == OnlyInherents(body)
           fails(error) == task' = Replying(task.sender, Err(error))
       IN  IF parent \notin Hashes
           THEN /\ fails("BlockNotFound")
                /\ faults' = faults + 1
                /\ UNCHANGED <<time, epochs>>
           ELSE /\ time' = TimeAfterInherents
                /\ epochs' = EpochsAfterDigest(parent)
                /\ \E dispatched \in Dispatched(blocks[parent].storage, body) :
                     LET executes == Executes(parent, time, dispatched)
                     IN  \/ ~executes /\ fails("StringError") /\ faults' = faults + 1
                         \/ /\ executes /\ empty /\ ~request.create_empty
                            /\ fails("EmptyTransactionPool")
                            /\ UNCHANGED faults
                         \/ /\ executes /\ (empty => request.create_empty)
                            /\ task' = [at |-> "proposed", sender |-> task.sender,
                                        block |-> NewBlock(task.sender, parent, time,
                                                    CreateDigest(parent), body, dispatched)]
                            /\ UNCHANGED faults
    /\ UNCHANGED <<engine, calls, commands, chain, ready, started, restarts, submitted>>

\* The client, the inherent data providers, the proposer or the digest provider
\* fail, before or after the time and the epoch were changed.
ProposeFails ==
    /\ task.at = "sealing" /\ faults < engine.MaxFaults
    /\ LET fails(error) == task' = Replying(task.sender, Err(error))
       IN  \/ fails("BlockchainError") /\ UNCHANGED <<time, epochs>>
           \/ ParentHash \in Hashes /\ fails("Other") /\ UNCHANGED <<time, epochs>>
           \/ /\ ParentHash \in Hashes /\ fails("InherentError")
              /\ time' \in {time, TimeAfterInherents}
              /\ UNCHANGED epochs
           \/ /\ ParentHash \in Hashes /\ fails("StringError")
              /\ time' = TimeAfterInherents
              /\ epochs' \in {epochs, EpochsAfterDigest(ParentHash)}
    /\ faults' = faults + 1
    /\ UNCHANGED <<engine, calls, commands, chain, ready, started, restarts, submitted>>

\* seal_block, from append_block_import to the result of the import.
Import ==
    /\ task.at = "proposed"
    /\ LET block == task.block
           finalize == Request(task.sender).finalize
       IN  /\ AppendBlockImport(block.parent) # "unreachable"
           /\ IF ImportRefused(block, finalize)
              THEN /\ task' = Replying(task.sender, Err("ConsensusError"))
                   /\ faults' = faults + 1
                   /\ UNCHANGED <<chain, epochs>>
              ELSE /\ Imported(block, finalize)
                   /\ task' = Replying(task.sender, Ok(Len(blocks) + 1))
                   /\ UNCHANGED faults
    /\ UNCHANGED <<engine, calls, commands, ready, time, started, restarts, submitted>>

\* The import fails, or its result is not Imported.
ImportFails ==
    /\ task.at = "proposed" /\ faults < engine.MaxFaults
    /\ AppendBlockImport(task.block.parent) # "unreachable"
    /\ \E error \in {"ConsensusError", "BlockImportError"} :
          task' = Replying(task.sender, Err(error))
    /\ faults' = faults + 1
    /\ UNCHANGED <<engine, calls, commands, chain, ready, time, started, epochs, restarts, submitted>>

\* Mutant: an error is only logged.
AnsweredIfOk(sender, answer) ==
    IF sender # 0 /\ calls[sender].phase = "waiting" /\ answer.ok
    THEN [calls EXCEPT ![sender].phase = "answered", ![sender].answer = answer]
    ELSE calls

\* send_result: instant seal has no sender, an abandoned call no receiver.
Answered(sender, answer) ==
    IF sender # 0 /\ calls[sender].phase = "waiting"
    THEN [calls EXCEPT ![sender].phase = "answered", ![sender].answer = answer]
    ELSE calls

Reply ==
    /\ task.at = "replying"
    /\ calls' = Answered(task.sender, task.answer)
    /\ task' = Idle
    /\ UNCHANGED <<engine, commands, chain, ready, time, started, epochs, faults, restarts, submitted>>

\* The task is dropped, and with it every command and its oneshot.
Drop ==
    /\ task' = Stopped
    /\ commands' = <<>>
    /\ calls' = [i \in DOMAIN calls |->
                   IF calls[i].phase = "waiting"
                   THEN [calls[i] EXCEPT !.phase = "answered", !.answer = Err("Canceled")]
                   ELSE calls[i]]
    /\ UNCHANGED <<engine, chain, ready, time, started, epochs, faults, restarts, submitted>>

\* The node stops, at any moment.
Stop == task # Stopped /\ restarts < engine.MaxRestarts /\ Drop

\* append_block_import panics in the genesis epoch of authorities that lack ours.
Panic ==
    /\ task.at = "proposed"
    /\ AppendBlockImport(task.block.parent) = "unreachable"
    /\ Drop

\* The chain is kept; the pool is not, and neither are changes of an epoch that
\* no import has saved.
Restart(now) ==
    /\ task = Stopped /\ restarts < engine.MaxRestarts
    /\ task' = Idle
    /\ restarts' = restarts + 1
    /\ time' = WithHeader(blocks[best], now)
    /\ started' = [time |-> time', best |-> best, len |-> Len(blocks)]
    /\ ready' = {}
    /\ epochs' \in {epochs, [h \in DOMAIN epochs |-> FALSE]}
    /\ UNCHANGED <<engine, calls, commands, chain, faults, submitted>>

\* The verifiers of the import queue never finalize a block and leave the choice
\* of the best one to its length.
Verify == [finalized |-> FALSE]

\* A block of another node, which executes here as it did there.
ForeignBlock(parent, slots) ==
    LET block == [NewBlock(Foreign, parent, blocks[parent].timestamp + slots * SlotDuration,
                           "foreign", {}, blocks[parent].storage) EXCEPT !.by = Foreign]
    IN  /\ task # Stopped
        /\ Cardinality({h \in Hashes : blocks[h].by = Foreign}) < engine.MaxForeign
        /\ ~OnFinalizePanics(blocks[parent].storage)
        /\ ~ImportRefused(block, Verify.finalized)
        /\ Imported(block, Verify.finalized)
        /\ UNCHANGED <<engine, calls, commands, task, ready, time, started, faults, restarts,
                       submitted>>

Requests ==
    LET named == IF engine.names_blocks THEN Hashes \cup {Unknown} ELSE {}
    IN  {SealNewBlock(c, f, h) : c \in engine.create_empty, f \in engine.finalize,
                                 h \in named \cup {None}}
        \cup {FinalizeBlock(h) : h \in named}

Next ==
    \/ \E request \in Requests : Call(request)
    \/ \E i \in DOMAIN calls : Abandon(i)
    \/ \E xt \in engine.extrinsics : Submit(xt)
    \/ Maintain
    \/ TakeCommand \/ Propose \/ ProposeFails \/ Import \/ ImportFails \/ Reply
    \/ Stop \/ Panic
    \/ \E now \in Now : Restart(now)
    \/ \E parent \in Hashes, slots \in {1, 3} : ForeignBlock(parent, slots)

Spec == Init /\ [][Next]_vars

\* The executor polls the task as long as it lives; the pool follows the chain.
FairSpec ==
    /\ Spec
    /\ WF_vars(TakeCommand \/ Propose \/ Import \/ Panic \/ Reply)
    /\ WF_vars(Maintain)

-----------------------------------------------------------------------------
(***************************************************************************)
(* Properties                                                              *)
(***************************************************************************)

\* Blocks the node made itself, and the ones of them made since the last start.
Own == {h \in Hashes : h # 1 /\ blocks[h].by # Foreign}
Recent == {h \in Own : h > started.len}

\* "add the slot duration so there's no collision of slots" (with_header), as far
\* as it is true: whatever seals failed and whenever the node was restarted, two
\* blocks of the node share a slot only if one of them was left behind on a fork
\* that was not the best one at the restart.
SlotsDoNotCollide ==
    engine.provider # "none" =>
        \A new \in Recent : \A old \in Own \ {new} :
            blocks[new].slot = blocks[old].slot =>
                old <= started.len /\ old \notin Ancestors(started.best)

\* "otherwise we'd be producing blocks for older slots" (with_header): on a best
\* chain that was best at the start or has been sealed since, the next proposal
\* never has an old slot; and the runtime accepts its timestamp, except perhaps
\* the very first one after a restart, which the alignment to slots can bring
\* closer to its parent than the minimum period.
BestIsSealable ==
    engine.provider # "none" /\ best \in Ancestors(started.best) \cup Recent =>
        /\ Slot(time) > blocks[best].slot
        /\ time # started.time => Fits(blocks[best], time)

\* What an RPC call is told is true: a block it created is there, on the parent
\* it asked for, finalized if it asked for that; an error, unless it is about the
\* end of the task, means that no block was made; a block it
\* finalized stays so and stays on the best chain.
AnswersAreTrue ==
    \A i \in DOMAIN calls : calls[i].phase = "answered" =>
        LET request == calls[i].request
            answer == calls[i].answer
            made == {h \in Hashes : blocks[h].by = i}
        IN  IF ~answer.ok
            THEN ToCode(answer.error) # 10000 => made = {}
            ELSE /\ request.finalize =>
                       answer.hash \in Ancestors(finalized) \cap Ancestors(best)
                 /\ request.command = "SealNewBlock" =>
                       /\ made = {answer.hash}
                       /\ request.hash \in {None, blocks[answer.hash].parent}

\* "if true, empty blocks(without extrinsics) will be created. otherwise, will
\* return Error::EmptyTransactionPool": also when the extrinsics the pool had at
\* the first check turn out to be stale. Not so where there is more inherent data
\* than there are inherent extrinsics, as with Babe and with the inherent data
\* providers that the node itself has for Aura.
EmptyOnlyIfAsked ==
    engine.inherents_len = engine.inherent_extrinsics =>
        \A h \in Own : blocks[h].body = {} =>
            blocks[h].by # 0 /\ calls[blocks[h].by].request.create_empty

\* What root set in a block, or else what was in force before it.
InForce(hash, call, before) ==
    LET set == {xt \in blocks[hash].body : xt.call = call /\ xt.origin = "root"}
    IN  IF set = {} THEN {before} ELSE {xt.value : xt \in set}

Minted(hash) ==
    LET state == blocks[hash].storage
    IN  IF blocks[hash].number = 0 THEN 0
        ELSE IF blocks[hash].number % state.minting_interval = 0 THEN state.current_payout
        ELSE 0

\* What was paid for an extrinsic, and for those of a block.
Paid(xt) == xt.fee + xt.tip
Fees(hash) == SumFunction([xt \in blocks[hash].body |-> Paid(xt)])

\* On every fork the interval and the payout of a block are the ones that root set
\* in it or left behind on its own chain; the treasury and the authors together hold
\* exactly what the blocks of the fork minted, each with its interval and payout,
\* and what was paid for their extrinsics; the authors have a fifth of the latter
\* and at most what is lost to the treasury by rounding twice for each extrinsic, its
\* fee and its tip; and the event of a block tells the balance of the treasury.
TreasuryIsMinted ==
    \A h \in Hashes :
        LET state == blocks[h].storage
            before == IF h = 1 THEN GenesisBuild(GenesisConfig) ELSE blocks[blocks[h].parent].storage
            paid == SumFunction([a \in Ancestors(h) |-> Fees(a)])
        IN  /\ state.minting_interval
                  \in InForce(h, "set_minting_interval", before.minting_interval)
            /\ state.current_payout \in InForce(h, "set_current_payout", before.current_payout)
            /\ state.treasury + state.authors
                  = SumFunction([a \in Ancestors(h) |-> Minted(a)]) + paid
            /\ state.authors - paid \div 5 \in 0..(2 * Cardinality(IncludedBy(h)))
            /\ state.event = IF Minted(h) = 0 THEN <<>> ELSE <<state.treasury, blocks[h].number>>

CallBound == Max({e.MaxCalls : e \in Engines})

\* Every RPC call is answered, on every early return of seal_block, when the task
\* panics, and when the node stops with commands in its channel.
EveryCallReturns ==
    \A i \in 1..CallBound :
        (i \in DOMAIN calls /\ calls[i].phase = "waiting")
            ~> (i \in DOMAIN calls /\ calls[i].phase # "waiting")

\* "instant-seal creates blocks as soon as transactions are imported into the
\* transaction pool" (run_instant_seal): an extrinsic gets into the best chain,
\* although several may share a block and leave commands for an empty pool
\* behind: that "creates a new block for every transaction" (the same comment) is
\* not so. A failed seal is not tried again, and where there is more inherent data
\* than inherent extrinsics as many extrinsics pass for none.
Undisturbed ==
    /\ faults = 0 /\ restarts = 0 /\ task # Stopped
    /\ \A h \in Hashes : blocks[h].by # Foreign
InstantSeals ==
    \A xt \in Extrinsics :
        (/\ engine.seal = "instant" /\ xt \in ready
         /\ engine.inherents_len = engine.inherent_extrinsics)
            ~> (xt \in IncludedBy(best) \/ ~Undisturbed)
=============================================================================
