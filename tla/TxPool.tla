------------------------------- MODULE TxPool -------------------------------
(***************************************************************************)
(* The txpool RPC (client/rpc/txpool, client/rpc-core/txpool) with the     *)
(* runtime API behind it. A call of content or inspect reads the ready     *)
(* queue, then the future queue, then asks the runtime of the best block   *)
(* which of the extrinsics are Ethereum transactions; the pool and the     *)
(* chain move on between these reads.                                      *)
(*                                                                         *)
(* External, and modelled from how this code uses it: the pool, which      *)
(* keeps the transactions of a sender ready as long as their nonces follow *)
(* each other, and the chain with its runtime upgrades. The pool only      *)
(* accepts transactions whose sender can be recovered, so that the zero    *)
(* address map_build falls back to is not needed.                          *)
(***************************************************************************)
EXTENDS Integers, FiniteSets

CONSTANTS
    Extrinsics,  \* what may be submitted: see Extrinsic
    Senders,
    MaxNonce,    \* the highest nonce of an extrinsic
    MaxMoves,    \* changes of the pool and the chain during the call
    MaxReorgs

\* An Ethereum transaction, or with type "Substrate" any other extrinsic. The
\* fee fields are the ones the types have: an EIP1559 transaction has no
\* gas_price. Value, gas limit and input are payload that the hash stands for.
Extrinsic ==
    [hash : Nat, type : {"Substrate", "Legacy", "EIP2930", "EIP1559"}, from : Senders,
     nonce : 0..MaxNonce, action : {"Create", "Call"}, gas_price : Nat,
     max_fee_per_gas : Nat]

ASSUME ExtrinsicsAssumption == Extrinsics \subseteq Extrinsic
ASSUME HashAssumption == \A a, b \in Extrinsics : a.hash = b.hash => a = b
ASSUME BoundsAssumption == MaxNonce \in Nat /\ MaxMoves \in Nat /\ MaxReorgs \in Nat

VARIABLES
    ready,    \* extrinsics in the ready queue
    future,   \* extrinsics in the future queue
    nonces,   \* nonces of the accounts at the best block
    version,  \* of TxPoolRuntimeApi at the best block, 0 without it
    reorgs,
    call      \* the RPC call

pool == <<ready, future>>
chain == <<nonces, version, reorgs>>
vars == <<pool, chain, call>>

-----------------------------------------------------------------------------
(***************************************************************************)
(* The answer                                                              *)
(***************************************************************************)

\* Mutant: only the transactions of version 1 are recognised.
EthereumTransactionsLegacy(xts) == {xt \in xts : xt.type = "Legacy"}

\* extrinsic_filter
EthereumTransactions(xts) == {xt \in xts : xt.type # "Substrate"}

\* The runtime of version 1 cannot decode typed transactions.
Decodes(xts) == version = 2 \/ \A xt \in xts : xt.type \in {"Substrate", "Legacy"}

\* The action of a contract creation is serialised like a call of the zero
\* address, here "zero".
To(txn) == IF txn.action = "Call" THEN "some" ELSE "zero"

\* Transaction::get
Transaction(txn) ==
    [hash |-> txn.hash, nonce |-> txn.nonce, from |-> txn.from, to |-> To(txn),
     gas_price |-> IF txn.type = "EIP1559" THEN txn.max_fee_per_gas ELSE txn.gas_price]

\* Mutant: the summary of any transaction shows its gas_price.
SummaryOfPrice(txn) == [to |-> To(txn), gas_price |-> txn.gas_price]

\* Summary::get
Summary(txn) ==
    [to |-> To(txn),
     gas_price |-> IF txn.type = "EIP1559" THEN txn.max_fee_per_gas ELSE txn.gas_price]

\* content and inspect
Get(method, txn) == IF method = "content" THEN Transaction(txn) ELSE Summary(txn)

Key(txn) == <<txn.from, txn.nonce>>
Keys(txns) == {Key(txn) : txn \in txns}

\* The TransactionMaps the loops of map_build can leave: of two transactions
\* with the same sender and nonce the later one stays, and the order is any.
TransactionMaps(txns, method) ==
    {[k \in Keys(txns) |-> Get(method, last[k])] :
        last \in {f \in [Keys(txns) -> txns] : \A k \in Keys(txns) : Key(f[k]) = k}}

-----------------------------------------------------------------------------
(***************************************************************************)
(* The pool and the chain                                                  *)
(***************************************************************************)
Fee(xt) == IF xt.type = "EIP1559" THEN xt.max_fee_per_gas ELSE xt.gas_price

OfSender(xts, s) == {xt \in xts : xt.from = s}
NoncesIn(xts, s) == {xt.nonce : xt \in OfSender(xts, s)}

\* The first nonce of a sender that no ready extrinsic has.
NextNonce(xts, s) ==
    CHOOSE n \in nonces[s]..(MaxNonce + 1) :
        /\ n \notin NoncesIn(xts, s)
        /\ nonces[s]..(n - 1) \subseteq NoncesIn(xts, s)

\* What is ready and what is waiting after the extrinsics of a sender were
\* imported or promoted: for each executable nonce one with the best fee, and
\* one that was ready is only replaced for a better one; the ones that lose are
\* dropped.
Executable(xts, s) == {xt \in OfSender(xts, s) : xt.nonce \in nonces[s]..(NextNonce(xts, s) - 1)}
Winners(xts) ==
    {won \in SUBSET xts :
        /\ Keys(won) = Keys(xts)
        /\ \A a, b \in won : Key(a) = Key(b) => a = b
        /\ \A xt \in won : \A other \in xts : Key(other) = Key(xt) =>
              /\ Fee(other) <= Fee(xt)
              /\ Fee(other) = Fee(xt) /\ other \in ready => xt \in ready}

Settled(xts, s) ==
    /\ \E won \in Winners(Executable(xts, s)) :
          ready' = (ready \ OfSender(ready, s)) \cup won
    /\ future' = (future \ OfSender(future, s))
                   \cup (OfSender(xts, s) \ Executable(xts, s))

\* What the call cannot see: extrinsics that stay in the pool and that change
\* queues between its two reads. Changes after the answer do not matter to it.
Watched ==
    /\ call.at # "answered" /\ call.moves < MaxMoves
    /\ call' =
         CASE call.at = "none" -> call
           [] call.at = "read" -> [call EXCEPT !.moves = @ + 1]
           [] call.at = "between" ->
                [call EXCEPT !.moves = @ + 1,
                             !.present = @ \cap (ready' \cup future'),
                             !.promoted = @ \cup (future \cap ready'),
                             !.demoted = @ \cup (ready \cap future')]

Submit(xt) ==
    /\ xt \notin ready \cup future
    /\ xt.nonce >= nonces[xt.from]
    /\ Decodes({xt}) /\ (version = 0 => xt.type = "Substrate")
    /\ Settled(ready \cup future \cup {xt}, xt.from)
    /\ UNCHANGED chain
    /\ Watched

\* An extrinsic is banned, and with it goes what depends on it.
Remove(xt) ==
    /\ IF xt \in ready
       THEN /\ ready' = {other \in ready : ~(other.from = xt.from /\ other.nonce >= xt.nonce)}
            /\ UNCHANGED future
       ELSE /\ xt \in future
            /\ future' = future \ {xt}
            /\ UNCHANGED ready
    /\ UNCHANGED chain
    /\ Watched

\* A block with the next extrinsic of a sender becomes the best one.
Import(xt) ==
    /\ xt \in ready /\ xt.nonce = nonces[xt.from]
    /\ nonces' = [nonces EXCEPT ![xt.from] = @ + 1]
    /\ ready' = ready \ {xt}
    /\ UNCHANGED <<future, version, reorgs>>
    /\ Watched

Upgrade ==
    /\ version < 2
    /\ version' = version + 1
    /\ UNCHANGED <<pool, nonces, reorgs>>
    /\ Watched

\* A block is retracted and with it the nonce of a sender, whose extrinsics wait
\* for the lost one again, or the upgrade.
Reorg(s) ==
    /\ reorgs < MaxReorgs
    /\ reorgs' = reorgs + 1
    /\ \/ /\ nonces[s] > 0
          /\ nonces' = [nonces EXCEPT ![s] = @ - 1]
          /\ ready' = ready \ OfSender(ready, s)
          /\ future' = future \cup OfSender(ready, s)
          /\ UNCHANGED version
       \/ /\ version > 0
          /\ version' = version - 1
          /\ UNCHANGED <<pool, nonces>>
    /\ Watched

-----------------------------------------------------------------------------
(***************************************************************************)
(* The RPC call                                                            *)
(***************************************************************************)
Response(ok, pending, queued) == [ok |-> ok, pending |-> pending, queued |-> queued]
Error == Response(FALSE, <<>>, <<>>)

\* Nothing has been called yet. The fields from moves to demoted are only there for the bound and the properties.
NoCall ==
    [at |-> "none", method |-> "none", txs_ready |-> {}, txs_future |-> {}, answer |-> Error,
     moves |-> 0, present |-> {}, promoted |-> {}, demoted |-> {}]

\* map_build reads the ready queue
ReadReady(method) ==
    /\ call.at = "none"
    /\ call' = [call EXCEPT !.at = "between", !.method = method, !.txs_ready = ready,
                            !.present = ready \cup future]
    /\ UNCHANGED <<pool, chain>>

\* ... then the future queue
ReadFuture ==
    /\ call.at = "between"
    /\ call' = [call EXCEPT !.at = "read", !.txs_future = future]
    /\ UNCHANGED <<pool, chain>>

Built(pending, queued) == Response(TRUE, pending, queued)

\* Without the API, or if the runtime cannot decode one of the extrinsics, the
\* call fails.
Answers ==
    IF version = 0 \/ ~Decodes(call.txs_ready \cup call.txs_future)
    THEN {Error}
    ELSE {Built(pending, queued) :
            pending \in TransactionMaps(EthereumTransactions(call.txs_ready), call.method),
            queued \in TransactionMaps(EthereumTransactions(call.txs_future), call.method)}

\* ... and filters and groups what it has read with the runtime of the block that
\* is the best one now.
Filter ==
    /\ call.at = "read"
    /\ \E answer \in Answers : call' = [call EXCEPT !.at = "answered", !.answer = answer]
    /\ UNCHANGED <<pool, chain>>

\* status: both counts in one read, of extrinsics of every kind.
Status ==
    /\ call.at = "none"
    /\ call' = [call EXCEPT !.at = "answered", !.method = "status",
                   !.answer = Response(TRUE, Cardinality(ready), Cardinality(future))]
    /\ UNCHANGED <<pool, chain>>

-----------------------------------------------------------------------------
Init ==
    /\ ready = {} /\ future = {}
    /\ nonces = [s \in Senders |-> 0]
    /\ version \in 0..2 /\ reorgs = 0
    /\ call = NoCall

Next ==
    \/ \E xt \in Extrinsics : Submit(xt) \/ Remove(xt) \/ Import(xt)
    \/ Upgrade
    \/ \E s \in Senders : Reorg(s)
    \/ \E method \in {"content", "inspect"} : ReadReady(method)
    \/ ReadFuture \/ Filter \/ Status

Spec == Init /\ [][Next]_vars

-----------------------------------------------------------------------------
(***************************************************************************)
(* Properties                                                              *)
(***************************************************************************)
Answered(methods) == call.at = "answered" /\ call.method \in methods /\ call.answer.ok

Ethereum(xts) == {xt \in xts : xt.type # "Substrate"}

Lists(map, xt) == Key(xt) \in DOMAIN map /\ map[Key(xt)].hash = xt.hash

\* "get the extrinsics currently in the ready and future queues" (map_build), as
\* far as two reads can: an Ethereum transaction that is in the pool during the
\* call is listed in the queue it is in. One that was promoted between the reads
\* may be missing, one that was demoted may be listed twice, and of several
\* future ones with the same sender and nonce one is listed.
PoolIsListed ==
    Answered({"content"}) =>
        \A xt \in Ethereum(call.present) :
            LET pending == Lists(call.answer.pending, xt)
                queued == Lists(call.answer.queued, xt)
                rival == Key(xt) \in DOMAIN call.answer.queued
            IN  /\ pending \/ queued \/ rival \/ xt \in call.promoted
                /\ pending /\ queued => xt \in call.demoted
                /\ xt \notin call.promoted \cup call.demoted =>
                      pending = (xt \in call.txs_ready)

\* What inspect may show of a map of content: one entry for each of its keys.
Summarised(map) ==
    [k \in DOMAIN map |-> [to |-> map[k].to, gas_price |-> map[k].gas_price]]

\* Contents and summaries of the Ethereum transactions a call has read from a queue.
Contents(xts) == TransactionMaps(Ethereum(xts), "content")
Summaries(xts) == TransactionMaps(Ethereum(xts), "inspect")

\* inspect is a summary of content, in the pending and in the queued map and in
\* both directions: what it answers has exactly the keys, recipients and prices of
\* a content of the same reads, and every content has a summary it could have
\* answered, although each of the two has its own cases for the types of
\* transactions, and the runtime decides which extrinsics are any.
InspectIsContent ==
    /\ Answered({"inspect"}) =>
          /\ \E map \in Contents(call.txs_ready) : call.answer.pending = Summarised(map)
          /\ \E map \in Contents(call.txs_future) : call.answer.queued = Summarised(map)
    /\ Answered({"content"}) =>
          /\ Summarised(call.answer.pending) \in Summaries(call.txs_ready)
          /\ Summarised(call.answer.queued) \in Summaries(call.txs_future)
=============================================================================
