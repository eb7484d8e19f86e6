---------------------------- MODULE TxPoolProofs ----------------------------
(***************************************************************************)
(* Proofs about the txpool RPC, for any extrinsics, senders and changes of *)
(* the pool and the chain during a call.                                   *)
(***************************************************************************)
EXTENDS TxPool, TLAPS

USE ExtrinsicsAssumption

-----------------------------------------------------------------------------
(***************************************************************************)
(* The inductive invariant. PoolIsListed says what an answer shows of      *)
(* queues that were read at two moments, so it rests on what holds between *)
(* them: of an extrinsic that has been in the pool since the first read,   *)
(* the two reads can only differ if it was seen to change queues. That     *)
(* needs queues that are disjoint, and a ready queue with one extrinsic    *)
(* for each sender and nonce.                                              *)
(***************************************************************************)
QueuesInv ==
    /\ ready \subseteq Extrinsics
    /\ future \subseteq Extrinsics
    /\ ready \cap future = {}
    /\ \A a, b \in ready : Key(a) = Key(b) => a = b

\* The fields of a call.
CallInv ==
    /\ call = [at |-> call.at, method |-> call.method, txs_ready |-> call.txs_ready,
               txs_future |-> call.txs_future, answer |-> call.answer, moves |-> call.moves,
               present |-> call.present, promoted |-> call.promoted, demoted |-> call.demoted]
    /\ call.at \in {"none", "between", "read", "answered"}

\* After the first read.
BetweenInv ==
    call.at = "between" =>
        /\ call.txs_ready \subseteq Extrinsics
        /\ \A a, b \in call.txs_ready : Key(a) = Key(b) => a = b
        /\ call.present \subseteq ready \cup future
        /\ call.present \cap call.txs_ready \cap future \subseteq call.demoted
        /\ (call.present \ call.txs_ready) \cap ready \subseteq call.promoted

\* After the second read.
ReadInv ==
    call.at = "read" =>
        /\ call.txs_ready \subseteq Extrinsics /\ call.txs_future \subseteq Extrinsics
        /\ \A a, b \in call.txs_ready : Key(a) = Key(b) => a = b
        /\ call.present \subseteq call.txs_ready \cup call.txs_future \cup call.promoted
        /\ call.present \subseteq Extrinsics
        /\ call.present \cap call.txs_ready \cap call.txs_future \subseteq call.demoted

IInv == QueuesInv /\ CallInv /\ BetweenInv /\ ReadInv /\ PoolIsListed /\ InspectIsContent

-----------------------------------------------------------------------------
(***************************************************************************)
(* The pool and the chain move on.                                         *)
(***************************************************************************)

\* The queues after a sender's extrinsics were imported or promoted.
LEMMA SettledQueues ==
    ASSUME QueuesInv, NEW xts \in SUBSET Extrinsics, NEW s, Settled(xts, s)
    PROVE  QueuesInv'
<1>1. PICK won \in Winners(Executable(xts, s)) : ready' = (ready \ OfSender(ready, s)) \cup won
  BY DEF Settled
<1>2. /\ won \subseteq Executable(xts, s)
      /\ \A a, b \in won : Key(a) = Key(b) => a = b
  BY <1>1 DEF Winners
<1>3. Executable(xts, s) \subseteq OfSender(xts, s)
  BY DEF Executable
<1>4. future' = (future \ OfSender(future, s)) \cup (OfSender(xts, s) \ Executable(xts, s))
  BY DEF Settled
<1>5. ready' \subseteq Extrinsics /\ future' \subseteq Extrinsics
  BY <1>1, <1>2, <1>3, <1>4 DEF QueuesInv, OfSender
<1>6. ready' \cap future' = {}
  BY <1>1, <1>2, <1>3, <1>4 DEF QueuesInv, OfSender
<1>7. \A a, b \in ready' : Key(a) = Key(b) => a = b
  <2> SUFFICES ASSUME NEW a \in ready', NEW b \in ready', Key(a) = Key(b) PROVE a = b
    OBVIOUS
  <2>1. a.from = b.from
    BY DEF Key
  <2>2. \A x \in won : x.from = s
    BY <1>2, <1>3 DEF OfSender
  <2>3. \A x \in ready' : x \in won \/ (x \in ready /\ x.from # s)
    BY <1>1 DEF OfSender
  <2> QED
    BY <1>2, <2>1, <2>2, <2>3 DEF QueuesInv
<1> QED
  BY <1>5, <1>6, <1>7 DEF QueuesInv

\* A call in progress whose pool changes.
LEMMA WatchedStep ==
    ASSUME IInv, QueuesInv', Watched
    PROVE  IInv'
<1>1. /\ call.at \in {"none", "between", "read"}
      /\ call.at = "none" => call' = call
      /\ call.at = "read" => call' = [call EXCEPT !.moves = @ + 1]
      /\ call.at = "between" =>
           call' = [call EXCEPT !.moves = @ + 1,
                                !.present = @ \cap (ready' \cup future'),
                                !.promoted = @ \cup (future \cap ready'),
                                !.demoted = @ \cup (ready \cap future')]
  BY DEF IInv, CallInv, Watched
<1>2. CASE call.at = "none"
  BY <1>1, <1>2 DEF IInv, CallInv, BetweenInv, ReadInv, PoolIsListed, InspectIsContent, Answered
<1>3. CASE call.at = "read"
  <2>1. /\ call'.at = "read" /\ call'.txs_ready = call.txs_ready
        /\ call'.txs_future = call.txs_future /\ call'.present = call.present
        /\ call'.promoted = call.promoted /\ call'.demoted = call.demoted /\ CallInv'
    BY <1>1, <1>3 DEF IInv, CallInv
  <2> QED
    BY <1>3, <2>1 DEF IInv, BetweenInv, ReadInv, PoolIsListed, InspectIsContent, Answered
<1>4. CASE call.at = "between"
  <2>1. /\ call'.at = "between" /\ call'.txs_ready = call.txs_ready
        /\ call'.present = call.present \cap (ready' \cup future')
        /\ call'.promoted = call.promoted \cup (future \cap ready')
        /\ call'.demoted = call.demoted \cup (ready \cap future') /\ CallInv'
    BY <1>1, <1>4 DEF IInv, CallInv
  <2>2. BetweenInv'
    BY <1>4, <2>1 DEF IInv, BetweenInv
  <2> QED
    BY <2>1, <2>2 DEF IInv, ReadInv, PoolIsListed, InspectIsContent, Answered
<1> QED
  BY <1>1, <1>2, <1>3, <1>4

LEMMA PoolStep ==
    ASSUME IInv,
           \/ \E xt \in Extrinsics : Submit(xt) \/ Remove(xt) \/ Import(xt)
           \/ Upgrade
           \/ \E s \in Senders : Reorg(s)
    PROVE  IInv'
<1>0. QueuesInv
  BY DEF IInv
<1>1. ASSUME NEW xt \in Extrinsics, Submit(xt) PROVE QueuesInv'
  <2>1. ready \cup future \cup {xt} \in SUBSET Extrinsics
    BY <1>0 DEF QueuesInv
  <2> QED
    BY <1>0, <1>1, <2>1, SettledQueues DEF Submit
<1>2. ASSUME NEW xt \in Extrinsics, Remove(xt) PROVE QueuesInv'
  <2>1. ready' \subseteq ready /\ future' \subseteq future
    BY <1>2 DEF Remove
  <2> QED
    BY <1>0, <2>1 DEF QueuesInv
<1>3. ASSUME NEW xt \in Extrinsics, Import(xt) PROVE QueuesInv'
  BY <1>0, <1>3 DEF QueuesInv, Import
<1>4. ASSUME Upgrade PROVE QueuesInv'
  BY <1>0, <1>4 DEF QueuesInv, Upgrade, pool
<1>5. ASSUME NEW s \in Senders, Reorg(s) PROVE QueuesInv'
  <2>1. \/ ready' = ready \ OfSender(ready, s) /\ future' = future \cup OfSender(ready, s)
        \/ ready' = ready /\ future' = future
    BY <1>5 DEF Reorg, pool
  <2> QED
    BY <1>0, <2>1 DEF QueuesInv, OfSender
<1>6. QueuesInv' /\ Watched
  BY <1>1, <1>2, <1>3, <1>4, <1>5 DEF Submit, Remove, Import, Upgrade, Reorg
<1> QED
  BY <1>6, WatchedStep

-----------------------------------------------------------------------------
(***************************************************************************)
(* The call.                                                               *)
(***************************************************************************)
LEMMA ReadStep ==
    ASSUME IInv, (\E method \in {"content", "inspect"} : ReadReady(method)) \/ ReadFuture
    PROVE  IInv'
<1>0. QueuesInv'
  BY DEF IInv, QueuesInv, ReadReady, ReadFuture, pool
<1>1. CASE \E method \in {"content", "inspect"} : ReadReady(method)
  <2>1. PICK method \in {"content", "inspect"} : ReadReady(method)
    BY <1>1
  <2>2. /\ call'.at = "between" /\ call'.txs_ready = ready
        /\ call'.present = ready \cup future /\ CallInv'
        /\ ready' = ready /\ future' = future
    BY <2>1 DEF IInv, CallInv, ReadReady, pool
  <2>3. BetweenInv'
    BY <2>2 DEF BetweenInv, IInv, QueuesInv
  <2> QED
    BY <1>0, <2>2, <2>3 DEF IInv, ReadInv, PoolIsListed, InspectIsContent, Answered
<1>2. CASE ReadFuture
  <2>1. /\ call.at = "between" /\ call'.at = "read" /\ call'.txs_ready = call.txs_ready
        /\ call'.txs_future = future
        /\ call'.present = call.present /\ call'.promoted = call.promoted
        /\ call'.demoted = call.demoted /\ CallInv'
    BY <1>2 DEF IInv, CallInv, ReadFuture
  <2>2. ReadInv'
    BY <2>1 DEF IInv, QueuesInv, BetweenInv, ReadInv
  <2> QED
    BY <1>0, <2>1, <2>2 DEF IInv, BetweenInv, PoolIsListed, InspectIsContent, Answered
<1> QED
  BY <1>1, <1>2

\* A map shows one of the transactions for each sender and nonce.
LEMMA MapShows ==
    ASSUME NEW txns, NEW method, NEW map \in TransactionMaps(txns, method)
    PROVE  \E last \in [Keys(txns) -> txns] :
              /\ \A k \in Keys(txns) : Key(last[k]) = k
              /\ map = [k \in Keys(txns) |-> Get(method, last[k])]
BY DEF TransactionMaps

LEMMA MapLists ==
    ASSUME NEW xts \in SUBSET Extrinsics, NEW xt \in Extrinsics, xt.type # "Substrate",
           NEW map \in TransactionMaps(EthereumTransactions(xts), "content")
    PROVE  /\ Lists(map, xt) => xt \in xts
           /\ xt \in xts => Key(xt) \in DOMAIN map
           /\ xt \in xts /\ (\A a, b \in xts : Key(a) = Key(b) => a = b) => Lists(map, xt)
<1> DEFINE txns == EthereumTransactions(xts)
<1>1. PICK last \in [Keys(txns) -> txns] :
              /\ \A k \in Keys(txns) : Key(last[k]) = k
              /\ map = [k \in Keys(txns) |-> Get("content", last[k])]
  BY MapShows
<1>2. txns \subseteq xts /\ (xt \in xts => xt \in txns)
  BY DEF EthereumTransactions
<1> HIDE DEF txns
<1>3. xt \in xts => Key(xt) \in Keys(txns)
  BY <1>2 DEF Keys
<1>4. DOMAIN map = Keys(txns)
  BY <1>1
<1>5. ASSUME NEW k \in Keys(txns)
      PROVE  map[k].hash = last[k].hash /\ last[k] \in xts /\ last[k] \in Extrinsics
  BY <1>1, <1>2, <1>5 DEF Get, Transaction
<1>6. Lists(map, xt) => xt \in xts
  BY <1>4, <1>5, HashAssumption DEF Lists
<1>7. ASSUME xt \in xts, \A a, b \in xts : Key(a) = Key(b) => a = b
      PROVE  Lists(map, xt)
  <2>1. last[Key(xt)] = xt
    BY <1>1, <1>3, <1>5, <1>7
  <2> QED
    BY <1>3, <1>4, <1>5, <1>7, <2>1 DEF Lists
<1> QED
  BY <1>3, <1>4, <1>6, <1>7

\* What content and inspect show of a transaction, and so of a map.
LEMMA SummaryShows ==
    ASSUME NEW txn
    PROVE  [to |-> Get("content", txn).to, gas_price |-> Get("content", txn).gas_price]
              = Get("inspect", txn)
BY DEF Get, Summary, Transaction

LEMMA SummarisedShows ==
    ASSUME NEW K, NEW last
    PROVE  Summarised([k \in K |-> Get("content", last[k])])
              = [k \in K |-> Get("inspect", last[k])]
<1> DEFINE map == [k \in K |-> Get("content", last[k])]
<1>1. DOMAIN map = K /\ \A k \in K : map[k] = Get("content", last[k])
  OBVIOUS
<1>2. \A k \in K : [to |-> map[k].to, gas_price |-> map[k].gas_price] = Get("inspect", last[k])
  BY <1>1, SummaryShows
<1> HIDE DEF map
<1>3. Summarised(map) = [k \in K |-> [to |-> map[k].to, gas_price |-> map[k].gas_price]]
  BY <1>1 DEF Summarised
<1>4. Summarised(map) = [k \in K |-> Get("inspect", last[k])]
  BY <1>2, <1>3
<1> QED
  BY <1>4 DEF map

LEMMA InspectShows ==
    ASSUME NEW txns, NEW map \in TransactionMaps(txns, "inspect")
    PROVE  \E other \in TransactionMaps(txns, "content") : map = Summarised(other)
<1>1. PICK last \in [Keys(txns) -> txns] :
              /\ \A key \in Keys(txns) : Key(last[key]) = key
              /\ map = [key \in Keys(txns) |-> Get("inspect", last[key])]
  BY MapShows
<1> DEFINE other == [key \in Keys(txns) |-> Get("content", last[key])]
<1>2. other \in TransactionMaps(txns, "content")
  BY <1>1 DEF TransactionMaps
<1>3. Summarised(other) = [key \in Keys(txns) |-> Get("inspect", last[key])]
  BY SummarisedShows
<1> QED
  BY <1>1, <1>2, <1>3

LEMMA ContentShows ==
    ASSUME NEW txns, NEW map \in TransactionMaps(txns, "content")
    PROVE  Summarised(map) \in TransactionMaps(txns, "inspect")
<1>1. PICK last \in [Keys(txns) -> txns] :
              /\ \A key \in Keys(txns) : Key(last[key]) = key
              /\ map = [key \in Keys(txns) |-> Get("content", last[key])]
  BY MapShows
<1>2. [key \in Keys(txns) |-> Get("inspect", last[key])] \in TransactionMaps(txns, "inspect")
  BY <1>1 DEF TransactionMaps
<1>3. Summarised(map) = [key \in Keys(txns) |-> Get("inspect", last[key])]
  BY <1>1, SummarisedShows
<1> QED
  BY <1>2, <1>3

LEMMA FilterStep ==
    ASSUME IInv, Filter
    PROVE  IInv'
<1> DEFINE rs == EthereumTransactions(call.txs_ready)
           fs == EthereumTransactions(call.txs_future)
<1>1. PICK answer :
          /\ \/ answer = Error
             \/ \E pending \in TransactionMaps(rs, call.method),
                   queued \in TransactionMaps(fs, call.method) : answer = Built(pending, queued)
          /\ call' = [call EXCEPT !.at = "answered", !.answer = answer]
  <2>1. \E answer \in Answers : call' = [call EXCEPT !.at = "answered", !.answer = answer]
    BY DEF Filter
  <2>2. \A answer \in Answers :
           \/ answer = Error
           \/ \E pending \in TransactionMaps(rs, call.method),
                 queued \in TransactionMaps(fs, call.method) : answer = Built(pending, queued)
    BY DEF Answers
  <2> QED
    BY <2>1, <2>2
<1> HIDE DEF rs, fs
<1>2. /\ call.at = "read" /\ call'.at = "answered" /\ call'.answer = answer
      /\ call'.method = call.method /\ call'.txs_ready = call.txs_ready
      /\ call'.txs_future = call.txs_future /\ call'.present = call.present
      /\ call'.promoted = call.promoted /\ call'.demoted = call.demoted /\ CallInv'
  BY <1>1 DEF Filter, IInv, CallInv
<1>3. QueuesInv' /\ BetweenInv' /\ ReadInv'
  BY <1>2 DEF IInv, QueuesInv, BetweenInv, ReadInv, Filter, pool
<1>4. ReadInv
  BY DEF IInv
<1>5. CASE ~answer.ok
  BY <1>2, <1>3, <1>5 DEF IInv, PoolIsListed, InspectIsContent, Answered
<1>6. CASE answer.ok
  <2>1. PICK pending \in TransactionMaps(rs, call.method),
             queued \in TransactionMaps(fs, call.method) : answer = Built(pending, queued)
    BY <1>1, <1>6 DEF Error, Response
  <2>2. answer.pending = pending /\ answer.queued = queued
    BY <2>1 DEF Built, Response
  <2>3. InspectIsContent'
    <3>1. Ethereum(call.txs_ready) = rs /\ Ethereum(call.txs_future) = fs
      BY DEF Ethereum, EthereumTransactions, rs, fs
    <3>2. /\ Contents(call'.txs_ready) = TransactionMaps(rs, "content")
          /\ Contents(call'.txs_future) = TransactionMaps(fs, "content")
          /\ Summaries(call'.txs_ready) = TransactionMaps(rs, "inspect")
          /\ Summaries(call'.txs_future) = TransactionMaps(fs, "inspect")
      BY <1>2, <3>1 DEF Contents, Summaries
    <3>3. ASSUME call.method = "inspect"
          PROVE  /\ \E map \in TransactionMaps(rs, "content") : pending = Summarised(map)
                 /\ \E map \in TransactionMaps(fs, "content") : queued = Summarised(map)
      BY <3>3, InspectShows
    <3>4. ASSUME call.method = "content"
          PROVE  /\ Summarised(pending) \in TransactionMaps(rs, "inspect")
                 /\ Summarised(queued) \in TransactionMaps(fs, "inspect")
      BY <3>4, ContentShows
    <3> QED
      BY <1>2, <2>2, <3>2, <3>3, <3>4 DEF InspectIsContent, Answered
  <2>4. PoolIsListed'
    <3> SUFFICES ASSUME call.method = "content", NEW xt \in call.present, xt.type # "Substrate"
                 PROVE  /\ Lists(pending, xt) \/ Lists(queued, xt) \/ Key(xt) \in DOMAIN queued
                             \/ xt \in call.promoted
                        /\ Lists(pending, xt) /\ Lists(queued, xt) => xt \in call.demoted
                        /\ xt \notin call.promoted \cup call.demoted =>
                              Lists(pending, xt) = (xt \in call.txs_ready)
      BY <1>2, <2>2 DEF PoolIsListed, Answered, Ethereum
    <3>1. /\ xt \in Extrinsics
          /\ call.txs_ready \in SUBSET Extrinsics /\ call.txs_future \in SUBSET Extrinsics
          /\ \A a, b \in call.txs_ready : Key(a) = Key(b) => a = b
          /\ xt \in call.txs_ready \/ xt \in call.txs_future \/ xt \in call.promoted
          /\ xt \in call.txs_ready /\ xt \in call.txs_future => xt \in call.demoted
      BY <1>2, <1>4 DEF ReadInv
    <3>2. Lists(pending, xt) <=> xt \in call.txs_ready
      BY <3>1, MapLists DEF rs
    <3>3. /\ Lists(queued, xt) => xt \in call.txs_future
          /\ xt \in call.txs_future => Key(xt) \in DOMAIN queued
      BY <3>1, MapLists DEF fs
    <3>4. Lists(pending, xt) \in BOOLEAN /\ (xt \in call.txs_ready) \in BOOLEAN
      BY DEF Lists
    <3> QED
      BY <3>1, <3>2, <3>3, <3>4
  <2> QED
    BY <1>2, <1>3, <2>3, <2>4 DEF IInv
<1> QED
  BY <1>5, <1>6

LEMMA StatusStep ==
    ASSUME IInv, Status
    PROVE  IInv'
<1>1. /\ call'.at = "answered" /\ call'.method = "status" /\ CallInv'
  BY DEF IInv, CallInv, Status
<1>2. QueuesInv'
  BY DEF IInv, QueuesInv, Status, pool
<1> QED
  BY <1>1, <1>2 DEF IInv, BetweenInv, ReadInv, PoolIsListed, InspectIsContent, Answered

-----------------------------------------------------------------------------
LEMMA Inductive == IInv /\ [Next]_vars => IInv'
<1> SUFFICES ASSUME IInv, [Next]_vars PROVE IInv'
  OBVIOUS
<1>1. CASE UNCHANGED vars
  BY <1>1 DEF vars, pool, chain, IInv, QueuesInv, CallInv, BetweenInv, ReadInv, PoolIsListed,
              InspectIsContent, Answered
<1>2. CASE Next
  BY <1>2, PoolStep, ReadStep, FilterStep, StatusStep DEF Next
<1> QED
  BY <1>1, <1>2

LEMMA Initial == Init => IInv
<1> SUFFICES ASSUME Init PROVE IInv
  OBVIOUS
<1>1. call.at = "none" /\ CallInv
  BY DEF Init, NoCall, CallInv
<1>2. QueuesInv
  BY DEF Init, QueuesInv
<1> QED
  BY <1>1, <1>2 DEF IInv, BetweenInv, ReadInv, PoolIsListed, InspectIsContent, Answered

\* What txpool_content says of the pool is right as far as two reads of it can be
\* (map_build): for any extrinsics and any number of changes between its reads
\* an Ethereum transaction that stays in the pool is listed in the queue it is
\* in, unless it was promoted, demoted or has a rival in the future queue.
THEOREM ListingCorrect == Spec => []PoolIsListed
<1>1. IInv => PoolIsListed
  BY DEF IInv
<1> QED
  BY <1>1, Initial, Inductive, PTL DEF Spec

\* txpool_inspect shows exactly the keys, recipients and prices that txpool_content
\* shows of the same reads, in both queues and the other way round (Summary::get
\* and Transaction::get), for any transactions.
THEOREM InspectCorrect == Spec => []InspectIsContent
<1>1. IInv => InspectIsContent
  BY DEF IInv
<1> QED
  BY <1>1, Initial, Inductive, PTL DEF Spec
=============================================================================
