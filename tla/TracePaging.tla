---------------------------- MODULE TracePaging ----------------------------
(***************************************************************************)
(* One call of trace_filter seen from its answer: how Trace::filter and    *)
(* fetch_traces (client/rpc/trace/src/lib.rs) select, skip and limit the   *)
(* traces of a range of blocks. The cache is reduced to what get_traces    *)
(* may answer, the traces of the block or an error; TraceCache models it.  *)
(*                                                                         *)
(* The traces of a block are examined one step at a time and are chosen    *)
(* as they are examined, so that a behaviour is a request against any      *)
(* chain. matched is a history variable: the traces of the blocks read so  *)
(* far that satisfy the request's addresses, in the order of the chain.    *)
(***************************************************************************)
EXTENDS Integers, Sequences

CONSTANTS
    Addresses,   \* H160 addresses
    AddressSets, \* the from_address and to_address arguments tried
    Actions,     \* the actions a trace may have
    MaxCount,    \* Trace::max_count (--ethapi-trace-max-count)
    MaxAfter,    \* bound on the request's after, a u32 in the code
    MaxBlocks,   \* bound on the blocks of a request
    MaxTraces    \* bound on the traces of a block

TransactionTraceAction ==
    [type : {"Call"}, from : Addresses, to : Addresses]
      \cup [type : {"Create"}, from : Addresses]
      \cup [type : {"Suicide"}, address : Addresses]

ASSUME AddressAssumption == AddressSets \subseteq SUBSET Addresses
ASSUME ActionsAssumption == Actions \subseteq TransactionTraceAction
ASSUME MaxCountAssumption == MaxCount \in Nat
ASSUME LimitsAssumption == MaxAfter \in Nat /\ MaxBlocks \in Nat /\ MaxTraces \in Nat

VARIABLES
    req,           \* the FilterRequest
    pc,            \* where the call is, or how it ended
    blocks,        \* block hashes still to be read
    read,          \* traces of the current block examined
    block_traces,  \* those that passed the address filter
    traces_amount, \* the i64 counter, negative before "after"
    traces,        \* the answer under construction
    matched        \* history: every matching trace of the blocks read

vars == <<req, pc, blocks, read, block_traces, traces_amount, traces, matched>>

-----------------------------------------------------------------------------
None == -1

\* An absent after is 0 and an absent address list is empty in the code
\* (unwrap_or, unwrap_or_default); an absent count is told apart.
FilterRequest ==
    [after : 0..MaxAfter, count : {None} \cup 0..(MaxCount + 1),
     from_address : AddressSets, to_address : AddressSets]

\* at makes the traces of a chain distinct: the block and the place in it.
TransactionTrace ==
    [at : (0..MaxBlocks) \X (1..MaxTraces), action : Actions]

Ended == {"Ok", "CountErr", "CacheErr", "OverErr"}

TypeOK ==
    /\ req \in FilterRequest
    /\ pc \in {"call", "block", "filtering"} \cup Ended
    /\ blocks \in 0..MaxBlocks
    /\ read \in 0..MaxTraces
    /\ block_traces \in Seq(TransactionTrace)
    /\ traces_amount \in Int
    /\ traces_amount >= -req.after
    /\ traces \in Seq(TransactionTrace)
    /\ matched \in Seq(TransactionTrace)

\* let count = req.count.unwrap_or(self.max_count)
Count == IF req.count = None THEN MaxCount ELSE req.count

Init ==
    /\ req \in FilterRequest
    /\ pc = "call"
    /\ blocks \in 0..MaxBlocks
    /\ read = 0
    /\ block_traces = <<>>
    /\ traces_amount = 0
    /\ traces = <<>>
    /\ matched = <<>>

-----------------------------------------------------------------------------
\* The early return of filter for a count above the maximum.
CountAccepted == Count <= MaxCount

\* Mutant: the offset is one too large.
StartAmountOneLess == -req.after - 1

\* let mut traces_amount: i64 = -(req.after.unwrap_or(0) as i64)
StartAmount == -req.after

\* filter up to the loop of fetch_traces: the limit, then the counter.
Filter ==
    /\ pc = "call"
    /\ IF CountAccepted
       THEN pc' = "block" /\ traces_amount' = StartAmount
       ELSE pc' = "CountErr" /\ UNCHANGED traces_amount
    /\ UNCHANGED <<req, blocks, read, block_traces, traces, matched>>

\* self.requester.get_traces(block_hash).await?
GetTraces ==
    /\ pc = "block"
    /\ blocks > 0
    /\ \/ pc' = "filtering"
       \/ pc' = "CacheErr"
    /\ blocks' = blocks - 1
    /\ read' = 0
    /\ block_traces' = <<>>
    /\ UNCHANGED <<req, traces_amount, traces, matched>>

\* An empty list of addresses selects everything.
Selects(addresses, a) == addresses = {} \/ a \in addresses

\* The closure passed to filter over the traces of the block.
AddressFilter(action) ==
    CASE action.type = "Call" ->
            /\ Selects(req.from_address, action.from)
            /\ Selects(req.to_address, action.to)
      [] action.type = "Create" ->
            Selects(req.from_address, action.from) /\ req.to_address = {}
      [] action.type = "Suicide" ->
            Selects(req.from_address, action.address) /\ req.to_address = {}

\* One trace of the block goes through the filter.
FilterTrace(action) ==
    LET trace == [at |-> <<blocks, read + 1>>, action |-> action] IN
    /\ pc = "filtering"
    /\ read < MaxTraces
    /\ read' = read + 1
    /\ IF AddressFilter(action)
       THEN /\ block_traces' = Append(block_traces, trace)
            /\ matched' = Append(matched, trace)
       ELSE UNCHANGED <<block_traces, matched>>
    /\ UNCHANGED <<req, pc, blocks, traces_amount, traces>>

\* Mutant: one element too many is skipped at the "after" marker.
SkippedOneMore(amount) ==
    LET n == Len(block_traces) IN
    IF amount < n THEN SubSeq(block_traces, n - amount + 2, n) ELSE block_traces

\* A block across the "after" marker loses its first elements.
Skipped(amount) ==
    LET n == Len(block_traces) IN
    IF amount < n THEN SubSeq(block_traces, n - amount + 1, n) ELSE block_traces

\* traces.into_iter().take(count)
Take(s, n) == SubSeq(s, 1, IF n < Len(s) THEN n ELSE Len(s))

\* Mutant: the answer of an unbounded request is trimmed, without an error.
LimitTrims(all, amount) ==
    IF amount < Count
    THEN pc' = "block" /\ traces' = all
    ELSE pc' = "Ok" /\ traces' = Take(all, Count)

\* The limit: an error when it is the default one, otherwise trim and leave.
Limit(all, amount) ==
    \/ /\ amount < Count
       /\ pc' = "block" /\ traces' = all
    \/ /\ amount >= Count /\ req.count = None
       /\ pc' = "OverErr" /\ traces' = all
    \/ /\ amount >= Count /\ req.count # None
       /\ pc' = "Ok" /\ traces' = Take(all, Count)

\* The rest of the loop's body, once the traces of the block are filtered.
AppendBlock ==
    LET amount == traces_amount + Len(block_traces) IN
    /\ pc = "filtering"
    /\ traces_amount' = amount
    /\ IF amount > 0
       THEN Limit(traces \o Skipped(amount), amount)
       ELSE pc' = "block" /\ UNCHANGED traces
    /\ UNCHANGED <<req, blocks, read, block_traces, matched>>

\* Ok(traces), after the last block.
Return ==
    /\ pc = "block"
    /\ blocks = 0
    /\ pc' = "Ok"
    /\ UNCHANGED <<req, blocks, read, block_traces, traces_amount, traces, matched>>

Next ==
    \/ Filter
    \/ GetTraces
    \/ \E action \in Actions : FilterTrace(action)
    \/ AppendBlock
    \/ Return

Spec == Init /\ [][Next]_vars

-----------------------------------------------------------------------------
(***************************************************************************)
(* Properties.                                                             *)
(***************************************************************************)

\* The answer of trace_filter is the window of the matching traces that
\* after and count describe: its elements are consecutive matching traces,
\* the first one follows the "after" skipped ones, none is missing although
\* the loop may have left before the last block, and the node's maximum is
\* kept. Pages requested one after the other therefore neither overlap nor
\* leave a gap (skip, append, trim and break in fetch_traces).
AnswerIsTheWindow ==
    pc = "Ok" =>
        /\ \A k \in 1..Len(traces) : traces[k] = matched[req.after + k]
        /\ Len(traces) <= Count
        /\ Len(traces) < Count =>
              blocks = 0 /\ Len(matched) <= req.after + Len(traces)
        /\ Len(traces) <= MaxCount

\* A request without a count is never answered with a part of its traces:
\* either the whole range has been read and the answer is every matching
\* trace after "after", in the order of the chain, or the call fails (the
\* error of fetch_traces when the default maximum was used, which replaces
\* the trim and break of a request with a count).
UnboundedIsComplete ==
    req.count = None /\ pc = "Ok" =>
        /\ blocks = 0
        /\ Len(matched) <= req.after + Len(traces)
        /\ \A k \in 1..Len(traces) : traces[k] = matched[req.after + k]

\* What the comment and the error text of fetch_traces say of that failure
\* ("If we go over count", "the amount of traces goes over the maximum"): a
\* request without a count fails for its amount only when the matching traces
\* after "after" are more than the maximum. The code compares with >=, so
\* exactly the maximum already fails.
FailsOnlyOverMaximum ==
    req.count = None /\ pc = "OverErr" => Len(matched) > req.after + MaxCount

-----------------------------------------------------------------------------
(***************************************************************************)
(* The inductive invariant behind the properties.                          *)
(***************************************************************************)

\* The traces of the current block are the last ones matched.
Pending == IF pc = "filtering" THEN Len(block_traces) ELSE 0

\* The matched traces that the loop has already put behind itself.
Behind == Len(matched) - Pending

Reading == pc \in {"block", "filtering"}

\* The counter and the answer as functions of the matched traces.
CounterInv ==
    Reading =>
        /\ Count <= MaxCount
        /\ traces_amount = Behind - req.after
        /\ Len(traces) = IF traces_amount > 0 THEN traces_amount ELSE 0
        /\ Len(traces) < Count \/ Len(traces) = 0

PendingInv ==
    pc = "filtering" =>
        \A k \in 1..Len(block_traces) : block_traces[k] = matched[Behind + k]

WindowInv ==
    Reading => \A k \in 1..Len(traces) : traces[k] = matched[req.after + k]

\* Nothing is matched before the loop starts.
CallInv == pc = "call" => matched = <<>> /\ traces = <<>>

PageInv ==
    /\ TypeOK
    /\ CallInv
    /\ CounterInv
    /\ PendingInv
    /\ WindowInv
    /\ AnswerIsTheWindow
    /\ UnboundedIsComplete
=============================================================================
