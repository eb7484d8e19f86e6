----------------------------- MODULE Formatters -----------------------------
(***************************************************************************)
(* The formatters that turn a CallList listener into an answer             *)
(* (client/evm-tracing/src/formatters): call_tracer nests the entries of a *)
(* transaction, trace_filter lists them with the position of their         *)
(* transaction, blockscout takes the last transaction as it is. They are   *)
(* pure functions of "entries" and run once, after the replay; the         *)
(* properties compare their answers with the EVM's call trees.             *)
(***************************************************************************)
EXTENDS CallListReplay, SequencesExt

\* listener.entries.retain(|x| !x.is_empty())
RetainFilled(maps) == Filled(maps)

\* A BTreeMap is iterated in the order of its keys.
InOrder(map) == [i \in 1..Cardinality(DOMAIN map) |-> map[Nth(DOMAIN map, i)]]

-----------------------------------------------------------------------------
(***************************************************************************)
(* trace_filter.rs                                                         *)
(***************************************************************************)

\* The action of a trace and its output: a result with the gas used, an error,
\* or the bare result of a suicide.
FilterTraceOf(entry, position) ==
    [action |-> CASE entry.type \in CallType -> "Call"
                  [] entry.type = "Create" -> "Create"
                  [] OTHER -> "Suicide",
     output |-> CASE entry.type = "SelfDestruct" -> <<"Result">>
                  [] entry.res = "Output" -> <<"Result", entry.gas_used>>
                  [] OTHER -> <<"Error", entry.res>>,
     subtraces |-> entry.subtraces,
     trace_address |-> entry.trace_address,
     transaction_position |-> position]

\* Mutant: positions are those of all maps, the empty ones included.
TraceFilterFormatUnretained(maps) ==
    FlattenSeq([t \in 1..Len(maps) |->
        LET list == InOrder(maps[t])
        IN  [i \in 1..Len(list) |-> FilterTraceOf(list[i], t - 1)]])

TraceFilterFormat(maps) ==
    LET retained == RetainFilled(maps)
    IN  FlattenSeq([t \in 1..Len(retained) |->
            LET list == InOrder(retained[t])
            IN  [i \in 1..Len(list) |-> FilterTraceOf(list[i], t - 1)]])

\* current_transaction_statuses of the block: pallet_ethereum records the
\* transactions that the runner accepts. A refused one is replayed only because
\* another extrinsic of the block has the same hash.
EthTransactions == {t \in 1..Tx : tree[t] # <<>>}

\* The traces to which cache_block gives the hash of t: eth_transactions.get of
\* their position is t, which has as many transactions before it.
Place(t) == Cardinality({u \in EthTransactions : u < t})
TracesOf(answer, t) == {x \in Range(answer) : x.transaction_position = Place(t)}

\* What cache_block answers with "Bug: A transaction has been replayed while it
\* shouldn't": a position for which eth_transactions has no transaction.
Unplaced(answer) ==
    {x \in Range(answer) : x.transaction_position >= Cardinality(EthTransactions)}

-----------------------------------------------------------------------------
(***************************************************************************)
(* call_tracer.rs                                                          *)
(***************************************************************************)

\* A call of the answer: its trace_address is there until it is nested.
TracerCall(entry) ==
    [type |-> entry.type, res |-> entry.res, gas_used |-> entry.gas_used,
     trace_address |-> entry.trace_address, calls |-> <<>>]

SiblingGreaterThan(a, b) ==
    \E i \in 1..Len(a) : a[i] > b[i] /\ \A j \in 1..(i - 1) : a[j] = b[j]

\* Mutant: the first sibling is sorted before the second.
LessSmallestFirst(x, y) ==
    LET a == x.trace_address
        b == y.trace_address
    IN  Len(b) > Len(a) \/ (Len(a) = Len(b) /\ SiblingGreaterThan(b, a))

\* Ordering::Less: closer to the root, or a greater sibling.
Less(x, y) ==
    LET a == x.trace_address
        b == y.trace_address
    IN  Len(b) > Len(a) \/ (Len(a) = Len(b) /\ SiblingGreaterThan(a, b))

\* result.sort_by, which assumes "no Ordering::Equal": the place of a call is the
\* number of calls that are less than it.
Sorted(calls) ==
    LET all == Range(calls)
    IN  [r \in 1..Len(calls) |-> CHOOSE c \in all : Cardinality({d \in all : Less(d, c)}) = r - 1]

\* One round of the loop: the last call is popped and pushed to the first call
\* that has its parent's path, and dropped if there is none. The slice that takes
\* the parent's path panics for a second outermost call, of which Front is again
\* the empty path; OneRootPerTransaction says that there is none.
PopAndPush(result) ==
    LET last == Last(result)
        rest == Front(result)
        parents == {i \in 1..Len(rest) : rest[i].trace_address = Front(last.trace_address)}
    IN  IF parents = {}
        THEN rest
        ELSE [rest EXCEPT ![Min(parents)].calls = Append(@, [last EXCEPT !.trace_address = <<>>])]

\* The loop until a single call is left, which loses its path too.
Nest(calls) ==
    LET round[n \in 1..Len(calls)] ==
            IF n = 1 THEN Sorted(calls) ELSE PopAndPush(round[n - 1])
    IN  [round[Len(calls)][1] EXCEPT !.trace_address = <<>>]

\* The traces of the answer; an empty sequence stands for None.
CallTracerFormat(maps) ==
    LET retained == RetainFilled(maps)
    IN  [t \in 1..Len(retained) |->
            LET list == InOrder(retained[t])
            IN  Nest([i \in 1..Len(list) |-> TracerCall(list[i])])]

-----------------------------------------------------------------------------
(***************************************************************************)
(* blockscout.rs: the last map, an empty sequence for None                 *)
(***************************************************************************)
BlockscoutFormat(maps) == IF maps = <<>> THEN <<>> ELSE InOrder(Last(maps))

-----------------------------------------------------------------------------
(***************************************************************************)
(* Properties                                                              *)
(***************************************************************************)

Children(nodes, n) ==
    {m \in 1..Len(nodes) : /\ nodes[m].trace_address # <<>>
                           /\ Front(nodes[m].trace_address) = nodes[n].trace_address}

\* The nested form of the EVM's call tree below a node: its children in the
\* order in which they were opened.
TreeBelow(nodes) ==
    LET below[n \in 1..Len(nodes)] ==
            [TracerCall(nodes[n]) EXCEPT !.trace_address = <<>>,
               !.calls = LET made == Children(nodes, n)
                         IN  [i \in 1..Cardinality(made) |-> below[Nth(made, i)]]]
    IN  below[1]

\* The shape of a nested call, without the gas of the outermost one.
Shape(call) == [call EXCEPT !.gas_used = 0]

\* debug_traceTransaction and debug_traceBlock with callTracer: with EvmEvent::Exit
\* the pop-and-push loop of the formatter returns the call tree of every
\* executed transaction, no call lost, none under a wrong parent and siblings in
\* the order of their execution.
NestedIsTheTree ==
    Early /\ stage = "debug" =>
        LET answer == CallTracerFormat(entries)
            trees == RetainFilled(tree)
        IN  /\ Len(answer) = Len(trees)
            /\ \A t \in 1..Len(trees) : Shape(answer[t]) = Shape(TreeBelow(trees[t]))

\* The gas of an outermost call is left out, as in EntriesAreTheTree.
Unpriced(trace) ==
    IF trace.trace_address = <<>> /\ trace.output[1] = "Result"
    THEN [trace EXCEPT !.output = <<"Result">>]
    ELSE trace

\* trace_filter: cache_block finds the transaction of a trace by its position
\* among the transactions of the Ethereum block. For every such transaction that
\* is over, the traces it is given are its own. Where frames end with Exit they
\* are exactly the nodes of its call tree; on an older runtime they have one
\* outermost call, which is the one for an unpaid transaction if and only if it
\* was not paid. No trace is beyond the last transaction ("Bug: A transaction has
\* been replayed while it shouldn't"). Blocks with an invented entry are excepted
\* from that entry on: there the positions of an older runtime are off by one.
PositionsAreTransactions ==
    stage \in Callers =>
        LET answer == TraceFilterFormat(entries)
            Exact(t) == \A u \in 1..t : ~Invented(u)
        IN  /\ \A t \in EthTransactions : Exact(t) =>
                 LET traces == TracesOf(answer, t)
                 IN  IF Early
                     THEN {Unpriced(x) : x \in traces} =
                            {Unpriced(FilterTraceOf(tree[t][k], Place(t))) : k \in 1..Len(tree[t])}
                     ELSE t < Tx \/ stage = "debug" =>
                            \E root \in traces :
                               /\ \A x \in traces : (x = root) <=> (x.trace_address = <<>>)
                               /\ (root.output = <<"Error", "Unpaid">>) <=> (tree[t][1].res = "Unpaid")
            /\ Exact(Tx) => Unplaced(answer) = {}

\* The order of a walk over the tree: a call before the calls it made, and
\* siblings one after the other. At the first difference, a has ended or has the
\* smaller number.
WalkedBefore(a, b) ==
    \E i \in 1..Len(b) :
        /\ i <= Len(a) + 1 /\ \A j \in 1..(i - 1) : a[j] = b[j]
        /\ i <= Len(a) => a[i] < b[i]

\* debug_traceTransaction for Blockscout: the list of a transaction starts with
\* its outermost call and walks the tree, on every runtime, although entries are
\* inserted in the order in which frames end or are given up.
BlockscoutWalksTheTree ==
    stage = "debug" /\ tree[Tx] # <<>> =>
        LET answer == BlockscoutFormat(entries)
        IN  /\ answer # <<>>
            /\ answer[1].trace_address = <<>>
            /\ \A i \in 1..(Len(answer) - 1) :
                  WalkedBefore(answer[i].trace_address, answer[i + 1].trace_address)
=============================================================================
