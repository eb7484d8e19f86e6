------------------------- MODULE CallListInvariants -------------------------
(***************************************************************************)
(* The inductive invariants that CallListProofs proves of CallList under   *)
(* CallListReplay, and the notions in which its lemmas and those about the *)
(* Formatters are stated. Nothing here is part of the model of the code.   *)
(***************************************************************************)
EXTENDS Formatters

-----------------------------------------------------------------------------
\* The invariant.

\* The EVM: when frames are open, and that they stand for nodes of the tree.
StagesInv ==
    /\ stage \in {"idle", "begun"} \cup Callers \/ (stage = "paid" /\ ~Early) => frames = <<>>
    /\ stage = "transact" => Early
    /\ stage \in {"transact", "running"} \/ (stage = "paid" /\ Early) => frames # <<>>
    /\ stage \in {"transact", "paid"} => Len(frames) <= 1
    /\ stage # "idle" => Tx > 0
    /\ Tx <= Len(MaxNodes[runtime])

FramesInv ==
    frames # <<>> =>
        /\ Len(frames) <= Len(Nodes) /\ Len(Nodes) <= MaxNodes[runtime][Tx]
        /\ \A i \in 1..Len(frames) : frames[i].node \in 1..Len(Nodes)

\* The map that insert_entry adds to.
LastMap == IF entries = <<>> THEN <<>> ELSE entries[Len(entries)]
PathsOf(map) == {map[k].trace_address : k \in DOMAIN map}
Unique(map) ==
    \A j, k \in DOMAIN map : map[j].trace_address = map[k].trace_address => j = k

\* The stack of contexts is one branch of the tree, whose next children have
\* numbers that no path has yet.
Chain(stack) ==
    /\ \A i \in 1..Len(stack) : Len(stack[i].trace_address) = i - 1
    /\ \A i, j \in 1..Len(stack) : i < j => stack[j].trace_address[i] < stack[i].subtraces

Below(path, above) ==
    Len(path) > Len(above) /\ \A l \in 1..Len(above) : path[l] = above[l]

Fresh(paths, stack) ==
    \A path \in paths : \A i \in 1..Len(stack) :
        /\ path # stack[i].trace_address
        /\ Below(path, stack[i].trace_address) => path[i] < stack[i].subtraces

StepPath == IF step_result_entry = <<>> THEN {} ELSE {step_result_entry[2].trace_address}

PathsInv ==
    /\ \A t \in 1..Len(entries) : Unique(entries[t])
    /\ Chain(context_stack) /\ Fresh(PathsOf(LastMap) \cup StepPath, context_stack)
    /\ StepPath \cap PathsOf(LastMap) = {}

\* Nothing is known of the transaction yet.
Blank == context_stack = <<>> /\ DOMAIN LastMap = {}

\* The entry of a StepResult waits for the Exit of its frame, and the flag for
\* unpaid transactions is set while there is no entry.
PendingInv ==
    /\ step_result_entry # <<>> =>
          stage = "running" /\ trap = "none" /\ Current.phase = "stopped"
    /\ stage = "begun" \/ (stage = "paid" /\ ~Early) => Blank
    /\ stage = "idle" /\ record_transaction_event_only => Blank
    /\ stage = "running" => ~record_transaction_event_only
    /\ trap # "none" => stage = "running" /\ Current.phase \in {"new", "running"}
    /\ call_list_first_transaction => stage = "idle" /\ Tx = 0 /\ Blank

\* Only the innermost frame can have stopped, and every other open frame has its
\* context: after a silent end there are more contexts than frames, never fewer.
DepthInv ==
    /\ \A i \in 1..(Len(frames) - 1) : frames[i].phase # "stopped"
    /\ stage \in {"transact", "paid"} => \A i \in 1..Len(frames) : frames[i].phase = "new"
    /\ stage \in {"transact", "paid"} /\ Early => context_stack # <<>>
    /\ stage = "running" =>
          /\ Len(frames) <= Len(context_stack) + 1
          /\ Current.phase # "stopped" => Len(frames) <= Len(context_stack)
          /\ ~skip_next_context
    /\ stage = "running" /\ Early /\ Current.phase = "stopped" => step_result_entry # <<>>
    /\ stage \in {"transact", "paid", "running"} /\ Early => version = "EarlyTransact"
    /\ ~Early => version = "Legacy" /\ step_result_entry = <<>> /\ ~skip_next_context

\* entries is a sequence. Its maps have any keys, so that Seq of a set would
\* say no more.
MapsInv == Len(entries) \in Nat /\ entries = [t \in 1..Len(entries) |-> entries[t]]

ListenerInv == ListenerTypeOK /\ MapsInv /\ PathsInv
ReplayInv == StagesInv /\ FramesInv /\ DepthInv /\ PendingInv
IInv == TypeOK /\ ListenerInv /\ ReplayInv

-----------------------------------------------------------------------------
\* Paths.

\* The innermost context counts a child.
Counted(stack, counted) ==
    /\ counted \in Seq(Context) /\ Len(counted) = Len(stack)
    /\ \A i \in 1..Len(stack) : i # Len(stack) => counted[i] = stack[i]
    /\ counted[Len(stack)].trace_address = stack[Len(stack)].trace_address
    /\ counted[Len(stack)].subtraces = stack[Len(stack)].subtraces + 1

ChildOf(stack) == Append(stack[Len(stack)].trace_address, stack[Len(stack)].subtraces)

-----------------------------------------------------------------------------
\* insert_entry.

IsMaps(maps) == Len(maps) \in Nat /\ maps = [t \in 1..Len(maps) |-> maps[t]]
Typed(map) == \A k \in DOMAIN map : k \in Nat /\ map[k] \in Call
LastOf(maps) == IF maps = <<>> THEN <<>> ELSE maps[Len(maps)]

\* A map with one more entry, or another one for its key.
With(map, key, entry) ==
    [k \in DOMAIN map \cup {key} |-> IF k = key THEN entry ELSE map[k]]

\* What holds of the maps.
MapsAre(maps) ==
    /\ IsMaps(maps) /\ \A t \in 1..Len(maps) : Typed(maps[t]) /\ Unique(maps[t])

-----------------------------------------------------------------------------
\* The handlers of the listener.

Used == PathsOf(LastOf(entries)) \cup StepPath

\* What the handlers keep, in the terms of the lemmas above.
FlagsOK ==
    /\ version \in {"Legacy", "EarlyTransact"} /\ transaction_cost \in Nat
    /\ entries_next_index \in Nat
    /\ call_type \in CallType \cup {"None"}
    /\ skip_next_context \in BOOLEAN /\ call_list_first_transaction \in BOOLEAN
    /\ record_transaction_event_only \in BOOLEAN

StackOK == context_stack \in Seq(Context) /\ Chain(context_stack) /\ Fresh(Used, context_stack)

StepOK ==
    /\ step_result_entry \in {<<>>} \cup (Nat \X Call)
    /\ StepPath \cap PathsOf(LastOf(entries)) = {}

-----------------------------------------------------------------------------
\* Frames and call trees.

OpenNode == [type : ContextType, trace_address : Seq(Nat), subtraces : Nat, gas_used : Int, res : {"open"}]
Node == Call \cup OpenNode

FramesOK == frames \in Seq(Frame)
TreeOK == tree \in Seq(Seq(Node))

-----------------------------------------------------------------------------
\* The steps of the replay.

Stage == {"idle", "begun", "transact", "paid", "running"} \cup Callers

-----------------------------------------------------------------------------
\* The roots: a second invariant, on top of the first.

\* The map of transaction t is the one at t - (Tx - Len(maps)): a first transaction
\* without entries leaves no map. Those that are over have a root or nothing.
Shown(t) == tree[t] # <<>> \/ Invented(t)
HasRoot(map) == <<>> \in PathsOf(map)

\* The entry of an unpaid transaction is that of one that was not executed.
Executed(nodes) == nodes # <<>> /\ nodes[1].res # "Unpaid"
Marked(map, nodes) ==
    \A k \in DOMAIN map : IF Executed(nodes) THEN map[k].res # "Unpaid" ELSE map[k] = UnpaidEntry
RootOf(map, nodes) == HasRoot(map) /\ Marked(map, nodes)

RootsUpTo(maps, last) ==
    \A t \in 1..last :
        IF Shown(t)
        THEN t > Tx - Len(maps) /\ RootOf(maps[t - (Tx - Len(maps))], tree[t])
        ELSE t > Tx - Len(maps) => DOMAIN maps[t - (Tx - Len(maps))] = {}

OneMapEach(maps) == Len(maps) <= Tx /\ Tx <= Len(maps) + 1

\* The last transaction that is over.
Done == IF stage = "debug" THEN Tx ELSE Tx - 1
DoneKept == {k \in Kept(entries) : k + (Tx - Len(entries)) <= Done}

RootsInv ==
    /\ OneMapEach(entries)
    /\ Tx = 0 => call_list_first_transaction
    /\ RootsUpTo(entries, IF stage = "debug" THEN Tx ELSE Tx - 1)

\* The root of a transaction that is not over is there or will come from the stack or
\* from the pending entry. Then nothing is inserted any more that could replace it.
RootKnown ==
    /\ context_stack # <<>> \/ <<>> \in PathsOf(LastMap) \cup StepPath
    /\ context_stack = <<>> /\ step_result_entry # <<>> => <<>> \in StepPath

CurrentInv ==
    /\ stage = "begun" \/ (stage = "paid" /\ ~Early) => Nodes = <<>>
    /\ stage \in {"transact", "running"} \/ (stage = "paid" /\ Early) => Executed(Nodes) /\ RootKnown
    /\ stage = "idle" /\ Tx > 0 =>
          IF Nodes = <<>> THEN Blank
          ELSE (RootKnown /\ Executed(Nodes)) \/ record_transaction_event_only

\* The flag stays until the next transaction that is executed.
UnpaidBefore ==
    /\ ~Early
    /\ \E u \in 1..Tx : tree[u] = <<UnpaidEntry>> /\ \A v \in (u + 1)..Tx : tree[v] = <<>>

FlagInv ==
    /\ stage = "paid" => record_transaction_event_only
    /\ stage \in {"idle", "begun"} => (record_transaction_event_only <=> UnpaidBefore)

RootIInv == RootsInv /\ CurrentInv /\ FlagInv

\* What is known of a transaction that is not finished was executed.
Unmarked ==
    /\ stage # "debug" => \A k \in DOMAIN LastMap : LastMap[k].res # "Unpaid"
    /\ step_result_entry # <<>> => step_result_entry[2].res # "Unpaid"

\* How entries change while a transaction is executed.
Inserts == entries' = entries \/ \E key, entry : entries' = Inserted(key, entry)

-----------------------------------------------------------------------------
\* The call trees of a runtime that emits Exit: a third invariant.

\* An entry says of a call what its node does, but for the cost of a root.
Same(entry, node) ==
    /\ entry.type = node.type /\ entry.trace_address = node.trace_address
    /\ entry.subtraces = node.subtraces /\ entry.res = node.res
    /\ entry.trace_address # <<>> => entry.gas_used = node.gas_used

\* A map holds the nodes from key base on, but for the open ones.
MapIs(map, nodes, open, base) ==
    /\ \A key \in Nat : key \in DOMAIN map <=> key - base + 1 \in (1..Len(nodes)) \ open
    /\ \A k \in (1..Len(nodes)) \ open : Same(map[base + k - 1], nodes[k])

\* A context describes the node of its frame, and has counted its costs from the
\* first snapshot on.
Link(context, frame, node, base, first) ==
    /\ context.entries_index = base + frame.node - 1
    /\ context.context_type = node.type /\ context.trace_address = node.trace_address
    /\ context.subtraces = node.subtraces
    /\ IF frame.costs = 0
       THEN context.start_gas = NoGas /\ context.gas = 0
       ELSE context.start_gas = first /\ context.gas = first - (frame.costs - 1)

\* The first snapshot in a frame.
First(nodes, costs, depth) == (nodes - depth + 1) * costs

\* Contexts are those of the outermost frames, which were opened in that order.
Linked(stack, open, nodes, base, max, costs) ==
    /\ Len(stack) <= Len(open)
    /\ \A i, j \in 1..Len(open) : i < j => open[i].node < open[j].node
    /\ \A i \in 1..Len(stack) :
          Link(stack[i], open[i], nodes[open[i].node], base, First(max, costs, i))

Base == entries_next_index - Len(Nodes)
NodesOf(open) == {open[i].node : i \in 1..Len(open)}
Stopped == frames # <<>> /\ Current.phase = "stopped"

\* The gas that a frame has used, without the cost of the transaction.
UsedBy(frame) == IF frame.costs = 0 THEN 0 ELSE frame.costs - 1

\* The entry of a frame that has ended with a result.
EntryFor(entry, frame, node, res) ==
    /\ entry.type = node.type /\ entry.trace_address = node.trace_address
    /\ entry.subtraces = node.subtraces /\ entry.res = res
    /\ frame.node # 1 => entry.gas_used = UsedBy(frame)

LinksInv ==
    /\ Linked(context_stack, frames, Nodes, Base, MaxNodes[runtime][Tx], MaxCosts[runtime])
    /\ Len(context_stack) = Len(frames) - (IF Stopped THEN 1 ELSE 0)
    /\ Stopped =>
          /\ step_result_entry # <<>>
          /\ step_result_entry[1] = Base + Current.node - 1
          /\ EntryFor(step_result_entry[2], Current, CurrentNode, CallResult(Current.reason))

NodesInv ==
    /\ Base >= 0
    /\ Nodes # <<>> => Nodes[1].trace_address = <<>>
    /\ MapIs(LastMap, Nodes, NodesOf(frames), Base)

\* The type of the call to come, and the context that TransactX has opened.
TypeInv ==
    /\ trap \in CallType => call_type = trap
    /\ stage \in {"transact", "paid"} => skip_next_context

\* The maps of the transactions before.
Matches(map, nodes, bound) ==
    \E base \in 0..bound :
        /\ DOMAIN map = base..(base + Len(nodes) - 1)
        /\ \A k \in 1..Len(nodes) : Same(map[base + k - 1], nodes[k])

TreesUpTo(maps, last, bound) ==
    \A t \in 1..last :
        IF t > Tx - Len(maps)
        THEN Matches(maps[t - (Tx - Len(maps))], tree[t], bound)
        ELSE tree[t] = <<>>

TreeIInv ==
    Early /\ Tx > 0 =>
        LinksInv /\ NodesInv /\ TypeInv /\ TreesUpTo(entries, Tx - 1, entries_next_index)

\* What a new node and a closed one do to the tree.
GrewTo(new, nodes, d, type, res) ==
    /\ Len(new) = Len(nodes) + 1
    /\ \A i \in 1..Len(nodes) : i # d => new[i] = nodes[i]
    /\ new[d].type = nodes[d].type /\ new[d].trace_address = nodes[d].trace_address
    /\ new[d].subtraces = nodes[d].subtraces + 1
    /\ new[Len(nodes) + 1] =
         [type |-> type, trace_address |-> Append(nodes[d].trace_address, nodes[d].subtraces),
          subtraces |-> 0, gas_used |-> 0, res |-> res]

ClosedTo(new, nodes, d, res, used) ==
    /\ Len(new) = Len(nodes)
    /\ \A i \in 1..Len(nodes) : i # d => new[i] = nodes[i]
    /\ new[d].type = nodes[d].type /\ new[d].trace_address = nodes[d].trace_address
    /\ new[d].subtraces = nodes[d].subtraces
    /\ new[d].res = res /\ new[d].gas_used = used

-----------------------------------------------------------------------------
\* Contexts and the nodes of their frames.

Described(node, before) ==
    /\ node.type = before.type /\ node.trace_address = before.trace_address
    /\ node.subtraces = before.subtraces

\* A child is all that the innermost context counts.
CountedOnly(stack, counted) ==
    /\ counted[Len(stack)].entries_index = stack[Len(stack)].entries_index
    /\ counted[Len(stack)].context_type = stack[Len(stack)].context_type
    /\ counted[Len(stack)].gas = stack[Len(stack)].gas
    /\ counted[Len(stack)].start_gas = stack[Len(stack)].start_gas

\* What Charged makes of a context.
ChargedTo(new, context, gas) ==
    /\ new.entries_index = context.entries_index /\ new.context_type = context.context_type
    /\ new.trace_address = context.trace_address /\ new.subtraces = context.subtraces
    /\ new.gas = gas
    /\ new.start_gas = IF context.start_gas = NoGas THEN gas ELSE context.start_gas

\* The frames and contexts that stay, when their nodes say the same as before.
Remain(stack2, open2, nodes2, stack, open, nodes) ==
    /\ Len(stack) \in Nat /\ Len(open) \in Nat /\ Len(stack2) \in Nat /\ Len(open2) \in Nat
    /\ Len(stack2) <= Len(stack) /\ Len(open2) <= Len(open) /\ Len(stack2) <= Len(open2)
    /\ \A i \in 1..Len(stack2) :
          /\ stack2[i] = stack[i] /\ open2[i].costs = open[i].costs
          /\ Described(nodes2[open[i].node], nodes[open[i].node])
    /\ \A i \in 1..Len(open2) : open2[i].node = open[i].node

\* A frame and its context are opened.
OneLonger(new, old, last) ==
    /\ Len(old) \in Nat /\ Len(new) = Len(old) + 1 /\ new[Len(old) + 1] = last
    /\ \A i \in 1..Len(old) : new[i] = old[i]

\* The cost of an opcode is charged to the last context and counted in the last frame.
Charges(stack, stack2, open, open2, n, c, gas) ==
    /\ n \in Nat /\ n > 0 /\ Len(stack) = n /\ Len(open) = n
    /\ Len(stack2) = n /\ (\A i \in 1..n : i # n => stack2[i] = stack[i])
    /\ Len(open2) = n /\ (\A i \in 1..n : i # n => open2[i] = open[i])
    /\ c \in Nat /\ c = open[n].costs /\ gas \in Nat
    /\ ChargedTo(stack2[n], stack[n], gas)
    /\ open2[n].node = open[n].node /\ open2[n].costs = c + 1

-----------------------------------------------------------------------------
\* The third invariant, action by action.

TreeNow == LinksInv /\ NodesInv /\ TypeInv /\ TreesUpTo(entries, Tx - 1, entries_next_index)

\* The innermost frame is replaced by one of the same node.
CurrentBecomes(open2, f) ==
    /\ Len(open2) = Len(frames) /\ open2[Len(frames)] = f
    /\ \A i \in 1..Len(frames) : i # Len(frames) => open2[i] = frames[i]
    /\ \A i \in 1..Len(frames) : open2[i].node = frames[i].node

-----------------------------------------------------------------------------
\* What is kept of the maps and of the trees.

\* L, in 1..x, is K, in 1..n, moved by the offset o.
Shifted(K, L, o, n, x) ==
    /\ n \in Nat /\ x \in Nat /\ o \in Nat /\ K \in SUBSET (1..n) /\ L \in SUBSET (1..x)
    /\ L = {k + o : k \in K} /\ Cardinality(L) = Cardinality(K)

-----------------------------------------------------------------------------
\* Formatters: the order of a walk.

\* A path with one more number.
Longer(q, b, l, n) ==
    /\ q \in Seq(Nat) /\ l \in Nat /\ l = Len(b) /\ Len(q) = l + 1
    /\ (\A j \in 1..l : q[j] = b[j] /\ b[j] \in Nat) /\ q[l + 1] = n

-----------------------------------------------------------------------------
\* Keys are given in the order of a walk.

\* The keys and paths of a transaction: in its map, waiting for an Exit, and on
\* the stack.
PairsOf(map) == {<<k, map[k].trace_address>> : k \in DOMAIN map}
PendingPairs ==
    IF step_result_entry = <<>> THEN {}
    ELSE {<<step_result_entry[1], step_result_entry[2].trace_address>>}
StackPairs(stack) == {<<stack[i].entries_index, stack[i].trace_address>> : i \in 1..Len(stack)}
Known == PairsOf(LastOf(entries)) \cup PendingPairs \cup StackPairs(context_stack)

Walks(pairs) == \A x, y \in pairs : x[1] < y[1] => WalkedBefore(x[2], y[2])

\* The next child of any context that is left comes after all that is known.
NextChild(context) == Append(context.trace_address, context.subtraces)
Ahead(pairs, stack) ==
    \A x \in pairs : \A i \in 1..Len(stack) : WalkedBefore(x[2], NextChild(stack[i]))

Under(pairs, next) == \A x \in pairs : x[1] < next

\* finish_transaction sets the index back, when no key follows in that map.
WalkInv ==
    /\ Walks(Known) /\ Ahead(Known, context_stack)
    /\ stage \notin Callers => Under(Known, entries_next_index)

Paired(pairs) == \A x \in pairs : x[1] \in Nat /\ x[2] \in Seq(Nat)

-----------------------------------------------------------------------------
\* The walk and the handlers.

WalkNow == Walks(Known) /\ Ahead(Known, context_stack) /\ Under(Known, entries_next_index)

-----------------------------------------------------------------------------
\* Ranks in a strict order.

Strict(R, S) ==
    /\ \A a \in S : <<a, a>> \notin R
    /\ \A a, b \in S : a = b \/ <<a, b>> \in R \/ <<b, a>> \in R
    /\ \A a, b, c \in S : <<a, b>> \in R /\ <<b, c>> \in R => <<a, c>> \in R

Earlier(R, S, c) == {d \in S : <<d, c>> \in R}

\* Every rank is that of one element.
Ranked(R, S, r) ==
    \E c \in S : /\ Cardinality(Earlier(R, S, c)) = r - 1
                 /\ \A d \in S : Cardinality(Earlier(R, S, d)) = r - 1 => d = c

\* Numbers, by size.
Sizes(K) == {p \in K \X K : p[1] < p[2]}

-----------------------------------------------------------------------------
\* The maps are finite.

Finite(maps) == \A t \in 1..Len(maps) : IsFiniteSet(DOMAIN maps[t])

-----------------------------------------------------------------------------
\* Flattening.

Elements(s) == {s[i] : i \in 1..Len(s)}

\* The first n rounds of FlattenSeq.
FlatRounds(seqs, f, n) ==
    f = [i \in 1..n |-> IF i = 1 THEN seqs[i] ELSE f[i - 1] \o seqs[i]]

-----------------------------------------------------------------------------
\* trace_filter.

\* The maps that the formatter retains.
RetainedOK(maps) ==
    /\ Len(maps) \in Nat /\ DOMAIN maps = 1..Len(maps)
    /\ \A t \in 1..Len(maps) : Typed(maps[t]) /\ IsFiniteSet(DOMAIN maps[t])

FilterParts(retained) ==
    [t \in 1..Len(retained) |->
        LET list == InOrder(retained[t])
        IN  [i \in 1..Len(list) |-> FilterTraceOf(list[i], t - 1)]]

FilteredFrom(part, map, position) ==
    /\ Len(part) \in Nat /\ DOMAIN part = 1..Len(part)
    /\ \A x : x \in Elements(part) <=> \E k \in DOMAIN map : x = FilterTraceOf(map[k], position)

\* The traces of the maps that are retained, those of one map, and the maps with the
\* offset o up to a transaction.
Shows(answer, retained) ==
    \A x : x \in Range(answer)
            <=> \E i \in 1..Len(retained) : \E k \in DOMAIN retained[i] :
                   x = FilterTraceOf(retained[i][k], i - 1)
HasTraces(traces, map, position) ==
    \A x : x \in traces <=> \E k \in DOMAIN map : x = FilterTraceOf(map[k], position)
FilledUpTo(t, o) ==
    \A u \in 1..t : u \in EthTransactions <=> u > o /\ DOMAIN entries[u - o] # {}

\* The last map of a block whose last transaction is not finished is that of a
\* transaction that was executed.
TakenInv == stage \in Callers /\ stage # "debug" /\ Nodes = <<>> => Blank

-----------------------------------------------------------------------------
\* Call trees.

\* Every node but the first is a child with a number, par and num, of a node before
\* it, paths are unique and the children of a node have increasing numbers.
Branching(nodes, par, num) ==
    /\ Len(nodes) > 0 => nodes[1].trace_address = <<>>
    /\ \A m \in 1..Len(nodes) : m # 1 =>
          /\ par[m] \in 1..(m - 1) /\ num[m] \in Nat
          /\ nodes[m].trace_address = Append(nodes[par[m]].trace_address, num[m])
          /\ num[m] < nodes[par[m]].subtraces
    /\ \A j, m \in 1..Len(nodes) : nodes[j].trace_address = nodes[m].trace_address => j = m
    /\ \A j, m \in 1..Len(nodes) : j # 1 /\ j < m /\ par[j] = par[m] => num[j] < num[m]

Branched(nodes) == \E par, num : Branching(nodes, par, num)
BranchesInv == Early => \A t \in 1..Tx : Branched(tree[t])

-----------------------------------------------------------------------------
\* The order of the sort.

PathLess(a, b) == Len(b) > Len(a) \/ (Len(a) = Len(b) /\ SiblingGreaterThan(a, b))

\* The calls of a transaction, and the place of each of them in the sorted list.
CallsOK(calls) ==
    /\ Len(calls) \in Nat /\ DOMAIN calls = 1..Len(calls)
    /\ \A m \in 1..Len(calls) : calls[m].trace_address \in Seq(Nat)
    /\ \A j, m \in 1..Len(calls) : calls[j].trace_address = calls[m].trace_address => j = m

Placed(calls, sorted, pos) ==
    /\ Len(sorted) = Len(calls) /\ sorted = [r \in 1..Len(calls) |-> sorted[r]]
    /\ \A m \in 1..Len(calls) : pos[m] \in 1..Len(calls) /\ sorted[pos[m]] = calls[m]
    /\ \A r \in 1..Len(calls) : \E m \in 1..Len(calls) : pos[m] = r
    /\ \A j, m \in 1..Len(calls) : pos[j] = pos[m] => j = m
    /\ \A j, m \in 1..Len(calls) :
          PathLess(calls[j].trace_address, calls[m].trace_address) => pos[j] < pos[m]

-----------------------------------------------------------------------------
\* The rounds of the loop, and the calls below a node.

NestRounds(calls, f, n) ==
    f = [i \in 1..n |-> IF i = 1 THEN Sorted(calls) ELSE PopAndPush(f[i - 1])]

\* The nested calls f of the nodes of a set, in their order, and those below a node.
Listing(f, K) == [i \in 1..Cardinality(K) |-> f[Nth(K, i)]]
BelowOf(nodes, f, n) ==
    [TracerCall(nodes[n]) EXCEPT !.trace_address = <<>>, !.calls = Listing(f, Children(nodes, n))]

\* The children of a node come after it.
Ordered(nodes) ==
    /\ Len(nodes) \in Nat
    /\ \A n \in 1..Len(nodes) : Children(nodes, n) \in SUBSET ((n + 1)..Len(nodes))

BelowFrom(nodes, f, k) == f = [n \in k..Len(nodes) |-> BelowOf(nodes, f, n)]

-----------------------------------------------------------------------------
\* The loop of the call tracer.

Rooted(nodes, par, num) ==
    /\ Branching(nodes, par, num) /\ Len(nodes) \in Nat
    /\ \A m \in 1..Len(nodes) : nodes[m].trace_address \in Seq(Nat)

\* The last call of the list is put under its parent: the places of the calls.
PlaceOK(nodes, par, pos) ==
    /\ \A m \in 1..Len(nodes) : pos[m] \in 1..Len(nodes)
    /\ \A r \in 1..Len(nodes) : \E m \in 1..Len(nodes) : pos[m] = r
    /\ \A j, m \in 1..Len(nodes) : pos[j] = pos[m] => j = m
    /\ pos[1] = 1
    /\ \A m \in 1..Len(nodes) : m # 1 => pos[par[m]] < pos[m]
    /\ \A j, m \in 1..Len(nodes) : j # 1 /\ m # 1 /\ par[j] = par[m] /\ j < m => pos[m] < pos[j]

\* A call of the answer with its fields, and the calls of the nodes before the
\* loop, the gas of the outermost one apart.
CallWith(type, res, gas_used, trace_address, calls) ==
    [type |-> type, res |-> res, gas_used |-> gas_used, trace_address |-> trace_address,
     calls |-> calls]

CallsOf(calls, nodes, gas) ==
    /\ Len(calls) = Len(nodes) /\ DOMAIN calls = 1..Len(nodes)
    /\ \A m \in 1..Len(nodes) :
          /\ calls[m] = CallWith(nodes[m].type, nodes[m].res, gas[m], nodes[m].trace_address, <<>>)
          /\ m # 1 => gas[m] = nodes[m].gas_used

\* The list of the loop when L calls are left: the calls that were put under a
\* node are its children with a place after L.
Late(nodes, pos, m, L) == {c \in Children(nodes, m) : pos[c] > L}

Round(nodes, gas, pos, B, seq, L) ==
    /\ Len(seq) = L /\ seq = [r \in 1..L |-> seq[r]]
    /\ \A m \in 1..Len(nodes) : pos[m] \in 1..L =>
          seq[pos[m]] = CallWith(nodes[m].type, nodes[m].res, gas[m], nodes[m].trace_address,
                                 Listing(B, Late(nodes, pos, m, L)))

GasOf(nodes, gas) == \A m \in 1..Len(nodes) : m # 1 => gas[m] = nodes[m].gas_used
BelowAll(nodes, B) == \A n \in 1..Len(nodes) : B[n] = BelowOf(nodes, B, n)

\* What one round does to the calls put under the nodes: m is put under its parent.
LateGrows(nodes, par, pos, L, m) ==
    /\ m # 1 /\ par[m] \in 1..Len(nodes) /\ pos[par[m]] \in 1..(L - 1)
    /\ Late(nodes, pos, par[m], L - 1) = Late(nodes, pos, par[m], L) \cup {m}
    /\ \A c \in Late(nodes, pos, par[m], L) : c < m
    /\ \A j \in 1..Len(nodes) : j # par[m] =>
          Late(nodes, pos, j, L - 1) = Late(nodes, pos, j, L)

Looping(nodes, par, num, gas, pos, B) ==
    /\ Rooted(nodes, par, num) /\ GasOf(nodes, gas) /\ PlaceOK(nodes, par, pos)
    /\ BelowAll(nodes, B)

=============================================================================
