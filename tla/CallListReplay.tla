--------------------------- MODULE CallListReplay ---------------------------
(***************************************************************************)
(* The replay of a block (DebugRuntimeApi::trace_block of the runtime)     *)
(* with a CallList listener attached. The EVM is external: it is modelled  *)
(* as a machine that opens and closes frames and emits the events that the *)
(* listener's comments and tests describe, each handled before the EVM     *)
(* goes on. It records the call tree of every transaction in "tree",       *)
(* which is what the listener has to reconstruct.                          *)
(*                                                                         *)
(* Two kinds of runtime are replayed:                                      *)
(*  - "early": TransactX comes first and every frame ends with Exit, after *)
(*    a StepResult or without one;                                         *)
(*  - "legacy": an older runtime with neither event. A frame that ends     *)
(*    without StepResult (out of gas, precompile) ends silently.           *)
(* A transaction that the EVM's runner refuses emits nothing in either.    *)
(***************************************************************************)
EXTENDS CallList, FiniteSets

CONSTANTS
    Runtimes,     \* kinds of runtime, see above
    Opcodes,      \* opcodes that trap: call types and "Create"
    Reasons,      \* exit reasons considered
    TxCost,       \* cost in the RecordTransaction event
    MaxNodes,     \* bounds for each kind of runtime: the transactions of the block
                  \* and the nodes of the call tree of each of them
    MaxCosts,     \* bound: gas events of a frame, for each kind of runtime
    Callers       \* who replays: "debug" runs finish_transaction, "trace" does not

ASSUME CallersAssumption == Runtimes \subseteq {"early", "legacy"} /\ Callers \subseteq {"debug", "trace"}
ASSUME OpcodesAssumption == Opcodes \subseteq ContextType
ASSUME ReasonsAssumption == Reasons \subseteq ExitReason
ASSUME BoundsAssumption ==
    /\ TxCost \in Nat
    /\ MaxNodes \in [Runtimes -> Seq(Nat)]
    /\ MaxCosts \in [Runtimes -> Nat]

VARIABLES
    runtime,  \* the kind of the replayed runtime
    stage,    \* of the current transaction, "idle" between two, or the caller
              \* that took the listener after the replay
    frames,   \* open frames of the EVM, outermost first
    trap,     \* opcode of the frame about to be opened, or "none"
    tree      \* for every transaction the nodes of its call tree

evmVars == <<runtime, stage, frames, trap, tree>>
vars == <<listenerVars, evmVars>>

-----------------------------------------------------------------------------
Frame ==
    [node : Nat, phase : {"new", "running", "suicided", "stopped"}, reason : ExitReason,
     costs : Nat]

TypeOK ==
    /\ ListenerTypeOK
    /\ runtime \in Runtimes
    /\ stage \in {"idle", "begun", "transact", "paid", "running"} \cup Callers
    /\ frames \in Seq(Frame)
    /\ trap \in ContextType \cup {"none"}
    /\ tree \in Seq(Seq(Call \cup [type : ContextType, trace_address : Seq(Nat),
                                   subtraces : Nat, gas_used : Int, res : {"open"}]))

Init ==
    /\ ListenerInit
    /\ runtime \in Runtimes
    /\ stage = "idle"
    /\ frames = <<>>
    /\ trap = "none"
    /\ tree = <<>>

-----------------------------------------------------------------------------
(***************************************************************************)
(* The call tree                                                           *)
(***************************************************************************)
Early == runtime = "early"
Tx == Len(tree)
Nodes == tree[Tx]
Current == frames[Len(frames)]
CurrentNode == Nodes[Current.node]

\* The nodes after a new one is added below the current frame.
Grown(type, res) ==
    IF frames = <<>>
    THEN Append(Nodes, [type |-> type, trace_address |-> <<>>, subtraces |-> 0,
                        gas_used |-> 0, res |-> res])
    ELSE Append([Nodes EXCEPT ![Current.node].subtraces = @ + 1],
                [type |-> type,
                 trace_address |-> Append(CurrentNode.trace_address, CurrentNode.subtraces),
                 subtraces |-> 0, gas_used |-> 0, res |-> res])

OpenFrame(type) ==
    /\ Len(Nodes) < MaxNodes[runtime][Tx]
    /\ tree' = [tree EXCEPT ![Tx] = Grown(type, "open")]
    /\ frames' = Append(frames, [node |-> Len(Nodes) + 1, phase |-> "new",
                                 reason |-> "Succeed", costs |-> 0])

CloseFrame(reason) ==
    /\ tree' = [tree EXCEPT ![Tx][Current.node] =
         [@ EXCEPT !.res = CallResult(reason),
                   !.gas_used = (IF Current.costs = 0 THEN 0 ELSE Current.costs - 1)
                                  + (IF Current.node = 1 THEN TxCost ELSE 0)]]
    /\ frames' = SubSeq(frames, 1, Len(frames) - 1)
    /\ stage' = IF Len(frames) = 1 THEN "idle" ELSE stage

SetCurrent(frame) == frames' = [frames EXCEPT ![Len(frames)] = frame]

-----------------------------------------------------------------------------
(***************************************************************************)
(* trace_block: EvmTracer::emit_new(), then the transaction.               *)
(***************************************************************************)
EmitNew ==
    /\ stage = "idle"
    /\ Tx < Len(MaxNodes[runtime])
    /\ CallListNew
    /\ tree' = Append(tree, <<>>)
    /\ stage' = "begun"
    /\ UNCHANGED <<runtime, frames, trap>>

EmitTransact ==
    /\ Early
    /\ stage = "begun"
    /\ stage' = "transact"
    /\ \E type \in {"Call", "Create"} : Transact(type) /\ OpenFrame(type)
    /\ UNCHANGED <<runtime, trap>>

EmitRecordTransaction ==
    /\ stage = IF Early THEN "transact" ELSE "begun"
    /\ stage' = "paid"
    /\ RecordTransaction(TxCost)
    /\ UNCHANGED <<runtime, frames, trap, tree>>

\* The gas limit does not cover the transaction's own cost. An older runtime
\* says no more about it; the node stands for what is known.
Unpaid ==
    /\ stage = "paid"
    /\ IF Early
       THEN EvmExit("Error") /\ CloseFrame("Error")
       ELSE /\ UNCHANGED <<listenerVars, frames>>
            /\ stage' = "idle"
            /\ tree' = [tree EXCEPT ![Tx] = <<UnpaidEntry>>]
    /\ UNCHANGED <<runtime, trap>>

\* The runner refuses the transaction (InvalidNonce, ...): no event at all.
Refused ==
    /\ stage = "begun"
    /\ stage' = "idle"
    /\ UNCHANGED <<listenerVars, runtime, frames, trap, tree>>

\* The outermost Call or Create.
EmitRoot ==
    /\ stage = "paid"
    /\ stage' = "running"
    /\ \E type \in {"Call", "Create"} :
          /\ IF Early
             THEN type = CurrentNode.type /\ UNCHANGED <<frames, tree>>
             ELSE OpenFrame(type)
          /\ IF type = "Call" THEN EvmCall(FALSE) ELSE EvmCreate
    /\ UNCHANGED <<runtime, trap>>

-----------------------------------------------------------------------------
(***************************************************************************)
(* The frame that is executing.                                            *)
(***************************************************************************)
Executing == stage = "running" /\ trap = "none" /\ Current.phase \in {"new", "running"}

\* Gas left in the current frame; an inner frame has less than an outer one.
Snapshot == (MaxNodes[runtime][Tx] - Len(frames) + 1) * MaxCosts[runtime] - Current.costs

EmitRecordCost ==
    /\ Executing
    /\ Current.costs < MaxCosts[runtime]
    /\ RecordCost(Snapshot)
    /\ SetCurrent([Current EXCEPT !.costs = @ + 1])
    /\ UNCHANGED <<runtime, stage, trap, tree>>

\* An opcode of the frame's code traps to open another frame.
EmitTrap ==
    /\ Executing
    /\ \E opcode \in Opcodes : StepResultTrap(opcode) /\ trap' = opcode
    /\ SetCurrent([Current EXCEPT !.phase = "running"])
    /\ UNCHANGED <<runtime, stage, tree>>

\* A precompile, which executes no opcode, makes a call.
EmitPrecompileSubcall ==
    /\ Executing
    /\ Current.phase = "new"
    /\ PrecompileSubcall
    /\ trap' = "Call"
    /\ UNCHANGED <<runtime, stage, frames, tree>>

EmitSubframe ==
    /\ stage = "running"
    /\ trap # "none"
    /\ trap' = "none"
    /\ OpenFrame(trap)
    /\ IF trap = "Create" THEN EvmCreate ELSE EvmCall(trap = "StaticCall")
    /\ UNCHANGED <<runtime, stage>>

EmitSuicide ==
    /\ Executing
    /\ Len(Nodes) < MaxNodes[runtime][Tx]
    /\ EvmSuicide
    /\ tree' = [tree EXCEPT ![Tx] = Grown("SelfDestruct", "None")]
    /\ SetCurrent([Current EXCEPT !.phase = "suicided"])
    /\ UNCHANGED <<runtime, stage, trap>>

\* The frame's code stops with a StepResult; SELFDESTRUCT stops with success.
EmitStepResultExit ==
    /\ stage = "running"
    /\ trap = "none"
    /\ Current.phase # "stopped"
    /\ \E reason \in Reasons :
          /\ Current.phase = "suicided" => reason = "Succeed"
          /\ StepResultExit(reason)
          /\ SetCurrent([Current EXCEPT !.phase = "stopped", !.reason = reason])
    /\ UNCHANGED <<runtime, stage, trap, tree>>

\* The frame ends: after its StepResult, or early with any reason.
EndFrame ==
    /\ stage = "running"
    /\ trap = "none"
    /\ Current.phase # "suicided"
    /\ \E reason \in Reasons :
          /\ Current.phase = "stopped" => reason = Current.reason
          /\ IF Early THEN EvmExit(reason) ELSE UNCHANGED listenerVars
          /\ CloseFrame(reason)
    /\ UNCHANGED <<runtime, trap>>

\* The replay is over and the listener goes to a formatter: the debug handler
\* finishes the last transaction first, the trace cache does not.
EndReplay ==
    /\ stage = "idle"
    /\ Tx > 0
    /\ stage' \in Callers
    /\ IF stage' = "debug" THEN FinishTransaction ELSE UNCHANGED listenerVars
    /\ UNCHANGED <<runtime, frames, trap, tree>>

Next ==
    \/ EmitNew \/ EmitTransact \/ EmitRecordTransaction \/ Unpaid \/ Refused \/ EmitRoot
    \/ EmitRecordCost \/ EmitTrap \/ EmitPrecompileSubcall \/ EmitSubframe
    \/ EmitSuicide \/ EmitStepResultExit \/ EndFrame \/ EndReplay

Spec == Init /\ [][Next]_vars

-----------------------------------------------------------------------------
(***************************************************************************)
(* Properties                                                              *)
(***************************************************************************)

\* Maps and call trees without the empty ones, which the formatters drop: the
\* i-th of the others has i - 1 before it.
Kept(maps) == {t \in DOMAIN maps : DOMAIN maps[t] # {}}
Nth(set, i) == CHOOSE t \in set : Cardinality({u \in set : u < t}) = i - 1
Filled(maps) == [i \in 1..Cardinality(Kept(maps)) |-> maps[Nth(Kept(maps), i)]]

\* An entry without the cost of its transaction.
Untaxed(entry) == [entry EXCEPT !.gas_used = IF entry.trace_address = <<>> THEN 0 ELSE @]

\* With EvmEvent::Exit, what is left of the listener's maps is the call trees
\* of the transactions that were executed: one entry per frame in the order of
\* opening, with its path, number of children, type, result and gas, however
\* frames end (early, by SELFDESTRUCT, unpaid) and whatever the transactions
\* before it did, refused ones included.
EntriesAreTheTree ==
    Early /\ stage \in {"idle"} \cup Callers =>
        LET maps == Filled(entries)
            trees == Filled(tree)
        IN  /\ Len(maps) = Len(trees)
            /\ \A t \in 1..Len(trees) :
                 \E base \in 0..entries_next_index :
                    /\ DOMAIN maps[t] = base .. base + Len(trees[t]) - 1
                    /\ \A k \in 1..Len(trees[t]) :
                          Untaxed(maps[t][base + k - 1]) = Untaxed(trees[t][k])

\* The flag for unpaid transactions outlives the one it was set for: older
\* runtimes get an entry for a refused transaction that follows an unpaid one.
Invented(t) ==
    /\ ~Early
    /\ tree[t] = <<>>
    /\ \E u \in 1..(t - 1) : tree[u] = <<UnpaidEntry>> /\ \A v \in (u + 1)..t : tree[v] = <<>>

\* The transactions that are over and have something to show.
Finished ==
    {t \in 1..Tx : /\ t < Tx \/ stage = "debug"
                   /\ tree[t] # <<>> \/ Invented(t)}

\* Whatever the runtime's version, each transaction has exactly one entry for
\* its outermost call, and they come in the order of the transactions: what
\* finish_transaction promises with "insert the pending entries regardless of
\* which runtime version is used".
OneRootPerTransaction ==
    LET maps == Filled(entries)
    IN  /\ Len(maps) >= Cardinality(Finished)
        /\ stage = "debug" => Len(maps) = Cardinality(Finished)
        /\ \A i \in 1..Cardinality(Finished) :
             \E k \in DOMAIN maps[i] :
                \A j \in DOMAIN maps[i] : (j = k) <=> (maps[i][j].trace_address = <<>>)

\* No two entries of a transaction have the same path, so that the formatters
\* can rebuild a tree, even when contexts of silently ended frames linger.
PathsAreUnique ==
    \A t \in DOMAIN entries : \A j, k \in DOMAIN entries[t] :
        entries[t][j].trace_address = entries[t][k].trace_address => j = k

\* The doc of finish_transaction, "Called at the end of each transaction when
\* tracing", for every caller of the listener: the last transaction is finished
\* as well, so it has a root entry when the formatter sees it.
LastTransactionHasRoot ==
    stage \in Callers /\ tree[Tx] # <<>> =>
        /\ entries # <<>>
        /\ \E k \in DOMAIN entries[Len(entries)] : entries[Len(entries)][k].trace_address = <<>>
=============================================================================
