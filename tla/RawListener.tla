---------------------------- MODULE RawListener ----------------------------
(***************************************************************************)
(* The Raw listener (client/evm-tracing/src/listeners/raw.rs), which       *)
(* records the opcodes of one transaction for debug_traceTransaction, each *)
(* with its depth, gas and the storage its contract is known to have. One  *)
(* action per event that changes its state.                                *)
(*                                                                         *)
(* Opcode, memory and stack of a step are payload: a step is named by the  *)
(* number the EVM gives it. A return value is named by its frame.          *)
(***************************************************************************)
EXTENDS Integers, Sequences

VARIABLES
    disable_storage, \* a parameter of the request
    new_context,    \* the next Step opens a context
    context_stack,
    step_logs,
    return_value,   \* frame whose return value is stored, or None
    final_gas

listenerVars == <<disable_storage, new_context, context_stack, step_logs, return_value, final_gas>>

-----------------------------------------------------------------------------
None == 0
Empty == [x \in {} |-> None]

\* BTreeMap::append and insert: g takes precedence.
Updated(f, g) ==
    [x \in DOMAIN f \cup DOMAIN g |-> IF x \in DOMAIN g THEN g[x] ELSE f[x]]

Context(address) ==
    [address |-> address, storage_cache |-> Empty, global_storage_changes |-> Empty,
     current_step |-> <<>>]

Step(op, depth) == [op |-> op, depth |-> depth, gas |-> 0]

ListenerInit(without_storage) ==
    /\ disable_storage = without_storage
    /\ new_context = FALSE
    /\ context_stack = <<>>
    /\ step_logs = <<>>
    /\ return_value = None
    /\ final_gas = 0

Depth == Len(context_stack)
Top == context_stack[Depth]

-----------------------------------------------------------------------------
RecordTransaction(cost) ==
    /\ new_context' = TRUE
    /\ final_gas' = cost
    /\ UNCHANGED <<disable_storage, context_stack, step_logs, return_value>>

\* RecordCost and RecordDynamicCost: charged to the step between its Step and
\* its StepResult, otherwise only to the total.
RecordCost(gas) ==
    /\ IF context_stack = <<>>
       THEN UNCHANGED <<context_stack, final_gas>>
       ELSE /\ final_gas' = gas
            /\ context_stack' =
                 IF Top.current_step = <<>>
                 THEN context_stack
                 ELSE [context_stack EXCEPT ![Depth].current_step[1].gas = gas]
    /\ UNCHANGED <<disable_storage, new_context, step_logs, return_value>>

\* Step: opens a context if one is due, and starts the step in the last one.
RuntimeStep(address, op) ==
    LET stack == IF new_context THEN Append(context_stack, Context(address)) ELSE context_stack
        depth == Len(stack)
    IN  /\ new_context' = FALSE
        /\ context_stack' =
             IF stack = <<>>
             THEN <<>>
             ELSE [stack EXCEPT ![depth].current_step = <<Step(op, depth)>>]
        /\ UNCHANGED <<disable_storage, step_logs, return_value, final_gas>>

\* What the log says of a step, with the storage that its context tracks.
RawStepLog(step, storage_cache) ==
    [op |-> step.op, depth |-> step.depth, gas |-> step.gas,
     storage |-> IF disable_storage THEN Empty ELSE storage_cache]

\* The first half of StepResult: the step is completed and logged.
LoggedStep ==
    IF context_stack = <<>> \/ Top.current_step = <<>>
    THEN step_logs
    ELSE Append(step_logs, RawStepLog(Top.current_step[1], Top.storage_cache))

\* Mutant: the step is read but not taken out of its context.
StepNotTaken == context_stack

\* current_step.take()
StepTaken ==
    IF context_stack = <<>>
    THEN <<>>
    ELSE [context_stack EXCEPT ![Depth].current_step = <<>>]

\* StepResult, Ok or a trap; only an opcode that opens a frame matters.
StepResultTrap(opens) ==
    /\ step_logs' = LoggedStep
    /\ context_stack' = StepTaken
    /\ new_context' = (new_context \/ opens)
    /\ UNCHANGED <<disable_storage, return_value, final_gas>>

\* Mutant: the changes of the contracts below are not handed on.
MergedOwn(parent, child) ==
    LET mine == IF parent.address = child.address THEN child.storage_cache ELSE Empty
    IN  [parent EXCEPT !.storage_cache =
           [k \in DOMAIN @ |-> IF k \in DOMAIN mine THEN mine[k] ELSE @[k]]]

\* The parent after a child exited with success: the tracked keys of its own
\* address are updated, the changes of other addresses are remembered.
Merged(parent, child) ==
    LET changes == Updated(child.global_storage_changes,
                           [a \in {child.address} |-> child.storage_cache])
        mine == IF parent.address \in DOMAIN changes THEN changes[parent.address] ELSE Empty
        known == parent.global_storage_changes
        others == DOMAIN changes \ {parent.address}
    IN  [parent EXCEPT
           !.storage_cache = [k \in DOMAIN @ |-> IF k \in DOMAIN mine THEN mine[k] ELSE @[k]],
           !.global_storage_changes =
              [a \in DOMAIN known \cup others |->
                 IF a \in others
                 THEN Updated(IF a \in DOMAIN known THEN known[a] ELSE Empty, changes[a])
                 ELSE known[a]]]

\* The stack after its last context exits.
ExitedStack(success) ==
    LET below == SubSeq(StepTaken, 1, Depth - 1)
    IN  IF ~disable_storage /\ success /\ below # <<>>
        THEN [below EXCEPT ![Depth - 1] = Merged(@, StepTaken[Depth])]
        ELSE below

\* StepResult with an exit; frame stands for the return value.
StepResultExit(success, frame) ==
    /\ step_logs' = LoggedStep
    /\ IF context_stack = <<>>
       THEN UNCHANGED <<context_stack, return_value>>
       ELSE /\ context_stack' = ExitedStack(success)
            /\ return_value' = IF Depth = 1 THEN frame ELSE return_value
    /\ UNCHANGED <<disable_storage, new_context, final_gas>>

\* SLoad and SStore.
StorageAccess(key, value) ==
    /\ context_stack' =
         IF context_stack = <<>> \/ disable_storage
         THEN context_stack
         ELSE [context_stack EXCEPT ![Depth].storage_cache =
                 Updated(@, [k \in {key} |-> value])]
    /\ UNCHANGED <<disable_storage, new_context, step_logs, return_value, final_gas>>
=============================================================================
