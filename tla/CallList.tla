------------------------------ MODULE CallList ------------------------------
(***************************************************************************)
(* The CallList listener (client/evm-tracing/src/listeners/call_list.rs).  *)
(* It turns the events of a replayed block into one map of call entries    *)
(* per transaction. One action per event, and finish_transaction, which    *)
(* the callers of the listener run themselves.                             *)
(*                                                                         *)
(* Addresses, values, inputs and outputs are payload and left out; gas is  *)
(* kept, because the listener computes with it.                            *)
(***************************************************************************)
EXTENDS Integers, Sequences

VARIABLES
    version,                       \* "Legacy" until a TransactX event
    transaction_cost,              \* cost of the last RecordTransaction
    entries,                       \* one map from index to entry per transaction
    entries_next_index,
    context_stack,
    call_type,                     \* type of the next call, or "None"
    skip_next_context,
    step_result_entry,             \* <<>> or <<key, entry>>
    call_list_first_transaction,
    record_transaction_event_only

listenerVars ==
    <<version, transaction_cost, entries, entries_next_index, context_stack, call_type,
      skip_next_context, step_result_entry, call_list_first_transaction,
      record_transaction_event_only>>

-----------------------------------------------------------------------------
CallType == {"Call", "CallCode", "DelegateCall", "StaticCall"}
ContextType == CallType \cup {"Create"}

\* Exit reasons, and what an entry reports of them.
ExitReason == {"Succeed", "Error", "Revert", "Fatal"}
CallResult(reason) == IF reason = "Succeed" THEN "Output" ELSE reason

NoGas == -1

Context ==
    [entries_index : Nat, context_type : ContextType, trace_address : Seq(Nat),
     subtraces : Nat, gas : Nat, start_gas : Nat \cup {NoGas}]

Call ==
    [type : ContextType \cup {"SelfDestruct"}, trace_address : Seq(Nat), subtraces : Nat,
     gas_used : Int,
     res : {"Output", "Error", "Revert", "Fatal", "EarlyExit", "Unpaid", "None"}]

ListenerTypeOK ==
    /\ version \in {"Legacy", "EarlyTransact"}
    /\ transaction_cost \in Nat
    /\ \A t \in DOMAIN entries : \A k \in DOMAIN entries[t] : k \in Nat /\ entries[t][k] \in Call
    /\ entries_next_index \in Nat
    /\ context_stack \in Seq(Context)
    /\ call_type \in CallType \cup {"None"}
    /\ skip_next_context \in BOOLEAN
    /\ step_result_entry \in {<<>>} \cup (Nat \X Call)
    /\ call_list_first_transaction \in BOOLEAN
    /\ record_transaction_event_only \in BOOLEAN

ListenerInit ==
    /\ version = "Legacy"
    /\ transaction_cost = 0
    /\ entries = <<>>
    /\ entries_next_index = 0
    /\ context_stack = <<>>
    /\ call_type = "None"
    /\ skip_next_context = FALSE
    /\ step_result_entry = <<>>
    /\ call_list_first_transaction = TRUE
    /\ record_transaction_event_only = FALSE

-----------------------------------------------------------------------------
Top == context_stack[Len(context_stack)]
Popped == SubSeq(context_stack, 1, Len(context_stack) - 1)

\* insert_entry: into the last map, or into a first one.
Inserted(key, entry) ==
    IF entries = <<>>
    THEN <<[k \in {key} |-> entry]>>
    ELSE LET last == entries[Len(entries)]
         IN  [entries EXCEPT ![Len(entries)] =
                [k \in DOMAIN last \cup {key} |-> IF k = key THEN entry ELSE last[k]]]

\* Path of the next child of the innermost context.
ChildAddress ==
    IF context_stack = <<>> THEN <<>> ELSE Append(Top.trace_address, Top.subtraces)

\* Mutant: subtraces is not increased.
ChildNotCounted == context_stack

ChildCounted ==
    IF context_stack = <<>>
    THEN <<>>
    ELSE [context_stack EXCEPT ![Len(context_stack)].subtraces = @ + 1]

NewContext(type, address) ==
    [entries_index |-> entries_next_index, context_type |-> type, trace_address |-> address,
     subtraces |-> 0, gas |-> 0, start_gas |-> NoGas]

\* Gas since the first snapshot, plus the transaction cost for index 0.
GasUsed(context) ==
    (IF context.start_gas = NoGas THEN 0 ELSE context.start_gas) - context.gas
      + (IF context.entries_index = 0 THEN transaction_cost ELSE 0)

EntryOf(context, res) ==
    [type |-> context.context_type, trace_address |-> context.trace_address,
     subtraces |-> context.subtraces, gas_used |-> GasUsed(context), res |-> res]

\* The entry for a transaction that produced no context at all.
UnpaidEntry ==
    [type |-> "Call", trace_address |-> <<>>, subtraces |-> 0, gas_used |-> 0, res |-> "Unpaid"]

-----------------------------------------------------------------------------
(***************************************************************************)
(* gasometer_event                                                         *)
(***************************************************************************)

\* A context with the gas of a snapshot, which it keeps if it is its first one.
Charged(context, gas) ==
    [context EXCEPT !.gas = gas,
                    !.start_gas = IF context.start_gas = NoGas THEN gas ELSE context.start_gas]

\* RecordCost, RecordDynamicCost and RecordStipend with the gas of a snapshot.
RecordCost(gas) ==
    /\ context_stack' =
         IF context_stack = <<>>
         THEN <<>>
         ELSE [context_stack EXCEPT ![Len(context_stack)] = Charged(Top, gas)]
    /\ UNCHANGED <<version, transaction_cost, entries, entries_next_index, call_type,
                   skip_next_context, step_result_entry, call_list_first_transaction,
                   record_transaction_event_only>>

RecordTransaction(cost) ==
    /\ transaction_cost' = cost
    /\ record_transaction_event_only' = TRUE
    /\ UNCHANGED <<version, entries, entries_next_index, context_stack, call_type,
                   skip_next_context, step_result_entry, call_list_first_transaction>>

(***************************************************************************)
(* runtime_event                                                           *)
(***************************************************************************)

\* Mutant: any trapping opcode becomes the type of the next call.
StepResultTrapAny(opcode) ==
    /\ call_type' = opcode
    /\ UNCHANGED <<version, transaction_cost, entries, entries_next_index, context_stack,
                   skip_next_context, step_result_entry, call_list_first_transaction,
                   record_transaction_event_only>>

\* StepResult with a trap; ContextType::from knows only some opcodes.
StepResultTrap(opcode) ==
    /\ call_type' = IF opcode \in CallType THEN opcode ELSE call_type
    /\ UNCHANGED <<version, transaction_cost, entries, entries_next_index, context_stack,
                   skip_next_context, step_result_entry, call_list_first_transaction,
                   record_transaction_event_only>>

\* StepResult with an exit: Legacy inserts the entry, EarlyTransact keeps it
\* for the Exit event.
StepResultExit(reason) ==
    /\ IF context_stack = <<>>
       THEN UNCHANGED <<context_stack, entries, step_result_entry>>
       ELSE LET key == Top.entries_index
                entry == EntryOf(Top, CallResult(reason))
            IN  /\ context_stack' = Popped
                /\ \/ /\ version = "Legacy"
                      /\ entries' = Inserted(key, entry)
                      /\ UNCHANGED step_result_entry
                   \/ /\ version = "EarlyTransact"
                      /\ step_result_entry' = <<key, entry>>
                      /\ UNCHANGED entries
    /\ UNCHANGED <<version, transaction_cost, entries_next_index, call_type, skip_next_context,
                   call_list_first_transaction, record_transaction_event_only>>

(***************************************************************************)
(* evm_event                                                               *)
(***************************************************************************)

\* TransactCall, TransactCreate and TransactCreate2.
Transact(type) ==
    /\ record_transaction_event_only' = FALSE
    /\ version' = "EarlyTransact"
    /\ context_stack' = Append(context_stack, NewContext(type, <<>>))
    /\ entries_next_index' = entries_next_index + 1
    /\ skip_next_context' = TRUE
    /\ UNCHANGED <<transaction_cost, entries, call_type, step_result_entry,
                   call_list_first_transaction>>

\* The context that a Call or Create event opens, unless a TransactX has.
OpenContext(type) ==
    /\ record_transaction_event_only' = FALSE
    /\ \/ /\ ~skip_next_context
          /\ context_stack' = Append(ChildCounted, NewContext(type, ChildAddress))
          /\ entries_next_index' = entries_next_index + 1
          /\ UNCHANGED skip_next_context
       \/ /\ skip_next_context
          /\ skip_next_context' = FALSE
          /\ UNCHANGED <<context_stack, entries_next_index>>
    /\ UNCHANGED <<version, transaction_cost, entries, call_type, step_result_entry,
                   call_list_first_transaction>>

EvmCall(is_static) ==
    OpenContext(IF call_type # "None" THEN call_type
                ELSE IF is_static THEN "StaticCall" ELSE "Call")

EvmCreate == OpenContext("Create")

EvmSuicide ==
    /\ context_stack' = ChildCounted
    /\ entries' = Inserted(entries_next_index,
                     [type |-> "SelfDestruct", trace_address |-> ChildAddress, subtraces |-> 0,
                      gas_used |-> 0, res |-> "None"])
    /\ entries_next_index' = entries_next_index + 1
    /\ UNCHANGED <<version, transaction_cost, call_type, skip_next_context, step_result_entry,
                   call_list_first_transaction, record_transaction_event_only>>

\* Mutant: a context is popped even if StepResult has popped it already.
EvmExitPopsAgain(reason) ==
    /\ record_transaction_event_only' = FALSE
    /\ step_result_entry' = <<>>
    /\ IF context_stack = <<>>
       THEN UNCHANGED <<entries, context_stack>>
       ELSE /\ entries' = Inserted(Top.entries_index, EntryOf(Top, CallResult(reason)))
            /\ context_stack' = Popped
    /\ UNCHANGED <<version, transaction_cost, entries_next_index, call_type, skip_next_context,
                   call_list_first_transaction>>

\* The entry that StepResult made is used first, the context only if it did
\* not make one.
EvmExit(reason) ==
    /\ record_transaction_event_only' = FALSE
    /\ step_result_entry' = <<>>
    /\ \/ /\ step_result_entry # <<>>
          /\ entries' = Inserted(step_result_entry[1], step_result_entry[2])
          /\ UNCHANGED context_stack
       \/ /\ step_result_entry = <<>>
          /\ context_stack # <<>>
          /\ entries' = Inserted(Top.entries_index, EntryOf(Top, CallResult(reason)))
          /\ context_stack' = Popped
       \/ /\ step_result_entry = <<>>
          /\ context_stack = <<>>
          /\ UNCHANGED <<entries, context_stack>>
    /\ UNCHANGED <<version, transaction_cost, entries_next_index, call_type, skip_next_context,
                   call_list_first_transaction>>

PrecompileSubcall ==
    /\ call_type' = "Call"
    /\ UNCHANGED <<version, transaction_cost, entries, entries_next_index, context_stack,
                   skip_next_context, step_result_entry, call_list_first_transaction,
                   record_transaction_event_only>>

(***************************************************************************)
(* finish_transaction and CallListNew                                      *)
(***************************************************************************)

\* Mutant: a transaction that could not pay for its data is forgotten.
FinishedEntriesOfContexts ==
    IF context_stack # <<>>
    THEN Inserted(context_stack[1].entries_index, EntryOf(context_stack[1], "EarlyExit"))
    ELSE entries

\* Mutant: the innermost of the contexts left over becomes the entry.
FinishedEntriesInnermost ==
    IF context_stack # <<>>
    THEN Inserted(Top.entries_index, EntryOf(Top, "EarlyExit"))
    ELSE IF record_transaction_event_only
         THEN Inserted(entries_next_index, UnpaidEntry)
         ELSE entries

\* What finish_transaction leaves in entries and entries_next_index: an entry
\* of the outermost context that is left over, else one for a transaction
\* that only recorded its cost.
FinishedEntries ==
    IF context_stack # <<>>
    THEN Inserted(context_stack[1].entries_index, EntryOf(context_stack[1], "EarlyExit"))
    ELSE IF record_transaction_event_only
         THEN Inserted(entries_next_index, UnpaidEntry)
         ELSE entries

FinishedNextIndex ==
    IF context_stack # <<>> THEN context_stack[1].entries_index + 1
    ELSE IF record_transaction_event_only THEN entries_next_index + 1
    ELSE entries_next_index

FinishTransaction ==
    /\ entries' = FinishedEntries
    /\ entries_next_index' = FinishedNextIndex
    /\ context_stack' = <<>>
    /\ UNCHANGED <<version, transaction_cost, call_type, skip_next_context, step_result_entry,
                   call_list_first_transaction, record_transaction_event_only>>

\* CallListNew finishes the previous transaction, if there is one.
CallListNew ==
    /\ call_list_first_transaction' = FALSE
    /\ \/ /\ call_list_first_transaction
          /\ UNCHANGED <<entries, entries_next_index, context_stack, skip_next_context>>
       \/ /\ ~call_list_first_transaction
          /\ entries' = Append(FinishedEntries, <<>>)
          /\ entries_next_index' = FinishedNextIndex
          /\ context_stack' = <<>>
          /\ skip_next_context' = FALSE
    /\ UNCHANGED <<version, transaction_cost, call_type, step_result_entry,
                   record_transaction_event_only>>
=============================================================================
