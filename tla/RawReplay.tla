----------------------------- MODULE RawReplay -----------------------------
(***************************************************************************)
(* The replay of one transaction with a Raw listener attached (debug RPC,  *)
(* trace_transaction). The EVM is external: a machine with a stack of      *)
(* frames and the contracts' storage, which emits the events of each       *)
(* opcode in the order that raw.rs relies on: Step, its gas, its storage   *)
(* access, StepResult. Not every frame behaves so:                         *)
(*  - "NoCode": an account without code has no opcode, and its frame is    *)
(*    one StepResult without a Step;                                       *)
(*  - "Precompile": a precompile, or a call that fails before it starts,   *)
(*    has neither;                                                         *)
(*  - "OutOfGas": an opcode that cannot be paid ends its frame after its   *)
(*    Step, without a StepResult;                                          *)
(*  - "Nested": a third frame is opened at an address where two open ones  *)
(*    run already, by calls or by DELEGATECALL.                            *)
(* odd is a history variable: which of these the transaction has had.      *)
(* executed is a history variable: the opcodes that were completed, each   *)
(* with what a correct log says of it.                                     *)
(***************************************************************************)
EXTENDS RawListener

CONSTANTS
    Addresses,  \* contracts
    Root,       \* the contract the transaction calls
    Scenarios,  \* pairs of disable_storage and the exceptional frames that occur
    Keys,       \* storage keys
    Values,     \* values a contract stores; storage is 0 at first
    MaxOps,     \* bound: opcodes of the transaction, for each scenario
    MaxFrames,  \* bound: frames opened
    MaxOther    \* bound: gas events outside of a step

ASSUME RootAssumption == Root \in Addresses
ASSUME ScenariosAssumption ==
    Scenarios \subseteq BOOLEAN \X SUBSET {"NoCode", "Precompile", "OutOfGas", "Nested"}
ASSUME BoundsAssumption ==
    /\ {MaxFrames, MaxOther} \subseteq Nat
    /\ MaxOps \in [Scenarios -> Nat]
    /\ Values \subseteq Nat

VARIABLES
    scenario, \* the one that is replayed
    odd,      \* the exceptional frames so far
    frames,   \* open frames, outermost first
    storage,  \* storage of every contract
    used,     \* gas used so far
    opened,   \* number of frames opened
    others,   \* gas events outside of a step so far
    stage,    \* of the current opcode, "ready" between two
    ops,      \* number of opcodes begun
    executed  \* history of completed opcodes

evmVars == <<scenario, odd, frames, storage, used, opened, others, stage, ops, executed>>
vars == <<listenerVars, evmVars>>

-----------------------------------------------------------------------------
Init ==
    /\ scenario \in Scenarios
    /\ odd = {}
    /\ ListenerInit(scenario[1])
    /\ frames = <<>>
    /\ storage = [a \in Addresses |-> [k \in Keys |-> 0]]
    /\ used = 0
    /\ opened = 0
    /\ others = 0
    /\ stage = "before"
    /\ ops = 0
    /\ executed = <<>>

Current == frames[Len(frames)]

\* An exceptional frame of the given kind.
Odd(kind) == kind \in scenario[2] /\ odd' = odd \cup {kind}

\* saved is what a revert restores; tracked are the keys the frame accessed.
Frame(address) ==
    [id |-> opened + 1, address |-> address, saved |-> storage, tracked |-> {}]

\* What a correct log says of the opcode that completes.
Completed ==
    Append(executed,
      [op |-> ops, depth |-> Len(frames), gas |-> used,
       storage |-> IF disable_storage THEN Empty
                   ELSE [k \in Current.tracked |-> storage[Current.address][k]]])

CloseFrame(success) ==
    /\ frames' = SubSeq(frames, 1, Len(frames) - 1)
    /\ storage' = IF success THEN storage ELSE Current.saved
    /\ stage' = IF Len(frames) = 1 THEN "closed" ELSE "ready"

-----------------------------------------------------------------------------
(***************************************************************************)
(* trace_transaction applies the extrinsics of the block in order, without *)
(* a listener up to the traced one.                                        *)
(***************************************************************************)

\* An extrinsic that is not the traced transaction: the contracts' storage is
\* what the extrinsics before it left.
ApplyExtrinsic ==
    /\ stage = "before"
    /\ storage' \in [Addresses -> [Keys -> Values \cup {0}]]
    /\ UNCHANGED <<scenario, odd, listenerVars, frames, used, opened, others, stage, ops, executed>>

\* The extrinsics have come to an end: an error.
TransactionNotFound ==
    /\ stage = "before"
    /\ stage' = "not_found"
    /\ UNCHANGED <<scenario, odd, listenerVars, frames, storage, used, opened, others, ops, executed>>

\* The traced transaction: it is paid for, and its first frame, which has code,
\* is opened.
EmitRecordTransaction ==
    /\ stage = "before"
    /\ stage' = "ready"
    /\ RecordTransaction(0)
    /\ frames' = <<Frame(Root)>>
    /\ opened' = 1
    /\ UNCHANGED <<scenario, odd, storage, used, others, ops, executed>>

EmitStep ==
    /\ stage = "ready"
    /\ ops < MaxOps[scenario]
    /\ ops' = ops + 1
    /\ stage' = "stepped"
    /\ RuntimeStep(Current.address, ops + 1)
    /\ UNCHANGED <<scenario, odd, frames, storage, used, opened, others, executed>>

\* The cost of the opcode.
EmitCost ==
    /\ stage = "stepped"
    /\ stage' = "charged"
    /\ used' = used + 1
    /\ RecordCost(used + 1)
    /\ UNCHANGED <<scenario, odd, frames, storage, opened, others, ops, executed>>

\* A cost that belongs to no opcode, such as that of deployed code.
EmitOtherCost ==
    /\ stage = "ready"
    /\ others < MaxOther
    /\ others' = others + 1
    /\ used' = used + 1
    /\ RecordCost(used + 1)
    /\ UNCHANGED <<scenario, odd, frames, storage, opened, stage, ops, executed>>

\* The opcode cannot be paid: its frame ends without a StepResult.
OutOfGas ==
    /\ Odd("OutOfGas")
    /\ stage = "stepped"
    /\ CloseFrame(FALSE)
    /\ UNCHANGED <<scenario, listenerVars, used, opened, others, ops, executed>>

\* SLOAD or SSTORE: the access, completed by EmitResult.
EmitStorage ==
    /\ stage = "charged"
    /\ \E key \in Keys :
        \E value \in Values \cup {storage[Current.address][key]} :
          /\ storage' = [storage EXCEPT ![Current.address][key] = value]
          /\ frames' = [frames EXCEPT ![Len(frames)].tracked = @ \cup {key}]
          /\ StorageAccess(key, value)
    /\ stage' = "accessed"
    /\ UNCHANGED <<scenario, odd, used, opened, others, ops, executed>>

\* The opcode completes and the frame goes on.
EmitResult ==
    /\ stage \in {"charged", "accessed"}
    /\ stage' = "ready"
    /\ StepResultTrap(FALSE)
    /\ executed' = Completed
    /\ UNCHANGED <<scenario, odd, frames, storage, used, opened, others, ops>>

\* The opcode opens a frame.
EmitTrap ==
    /\ stage = "charged"
    /\ opened < MaxFrames
    /\ stage' = "trapped"
    /\ StepResultTrap(TRUE)
    /\ executed' = Completed
    /\ UNCHANGED <<scenario, odd, frames, storage, used, opened, others, ops>>

\* Two open frames run at address a.
RunsTwice(a) ==
    \E i, j \in 1..Len(frames) : i # j /\ frames[i].address = a /\ frames[j].address = a

EnterFrame ==
    /\ stage = "trapped"
    /\ stage' = "ready"
    /\ \E a \in Addresses :
          /\ IF RunsTwice(a) THEN Odd("Nested") ELSE UNCHANGED odd
          /\ frames' = Append(frames, Frame(a))
    /\ opened' = opened + 1
    /\ UNCHANGED <<scenario, listenerVars, storage, used, others, ops, executed>>

EnterNoCode ==
    /\ Odd("NoCode")
    /\ stage = "trapped"
    /\ stage' = "ready"
    /\ opened' = opened + 1
    /\ StepResultExit(TRUE, opened + 1)
    /\ UNCHANGED <<scenario, frames, storage, used, others, ops, executed>>

EnterPrecompile ==
    /\ Odd("Precompile")
    /\ stage = "trapped"
    /\ stage' = "ready"
    /\ opened' = opened + 1
    /\ UNCHANGED <<scenario, listenerVars, frames, storage, used, others, ops, executed>>

\* STOP, RETURN or REVERT: the opcode completes and its frame ends.
EmitExit ==
    /\ stage = "charged"
    /\ executed' = Completed
    /\ \E success \in BOOLEAN :
          /\ StepResultExit(success, Current.id)
          /\ CloseFrame(success)
    /\ UNCHANGED <<scenario, odd, used, opened, others, ops>>

Next ==
    \/ ApplyExtrinsic \/ TransactionNotFound \/ EmitRecordTransaction
    \/ EmitStep \/ EmitCost \/ EmitOtherCost \/ OutOfGas
    \/ EmitStorage \/ EmitResult \/ EmitTrap \/ EnterFrame \/ EnterNoCode
    \/ EnterPrecompile \/ EmitExit

Spec == Init /\ [][Next]_vars

-----------------------------------------------------------------------------
(***************************************************************************)
(* Properties                                                              *)
(***************************************************************************)

\* The log is the execution, as long as every frame sends its events and no
\* contract runs in three open frames: every completed opcode in order, with
\* the depth of its frame, its gas, and for each key its frame has accessed the
\* value the contract's storage really holds, after all calls, delegate calls
\* and reverts below. The return value at the end is that of the transaction's
\* frame, however deep its contract was entered again.
LogIsTheExecution ==
    /\ odd = {} => step_logs = executed
    /\ stage = "closed" /\ odd \subseteq {"Nested"} => return_value = 1

\* Even when frames end without the events the listener waits for, no
\* completed opcode is missing from the log, none appears twice or out of
\* order, and each has the gas of its own step.
EveryOpcodeLogged ==
    /\ Len(step_logs) = Len(executed)
    /\ \A i \in 1..Len(executed) : /\ step_logs[i].op = executed[i].op
                                   /\ step_logs[i].gas = executed[i].gas

\* The comment on a context's exit: "If the context exited without revert we
\* must keep track of the updated storage keys."
TrackedStorageIsCurrent ==
    \A i \in 1..Len(step_logs) : \A k \in DOMAIN step_logs[i].storage :
        step_logs[i].storage[k] = executed[i].storage[k]
=============================================================================
