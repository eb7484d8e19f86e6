-------------------------- MODULE RawReplayProofs --------------------------
(***************************************************************************)
(* Proofs about the Raw listener under the EVM of RawReplay, for any       *)
(* contracts, storage, number of frames and opcodes.                       *)
(***************************************************************************)
EXTENDS RawReplay, SequenceTheorems, TLAPS

USE RootAssumption, ScenariosAssumption, BoundsAssumption

-----------------------------------------------------------------------------
(***************************************************************************)
(* Types                                                                   *)
(***************************************************************************)
Val == Values \cup {0}
Cache == UNION {[ks -> Val] : ks \in SUBSET Keys}
Changes == UNION {[as -> Cache] : as \in SUBSET Addresses}
StepType == [op : Nat, depth : Nat, gas : Nat]
LogType == [op : Nat, depth : Nat, gas : Nat, storage : Cache]
StorageType == [Addresses -> [Keys -> Val]]

ContextType ==
    [address : Addresses, storage_cache : Cache, global_storage_changes : Changes,
     current_step : Seq(StepType)]

FrameType == [id : Nat, address : Addresses, saved : StorageType, tracked : SUBSET Keys]

InStep == stage \in {"stepped", "charged", "accessed"}
Stages == {"before", "not_found", "ready", "stepped", "charged", "accessed", "trapped", "closed"}

TypeOK ==
    /\ disable_storage \in BOOLEAN
    /\ new_context \in BOOLEAN
    /\ context_stack \in Seq(ContextType)
    /\ step_logs \in Seq(LogType)
    /\ return_value \in Nat
    /\ final_gas \in Nat
    /\ scenario \in Scenarios
    /\ odd \subseteq {"NoCode", "Precompile", "OutOfGas", "Nested"}
    /\ frames \in Seq(FrameType)
    /\ storage \in StorageType
    /\ used \in Nat
    /\ opened \in Nat
    /\ others \in Nat
    /\ stage \in Stages
    /\ ops \in Nat
    /\ executed \in Seq(LogType)

\* Frames are open from the first event of the transaction to its end.
FramesInv ==
    /\ stage = "before" => frames = <<>> /\ opened = 0 /\ context_stack = <<>> /\ odd = {}
    /\ stage \notin {"before", "not_found", "closed"} => Len(frames) >= 1
    /\ frames # <<>> => frames[1].id = 1

(***************************************************************************)
(* The listener has a context for the opcode that runs, whatever events    *)
(* are missing: contexts that were opened in vain or not closed only add   *)
(* to the stack, and a context that was closed too early is opened again.  *)
(***************************************************************************)
DepthInv ==
    /\ stage = "ready" => Len(context_stack) + (IF new_context THEN 1 ELSE 0) >= Len(frames)
    /\ stage = "trapped" =>
          /\ new_context
          /\ Len(context_stack) >= Len(frames)
          /\ Top.current_step = <<>>
    /\ InStep =>
          /\ ~new_context
          /\ Len(context_stack) >= Len(frames)
          /\ Len(Top.current_step) = 1
          /\ Top.current_step[1].op = ops
          /\ Top.current_step[1].depth = Len(context_stack)
          /\ stage # "stepped" => Top.current_step[1].gas = used

\* Without missing events there is a context for each frame.
ExactInv ==
    odd \subseteq {"Nested"} =>
        /\ stage = "ready" => Len(context_stack) + (IF new_context THEN 1 ELSE 0) = Len(frames)
        /\ stage = "trapped" \/ InStep => Len(context_stack) = Len(frames)
        /\ stage = "closed" => return_value = 1

(***************************************************************************)
(* The storage that frame i sees, or will see if what it called reverts,   *)
(* and what the listener knows of it.                                      *)
(***************************************************************************)
Seen(i) == IF i = Len(frames) THEN storage ELSE frames[i + 1].saved
Address(i) == frames[i].address

CacheOf(i) == IF i <= Len(context_stack) THEN context_stack[i].storage_cache ELSE Empty
ChangesOf(i) ==
    IF i <= Len(context_stack) THEN context_stack[i].global_storage_changes ELSE Empty

\* The value that the changes g, made since the storage was old, give key k of a.
Effective(g, old, a, k) ==
    IF a \in DOMAIN g THEN IF k \in DOMAIN g[a] THEN g[a][k] ELSE old[a][k] ELSE old[a][k]

AtMostTwice ==
    \A i, j, l \in 1..Len(frames) :
        Address(i) = Address(j) /\ Address(j) = Address(l) => i = j \/ j = l \/ i = l

\* The cache of a frame holds the current values of the keys it tracks.
CacheInv(i) ==
    /\ i <= Len(context_stack) => context_stack[i].address = Address(i)
    /\ DOMAIN CacheOf(i) = frames[i].tracked
    /\ \A k \in frames[i].tracked : CacheOf(i)[k] = Seen(i)[Address(i)][k]

\* The changes below frame i matter to the frames above it only.
ChangesInv(i) ==
    /\ \A a \in DOMAIN ChangesOf(i) :
         /\ a # Address(i)
         /\ \A j, l \in 1..i : Address(j) = a /\ Address(l) = a => j = l
    /\ \A j \in 1..(i - 1) : \A k \in Keys :
         IF Address(j) = Address(i)
         THEN k \notin frames[i].tracked =>
                Seen(i)[Address(j)][k] = frames[i].saved[Address(j)][k]
         ELSE Seen(i)[Address(j)][k] =
                Effective(ChangesOf(i), frames[i].saved, Address(j), k)

StorageInv ==
    odd = {} /\ ~disable_storage /\ stage \notin {"before", "not_found", "closed"} =>
        /\ AtMostTwice
        /\ \A i \in 1..Len(frames) : CacheInv(i) /\ ChangesInv(i)

-----------------------------------------------------------------------------
(***************************************************************************)
(* The values that the listener and the EVM write are well-typed.          *)
(***************************************************************************)
LEMMA EmptyType == Empty \in Cache /\ Empty \in Changes /\ DOMAIN Empty = {}
<1>1. Empty \in [{} -> Val] /\ Empty \in [{} -> Cache] /\ DOMAIN Empty = {}
  BY DEF Empty
<1>2. {} \in SUBSET Keys /\ {} \in SUBSET Addresses
  OBVIOUS
<1> QED
  BY <1>1, <1>2 DEF Cache, Changes

LEMMA CacheType ==
    ASSUME NEW f
    PROVE  f \in Cache <=> f \in [DOMAIN f -> Val] /\ DOMAIN f \subseteq Keys
BY DEF Cache

LEMMA ChangesType ==
    ASSUME NEW g
    PROVE  g \in Changes <=> g \in [DOMAIN g -> Cache] /\ DOMAIN g \subseteq Addresses
BY DEF Changes

LEMMA UpdatedIs ==
    ASSUME NEW f, NEW g
    PROVE  /\ DOMAIN Updated(f, g) = DOMAIN f \cup DOMAIN g
           /\ \A x \in DOMAIN g : Updated(f, g)[x] = g[x]
           /\ \A x \in DOMAIN f \ DOMAIN g : Updated(f, g)[x] = f[x]
BY DEF Updated

LEMMA UpdatedAt ==
    ASSUME NEW f, NEW g, NEW k
    PROVE  /\ k \in DOMAIN Updated(f, g) <=> k \in DOMAIN f \/ k \in DOMAIN g
           /\ k \in DOMAIN g => Updated(f, g)[k] = g[k]
           /\ k \in DOMAIN f /\ k \notin DOMAIN g => Updated(f, g)[k] = f[k]
BY DEF Updated

LEMMA UpdatedType ==
    ASSUME NEW f \in Cache, NEW g \in Cache
    PROVE  Updated(f, g) \in Cache
<1>1. /\ f \in [DOMAIN f -> Val] /\ DOMAIN f \subseteq Keys
      /\ g \in [DOMAIN g -> Val] /\ DOMAIN g \subseteq Keys
  BY CacheType
<1>2. Updated(f, g) \in [DOMAIN f \cup DOMAIN g -> Val]
  BY <1>1 DEF Updated
<1>3. DOMAIN f \cup DOMAIN g \in SUBSET Keys
  BY <1>1
<1> QED
  BY <1>2, <1>3 DEF Cache

LEMMA StepIs ==
    ASSUME NEW op \in Nat, NEW depth \in Nat
    PROVE  /\ Step(op, depth) \in StepType
           /\ Step(op, depth).op = op
           /\ Step(op, depth).depth = depth
           /\ Step(op, depth).gas = 0
BY DEF Step, StepType

LEMMA ContextIs ==
    ASSUME NEW a \in Addresses
    PROVE  /\ Context(a) \in ContextType
           /\ Context(a).address = a
           /\ Context(a).storage_cache = Empty
           /\ Context(a).global_storage_changes = Empty
           /\ Context(a).current_step = <<>>
BY EmptyType DEF Context, ContextType

LEMMA ContextFields ==
    ASSUME NEW c \in ContextType
    PROVE  /\ c.address \in Addresses
           /\ c.storage_cache \in Cache
           /\ c.global_storage_changes \in Changes
           /\ c.current_step \in Seq(StepType)
BY DEF ContextType

LEMMA StepUpdate ==
    ASSUME NEW c \in ContextType, NEW s \in Seq(StepType)
    PROVE  /\ [c EXCEPT !.current_step = s] \in ContextType
           /\ [c EXCEPT !.current_step = s].address = c.address
           /\ [c EXCEPT !.current_step = s].storage_cache = c.storage_cache
           /\ [c EXCEPT !.current_step = s].global_storage_changes = c.global_storage_changes
           /\ [c EXCEPT !.current_step = s].current_step = s
BY DEF ContextType

LEMMA CacheUpdate ==
    ASSUME NEW c \in ContextType, NEW f \in Cache
    PROVE  /\ [c EXCEPT !.storage_cache = f] \in ContextType
           /\ [c EXCEPT !.storage_cache = f].address = c.address
           /\ [c EXCEPT !.storage_cache = f].storage_cache = f
           /\ [c EXCEPT !.storage_cache = f].global_storage_changes = c.global_storage_changes
           /\ [c EXCEPT !.storage_cache = f].current_step = c.current_step
BY DEF ContextType

\* The contexts, apart from the current step of the last one.
SameContexts ==
    /\ Len(context_stack') = Len(context_stack)
    /\ \A i \in 1..Len(context_stack) :
         /\ context_stack'[i].address = context_stack[i].address
         /\ context_stack'[i].storage_cache = context_stack[i].storage_cache
         /\ context_stack'[i].global_storage_changes = context_stack[i].global_storage_changes

LEMMA GasUpdate ==
    ASSUME NEW s \in Seq(StepType), s # <<>>, NEW g \in Nat
    PROVE  /\ [s EXCEPT ![1].gas = g] \in Seq(StepType)
           /\ Len([s EXCEPT ![1].gas = g]) = Len(s)
           /\ [s EXCEPT ![1].gas = g][1].op = s[1].op
           /\ [s EXCEPT ![1].gas = g][1].depth = s[1].depth
           /\ [s EXCEPT ![1].gas = g][1].gas = g
<1>1. 1 \in 1..Len(s) /\ s[1] \in StepType
  OBVIOUS
<1> DEFINE e == [s[1] EXCEPT !.gas = g]
<1>2. e \in StepType /\ e.op = s[1].op /\ e.depth = s[1].depth /\ e.gas = g
  BY <1>1 DEF StepType
<1>3. [s EXCEPT ![1].gas = g] = [s EXCEPT ![1] = e]
  OBVIOUS
<1> HIDE DEF e
<1> QED
  BY <1>1, <1>2, <1>3

LEMMA CostEffect ==
    ASSUME TypeOK, NEW g \in Nat, RecordCost(g)
    PROVE  /\ context_stack' \in Seq(ContextType)
           /\ final_gas' \in Nat
           /\ SameContexts
           /\ context_stack # <<>> /\ Top.current_step # <<>> =>
                /\ Len(Top'.current_step) = Len(Top.current_step)
                /\ Top'.current_step[1].op = Top.current_step[1].op
                /\ Top'.current_step[1].depth = Top.current_step[1].depth
                /\ Top'.current_step[1].gas = g
<1>1. CASE context_stack = <<>> \/ Top.current_step = <<>>
  BY <1>1 DEF RecordCost, TypeOK, SameContexts
<1>2. CASE context_stack # <<>> /\ Top.current_step # <<>>
  <2> DEFINE s == [Top.current_step EXCEPT ![1].gas = g]
             c == [Top EXCEPT !.current_step = s]
  <2>0. Depth \in 1..Len(context_stack) /\ Depth = Len(context_stack) /\ Top \in ContextType
    BY <1>2 DEF TypeOK, Depth, Top
  <2>1. context_stack' = [context_stack EXCEPT ![Depth] = c]
    BY <1>2 DEF RecordCost, Top
  <2>2. /\ s \in Seq(StepType) /\ Len(s) = Len(Top.current_step)
        /\ s[1].op = Top.current_step[1].op /\ s[1].depth = Top.current_step[1].depth
        /\ s[1].gas = g
    BY <1>2, <2>0, GasUpdate, ContextFields
  <2> HIDE DEF s
  <2>3. /\ c \in ContextType /\ c.current_step = s /\ c.address = Top.address
        /\ c.storage_cache = Top.storage_cache
        /\ c.global_storage_changes = Top.global_storage_changes
    BY <2>0, <2>2, StepUpdate
  <2> HIDE DEF c
  <2>4. /\ context_stack' \in Seq(ContextType) /\ Len(context_stack') = Len(context_stack)
        /\ context_stack'[Depth] = c
        /\ \A i \in 1..Len(context_stack) : i # Depth => context_stack'[i] = context_stack[i]
    BY <2>0, <2>1, <2>3 DEF TypeOK
  <2>5. Top' = c
    BY <2>0, <2>4 DEF Top, Depth
  <2>6. SameContexts
    BY <2>0, <2>3, <2>4 DEF SameContexts, Top
  <2> QED
    BY <1>2, <2>2, <2>3, <2>4, <2>5, <2>6 DEF RecordCost
<1> QED
  BY <1>1, <1>2

LEMMA TakenEffect ==
    ASSUME TypeOK, context_stack' = StepTaken
    PROVE  /\ context_stack' \in Seq(ContextType)
           /\ SameContexts
           /\ context_stack # <<>> => Top'.current_step = <<>>
<1>1. CASE context_stack = <<>>
  BY <1>1 DEF StepTaken, TypeOK, SameContexts
<1>2. CASE context_stack # <<>>
  <2> DEFINE c == [Top EXCEPT !.current_step = <<>>]
  <2>0. Depth \in 1..Len(context_stack) /\ Depth = Len(context_stack) /\ Top \in ContextType
    BY <1>2 DEF TypeOK, Depth, Top
  <2>1. context_stack' = [context_stack EXCEPT ![Depth] = c]
    BY <1>2 DEF StepTaken, Top
  <2>2. /\ c \in ContextType /\ c.current_step = <<>> /\ c.address = Top.address
        /\ c.storage_cache = Top.storage_cache
        /\ c.global_storage_changes = Top.global_storage_changes
    <3>1. <<>> \in Seq(StepType)
      OBVIOUS
    <3> QED
      BY <2>0, <3>1, StepUpdate
  <2> HIDE DEF c
  <2>3. /\ context_stack' \in Seq(ContextType) /\ Len(context_stack') = Len(context_stack)
        /\ context_stack'[Depth] = c
        /\ \A i \in 1..Len(context_stack) : i # Depth => context_stack'[i] = context_stack[i]
    BY <2>0, <2>1, <2>2 DEF TypeOK
  <2>4. Top' = c
    BY <2>0, <2>3 DEF Top, Depth
  <2>5. SameContexts
    BY <2>0, <2>2, <2>3 DEF SameContexts, Top
  <2> QED
    BY <2>2, <2>3, <2>4, <2>5
<1> QED
  BY <1>1, <1>2

\* Step runs in a context: the last one, or a new one at the address.
LEMMA RuntimeStepEffect ==
    ASSUME TypeOK, NEW a \in Addresses, NEW op \in Nat, RuntimeStep(a, op),
           new_context \/ context_stack # <<>>
    PROVE  /\ context_stack' \in Seq(ContextType)
           /\ Len(context_stack') = Len(context_stack) + IF new_context THEN 1 ELSE 0
           /\ Len(context_stack') >= 1
           /\ Len(Top'.current_step) = 1
           /\ Top'.current_step[1].op = op
           /\ Top'.current_step[1].depth = Len(context_stack')
           /\ \A i \in 1..Len(context_stack) :
                /\ context_stack'[i].address = context_stack[i].address
                /\ context_stack'[i].storage_cache = context_stack[i].storage_cache
                /\ context_stack'[i].global_storage_changes =
                     context_stack[i].global_storage_changes
           /\ new_context =>
                /\ Top'.address = a
                /\ Top'.storage_cache = Empty
                /\ Top'.global_storage_changes = Empty
<1> DEFINE stack == IF new_context THEN Append(context_stack, Context(a)) ELSE context_stack
           depth == Len(stack)
           st == <<Step(op, depth)>>
           c == [stack[depth] EXCEPT !.current_step = st]
<1>1. /\ stack \in Seq(ContextType) /\ stack # <<>>
      /\ Len(stack) = Len(context_stack) + IF new_context THEN 1 ELSE 0
      /\ \A i \in 1..Len(context_stack) : stack[i] = context_stack[i]
      /\ new_context => stack[Len(stack)] = Context(a)
  <2>1. context_stack \in Seq(ContextType) /\ Context(a) \in ContextType
    BY ContextIs DEF TypeOK
  <2>2. CASE new_context
    BY <2>1, <2>2
  <2>3. CASE ~new_context
    BY <2>1, <2>3
  <2> QED
    BY <2>2, <2>3
<1>2. context_stack' = [stack EXCEPT ![depth] = c]
  BY <1>1 DEF RuntimeStep
<1> HIDE DEF stack
<1>3. depth \in 1..Len(stack) /\ depth \in Nat /\ stack[depth] \in ContextType
  BY <1>1
<1>4. st \in Seq(StepType) /\ Len(st) = 1 /\ st[1].op = op /\ st[1].depth = depth
  BY <1>3, StepIs
<1> HIDE DEF st
<1>5. /\ c \in ContextType /\ c.current_step = st /\ c.address = stack[depth].address
      /\ c.storage_cache = stack[depth].storage_cache
      /\ c.global_storage_changes = stack[depth].global_storage_changes
  BY <1>3, <1>4, StepUpdate
<1> HIDE DEF c
<1>6. /\ context_stack' \in Seq(ContextType) /\ Len(context_stack') = Len(stack)
      /\ context_stack'[depth] = c
      /\ \A i \in 1..Len(stack) : i # depth => context_stack'[i] = stack[i]
  BY <1>1, <1>2, <1>3, <1>5
<1>7. Top' = c
  BY <1>6 DEF Top, Depth
<1>8. Len(context_stack) \in Nat /\ \A i \in 1..Len(context_stack) : i \in 1..Len(stack)
  BY <1>1 DEF TypeOK
<1>9. \A i \in 1..Len(context_stack) :
         /\ context_stack'[i].address = context_stack[i].address
         /\ context_stack'[i].storage_cache = context_stack[i].storage_cache
         /\ context_stack'[i].global_storage_changes = context_stack[i].global_storage_changes
  BY <1>1, <1>5, <1>6, <1>8
<1>10. new_context => /\ Top'.address = a
                      /\ Top'.storage_cache = Empty
                      /\ Top'.global_storage_changes = Empty
  BY <1>1, <1>5, <1>7, ContextIs
<1> QED
  BY <1>1, <1>3, <1>4, <1>5, <1>6, <1>7, <1>9, <1>10

\* What StepResult logs.
LEMMA LogEffect ==
    ASSUME TypeOK
    PROVE  /\ context_stack = <<>> \/ Top.current_step = <<>> => LoggedStep = step_logs
           /\ context_stack # <<>> /\ Len(Top.current_step) = 1 =>
                \E r \in LogType :
                   /\ LoggedStep = Append(step_logs, r)
                   /\ r.op = Top.current_step[1].op
                   /\ r.depth = Top.current_step[1].depth
                   /\ r.gas = Top.current_step[1].gas
                   /\ r.storage = IF disable_storage THEN Empty ELSE Top.storage_cache
<1>1. ASSUME context_stack # <<>>, Len(Top.current_step) = 1
      PROVE  \E r \in LogType :
                   /\ LoggedStep = Append(step_logs, r)
                   /\ r.op = Top.current_step[1].op
                   /\ r.depth = Top.current_step[1].depth
                   /\ r.gas = Top.current_step[1].gas
                   /\ r.storage = IF disable_storage THEN Empty ELSE Top.storage_cache
  <2>1. Top \in ContextType
    BY <1>1 DEF TypeOK, Depth, Top
  <2>2. Top.current_step \in Seq(StepType) /\ Top.storage_cache \in Cache
    BY <2>1, ContextFields
  <2>3. Top.current_step[1] \in StepType /\ Top.current_step # <<>>
    <3>1. ASSUME NEW s \in Seq(StepType), s # <<>> PROVE s[1] \in StepType
      BY <3>1
    <3>2. ASSUME NEW s, Len(s) = 1 PROVE s # <<>>
      <4>1. Len(<<>>) = 0
        OBVIOUS
      <4>2. Len(s) # Len(<<>>)
        BY <3>2, <4>1
      <4> QED
        BY <4>2, Zenon
    <3>3. PICK s : s = Top.current_step
      OBVIOUS
    <3>4. s \in Seq(StepType) /\ Len(s) = 1
      BY <1>1, <2>2, <3>3
    <3>5. s # <<>>
      BY <3>2, <3>4
    <3>6. s[1] \in StepType
      BY <3>1, <3>4, <3>5
    <3> QED
      BY <3>3, <3>5, <3>6
  <2> DEFINE st == IF disable_storage THEN Empty ELSE Top.storage_cache
             r == [op |-> Top.current_step[1].op, depth |-> Top.current_step[1].depth,
                   gas |-> Top.current_step[1].gas, storage |-> st]
  <2>4. st \in Cache
    BY <2>2, EmptyType
  <2>5. LoggedStep = Append(step_logs, r)
    BY <1>1, <2>3 DEF LoggedStep, RawStepLog
  <2>6. r \in LogType /\ r.storage = st
    <3> HIDE DEF st
    <3> QED
      BY <2>3, <2>4 DEF LogType, StepType
  <2>7. r.op = Top.current_step[1].op /\ r.depth = Top.current_step[1].depth
          /\ r.gas = Top.current_step[1].gas
    OBVIOUS
  <2> HIDE DEF r
  <2> QED
    BY <2>5, <2>6, <2>7
<1> QED
  BY <1>1 DEF LoggedStep

LEMMA AccessEffect ==
    ASSUME TypeOK, NEW key \in Keys, NEW value \in Val, StorageAccess(key, value)
    PROVE  /\ context_stack' \in Seq(ContextType)
           /\ Len(context_stack') = Len(context_stack)
           /\ context_stack # <<>> => Top'.current_step = Top.current_step
           /\ \A i \in 1..Len(context_stack) :
                /\ context_stack'[i].address = context_stack[i].address
                /\ context_stack'[i].global_storage_changes =
                     context_stack[i].global_storage_changes
                /\ context_stack'[i].storage_cache =
                     IF ~disable_storage /\ i = Len(context_stack)
                     THEN Updated(context_stack[i].storage_cache, [k \in {key} |-> value])
                     ELSE context_stack[i].storage_cache
<1>1. CASE context_stack = <<>> \/ disable_storage
  BY <1>1 DEF StorageAccess, TypeOK, Top, Depth
<1>2. CASE context_stack # <<>> /\ ~disable_storage
  <2> DEFINE f == Updated(Top.storage_cache, [k \in {key} |-> value])
             c == [Top EXCEPT !.storage_cache = f]
  <2>0. Depth \in 1..Len(context_stack) /\ Depth = Len(context_stack) /\ Top \in ContextType
    BY <1>2 DEF TypeOK, Depth, Top
  <2>1. context_stack' = [context_stack EXCEPT ![Depth] = c]
    BY <1>2 DEF StorageAccess, Top
  <2>2. f \in Cache
    <3>1. {key} \in SUBSET Keys /\ [k \in {key} |-> value] \in [{key} -> Val]
      OBVIOUS
    <3>2. [k \in {key} |-> value] \in Cache
      BY <3>1 DEF Cache
    <3> QED
      BY <2>0, <3>2, UpdatedType, ContextFields
  <2> HIDE DEF f
  <2>3. /\ c \in ContextType /\ c.current_step = Top.current_step /\ c.address = Top.address
        /\ c.storage_cache = f
        /\ c.global_storage_changes = Top.global_storage_changes
    BY <2>0, <2>2, CacheUpdate
  <2> HIDE DEF c
  <2>4. /\ context_stack' \in Seq(ContextType) /\ Len(context_stack') = Len(context_stack)
        /\ context_stack'[Depth] = c
        /\ \A i \in 1..Len(context_stack) : i # Depth => context_stack'[i] = context_stack[i]
    BY <2>0, <2>1, <2>3 DEF TypeOK
  <2>5. Top' = c /\ Top = context_stack[Len(context_stack)]
    BY <2>0, <2>4 DEF Top, Depth
  <2> USE DEF f
  <2> QED
    BY <1>2, <2>0, <2>3, <2>4, <2>5
<1> QED
  BY <1>1, <1>2

\* What a parent takes over from a child: the values of the keys that it
\* tracks, and the changes at other addresses.
LEMMA MergedIs ==
    ASSUME NEW p \in ContextType, NEW c \in ContextType
    PROVE  /\ Merged(p, c) \in ContextType
           /\ Merged(p, c).address = p.address
           /\ Merged(p, c).current_step = p.current_step
           /\ DOMAIN Merged(p, c).storage_cache = DOMAIN p.storage_cache
           /\ \A k \in DOMAIN p.storage_cache :
                Merged(p, c).storage_cache[k] =
                  IF p.address = c.address
                  THEN IF k \in DOMAIN c.storage_cache THEN c.storage_cache[k] ELSE p.storage_cache[k]
                  ELSE IF p.address \in DOMAIN c.global_storage_changes
                       THEN IF k \in DOMAIN c.global_storage_changes[p.address]
                            THEN c.global_storage_changes[p.address][k]
                            ELSE p.storage_cache[k]
                       ELSE p.storage_cache[k]
           /\ DOMAIN Merged(p, c).global_storage_changes =
                DOMAIN p.global_storage_changes
                  \cup ((DOMAIN c.global_storage_changes \cup {c.address}) \ {p.address})
           /\ \A a \in DOMAIN Merged(p, c).global_storage_changes :
                LET old == IF a \in DOMAIN p.global_storage_changes
                           THEN p.global_storage_changes[a] ELSE Empty
                IN  Merged(p, c).global_storage_changes[a] =
                      IF a # p.address /\ a = c.address
                      THEN Updated(old, c.storage_cache)
                      ELSE IF a # p.address /\ a \in DOMAIN c.global_storage_changes
                      THEN Updated(old, c.global_storage_changes[a])
                      ELSE p.global_storage_changes[a]
<1> DEFINE changes == Updated(c.global_storage_changes, [a \in {c.address} |-> c.storage_cache])
           mine == IF p.address \in DOMAIN changes THEN changes[p.address] ELSE Empty
           known == p.global_storage_changes
           others2 == DOMAIN changes \ {p.address}
           f == [k \in DOMAIN p.storage_cache |->
                   IF k \in DOMAIN mine THEN mine[k] ELSE p.storage_cache[k]]
           g == [a \in DOMAIN known \cup others2 |->
                   IF a \in others2
                   THEN Updated(IF a \in DOMAIN known THEN known[a] ELSE Empty, changes[a])
                   ELSE known[a]]
<1>1. Merged(p, c) = [p EXCEPT !.storage_cache = f, !.global_storage_changes = g]
  BY DEF Merged
<1>2. /\ p.address \in Addresses /\ p.storage_cache \in Cache /\ known \in Changes
      /\ c.address \in Addresses /\ c.storage_cache \in Cache
      /\ c.global_storage_changes \in Changes
  BY ContextFields
<1>3. /\ known \in [DOMAIN known -> Cache] /\ DOMAIN known \subseteq Addresses
      /\ c.global_storage_changes \in [DOMAIN c.global_storage_changes -> Cache]
      /\ DOMAIN c.global_storage_changes \subseteq Addresses
      /\ p.storage_cache \in [DOMAIN p.storage_cache -> Val]
      /\ DOMAIN p.storage_cache \subseteq Keys
  BY <1>2, ChangesType, CacheType
<1>4. /\ DOMAIN changes = DOMAIN c.global_storage_changes \cup {c.address}
      /\ changes[c.address] = c.storage_cache
      /\ \A a \in DOMAIN c.global_storage_changes :
           a # c.address => changes[a] = c.global_storage_changes[a]
  <2> DEFINE own == [a \in {c.address} |-> c.storage_cache]
  <2>1. DOMAIN own = {c.address} /\ own[c.address] = c.storage_cache
    OBVIOUS
  <2>2. changes = Updated(c.global_storage_changes, own)
    OBVIOUS
  <2> HIDE DEF own, changes
  <2> QED
    BY <2>1, <2>2 DEF Updated
<1> HIDE DEF changes
<1>5. \A a \in DOMAIN changes : changes[a] \in Cache
  BY <1>2, <1>3, <1>4
<1>6. mine \in Cache
  BY <1>5, EmptyType
<1>7. f \in Cache
  <2>1. mine \in [DOMAIN mine -> Val]
    BY <1>6, CacheType
  <2>2. f \in [DOMAIN p.storage_cache -> Val]
    <3> HIDE DEF mine
    <3> QED
      BY <1>3, <2>1
  <2>3. DOMAIN p.storage_cache \in SUBSET Keys
    BY <1>3
  <2> HIDE DEF f
  <2> QED
    BY <2>2, <2>3 DEF Cache
<1>8. g \in Changes
  <2>1. \A a \in DOMAIN known : known[a] \in Cache
    BY <1>3
  <2>2. \A a \in DOMAIN known \cup others2 : g[a] \in Cache
    BY <1>5, <2>1, UpdatedType, EmptyType
  <2>3. DOMAIN known \cup others2 \in SUBSET Addresses
    BY <1>2, <1>3, <1>4
  <2>4. DOMAIN g = DOMAIN known \cup others2 /\ g = [a \in DOMAIN g |-> g[a]]
    OBVIOUS
  <2> HIDE DEF g, others2
  <2> QED
    BY <2>2, <2>3, <2>4, ChangesType
<1>9. DOMAIN f = DOMAIN p.storage_cache
      /\ \A k \in DOMAIN f : f[k] = IF k \in DOMAIN mine THEN mine[k] ELSE p.storage_cache[k]
  OBVIOUS
<1>10. DOMAIN g = DOMAIN known \cup others2
       /\ \A a \in DOMAIN g : g[a] =
                IF a \in others2
                THEN Updated(IF a \in DOMAIN known THEN known[a] ELSE Empty, changes[a])
                ELSE known[a]
  OBVIOUS
<1> HIDE DEF f, g
<1>11. /\ Merged(p, c) \in ContextType
       /\ Merged(p, c).address = p.address
       /\ Merged(p, c).current_step = p.current_step
       /\ Merged(p, c).storage_cache = f
       /\ Merged(p, c).global_storage_changes = g
  BY <1>1, <1>7, <1>8 DEF ContextType
<1>12. \A k \in DOMAIN p.storage_cache : f[k] =
                  IF p.address = c.address
                  THEN IF k \in DOMAIN c.storage_cache THEN c.storage_cache[k] ELSE p.storage_cache[k]
                  ELSE IF p.address \in DOMAIN c.global_storage_changes
                       THEN IF k \in DOMAIN c.global_storage_changes[p.address]
                            THEN c.global_storage_changes[p.address][k]
                            ELSE p.storage_cache[k]
                       ELSE p.storage_cache[k]
  BY <1>4, <1>9, EmptyType
<1>13. \A a \in DOMAIN g : a \in others2 <=>
          a # p.address /\ (a = c.address \/ a \in DOMAIN c.global_storage_changes)
  BY <1>4
<1> QED
  BY <1>4, <1>9, <1>10, <1>11, <1>12, <1>13

LEMMA FrontIs ==
    ASSUME NEW S, NEW s \in Seq(S), Len(s) >= 1
    PROVE  /\ SubSeq(s, 1, Len(s) - 1) \in Seq(S)
           /\ Len(SubSeq(s, 1, Len(s) - 1)) = Len(s) - 1
           /\ \A i \in 1..(Len(s) - 1) : SubSeq(s, 1, Len(s) - 1)[i] = s[i]
<1>1. 1 \in Int /\ Len(s) - 1 \in Int /\ \A i \in 1..(Len(s) - 1) : s[i] \in S
  OBVIOUS
<1>2. ASSUME NEW n \in Int, n >= 0, \A i \in 1..n : s[i] \in S
      PROVE  /\ SubSeq(s, 1, n) \in Seq(S)
             /\ Len(SubSeq(s, 1, n)) = n
             /\ \A i \in 1..n : SubSeq(s, 1, n)[i] = s[i]
  <2>1. /\ SubSeq(s, 1, n) \in Seq(S)
        /\ Len(SubSeq(s, 1, n)) = IF 1 <= n THEN n - 1 + 1 ELSE 0
        /\ \A i \in 1..(n - 1 + 1) : SubSeq(s, 1, n)[i] = s[1 + i - 1]
    BY <1>1, <1>2, SubSeqProperties, SMT
  <2>2. n - 1 + 1 = n /\ (1 <= n \/ n = 0) /\ \A i \in 1..n : 1 + i - 1 = i
    BY <1>2
  <2> QED
    BY <2>1, <2>2
<1>3. Len(s) - 1 \in Int /\ Len(s) - 1 >= 0
  OBVIOUS
<1> QED
  BY <1>1, <1>2, <1>3

\* The context below the one that exits takes over its changes, or nothing.
LEMMA ExitEffect ==
    ASSUME TypeOK, NEW success \in BOOLEAN, context_stack # <<>>,
           context_stack' = ExitedStack(success)
    PROVE  /\ context_stack' \in Seq(ContextType)
           /\ Len(context_stack') = Len(context_stack) - 1
           /\ \A i \in 1..(Len(context_stack) - 1) :
                i # Len(context_stack) - 1 => context_stack'[i] = context_stack[i]
           /\ Len(context_stack) >= 2 =>
                IF ~disable_storage /\ success
                THEN \E c \in ContextType :
                       /\ c.address = Top.address
                       /\ c.storage_cache = Top.storage_cache
                       /\ c.global_storage_changes = Top.global_storage_changes
                       /\ context_stack'[Len(context_stack) - 1] =
                            Merged(context_stack[Len(context_stack) - 1], c)
                ELSE context_stack'[Len(context_stack) - 1] =
                       context_stack[Len(context_stack) - 1]
<1> DEFINE n == Len(context_stack)
           c == [Top EXCEPT !.current_step = <<>>]
           below == SubSeq(StepTaken, 1, Depth - 1)
<1>0. n \in Nat /\ n >= 1 /\ Depth = n /\ Top = context_stack[n] /\ Top \in ContextType
  BY DEF TypeOK, Depth, Top
<1>1. /\ c \in ContextType /\ c.address = Top.address
      /\ c.storage_cache = Top.storage_cache
      /\ c.global_storage_changes = Top.global_storage_changes
  <2>1. <<>> \in Seq(StepType)
    OBVIOUS
  <2>2. Top \in ContextType
    BY <1>0
  <2> QED
    BY <2>1, <2>2, StepUpdate
<1>2. StepTaken = [context_stack EXCEPT ![n] = c]
  BY <1>0 DEF StepTaken
<1> HIDE DEF c
<1>3. /\ StepTaken \in Seq(ContextType) /\ Len(StepTaken) = n /\ StepTaken[n] = c
      /\ \A i \in 1..(n - 1) : StepTaken[i] = context_stack[i]
  BY <1>0, <1>1, <1>2, SMTT(30) DEF TypeOK
<1>4. /\ below \in Seq(ContextType) /\ Len(below) = n - 1
      /\ \A i \in 1..(n - 1) : below[i] = context_stack[i]
  <2>1. below = SubSeq(StepTaken, 1, Len(StepTaken) - 1)
    BY <1>0, <1>3
  <2> HIDE DEF below
  <2> QED
    BY <1>0, <1>3, <2>1, FrontIs
<1>5. ExitedStack(success) =
        IF ~disable_storage /\ success /\ below # <<>>
        THEN [below EXCEPT ![n - 1] = Merged(@, c)]
        ELSE below
  BY <1>0, <1>3 DEF ExitedStack
<1> HIDE DEF below
<1>6. CASE ~disable_storage /\ success /\ n >= 2
  <2>1. below # <<>> /\ n - 1 \in 1..(n - 1)
    BY <1>0, <1>4, <1>6
  <2>2. below[n - 1] = context_stack[n - 1] /\ context_stack[n - 1] \in ContextType
    BY <1>0, <1>4, <2>1 DEF TypeOK
  <2>3. Merged(context_stack[n - 1], c) \in ContextType
    BY <1>1, <2>2, MergedIs
  <2>4. context_stack' = [below EXCEPT ![n - 1] = Merged(context_stack[n - 1], c)]
    BY <1>5, <1>6, <2>1, <2>2
  <2> DEFINE m == Merged(context_stack[n - 1], c)
  <2> HIDE DEF m
  <2>5. /\ context_stack' \in Seq(ContextType) /\ Len(context_stack') = n - 1
        /\ context_stack'[n - 1] = m
        /\ \A i \in 1..(n - 1) : i # n - 1 => context_stack'[i] = context_stack[i]
    <3>1. m \in ContextType /\ context_stack' = [below EXCEPT ![n - 1] = m]
      BY <2>3, <2>4 DEF m
    <3> QED
      BY <1>0, <1>4, <2>1, <3>1
  <2> QED
    BY <1>1, <1>6, <2>5 DEF m
<1>7. CASE ~(~disable_storage /\ success /\ n >= 2)
  <2>1. n = 1 => below = <<>>
    BY <1>4
  <2>2. context_stack' = below
    BY <1>0, <1>5, <1>7, <2>1
  <2> QED
    BY <1>0, <1>4, <1>7, <2>2
<1> QED
  BY <1>6, <1>7

LEMMA CompletedIs ==
    ASSUME TypeOK, Len(frames) >= 1
    PROVE  \E r \in LogType :
              /\ Completed = Append(executed, r)
              /\ r.op = ops /\ r.depth = Len(frames) /\ r.gas = used
              /\ r.storage = IF disable_storage THEN Empty
                             ELSE [k \in Current.tracked |-> storage[Current.address][k]]
<1> DEFINE st == IF disable_storage THEN Empty
                 ELSE [k \in Current.tracked |-> storage[Current.address][k]]
           r == [op |-> ops, depth |-> Len(frames), gas |-> used, storage |-> st]
<1>1. Current \in FrameType
  BY DEF TypeOK, Current
<1>2. Current.tracked \in SUBSET Keys /\ Current.address \in Addresses
  BY <1>1 DEF FrameType
<1>3. [k \in Current.tracked |-> storage[Current.address][k]] \in Cache
  <2>1. [k \in Current.tracked |-> storage[Current.address][k]] \in [Current.tracked -> Val]
    BY <1>2 DEF TypeOK, StorageType
  <2> QED
    BY <1>2, <2>1 DEF Cache
<1>4. st \in Cache
  BY <1>3, EmptyType
<1>5. Completed = Append(executed, r)
  BY DEF Completed
<1> HIDE DEF st
<1>6. /\ r \in LogType /\ r.op = ops /\ r.depth = Len(frames) /\ r.gas = used /\ r.storage = st
  BY <1>4 DEF LogType, TypeOK
<1> HIDE DEF r
<1> USE DEF st
<1> QED
  BY <1>5, <1>6

LEMMA LoggedTogether ==
    ASSUME TypeOK, EveryOpcodeLogged, NEW r \in LogType, NEW e \in LogType,
           step_logs' = Append(step_logs, r), executed' = Append(executed, e),
           r.op = e.op, r.gas = e.gas
    PROVE  /\ EveryOpcodeLogged'
           /\ step_logs' \in Seq(LogType) /\ executed' \in Seq(LogType)
<1>1. step_logs \in Seq(LogType) /\ executed \in Seq(LogType)
  BY DEF TypeOK
<1>2. /\ Len(executed) \in Nat /\ Len(step_logs) = Len(executed)
      /\ Len(executed') = Len(executed) + 1 /\ Len(step_logs') = Len(executed) + 1
      /\ step_logs'[Len(executed) + 1] = r /\ executed'[Len(executed) + 1] = e
      /\ \A i \in 1..Len(executed) :
           step_logs'[i] = step_logs[i] /\ executed'[i] = executed[i]
  BY <1>1 DEF EveryOpcodeLogged
<1>3. ASSUME NEW i \in 1..Len(executed')
      PROVE  step_logs'[i].op = executed'[i].op /\ step_logs'[i].gas = executed'[i].gas
  <2>1. i \in 1..Len(executed) \/ i = Len(executed) + 1
    BY <1>2
  <2> QED
    BY <1>2, <2>1 DEF EveryOpcodeLogged
<1> QED
  BY <1>1, <1>2, <1>3 DEF EveryOpcodeLogged

LEMMA FrameIs ==
    ASSUME TypeOK, NEW a \in Addresses
    PROVE  /\ Frame(a) \in FrameType
           /\ Frame(a).id = opened + 1
           /\ Frame(a).address = a
           /\ Frame(a).saved = storage
           /\ Frame(a).tracked = {}
BY DEF Frame, FrameType, TypeOK

-----------------------------------------------------------------------------
(***************************************************************************)
(* The control of the listener: what every step preserves.                 *)
(***************************************************************************)
ControlInv == TypeOK /\ FramesInv /\ DepthInv /\ ExactInv /\ EveryOpcodeLogged

LEMMA CurrentIs ==
    ASSUME TypeOK, Len(frames) >= 1
    PROVE  /\ Current \in FrameType
           /\ Current.id \in Nat
           /\ Current.address \in Addresses
           /\ Current.saved \in StorageType
           /\ Current.tracked \subseteq Keys
<1>1. Current \in FrameType
  BY DEF TypeOK, Current
<1> QED
  BY <1>1 DEF FrameType

LEMMA InitControl == Init => ControlInv
<1> SUFFICES ASSUME Init PROVE ControlInv
  OBVIOUS
<1>1. disable_storage \in BOOLEAN
  BY DEF Init, ListenerInit
<1>2. storage \in StorageType
  BY DEF Init, StorageType, Val
<1>a. /\ context_stack \in Seq(ContextType) /\ step_logs \in Seq(LogType)
      /\ frames \in Seq(FrameType) /\ executed \in Seq(LogType)
  BY DEF Init, ListenerInit
<1>b. /\ new_context \in BOOLEAN /\ return_value \in Nat /\ final_gas \in Nat
      /\ used \in Nat /\ opened \in Nat /\ others \in Nat /\ ops \in Nat
  BY DEF Init, ListenerInit, None
<1>3. TypeOK
  BY <1>1, <1>2, <1>a, <1>b DEF Init, TypeOK, Stages
<1>4. FramesInv /\ DepthInv /\ ExactInv /\ EveryOpcodeLogged
  BY DEF Init, ListenerInit, FramesInv, DepthInv, ExactInv, EveryOpcodeLogged, InStep
<1> QED
  BY <1>3, <1>4 DEF ControlInv

LEMMA ControlBefore ==
    ASSUME ControlInv, ApplyExtrinsic \/ TransactionNotFound
    PROVE  ControlInv'
<1>1. storage' \in StorageType
  BY DEF ControlInv, TypeOK, ApplyExtrinsic, TransactionNotFound, StorageType, Val
<1>2. TypeOK'
  BY <1>1 DEF ControlInv, TypeOK, ApplyExtrinsic, TransactionNotFound, listenerVars, Stages
<1>3. FramesInv' /\ DepthInv' /\ ExactInv' /\ EveryOpcodeLogged'
  BY DEF ControlInv, FramesInv, DepthInv, ExactInv, EveryOpcodeLogged, InStep,
         ApplyExtrinsic, TransactionNotFound, listenerVars
<1> QED
  BY <1>2, <1>3 DEF ControlInv

LEMMA ControlRecord ==
    ASSUME ControlInv, EmitRecordTransaction
    PROVE  ControlInv'
<1>1. /\ Frame(Root) \in FrameType /\ Frame(Root).id = 1 /\ frames' = <<Frame(Root)>>
  BY FrameIs DEF ControlInv, EmitRecordTransaction, FramesInv
<1>2. frames' \in Seq(FrameType) /\ Len(frames') = 1 /\ frames'[1].id = 1
  BY <1>1
<1>3. TypeOK'
  BY <1>2 DEF ControlInv, TypeOK, EmitRecordTransaction, RecordTransaction, Stages
<1>4. FramesInv' /\ DepthInv' /\ ExactInv' /\ EveryOpcodeLogged'
  BY <1>2 DEF ControlInv, FramesInv, DepthInv, ExactInv, EveryOpcodeLogged, InStep,
              EmitRecordTransaction, RecordTransaction
<1> QED
  BY <1>3, <1>4 DEF ControlInv

LEMMA ControlStep ==
    ASSUME ControlInv, EmitStep
    PROVE  ControlInv'
<1>1. stage = "ready" /\ Len(frames) >= 1 /\ Len(frames) \in Nat
  BY DEF ControlInv, TypeOK, FramesInv, EmitStep
<1>2. ops + 1 \in Nat /\ Current.address \in Addresses
  BY <1>1, CurrentIs DEF ControlInv, TypeOK
<1>3. new_context \/ context_stack # <<>>
  BY <1>1 DEF ControlInv, DepthInv
<1>4. /\ context_stack' \in Seq(ContextType)
      /\ Len(context_stack') = Len(context_stack) + IF new_context THEN 1 ELSE 0
      /\ Len(context_stack') >= 1
      /\ Len(Top'.current_step) = 1
      /\ Top'.current_step[1].op = ops + 1
      /\ Top'.current_step[1].depth = Len(context_stack')
  BY <1>2, <1>3, RuntimeStepEffect DEF ControlInv, EmitStep
<1>5. TypeOK'
  BY <1>2, <1>4 DEF ControlInv, TypeOK, EmitStep, RuntimeStep, Stages
<1>6. FramesInv' /\ EveryOpcodeLogged'
  BY <1>1 DEF ControlInv, FramesInv, EveryOpcodeLogged, EmitStep, RuntimeStep
<1>7. DepthInv'
  BY <1>1, <1>4 DEF ControlInv, DepthInv, InStep, EmitStep, RuntimeStep
<1>8. ExactInv'
  BY <1>1, <1>4 DEF ControlInv, ExactInv, InStep, EmitStep
<1> QED
  BY <1>5, <1>6, <1>7, <1>8 DEF ControlInv

LEMMA ControlCost ==
    ASSUME ControlInv, EmitCost \/ EmitOtherCost
    PROVE  ControlInv'
<1>1. Len(frames) >= 1 /\ Len(frames) \in Nat /\ used + 1 \in Nat /\ RecordCost(used + 1)
  BY DEF ControlInv, TypeOK, FramesInv, EmitCost, EmitOtherCost
<1>2. /\ context_stack' \in Seq(ContextType)
      /\ final_gas' \in Nat
      /\ Len(context_stack') = Len(context_stack)
      /\ context_stack # <<>> /\ Top.current_step # <<>> =>
           /\ Len(Top'.current_step) = Len(Top.current_step)
           /\ Top'.current_step[1].op = Top.current_step[1].op
           /\ Top'.current_step[1].depth = Top.current_step[1].depth
           /\ Top'.current_step[1].gas = used + 1
  BY <1>1, CostEffect DEF ControlInv, SameContexts
<1>a. UNCHANGED <<disable_storage, new_context, step_logs, return_value>>
  BY <1>1 DEF RecordCost
<1>b. /\ used' \in Nat /\ others' \in Nat /\ stage' \in Stages
      /\ UNCHANGED <<scenario, odd, frames, storage, opened, ops, executed>>
  BY <1>1 DEF ControlInv, TypeOK, EmitCost, EmitOtherCost, Stages
<1>3. TypeOK'
  BY <1>2, <1>a, <1>b DEF ControlInv, TypeOK
<1>4. FramesInv' /\ EveryOpcodeLogged'
  BY <1>1 DEF ControlInv, FramesInv, EveryOpcodeLogged, EmitCost, EmitOtherCost, RecordCost
<1>5. DepthInv'
  <2>1. CASE EmitCost
    <3>1. context_stack # <<>> /\ Top.current_step # <<>>
      BY <1>1, <2>1 DEF ControlInv, DepthInv, InStep, EmitCost
    <3> QED
      BY <1>1, <1>2, <2>1, <3>1 DEF ControlInv, DepthInv, InStep, EmitCost, RecordCost
  <2>2. CASE EmitOtherCost
    BY <1>1, <1>2, <2>2 DEF ControlInv, DepthInv, InStep, EmitOtherCost, RecordCost
  <2> QED
    BY <2>1, <2>2
<1>6. ExactInv'
  BY <1>1, <1>2 DEF ControlInv, ExactInv, InStep, EmitCost, EmitOtherCost, RecordCost
<1> QED
  BY <1>3, <1>4, <1>5, <1>6 DEF ControlInv

LEMMA ControlAccess ==
    ASSUME ControlInv, EmitStorage
    PROVE  ControlInv'
<1>1. Len(frames) >= 1 /\ Len(frames) \in Nat /\ Current.address \in Addresses
      /\ Current \in FrameType
  BY CurrentIs DEF ControlInv, TypeOK, FramesInv, EmitStorage
<1>a. PICK key \in Keys :
          \E value \in Values \cup {storage[Current.address][key]} :
             /\ storage' = [storage EXCEPT ![Current.address][key] = value]
             /\ frames' = [frames EXCEPT ![Len(frames)].tracked = @ \cup {key}]
             /\ StorageAccess(key, value)
  BY DEF EmitStorage
<1>2. PICK value \in Values \cup {storage[Current.address][key]} :
          /\ storage' = [storage EXCEPT ![Current.address][key] = value]
          /\ frames' = [frames EXCEPT ![Len(frames)].tracked = @ \cup {key}]
          /\ StorageAccess(key, value)
  BY <1>a
<1>3. value \in Val
  BY <1>1 DEF ControlInv, TypeOK, StorageType, Val
<1>4. storage' \in StorageType
  BY <1>1, <1>2, <1>3 DEF ControlInv, TypeOK, StorageType
<1>5. /\ frames' \in Seq(FrameType) /\ Len(frames') = Len(frames)
      /\ frames'[1].id = frames[1].id
  <2> DEFINE f == [Current EXCEPT !.tracked = @ \cup {key}]
  <2>1. f \in FrameType /\ f.id = Current.id
    BY <1>1 DEF FrameType
  <2>2. frames' = [frames EXCEPT ![Len(frames)] = f]
    BY <1>2 DEF Current
  <2> HIDE DEF f
  <2> QED
    BY <1>1, <2>1, <2>2 DEF ControlInv, TypeOK, Current
<1>6. /\ context_stack' \in Seq(ContextType)
      /\ Len(context_stack') = Len(context_stack)
      /\ context_stack # <<>> => Top'.current_step = Top.current_step
  BY <1>2, <1>3, AccessEffect DEF ControlInv
<1>7. TypeOK'
  BY <1>2, <1>4, <1>5, <1>6 DEF ControlInv, TypeOK, EmitStorage, StorageAccess, Stages
<1>8. FramesInv' /\ EveryOpcodeLogged'
  <2>1. frames # <<>>
    BY <1>1
  <2> QED
    BY <1>1, <1>2, <1>5, <2>1 DEF ControlInv, FramesInv, EveryOpcodeLogged, EmitStorage, StorageAccess
<1>9. DepthInv'
  <2>1. context_stack # <<>>
    BY <1>1 DEF ControlInv, DepthInv, InStep, EmitStorage
  <2> QED
    BY <1>1, <1>2, <1>5, <1>6, <2>1, SMTT(30) DEF ControlInv, DepthInv, InStep, EmitStorage, StorageAccess
<1>10. ExactInv'
  BY <1>1, <1>2, <1>5, <1>6 DEF ControlInv, ExactInv, InStep, EmitStorage, StorageAccess
<1> QED
  BY <1>7, <1>8, <1>9, <1>10 DEF ControlInv

\* A completed opcode is logged, in whatever context it runs.
LEMMA ResultEffect ==
    ASSUME ControlInv, stage \in {"charged", "accessed"},
           step_logs' = LoggedStep, executed' = Completed
    PROVE  /\ EveryOpcodeLogged'
           /\ step_logs' \in Seq(LogType) /\ executed' \in Seq(LogType)
           /\ Len(frames) >= 1 /\ context_stack # <<>>
<1>1. /\ Len(frames) >= 1 /\ context_stack # <<>> /\ Len(Top.current_step) = 1
      /\ Top.current_step[1].op = ops /\ Top.current_step[1].gas = used
  BY DEF ControlInv, TypeOK, FramesInv, DepthInv, InStep
<1>2. PICK r \in LogType : /\ LoggedStep = Append(step_logs, r)
                           /\ r.op = Top.current_step[1].op
                           /\ r.gas = Top.current_step[1].gas
  BY <1>1, LogEffect DEF ControlInv
<1>3. PICK e \in LogType : /\ Completed = Append(executed, e) /\ e.op = ops /\ e.gas = used
  BY <1>1, CompletedIs DEF ControlInv
<1> QED
  BY <1>1, <1>2, <1>3, LoggedTogether DEF ControlInv

LEMMA ControlResult ==
    ASSUME ControlInv, EmitResult \/ EmitTrap
    PROVE  ControlInv'
<1>1. PICK opens \in BOOLEAN :
        /\ StepResultTrap(opens)
        /\ stage' = IF opens THEN "trapped" ELSE "ready"
  BY DEF EmitResult, EmitTrap
<1>2. /\ stage \in {"charged", "accessed"} /\ stage' \in Stages
      /\ executed' = Completed
      /\ UNCHANGED <<scenario, odd, frames, storage, used, opened, others, ops>>
  BY DEF EmitResult, EmitTrap, Stages
<1>3. /\ step_logs' = LoggedStep /\ context_stack' = StepTaken
      /\ new_context' = (new_context \/ opens)
      /\ UNCHANGED <<disable_storage, return_value, final_gas>>
  BY <1>1 DEF StepResultTrap
<1>4. /\ EveryOpcodeLogged'
      /\ step_logs' \in Seq(LogType) /\ executed' \in Seq(LogType)
      /\ Len(frames) >= 1 /\ context_stack # <<>>
  BY <1>2, <1>3, ResultEffect
<1>5. /\ context_stack' \in Seq(ContextType)
      /\ Len(context_stack') = Len(context_stack)
      /\ Top'.current_step = <<>>
  BY <1>3, <1>4, TakenEffect DEF ControlInv, SameContexts
<1>6. TypeOK'
  BY <1>2, <1>3, <1>4, <1>5 DEF ControlInv, TypeOK
<1>7. FramesInv'
  BY <1>1, <1>2, <1>4 DEF ControlInv, FramesInv
<1>8. DepthInv'
  BY <1>1, <1>2, <1>3, <1>5 DEF ControlInv, DepthInv, InStep, TypeOK
<1>9. ExactInv'
  BY <1>1, <1>2, <1>3, <1>5 DEF ControlInv, ExactInv, DepthInv, InStep, TypeOK
<1> QED
  BY <1>4, <1>6, <1>7, <1>8, <1>9 DEF ControlInv

LEMMA ClosedFrames ==
    ASSUME TypeOK, Len(frames) >= 1, NEW success \in BOOLEAN, CloseFrame(success)
    PROVE  /\ frames' \in Seq(FrameType)
           /\ Len(frames') = Len(frames) - 1
           /\ \A i \in 1..(Len(frames) - 1) : frames'[i] = frames[i]
           /\ storage' \in StorageType
           /\ stage' = IF Len(frames) = 1 THEN "closed" ELSE "ready"
<1>1. frames \in Seq(FrameType) /\ frames' = SubSeq(frames, 1, Len(frames) - 1)
  BY DEF TypeOK, CloseFrame
<1>2. /\ frames' \in Seq(FrameType) /\ Len(frames') = Len(frames) - 1
      /\ \A i \in 1..(Len(frames) - 1) : frames'[i] = frames[i]
  BY <1>1, FrontIs
<1>3. storage' \in StorageType
  BY CurrentIs DEF TypeOK, CloseFrame
<1> QED
  BY <1>2, <1>3 DEF CloseFrame

LEMMA ControlOutOfGas ==
    ASSUME ControlInv, OutOfGas
    PROVE  ControlInv'
<1>a. /\ stage = "stepped" /\ CloseFrame(FALSE) /\ odd' = odd \cup {"OutOfGas"}
      /\ UNCHANGED <<scenario, listenerVars, used, opened, others, ops, executed>>
  BY DEF OutOfGas, Odd
<1>1. Len(frames) >= 1 /\ Len(frames) \in Nat /\ Len(context_stack) \in Nat
  BY <1>a DEF ControlInv, TypeOK, FramesInv
<1>b. "OutOfGas" \in odd' /\ odd' \subseteq {"NoCode", "Precompile", "OutOfGas", "Nested"}
  BY <1>a DEF ControlInv, TypeOK
<1>2. /\ frames' \in Seq(FrameType)
      /\ Len(frames') = Len(frames) - 1
      /\ \A i \in 1..(Len(frames) - 1) : frames'[i] = frames[i]
      /\ storage' \in StorageType
      /\ stage' = IF Len(frames) = 1 THEN "closed" ELSE "ready"
  BY <1>1, <1>a, <1>b, ClosedFrames DEF ControlInv
<1>3. TypeOK'
  BY <1>1, <1>a, <1>b, <1>2 DEF ControlInv, TypeOK, listenerVars, Stages
<1>4. FramesInv'
  <2>1. frames' # <<>> => Len(frames) # 1
    BY <1>1, <1>a, <1>b, <1>2
  <2>2. frames # <<>>
    BY <1>1
  <2> QED
    BY <1>1, <1>a, <1>b, <1>2, <2>1, <2>2 DEF ControlInv, FramesInv
<1>c. ~new_context' /\ Len(context_stack) >= Len(frames) /\ context_stack' = context_stack
  BY <1>a DEF ControlInv, DepthInv, InStep, listenerVars
<1>5. DepthInv'
  BY <1>1, <1>2, <1>c DEF DepthInv, InStep
<1>6. ExactInv'
  BY <1>b DEF ExactInv
<1>7. EveryOpcodeLogged'
  BY <1>a DEF ControlInv, EveryOpcodeLogged, listenerVars
<1> QED
  BY <1>3, <1>4, <1>5, <1>6, <1>7 DEF ControlInv

LEMMA ControlEnterFrame ==
    ASSUME ControlInv, EnterFrame
    PROVE  ControlInv'
<1>1. PICK a \in Addresses :
          /\ IF RunsTwice(a) THEN Odd("Nested") ELSE UNCHANGED odd
          /\ frames' = Append(frames, Frame(a))
  BY DEF EnterFrame
<1>2. /\ odd' \subseteq {"NoCode", "Precompile", "OutOfGas", "Nested"}
      /\ odd' \subseteq {"Nested"} => odd \subseteq {"Nested"}
  BY <1>1 DEF ControlInv, TypeOK, Odd
<1>3. /\ Len(frames) >= 1 /\ Len(frames) \in Nat /\ Len(context_stack) \in Nat
      /\ opened \in Nat /\ stage = "trapped" /\ stage' = "ready" /\ opened' = opened + 1
      /\ UNCHANGED <<scenario, listenerVars, storage, used, others, ops, executed>>
  BY DEF ControlInv, TypeOK, FramesInv, EnterFrame
<1>4. /\ frames' \in Seq(FrameType) /\ Len(frames') = Len(frames) + 1
      /\ frames'[1] = frames[1] /\ frames # <<>>
  BY <1>1, <1>3, FrameIs DEF ControlInv, TypeOK
<1>5. TypeOK'
  BY <1>2, <1>3, <1>4 DEF ControlInv, TypeOK, listenerVars, Stages
<1>6. FramesInv'
  BY <1>3, <1>4 DEF ControlInv, FramesInv
<1>7. DepthInv' /\ ExactInv' /\ EveryOpcodeLogged'
  BY <1>2, <1>3, <1>4
     DEF ControlInv, DepthInv, ExactInv, EveryOpcodeLogged, InStep, listenerVars
<1> QED
  BY <1>5, <1>6, <1>7 DEF ControlInv

LEMMA ControlEnterOther ==
    ASSUME ControlInv, EnterNoCode \/ EnterPrecompile
    PROVE  ControlInv'
<1>a. /\ stage = "trapped" /\ stage' = "ready" /\ opened' = opened + 1
      /\ UNCHANGED <<scenario, frames, storage, used, others, ops, executed>>
  BY DEF EnterNoCode, EnterPrecompile
<1>b. /\ Len(frames) >= 1 /\ Len(frames) \in Nat /\ Len(context_stack) \in Nat
      /\ opened \in Nat
  BY <1>a DEF ControlInv, TypeOK, FramesInv
<1>c. new_context /\ Len(context_stack) >= Len(frames) /\ Top.current_step = <<>>
  BY <1>a DEF ControlInv, DepthInv
<1>1. /\ Len(frames) >= 1 /\ Len(frames) \in Nat /\ Len(context_stack) \in Nat
      /\ context_stack # <<>> /\ Top.current_step = <<>> /\ new_context
      /\ Len(context_stack) >= Len(frames)
      /\ opened \in Nat /\ stage = "trapped" /\ stage' = "ready" /\ opened' = opened + 1
      /\ UNCHANGED <<scenario, frames, storage, used, others, ops, executed>>
  BY <1>a, <1>b, <1>c
<1>2. /\ odd' \subseteq {"NoCode", "Precompile", "OutOfGas", "Nested"}
      /\ ~(odd' \subseteq {"Nested"})
  <2>1. PICK kind \in {"NoCode", "Precompile"} : odd' = odd \cup {kind}
    BY DEF Odd, EnterNoCode, EnterPrecompile
  <2> QED
    BY <2>1 DEF ControlInv, TypeOK
<1>3. /\ context_stack' \in Seq(ContextType)
      /\ Len(context_stack') >= Len(context_stack) - 1
      /\ return_value' \in Nat
      /\ UNCHANGED <<disable_storage, new_context, final_gas, step_logs>>
  <2>1. CASE EnterNoCode
    <3>1. /\ step_logs' = LoggedStep /\ context_stack' = ExitedStack(TRUE)
          /\ return_value' \in {opened + 1, return_value}
          /\ UNCHANGED <<disable_storage, new_context, final_gas>>
      BY <1>1, <2>1 DEF EnterNoCode, StepResultExit
    <3>2. LoggedStep = step_logs
      BY <1>1, LogEffect DEF ControlInv
    <3>3. context_stack' \in Seq(ContextType) /\ Len(context_stack') = Len(context_stack) - 1
      BY <1>1, <3>1, ExitEffect DEF ControlInv
    <3>4. return_value' \in Nat
      BY <1>1, <3>1 DEF ControlInv, TypeOK
    <3>5. UNCHANGED <<disable_storage, new_context, final_gas, step_logs>>
      BY <3>1, <3>2
    <3> QED
      BY <1>b, <3>3, <3>4, <3>5
  <2>2. CASE EnterPrecompile
    BY <1>1, <2>2 DEF EnterPrecompile, listenerVars, ControlInv, TypeOK
  <2> QED
    BY <2>1, <2>2
<1>4. TypeOK'
  BY <1>1, <1>2, <1>3 DEF ControlInv, TypeOK, Stages
<1>5. FramesInv' /\ DepthInv' /\ ExactInv' /\ EveryOpcodeLogged'
  <2>1. Len(context_stack') \in Nat
    BY <1>3
  <2> QED
    BY <1>1, <1>2, <1>3, <2>1
       DEF ControlInv, FramesInv, DepthInv, ExactInv, EveryOpcodeLogged, InStep
<1> QED
  BY <1>4, <1>5 DEF ControlInv

LEMMA ControlExit ==
    ASSUME ControlInv, EmitExit
    PROVE  ControlInv'
<1>1. PICK success \in BOOLEAN : StepResultExit(success, Current.id) /\ CloseFrame(success)
  BY DEF EmitExit
<1>2. /\ stage = "charged" /\ executed' = Completed
      /\ UNCHANGED <<scenario, odd, used, opened, others, ops>>
  BY DEF EmitExit
<1>3. step_logs' = LoggedStep /\ UNCHANGED <<disable_storage, new_context, final_gas>>
  BY <1>1 DEF StepResultExit
<1>4. /\ EveryOpcodeLogged'
      /\ step_logs' \in Seq(LogType) /\ executed' \in Seq(LogType)
      /\ Len(frames) >= 1 /\ context_stack # <<>>
  BY <1>2, <1>3, ResultEffect
<1>5. /\ context_stack' = ExitedStack(success)
      /\ return_value' = IF Len(context_stack) = 1 THEN Current.id ELSE return_value
  BY <1>1, <1>4 DEF StepResultExit, Depth
<1>6. /\ context_stack' \in Seq(ContextType)
      /\ Len(context_stack') = Len(context_stack) - 1
  BY <1>4, <1>5, ExitEffect DEF ControlInv
<1>7. /\ frames' \in Seq(FrameType)
      /\ Len(frames') = Len(frames) - 1
      /\ \A i \in 1..(Len(frames) - 1) : frames'[i] = frames[i]
      /\ storage' \in StorageType
      /\ stage' = IF Len(frames) = 1 THEN "closed" ELSE "ready"
  BY <1>1, <1>4, ClosedFrames DEF ControlInv
<1>8. /\ Current.id \in Nat /\ Len(frames) \in Nat /\ Len(context_stack) \in Nat
      /\ Len(frames) = 1 => Current.id = 1
  <2>1. frames # <<>>
    BY <1>4
  <2> QED
    BY <1>4, <2>1, CurrentIs DEF ControlInv, TypeOK, FramesInv, Current
<1>9. TypeOK'
  BY <1>2, <1>3, <1>4, <1>5, <1>6, <1>7, <1>8 DEF ControlInv, TypeOK, Stages
<1>10. FramesInv'
  <2>1. frames' # <<>> => Len(frames) # 1
    BY <1>7, <1>8
  <2>2. frames # <<>>
    BY <1>4
  <2> QED
    BY <1>2, <1>4, <1>7, <1>8, <2>1, <2>2 DEF ControlInv, FramesInv
<1>11. DepthInv'
  BY <1>2, <1>3, <1>4, <1>6, <1>7, <1>8 DEF ControlInv, DepthInv, InStep
<1>12. ExactInv'
  BY <1>2, <1>3, <1>4, <1>5, <1>6, <1>7, <1>8, SMTT(30) DEF ControlInv, ExactInv, DepthInv, InStep
<1> QED
  BY <1>4, <1>9, <1>10, <1>11, <1>12 DEF ControlInv

LEMMA ControlNext == ControlInv /\ [Next]_vars => ControlInv'
<1> SUFFICES ASSUME ControlInv, [Next]_vars PROVE ControlInv'
  OBVIOUS
<1>1. CASE UNCHANGED vars
  BY <1>1, ZenonT(40) DEF vars, listenerVars, evmVars, ControlInv, TypeOK, FramesInv, DepthInv, ExactInv,
              EveryOpcodeLogged, InStep, Top, Depth
<1>2. CASE Next
  BY <1>2, ControlBefore, ControlRecord, ControlStep, ControlCost, ControlAccess,
     ControlResult, ControlOutOfGas, ControlEnterFrame, ControlEnterOther, ControlExit DEF Next
<1> QED
  BY <1>1, <1>2

\* No completed opcode is missing from the log of debug_traceTransaction, none
\* appears twice or out of order, and each has its own gas (raw.rs, StepResult),
\* whatever events the EVM leaves out and however many frames there are.
THEOREM OpcodesCorrect == Spec => []EveryOpcodeLogged
<1>1. Init => ControlInv
  BY InitControl
<1>2. ControlInv /\ [Next]_vars => ControlInv'
  BY ControlNext
<1>3. ControlInv => EveryOpcodeLogged
  BY DEF ControlInv
<1> QED
  BY <1>1, <1>2, <1>3, PTL DEF Spec

-----------------------------------------------------------------------------
(***************************************************************************)
(* The storage that the listener shows.                                    *)
(***************************************************************************)
Open == stage \notin {"before", "not_found", "closed"}

\* What the listener knows of the open frames does not change.
SameView ==
    \A i \in 1..Len(frames) :
        /\ i <= Len(context_stack') => context_stack'[i].address = Address(i)
        /\ CacheOf(i)' = CacheOf(i)
        /\ ChangesOf(i)' = ChangesOf(i)

LEMMA FrameFields ==
    ASSUME TypeOK, NEW i \in 1..Len(frames)
    PROVE  /\ frames[i].address \in Addresses
           /\ frames[i].saved \in StorageType
           /\ frames[i].tracked \subseteq Keys
<1>1. frames[i] \in FrameType
  BY DEF TypeOK
<1> QED
  BY <1>1 DEF FrameType

\* ChangesInv depends on the frame, what it sees and what is known of it.
LEMMA ChangesKept ==
    ASSUME NEW i \in Nat, i >= 1, ChangesInv(i), frames'[i] = frames[i], Seen(i)' = Seen(i),
           ChangesOf(i)' = ChangesOf(i), \A j \in 1..i : Address(j)' = Address(j)
    PROVE  ChangesInv(i)'
<1>0. i \in 1..i /\ \A j \in 1..(i - 1) : j \in 1..i
  OBVIOUS
<1>1. ASSUME NEW j \in 1..(i - 1), NEW k \in Keys
      PROVE  IF Address(j)' = Address(i)'
             THEN k \notin frames'[i].tracked =>
                    Seen(i)'[Address(j)'][k] = frames'[i].saved[Address(j)'][k]
             ELSE Seen(i)'[Address(j)'][k] =
                    Effective(ChangesOf(i)', frames'[i].saved, Address(j)', k)
  <2>1. IF Address(j) = Address(i)
        THEN k \notin frames[i].tracked =>
               Seen(i)[Address(j)][k] = frames[i].saved[Address(j)][k]
        ELSE Seen(i)[Address(j)][k] =
               Effective(ChangesOf(i), frames[i].saved, Address(j), k)
    BY <1>1 DEF ChangesInv
  <2> QED
    BY <1>0, <1>1, <2>1
<1>2. \A a \in DOMAIN ChangesOf(i)' :
         /\ a # Address(i)'
         /\ \A j, l \in 1..i : Address(j)' = a /\ Address(l)' = a => j = l
  BY <1>0 DEF ChangesInv
<1> QED
  BY <1>1, <1>2 DEF ChangesInv, Effective

LEMMA ViewKept ==
    ASSUME TypeOK, StorageInv, odd = {}, ~disable_storage, Open, SameView,
           UNCHANGED <<frames, storage>>
    PROVE  StorageInv'
<1>1. AtMostTwice /\ \A i \in 1..Len(frames) : CacheInv(i) /\ ChangesInv(i)
  BY DEF StorageInv, Open
<1>2. AtMostTwice'
  BY <1>1 DEF AtMostTwice, Address
<1>3. ASSUME NEW i \in 1..Len(frames) PROVE CacheInv(i)' /\ ChangesInv(i)'
  <2>1. /\ i <= Len(context_stack') => context_stack'[i].address = Address(i)
        /\ CacheOf(i)' = CacheOf(i)
        /\ ChangesOf(i)' = ChangesOf(i)
    BY <1>3 DEF SameView
  <2>2. Seen(i)' = Seen(i) /\ \A j : Address(j)' = Address(j)
    BY DEF Seen, Address
  <2>3. CacheInv(i)'
    BY <1>1, <1>3, <2>1, <2>2 DEF CacheInv
  <2>4. ChangesInv(i)'
    BY <1>1, <1>3, <2>1, <2>2, ChangesKept
  <2> QED
    BY <2>3, <2>4
<1> QED
  BY <1>2, <1>3 DEF StorageInv

LEMMA SameContextsView ==
    ASSUME TypeOK, StorageInv, odd = {}, ~disable_storage, Open, SameContexts
    PROVE  SameView
<1>1. \A i \in 1..Len(frames) : CacheInv(i)
  BY DEF StorageInv, Open
<1>2. ASSUME NEW i \in 1..Len(frames)
      PROVE  /\ i <= Len(context_stack') => context_stack'[i].address = Address(i)
             /\ CacheOf(i)' = CacheOf(i)
             /\ ChangesOf(i)' = ChangesOf(i)
  <2>1. Len(context_stack) \in Nat /\ (i <= Len(context_stack) => i \in 1..Len(context_stack))
    BY <1>2 DEF TypeOK
  <2> QED
    BY <1>1, <1>2, <2>1 DEF SameContexts, CacheInv, CacheOf, ChangesOf
<1> QED
  BY <1>2 DEF SameView

LEMMA StorageRecord ==
    ASSUME ControlInv, EmitRecordTransaction
    PROVE  StorageInv'
<1>1. /\ Frame(Root) \in FrameType /\ Frame(Root).address = Root
      /\ Frame(Root).saved = storage /\ Frame(Root).tracked = {}
  BY FrameIs DEF ControlInv
<1>2. /\ frames' = <<Frame(Root)>> /\ storage' = storage /\ context_stack' = <<>>
  BY DEF ControlInv, FramesInv, EmitRecordTransaction, RecordTransaction
<1>3. Len(frames') = 1 /\ frames'[1] = Frame(Root) /\ Len(context_stack') = 0
  BY <1>2
<1>4. AtMostTwice'
  BY <1>3 DEF AtMostTwice
<1>5. CacheInv(1)' /\ ChangesInv(1)'
  BY <1>1, <1>3, EmptyType DEF CacheInv, ChangesInv, CacheOf, ChangesOf, Effective
<1> QED
  BY <1>3, <1>4, <1>5 DEF StorageInv

LEMMA StorageStep ==
    ASSUME ControlInv, StorageInv, EmitStep
    PROVE  StorageInv'
<1>a. /\ stage = "ready" /\ RuntimeStep(Current.address, ops + 1)
      /\ UNCHANGED <<odd, frames, storage>> /\ UNCHANGED disable_storage
  BY DEF EmitStep, RuntimeStep
<1> SUFFICES ASSUME odd = {}, ~disable_storage PROVE StorageInv'
  BY <1>a DEF StorageInv
<1>1. Len(frames) >= 1 /\ Len(frames) \in Nat /\ Len(context_stack) \in Nat
  BY <1>a DEF ControlInv, TypeOK, FramesInv
<1>2. Len(context_stack) + (IF new_context THEN 1 ELSE 0) = Len(frames)
  BY <1>a DEF ControlInv, ExactInv
<1>3. ops + 1 \in Nat /\ Current.address \in Addresses
  BY <1>1, CurrentIs DEF ControlInv, TypeOK
<1>4. new_context \/ context_stack # <<>>
  BY <1>1, <1>2
<1>5. /\ Len(context_stack') = Len(context_stack) + IF new_context THEN 1 ELSE 0
      /\ \A i \in 1..Len(context_stack) :
            /\ context_stack'[i].address = context_stack[i].address
            /\ context_stack'[i].storage_cache = context_stack[i].storage_cache
            /\ context_stack'[i].global_storage_changes =
                 context_stack[i].global_storage_changes
      /\ new_context =>
           /\ Top'.address = Current.address
           /\ Top'.storage_cache = Empty
           /\ Top'.global_storage_changes = Empty
  BY <1>a, <1>3, <1>4, RuntimeStepEffect DEF ControlInv
<1>6. Top' = context_stack'[Len(frames)] /\ Current = frames[Len(frames)]
  BY <1>2, <1>5 DEF Top, Depth, Current
<1>7. SameView
  <2>1. \A i \in 1..Len(frames) : CacheInv(i)
    BY <1>a DEF StorageInv
  <2>2. ASSUME NEW i \in 1..Len(frames)
        PROVE  /\ i <= Len(context_stack') => context_stack'[i].address = Address(i)
               /\ CacheOf(i)' = CacheOf(i)
               /\ ChangesOf(i)' = ChangesOf(i)
    <3>1. CASE i <= Len(context_stack)
      <4>1. i \in 1..Len(context_stack) /\ i <= Len(context_stack')
        BY <1>1, <1>5, <2>2, <3>1
      <4> QED
        BY <1>5, <2>1, <2>2, <3>1, <4>1 DEF CacheInv, CacheOf, ChangesOf
    <3>2. CASE ~(i <= Len(context_stack))
      <4>1. i = Len(frames) /\ new_context /\ i = Len(context_stack')
        BY <1>1, <1>2, <1>5, <2>2, <3>2
      <4> QED
        BY <1>5, <1>6, <3>2, <4>1 DEF Address, CacheOf, ChangesOf
    <3> QED
      BY <3>1, <3>2
  <2> QED
    BY <2>2 DEF SameView
<1> QED
  BY <1>a, <1>7, ViewKept DEF ControlInv, Open

LEMMA StorageCost ==
    ASSUME ControlInv, StorageInv, EmitCost \/ EmitOtherCost
    PROVE  StorageInv'
<1>1. used + 1 \in Nat /\ RecordCost(used + 1)
  BY DEF ControlInv, TypeOK, EmitCost, EmitOtherCost
<1>2. /\ UNCHANGED <<odd, frames, storage>> /\ UNCHANGED disable_storage
      /\ stage \in {"stepped", "ready"}
  BY DEF EmitCost, EmitOtherCost, RecordCost
<1>3. SameContexts
  BY <1>1, CostEffect DEF ControlInv
<1>4. CASE odd = {} /\ ~disable_storage
  BY <1>2, <1>3, <1>4, SameContextsView, ViewKept DEF ControlInv, Open
<1>5. CASE ~(odd = {} /\ ~disable_storage)
  BY <1>2, <1>5 DEF StorageInv
<1> QED
  BY <1>4, <1>5

LEMMA StorageResult ==
    ASSUME ControlInv, StorageInv, EmitResult \/ EmitTrap
    PROVE  StorageInv'
<1>1. PICK opens \in BOOLEAN : StepResultTrap(opens)
  BY DEF EmitResult, EmitTrap
<1>2. /\ UNCHANGED <<odd, frames, storage>> /\ UNCHANGED disable_storage
      /\ stage \in {"charged", "accessed"} /\ context_stack' = StepTaken
  BY <1>1 DEF EmitResult, EmitTrap, StepResultTrap
<1>3. SameContexts
  BY <1>2, TakenEffect DEF ControlInv
<1>4. CASE odd = {} /\ ~disable_storage
  BY <1>2, <1>3, <1>4, SameContextsView, ViewKept DEF ControlInv, Open
<1>5. CASE ~(odd = {} /\ ~disable_storage)
  BY <1>2, <1>5 DEF StorageInv
<1> QED
  BY <1>4, <1>5

LEMMA StorageAccessed ==
    ASSUME ControlInv, StorageInv, EmitStorage
    PROVE  StorageInv'
<1>1. Len(frames) >= 1 /\ Len(frames) \in Nat /\ Current \in FrameType
      /\ Current.address \in Addresses /\ stage = "charged" /\ odd' = odd
  BY CurrentIs DEF ControlInv, TypeOK, FramesInv, EmitStorage
<1>a. PICK key \in Keys :
          \E value \in Values \cup {storage[Current.address][key]} :
             /\ storage' = [storage EXCEPT ![Current.address][key] = value]
             /\ frames' = [frames EXCEPT ![Len(frames)].tracked = @ \cup {key}]
             /\ StorageAccess(key, value)
  BY DEF EmitStorage
<1>2. PICK value \in Values \cup {storage[Current.address][key]} :
          /\ storage' = [storage EXCEPT ![Current.address][key] = value]
          /\ frames' = [frames EXCEPT ![Len(frames)].tracked = @ \cup {key}]
          /\ StorageAccess(key, value)
  BY <1>a
<1>b. disable_storage' = disable_storage
  BY <1>2 DEF StorageAccess
<1> SUFFICES ASSUME odd = {}, ~disable_storage PROVE StorageInv'
  BY <1>1, <1>b DEF StorageInv
<1>3. value \in Val
  BY <1>1 DEF ControlInv, TypeOK, StorageType, Val
<1>4. PICK n \in Nat : n = Len(frames) /\ n >= 1
  BY <1>1
<1>5. /\ storage'[frames[n].address][key] = value
      /\ \A a \in Addresses : \A k \in Keys :
            a # frames[n].address \/ k # key => storage'[a][k] = storage[a][k]
  BY <1>1, <1>2, <1>4 DEF Current, ControlInv, TypeOK, StorageType
<1>6. /\ Len(frames') = n
      /\ \A i \in 1..n : /\ frames'[i].address = frames[i].address
                         /\ frames'[i].saved = frames[i].saved
                         /\ frames'[i].tracked =
                              IF i = n THEN frames[i].tracked \cup {key} ELSE frames[i].tracked
  <2> DEFINE f == [Current EXCEPT !.tracked = @ \cup {key}]
  <2>1. /\ f \in FrameType /\ f.address = Current.address /\ f.saved = Current.saved
        /\ f.tracked = Current.tracked \cup {key}
    BY <1>1 DEF FrameType
  <2>2. frames' = [frames EXCEPT ![n] = f] /\ Current = frames[n]
    BY <1>2, <1>4 DEF Current
  <2>3. frames \in Seq(FrameType) /\ n \in 1..Len(frames)
    BY <1>4 DEF ControlInv, TypeOK
  <2> HIDE DEF f
  <2>4. /\ Len(frames') = n /\ frames'[n] = f
        /\ \A i \in 1..n : i # n => frames'[i] = frames[i]
    BY <1>4, <2>1, <2>2, <2>3
  <2>5. ASSUME NEW i \in 1..n
        PROVE  /\ frames'[i].address = frames[i].address
               /\ frames'[i].saved = frames[i].saved
               /\ frames'[i].tracked =
                    IF i = n THEN frames[i].tracked \cup {key} ELSE frames[i].tracked
    <3>1. CASE i = n
      BY <2>1, <2>2, <2>4, <3>1
    <3>2. CASE i # n
      BY <2>4, <2>5, <3>2
    <3> QED
      BY <3>1, <3>2
  <2> QED
    BY <2>4, <2>5
<1>7. Len(context_stack) = n
  BY <1>1, <1>4 DEF ControlInv, ExactInv, InStep
<1>8. /\ Len(context_stack') = n
      /\ \A i \in 1..n :
            /\ context_stack'[i].address = context_stack[i].address
            /\ context_stack'[i].global_storage_changes =
                 context_stack[i].global_storage_changes
            /\ context_stack'[i].storage_cache =
                 IF i = n
                 THEN Updated(context_stack[i].storage_cache, [k \in {key} |-> value])
                 ELSE context_stack[i].storage_cache
  BY <1>2, <1>3, <1>7, AccessEffect DEF ControlInv
<1>9. /\ AtMostTwice
      /\ \A i \in 1..n : CacheInv(i) /\ ChangesInv(i)
  BY <1>1, <1>4 DEF StorageInv
<1>c. \A i \in 1..n : Address(i)' = Address(i)
  BY <1>6 DEF Address
<1>10. AtMostTwice'
  BY <1>4, <1>6, <1>9, <1>c DEF AtMostTwice
<1>11. \A i \in 1..n : frames[i].address \in Addresses /\ frames[i].tracked \subseteq Keys
  BY <1>4, FrameFields DEF ControlInv
<1>12. \A i \in 1..n : \A j \in 1..i : j \in 1..n
  OBVIOUS
<1>13. \A i \in 1..n : CacheInv(i)'
  <2>1. ASSUME NEW i \in 1..n PROVE CacheInv(i)'
    <3>1. CacheInv(i) /\ Seen(i) = IF i = n THEN storage ELSE frames[i + 1].saved
      BY <1>4, <1>9, <2>1 DEF Seen
    <3>2. CASE i # n
      <4>1. i + 1 \in 1..n
        BY <2>1, <3>2
      <4>2. Seen(i)' = Seen(i)
        BY <1>4, <1>6, <3>2, <4>1 DEF Seen
      <4> QED
        BY <1>6, <1>7, <1>8, <2>1, <3>1, <3>2, <4>2 DEF CacheInv, CacheOf, Address
    <3>3. CASE i = n
      <4> DEFINE u == Updated(context_stack[n].storage_cache, [k \in {key} |-> value])
      <4>1. /\ DOMAIN u = DOMAIN context_stack[n].storage_cache \cup {key}
            /\ u[key] = value
            /\ \A k \in DOMAIN context_stack[n].storage_cache :
                 k # key => u[k] = context_stack[n].storage_cache[k]
        BY DEF Updated
      <4>2. CacheOf(n)' = u /\ CacheOf(n) = context_stack[n].storage_cache
        BY <1>4, <1>7, <1>8 DEF CacheOf
      <4> HIDE DEF u
      <4>3. Seen(n)' = storage' /\ Seen(n) = storage
        BY <1>4, <1>6 DEF Seen
      <4>4. /\ DOMAIN CacheOf(n) = frames[n].tracked
            /\ \A k \in frames[n].tracked : CacheOf(n)[k] = storage[frames[n].address][k]
            /\ context_stack[n].address = frames[n].address
        BY <1>7, <3>1, <3>3, <4>3 DEF CacheInv, Address
      <4>5. \A k \in frames[n].tracked \cup {key} : u[k] = storage'[frames[n].address][k]
        <5>1. PICK a, keys : a = frames[n].address /\ keys = frames[n].tracked
          OBVIOUS
        <5>2. a \in Addresses /\ keys \subseteq Keys
          <6>1. n \in 1..n
            BY <1>4
          <6> QED
            BY <1>11, <5>1, <6>1
        <5>3. storage'[a][key] = value /\ \A k \in keys : k # key => storage'[a][k] = storage[a][k]
          BY <1>5, <5>1, <5>2
        <5>4. \A k \in keys : k # key => u[k] = storage[a][k]
          BY <4>1, <4>2, <4>4, <5>1
        <5> QED
          BY <4>1, <5>1, <5>3, <5>4
      <4> QED
        BY <1>4, <1>6, <1>8, <3>3, <4>1, <4>2, <4>3, <4>4, <4>5, ZenonT(40) DEF CacheInv, Address
    <3> QED
      BY <3>2, <3>3
  <2> QED
    BY <2>1
<1>14. \A i \in 1..n : ChangesInv(i)'
  <2>1. ASSUME NEW i \in 1..n PROVE ChangesInv(i)'
    <3>0. ChangesInv(i)
      BY <1>9
    <3>1. ChangesOf(i)' = ChangesOf(i)
      BY <1>7, <1>8 DEF ChangesOf
    <3>2. \A j \in 1..i : Address(j)' = Address(j) /\ Address(j) \in Addresses
      BY <1>6, <1>11, <1>12 DEF Address
    <3>3. ASSUME NEW j \in 1..(i - 1), NEW k \in Keys
          PROVE  IF Address(j)' = Address(i)'
                 THEN k \notin frames'[i].tracked =>
                        Seen(i)'[Address(j)'][k] = frames'[i].saved[Address(j)'][k]
                 ELSE Seen(i)'[Address(j)'][k] =
                        Effective(ChangesOf(i)', frames'[i].saved, Address(j)', k)
      <4>1. j \in 1..i /\ i \in 1..i
        BY <2>1, <3>3
      <4>2. /\ Address(j) = Address(i) /\ k \notin frames'[i].tracked =>
                 Seen(i)'[Address(j)][k] = Seen(i)[Address(j)][k]
            /\ Address(j) # Address(i) => Seen(i)'[Address(j)][k] = Seen(i)[Address(j)][k]
        <5>1. CASE i # n
          <6>1. i + 1 \in 1..n
            BY <2>1, <5>1
          <6> QED
            BY <1>4, <1>6, <5>1, <6>1 DEF Seen
        <5>2. CASE i = n
          BY <1>4, <1>5, <1>6, <3>2, <4>1, <5>2 DEF Seen, Address
        <5> QED
          BY <5>1, <5>2
      <4>3. frames'[i].saved = frames[i].saved /\ frames[i].tracked \subseteq frames'[i].tracked
        BY <1>6, <2>1
      <4>4. IF Address(j) = Address(i)
            THEN k \notin frames[i].tracked =>
                   Seen(i)[Address(j)][k] = frames[i].saved[Address(j)][k]
            ELSE Seen(i)[Address(j)][k] =
                   Effective(ChangesOf(i), frames[i].saved, Address(j), k)
        BY <3>0, <3>3 DEF ChangesInv
      <4> QED
        BY <3>1, <3>2, <4>1, <4>2, <4>3, <4>4 DEF Effective
    <3>4. \A a \in DOMAIN ChangesOf(i)' :
             /\ a # Address(i)'
             /\ \A j, l \in 1..i : Address(j)' = a /\ Address(l)' = a => j = l
      <4>1. i \in 1..i
        OBVIOUS
      <4> QED
        BY <3>0, <3>1, <3>2, <4>1 DEF ChangesInv
    <3> QED
      BY <3>3, <3>4 DEF ChangesInv, Effective
  <2> QED
    BY <2>1
<1> QED
  BY <1>6, <1>10, <1>13, <1>14 DEF StorageInv

\* A new frame starts from the storage that its parent sees.
LEMMA StorageEnter ==
    ASSUME ControlInv, StorageInv, EnterFrame
    PROVE  StorageInv'
<1>1. PICK a \in Addresses :
          /\ IF RunsTwice(a) THEN Odd("Nested") ELSE UNCHANGED odd
          /\ frames' = Append(frames, Frame(a))
  BY DEF EnterFrame
<1>2. /\ stage = "trapped" /\ UNCHANGED <<storage, context_stack, disable_storage>>
  BY DEF EnterFrame, listenerVars
<1> SUFFICES ASSUME odd' = {}, ~disable_storage PROVE StorageInv'
  BY <1>2 DEF StorageInv
<1>3. odd = {} /\ ~RunsTwice(a)
  BY <1>1 DEF Odd
<1>4. PICK n \in Nat : n = Len(frames) /\ n >= 1
  BY <1>2 DEF ControlInv, TypeOK, FramesInv
<1>5. Len(context_stack) = n
  BY <1>2, <1>3, <1>4 DEF ControlInv, ExactInv
<1>6. /\ AtMostTwice
      /\ \A i \in 1..n : CacheInv(i) /\ ChangesInv(i)
  BY <1>2, <1>3, <1>4 DEF StorageInv
<1>7. /\ Len(frames') = n + 1
      /\ \A i \in 1..n : frames'[i] = frames[i]
      /\ frames'[n + 1] = Frame(a)
  BY <1>1, <1>4 DEF ControlInv, TypeOK
<1>8. /\ Frame(a).address = a /\ Frame(a).saved = storage /\ Frame(a).tracked = {}
  BY FrameIs DEF ControlInv
<1>9. /\ \A i \in 1..n : Address(i)' = Address(i)
      /\ Address(n + 1)' = a
  BY <1>7, <1>8 DEF Address
<1>10. /\ \A i \in 1..n : Seen(i)' = Seen(i)
       /\ Seen(n + 1)' = storage
  <2>1. ASSUME NEW i \in 1..n PROVE Seen(i)' = Seen(i)
    <3>1. CASE i = n
      BY <1>2, <1>4, <1>7, <1>8, <3>1 DEF Seen
    <3>2. CASE i # n
      <4>1. i + 1 \in 1..n /\ i # n + 1
        BY <2>1, <3>2
      <4> QED
        BY <1>4, <1>7, <3>2, <4>1 DEF Seen
    <3> QED
      BY <3>1, <3>2
  <2>2. Seen(n + 1)' = storage
    BY <1>2, <1>7 DEF Seen
  <2> QED
    BY <2>1, <2>2
<1>11. AtMostTwice'
  <2> SUFFICES ASSUME NEW i \in 1..(n + 1), NEW j \in 1..(n + 1), NEW l \in 1..(n + 1),
                      Address(i)' = Address(j)', Address(j)' = Address(l)'
               PROVE  i = j \/ j = l \/ i = l
    BY <1>7 DEF AtMostTwice
  <2>1. \A x \in 1..(n + 1) : x \in 1..n \/ x = n + 1
    BY <1>4
  <2>2. \A x, y \in 1..n : Address(x) = a /\ Address(y) = a => x = y
    BY <1>3, <1>4 DEF RunsTwice, Address
  <2>3. \A x, y, z \in 1..n :
          Address(x) = Address(y) /\ Address(y) = Address(z) => x = y \/ y = z \/ x = z
    BY <1>4, <1>6 DEF AtMostTwice
  <2> QED
    BY <1>9, <2>1, <2>2, <2>3
<1>12. /\ \A i \in 1..n : CacheOf(i)' = CacheOf(i) /\ ChangesOf(i)' = ChangesOf(i)
       /\ CacheOf(n + 1)' = Empty /\ ChangesOf(n + 1)' = Empty
  BY <1>2, <1>4, <1>5 DEF CacheOf, ChangesOf
<1>13. CacheInv(n + 1)'
  BY <1>2, <1>4, <1>5, <1>7, <1>8, <1>12, EmptyType DEF CacheInv
<1>14. ChangesInv(n + 1)'
  <2>1. \A x \in DOMAIN ChangesOf(n + 1)' : FALSE
    BY <1>12, EmptyType
  <2>2. ASSUME NEW j \in 1..n, NEW k \in Keys
        PROVE  /\ Seen(n + 1)'[Address(j)'][k] = frames'[n + 1].saved[Address(j)'][k]
               /\ Effective(ChangesOf(n + 1)', frames'[n + 1].saved, Address(j)', k) =
                    frames'[n + 1].saved[Address(j)'][k]
    BY <1>7, <1>8, <1>10, <2>1 DEF Effective
  <2>3. 1..(n + 1 - 1) = 1..n
    BY <1>4
  <2> QED
    BY <2>1, <2>2, <2>3 DEF ChangesInv, Effective
<1>15. ASSUME NEW i \in 1..n PROVE CacheInv(i)' /\ ChangesInv(i)'
  <2>1. CacheInv(i) /\ ChangesInv(i)
    BY <1>6, <1>15
  <2>2. \A j \in 1..i : j \in 1..n
    BY <1>15
  <2>3. frames'[i] = frames[i] /\ Seen(i)' = Seen(i) /\ CacheOf(i)' = CacheOf(i)
        /\ ChangesOf(i)' = ChangesOf(i) /\ (\A j \in 1..i : Address(j)' = Address(j))
        /\ i \in 1..i
    BY <1>7, <1>9, <1>10, <1>12, <1>15, <2>2
  <2>4. CacheInv(i)'
    BY <1>2, <2>1, <2>3 DEF CacheInv
  <2>5. ChangesInv(i)'
    BY <2>1, <2>3, ChangesKept
  <2> QED
    BY <2>4, <2>5
<1>16. \A i \in 1..(n + 1) : i \in 1..n \/ i = n + 1
  BY <1>4
<1> QED
  BY <1>7, <1>11, <1>13, <1>14, <1>15, <1>16 DEF StorageInv

(***************************************************************************)
(* A frame n that ends with success hands its changes to its parent: what  *)
(* the parent then knows is right for itself and for the frames above it.  *)
(* Here cp and gp are the parent's cache and changes, cn and gn those of   *)
(* frame n, and g the parent's changes afterwards.                         *)
(***************************************************************************)
LEMMA HandedOn ==
    ASSUME ControlInv, NEW n \in Nat, n >= 2, n = Len(frames), n = Len(context_stack),
           AtMostTwice, CacheInv(n), ChangesInv(n), CacheInv(n - 1), ChangesInv(n - 1),
           NEW m \in ContextType, NEW c \in ContextType,
           c.address = Top.address, c.storage_cache = Top.storage_cache,
           c.global_storage_changes = Top.global_storage_changes,
           m = Merged(context_stack[n - 1], c)
    PROVE  /\ m.address = Address(n - 1)
           /\ DOMAIN m.storage_cache = frames[n - 1].tracked
           /\ \A k \in frames[n - 1].tracked : m.storage_cache[k] = storage[Address(n - 1)][k]
           /\ \A a \in DOMAIN m.global_storage_changes :
                /\ a # Address(n - 1)
                /\ \A j, l \in 1..(n - 1) : Address(j) = a /\ Address(l) = a => j = l
           /\ \A j \in 1..(n - 2) : \A k \in Keys :
                IF Address(j) = Address(n - 1)
                THEN k \notin frames[n - 1].tracked =>
                       storage[Address(j)][k] = frames[n - 1].saved[Address(j)][k]
                ELSE storage[Address(j)][k] =
                       Effective(m.global_storage_changes, frames[n - 1].saved, Address(j), k)
<1>1. PICK p \in ContextType : p = context_stack[n - 1]
  BY DEF ControlInv, TypeOK
<1>2. PICK A : A = Address(n - 1)
  OBVIOUS
<1>3. PICK B : B = Address(n)
  OBVIOUS
<1>4. /\ p.address = A /\ p.storage_cache = CacheOf(n - 1)
      /\ p.global_storage_changes = ChangesOf(n - 1)
      /\ c.address = B /\ c.storage_cache = CacheOf(n)
      /\ c.global_storage_changes = ChangesOf(n)
  BY <1>1, <1>2, <1>3 DEF CacheInv, CacheOf, ChangesOf, Top, Depth
<1>5. PICK old : old = frames[n].saved
  OBVIOUS
<1>6. Seen(n) = storage /\ Seen(n - 1) = old
  BY <1>5 DEF Seen
<1>7. n \in 1..n /\ n - 1 \in 1..n /\ n - 1 \in 1..(n - 1) /\ (\A j \in 1..(n - 2) : j \in 1..(n - 1))
      /\ (\A j \in 1..(n - 1) : j \in 1..n /\ j # n)
      /\ (\A j \in 1..(n - 2) : j # n - 1)
  OBVIOUS
<1>8. frames[n - 1].tracked \subseteq Keys /\ frames[n].tracked \subseteq Keys
  BY <1>7, FrameFields DEF ControlInv
\* what is known of frame n
<1>9. /\ DOMAIN c.storage_cache = frames[n].tracked
      /\ \A k \in frames[n].tracked : c.storage_cache[k] = storage[B][k]
  BY <1>3, <1>4, <1>6 DEF CacheInv
<1>10. \A a \in DOMAIN c.global_storage_changes :
         /\ a # B
         /\ \A j, l \in 1..n : Address(j) = a /\ Address(l) = a => j = l
  BY <1>3, <1>4 DEF ChangesInv
<1>11. \A j \in 1..(n - 1) : \A k \in Keys :
         IF Address(j) = B
         THEN k \notin frames[n].tracked => storage[Address(j)][k] = old[Address(j)][k]
         ELSE storage[Address(j)][k] =
                Effective(c.global_storage_changes, old, Address(j), k)
  BY <1>3, <1>4, <1>5, <1>6 DEF ChangesInv
\* what is known of its parent
<1>12. /\ DOMAIN p.storage_cache = frames[n - 1].tracked
       /\ \A k \in frames[n - 1].tracked : p.storage_cache[k] = old[A][k]
  BY <1>2, <1>4, <1>6 DEF CacheInv
<1>13. \A a \in DOMAIN p.global_storage_changes :
         /\ a # A
         /\ \A j, l \in 1..(n - 1) : Address(j) = a /\ Address(l) = a => j = l
  BY <1>2, <1>4 DEF ChangesInv
<1>14. \A j \in 1..(n - 2) : \A k \in Keys :
         IF Address(j) = A
         THEN k \notin frames[n - 1].tracked =>
                old[Address(j)][k] = frames[n - 1].saved[Address(j)][k]
         ELSE old[Address(j)][k] =
                Effective(p.global_storage_changes, frames[n - 1].saved, Address(j), k)
  <2>1. n - 1 - 1 = n - 2
    OBVIOUS
  <2> QED
    BY <1>2, <1>4, <1>6, <2>1 DEF ChangesInv
<1>15. /\ m.address = A
       /\ DOMAIN m.storage_cache = DOMAIN p.storage_cache
       /\ \A k \in DOMAIN p.storage_cache :
                m.storage_cache[k] =
                  IF A = B
                  THEN IF k \in DOMAIN c.storage_cache THEN c.storage_cache[k] ELSE p.storage_cache[k]
                  ELSE IF A \in DOMAIN c.global_storage_changes
                       THEN IF k \in DOMAIN c.global_storage_changes[A]
                            THEN c.global_storage_changes[A][k]
                            ELSE p.storage_cache[k]
                       ELSE p.storage_cache[k]
       /\ DOMAIN m.global_storage_changes =
                DOMAIN p.global_storage_changes
                  \cup ((DOMAIN c.global_storage_changes \cup {B}) \ {A})
       /\ \A a \in DOMAIN m.global_storage_changes :
                m.global_storage_changes[a] =
                      IF a # A /\ a = B
                      THEN Updated(IF a \in DOMAIN p.global_storage_changes
                                   THEN p.global_storage_changes[a] ELSE Empty, c.storage_cache)
                      ELSE IF a # A /\ a \in DOMAIN c.global_storage_changes
                      THEN Updated(IF a \in DOMAIN p.global_storage_changes
                                   THEN p.global_storage_changes[a] ELSE Empty,
                                   c.global_storage_changes[a])
                      ELSE p.global_storage_changes[a]
  BY <1>1, <1>4, MergedIs
<1>16. \A k \in frames[n - 1].tracked : m.storage_cache[k] = storage[A][k]
  <2> SUFFICES ASSUME NEW k \in frames[n - 1].tracked PROVE m.storage_cache[k] = storage[A][k]
    OBVIOUS
  <2>1. k \in Keys /\ p.storage_cache[k] = old[A][k] /\ k \in DOMAIN p.storage_cache
    BY <1>8, <1>12
  <2>2. IF A = B
        THEN k \notin frames[n].tracked => storage[A][k] = old[A][k]
        ELSE storage[A][k] = Effective(c.global_storage_changes, old, A, k)
    BY <1>2, <1>7, <1>11, <2>1
  <2>3. CASE A = B
    BY <1>9, <1>15, <2>1, <2>2, <2>3
  <2>4. CASE A # B
    BY <1>15, <2>1, <2>2, <2>4 DEF Effective
  <2> QED
    BY <2>3, <2>4
<1>17. \A j, l \in 1..(n - 1) : Address(j) = B /\ Address(l) = B => j = l
  BY <1>3, <1>7 DEF AtMostTwice
<1>18. ASSUME NEW a \in DOMAIN m.global_storage_changes
       PROVE  /\ a # A
              /\ \A j, l \in 1..(n - 1) : Address(j) = a /\ Address(l) = a => j = l
  <2>1. CASE a \in DOMAIN p.global_storage_changes
    BY <1>13, <2>1
  <2>2. CASE a \notin DOMAIN p.global_storage_changes
    <3>1. a # A /\ (a = B \/ a \in DOMAIN c.global_storage_changes)
      BY <1>15, <1>18, <2>2
    <3> QED
      BY <1>7, <1>10, <1>17, <3>1
  <2> QED
    BY <2>1, <2>2
<1>19. ASSUME NEW j \in 1..(n - 2), NEW k \in Keys
       PROVE  IF Address(j) = A
              THEN k \notin frames[n - 1].tracked =>
                     storage[Address(j)][k] = frames[n - 1].saved[Address(j)][k]
              ELSE storage[Address(j)][k] =
                     Effective(m.global_storage_changes, frames[n - 1].saved, Address(j), k)
  <2>0. j \in 1..(n - 1) /\ j \in 1..n /\ j # n - 1 /\ j # n
    BY <1>7
  <2>1. CASE Address(j) = A
    <3>1. A # B
      BY <1>2, <1>3, <1>7, <2>0, <2>1 DEF AtMostTwice
    <3>2. A \notin DOMAIN c.global_storage_changes
      BY <1>2, <1>7, <1>10, <2>0, <2>1
    <3>3. storage[A][k] = old[A][k]
      BY <1>11, <2>0, <2>1, <3>1, <3>2 DEF Effective
    <3> QED
      BY <1>14, <2>1, <3>3
  <2>2. CASE Address(j) # A
    <3>1. PICK a : a = Address(j)
      OBVIOUS
    <3>2. PICK before : before = frames[n - 1].saved
      OBVIOUS
    <3>3. /\ a # A
          /\ old[a][k] = Effective(p.global_storage_changes, before, a, k)
      BY <1>14, <2>2, <3>1, <3>2
    <3>4. CASE a = B
      <4>1. k \notin frames[n].tracked => storage[a][k] = old[a][k]
        BY <1>11, <2>0, <3>1, <3>4
      <4>2. a \in DOMAIN m.global_storage_changes
        BY <1>15, <3>3, <3>4
      <4>3. PICK f : f = IF a \in DOMAIN p.global_storage_changes
                         THEN p.global_storage_changes[a] ELSE Empty
        OBVIOUS
      <4>4. m.global_storage_changes[a] = Updated(f, c.storage_cache)
        BY <1>15, <3>3, <3>4, <4>2, <4>3
      <4>5. /\ k \in frames[n].tracked => m.global_storage_changes[a][k] = storage[a][k]
            /\ k \in DOMAIN f /\ k \notin frames[n].tracked =>
                 m.global_storage_changes[a][k] = f[k]
            /\ k \in DOMAIN m.global_storage_changes[a] <=>
                 k \in DOMAIN f \/ k \in frames[n].tracked
        <5>1. PICK h : h = c.storage_cache
          OBVIOUS
        <5>2. /\ k \in DOMAIN h => m.global_storage_changes[a][k] = h[k]
              /\ k \in DOMAIN f /\ k \notin DOMAIN h => m.global_storage_changes[a][k] = f[k]
              /\ k \in DOMAIN m.global_storage_changes[a] <=> k \in DOMAIN f \/ k \in DOMAIN h
          <6>1. /\ k \in DOMAIN Updated(f, h) <=> k \in DOMAIN f \/ k \in DOMAIN h
                /\ k \in DOMAIN h => Updated(f, h)[k] = h[k]
                /\ k \in DOMAIN f /\ k \notin DOMAIN h => Updated(f, h)[k] = f[k]
            BY UpdatedAt
          <6> QED
            BY <4>4, <5>1, <6>1
        <5> QED
          BY <1>9, <3>4, <5>1, <5>2
      <4>6. old[a][k] = IF k \in DOMAIN f THEN f[k] ELSE before[a][k]
        BY <3>3, <4>3, EmptyType DEF Effective
      <4> QED
        BY <2>2, <3>1, <3>2, <4>1, <4>2, <4>5, <4>6 DEF Effective
    <3>5. CASE a # B
      <4>1. storage[a][k] = Effective(c.global_storage_changes, old, a, k)
        BY <1>11, <2>0, <3>1, <3>5
      <4>2. CASE a \notin DOMAIN c.global_storage_changes
        <5>1. storage[a][k] = old[a][k]
          BY <4>1, <4>2 DEF Effective
        <5>2. /\ a \in DOMAIN m.global_storage_changes <=> a \in DOMAIN p.global_storage_changes
              /\ a \in DOMAIN p.global_storage_changes =>
                   m.global_storage_changes[a] = p.global_storage_changes[a]
          BY <1>15, <3>5, <4>2
        <5> QED
          BY <2>2, <3>1, <3>2, <3>3, <5>1, <5>2 DEF Effective
      <4>3. CASE a \in DOMAIN c.global_storage_changes
        <5>1. a \in DOMAIN m.global_storage_changes
          BY <1>15, <3>3, <4>3
        <5>2. PICK f : f = IF a \in DOMAIN p.global_storage_changes
                           THEN p.global_storage_changes[a] ELSE Empty
          OBVIOUS
        <5>3. PICK h : h = c.global_storage_changes[a]
          OBVIOUS
        <5>4. m.global_storage_changes[a] = Updated(f, h)
          BY <1>15, <3>3, <3>5, <4>3, <5>1, <5>2, <5>3
        <5>5. /\ k \in DOMAIN h => m.global_storage_changes[a][k] = h[k]
              /\ k \in DOMAIN f /\ k \notin DOMAIN h => m.global_storage_changes[a][k] = f[k]
              /\ k \in DOMAIN m.global_storage_changes[a] <=> k \in DOMAIN f \/ k \in DOMAIN h
          <6>1. /\ k \in DOMAIN Updated(f, h) <=> k \in DOMAIN f \/ k \in DOMAIN h
                /\ k \in DOMAIN h => Updated(f, h)[k] = h[k]
                /\ k \in DOMAIN f /\ k \notin DOMAIN h => Updated(f, h)[k] = f[k]
            BY UpdatedAt
          <6> QED
            BY <5>4, <6>1
        <5>6. old[a][k] = IF k \in DOMAIN f THEN f[k] ELSE before[a][k]
          BY <3>3, <5>2, EmptyType DEF Effective
        <5>7. storage[a][k] = IF k \in DOMAIN h THEN h[k] ELSE old[a][k]
          BY <4>1, <4>3, <5>3 DEF Effective
        <5> QED
          BY <2>2, <3>1, <3>2, <5>1, <5>5, <5>6, <5>7 DEF Effective
      <4> QED
        BY <4>2, <4>3
    <3> QED
      BY <3>4, <3>5
  <2> QED
    BY <2>1, <2>2
<1> QED
  BY <1>2, <1>12, <1>15, <1>16, <1>18, <1>19

\* The frames that remain when one ends are right about what they then see.
LEMMA StorageExit ==
    ASSUME ControlInv, StorageInv, EmitExit
    PROVE  StorageInv'
<1>1. PICK success \in BOOLEAN : StepResultExit(success, Current.id) /\ CloseFrame(success)
  BY DEF EmitExit
<1>2. stage = "charged" /\ odd' = odd /\ disable_storage' = disable_storage
  BY <1>1 DEF EmitExit, StepResultExit
<1>3. PICK n \in Nat : n = Len(frames) /\ n >= 1
  BY <1>2 DEF ControlInv, TypeOK, FramesInv
<1>4. /\ Len(frames') = n - 1
      /\ \A i \in 1..(n - 1) : frames'[i] = frames[i]
      /\ stage' = IF n = 1 THEN "closed" ELSE "ready"
  BY <1>1, <1>3, ClosedFrames DEF ControlInv
<1> SUFFICES ASSUME odd = {}, ~disable_storage, n >= 2 PROVE StorageInv'
  BY <1>2, <1>3, <1>4 DEF StorageInv
<1>5. Len(context_stack) = n /\ context_stack # <<>>
  BY <1>2, <1>3 DEF ControlInv, ExactInv, InStep
<1>6. /\ AtMostTwice
      /\ \A i \in 1..n : CacheInv(i) /\ ChangesInv(i)
  BY <1>2, <1>3 DEF StorageInv
<1>7. context_stack' = ExitedStack(success)
  BY <1>1, <1>5 DEF StepResultExit
<1>8. /\ Len(context_stack') = n - 1
      /\ \A i \in 1..(n - 1) : i # n - 1 => context_stack'[i] = context_stack[i]
      /\ IF success
         THEN \E c \in ContextType :
                 /\ c.address = Top.address
                 /\ c.storage_cache = Top.storage_cache
                 /\ c.global_storage_changes = Top.global_storage_changes
                 /\ context_stack'[n - 1] = Merged(context_stack[n - 1], c)
         ELSE context_stack'[n - 1] = context_stack[n - 1]
  BY <1>5, <1>7, ExitEffect DEF ControlInv
<1>9. \A i \in 1..(n - 1) : Address(i)' = Address(i) /\ i \in 1..n
  BY <1>3, <1>4 DEF Address
<1>10. AtMostTwice'
  BY <1>3, <1>4, <1>6, <1>9 DEF AtMostTwice
<1>11. storage' = IF success THEN storage ELSE frames[n].saved
  BY <1>1, <1>3 DEF CloseFrame, Current
<1>12. Seen(n - 1)' = storage' /\ Seen(n - 1) = frames[n].saved
  BY <1>3, <1>4 DEF Seen
<1>13. ASSUME NEW i \in 1..(n - 1), context_stack'[i] = context_stack[i], Seen(i)' = Seen(i)
       PROVE  CacheInv(i)' /\ ChangesInv(i)'
  <2>1. CacheInv(i) /\ ChangesInv(i) /\ i \in Nat /\ i >= 1 /\ i <= n
    BY <1>6, <1>9, <1>13
  <2>2. frames'[i] = frames[i] /\ Address(i)' = Address(i)
        /\ CacheOf(i)' = CacheOf(i) /\ ChangesOf(i)' = ChangesOf(i)
    BY <1>4, <1>5, <1>8, <1>9, <1>13 DEF CacheOf, ChangesOf
  <2>3. \A j \in 1..i : Address(j)' = Address(j)
    <3>1. \A j \in 1..i : j \in 1..(n - 1)
      BY <1>13
    <3> QED
      BY <1>9, <3>1
  <2>4. CacheInv(i)'
    BY <1>5, <1>13, <2>1, <2>2 DEF CacheInv
  <2>5. ChangesInv(i)'
    BY <1>13, <2>1, <2>2, <2>3, ChangesKept
  <2> QED
    BY <2>4, <2>5
<1>14. ASSUME NEW i \in 1..(n - 1), i # n - 1 PROVE CacheInv(i)' /\ ChangesInv(i)'
  <2>1. i + 1 \in 1..(n - 1) /\ i # n
    BY <1>14
  <2>2. Seen(i)' = Seen(i)
    BY <1>3, <1>4, <1>14, <2>1 DEF Seen
  <2> QED
    BY <1>8, <1>13, <1>14, <2>2
<1>15. CacheInv(n - 1)' /\ ChangesInv(n - 1)'
  <2>0. n - 1 \in 1..(n - 1) /\ n \in 1..n /\ n - 1 \in 1..n
    OBVIOUS
  <2>1. CASE ~success
    BY <1>8, <1>11, <1>12, <1>13, <2>0, <2>1
  <2>2. CASE success
    <3>1. PICK c \in ContextType :
                 /\ c.address = Top.address
                 /\ c.storage_cache = Top.storage_cache
                 /\ c.global_storage_changes = Top.global_storage_changes
                 /\ context_stack'[n - 1] = Merged(context_stack[n - 1], c)
      BY <1>8, <2>2
    <3>2. PICK m \in ContextType : m = context_stack'[n - 1] /\ m = Merged(context_stack[n - 1], c)
      <4>1. context_stack[n - 1] \in ContextType
        BY <1>5, <2>0 DEF ControlInv, TypeOK
      <4> QED
        BY <3>1, <4>1, MergedIs
    <3>3. CacheInv(n) /\ ChangesInv(n) /\ CacheInv(n - 1) /\ ChangesInv(n - 1)
      BY <1>6, <2>0
    <3>4. /\ m.address = Address(n - 1)
          /\ DOMAIN m.storage_cache = frames[n - 1].tracked
          /\ \A k \in frames[n - 1].tracked : m.storage_cache[k] = storage[Address(n - 1)][k]
          /\ \A a \in DOMAIN m.global_storage_changes :
                /\ a # Address(n - 1)
                /\ \A j, l \in 1..(n - 1) : Address(j) = a /\ Address(l) = a => j = l
          /\ \A j \in 1..(n - 2) : \A k \in Keys :
                IF Address(j) = Address(n - 1)
                THEN k \notin frames[n - 1].tracked =>
                       storage[Address(j)][k] = frames[n - 1].saved[Address(j)][k]
                ELSE storage[Address(j)][k] =
                       Effective(m.global_storage_changes, frames[n - 1].saved, Address(j), k)
      BY <1>3, <1>5, <1>6, <3>1, <3>2, <3>3, HandedOn
    <3>5. /\ Seen(n - 1)' = storage /\ frames'[n - 1] = frames[n - 1]
          /\ Address(n - 1)' = Address(n - 1)
          /\ CacheOf(n - 1)' = m.storage_cache
          /\ ChangesOf(n - 1)' = m.global_storage_changes
          /\ context_stack'[n - 1].address = m.address
      BY <1>4, <1>8, <1>9, <1>11, <1>12, <2>0, <2>2, <3>2 DEF CacheOf, ChangesOf
    <3>6. CacheInv(n - 1)'
      BY <3>4, <3>5 DEF CacheInv
    <3>7. \A a \in DOMAIN ChangesOf(n - 1)' :
             /\ a # Address(n - 1)'
             /\ \A j, l \in 1..(n - 1) : Address(j)' = a /\ Address(l)' = a => j = l
      BY <1>9, <3>4, <3>5
    <3>8. ASSUME NEW j \in 1..(n - 1 - 1), NEW k \in Keys
          PROVE  IF Address(j)' = Address(n - 1)'
                 THEN k \notin frames'[n - 1].tracked =>
                        Seen(n - 1)'[Address(j)'][k] = frames'[n - 1].saved[Address(j)'][k]
                 ELSE Seen(n - 1)'[Address(j)'][k] =
                        Effective(ChangesOf(n - 1)', frames'[n - 1].saved, Address(j)', k)
      <4>1. j \in 1..(n - 2) /\ j \in 1..(n - 1)
        BY <3>8
      <4> QED
        BY <1>9, <3>4, <3>5, <4>1
    <3>9. ChangesInv(n - 1)'
      BY <3>7, <3>8 DEF ChangesInv, Effective
    <3> QED
      BY <3>6, <3>9
  <2> QED
    BY <2>1, <2>2
<1> QED
  BY <1>4, <1>10, <1>14, <1>15 DEF StorageInv

\* A step that has an exceptional frame, or is taken outside of the execution.
LEMMA StorageOther ==
    ASSUME ControlInv, StorageInv,
           \/ ApplyExtrinsic \/ TransactionNotFound \/ OutOfGas \/ EnterNoCode \/ EnterPrecompile
    PROVE  StorageInv'
<1>1. CASE ApplyExtrinsic \/ TransactionNotFound
  BY <1>1 DEF ApplyExtrinsic, TransactionNotFound, StorageInv
<1>2. CASE OutOfGas \/ EnterNoCode \/ EnterPrecompile
  <2>1. odd' # {}
    BY <1>2 DEF OutOfGas, EnterNoCode, EnterPrecompile, Odd
  <2> QED
    BY <2>1 DEF StorageInv
<1> QED
  BY <1>1, <1>2

-----------------------------------------------------------------------------
(***************************************************************************)
(* The log.                                                                *)
(***************************************************************************)
ReplayInv == ControlInv /\ StorageInv /\ (odd = {} => step_logs = executed)

\* The record that is logged is the one that a correct log has.
LEMMA SameRecord ==
    ASSUME ControlInv, StorageInv, odd = {}, stage \in {"charged", "accessed"},
           step_logs = executed
    PROVE  LoggedStep = Completed
<1>1. PICK n \in Nat : n = Len(frames) /\ n >= 1
  BY DEF ControlInv, TypeOK, FramesInv
<1>2. /\ Len(context_stack) = n /\ context_stack # <<>> /\ Len(Top.current_step) = 1
      /\ Top.current_step[1].op = ops /\ Top.current_step[1].gas = used
      /\ Top.current_step[1].depth = n
  BY <1>1 DEF ControlInv, DepthInv, ExactInv, InStep
<1>3. PICK r \in LogType :
         /\ LoggedStep = Append(step_logs, r)
         /\ r.op = Top.current_step[1].op
         /\ r.depth = Top.current_step[1].depth
         /\ r.gas = Top.current_step[1].gas
         /\ r.storage = IF disable_storage THEN Empty ELSE Top.storage_cache
  BY <1>2, LogEffect DEF ControlInv
<1>4. PICK e \in LogType :
         /\ Completed = Append(executed, e)
         /\ e.op = ops /\ e.depth = Len(frames) /\ e.gas = used
         /\ e.storage = IF disable_storage THEN Empty
                        ELSE [k \in Current.tracked |-> storage[Current.address][k]]
  BY <1>1, CompletedIs DEF ControlInv
<1>5. ~disable_storage =>
         Top.storage_cache = [k \in Current.tracked |-> storage[Current.address][k]]
  <2> SUFFICES ASSUME ~disable_storage
               PROVE  Top.storage_cache = [k \in Current.tracked |-> storage[Current.address][k]]
    OBVIOUS
  <2>1. CacheInv(n)
    BY <1>1 DEF StorageInv
  <2>2. CacheOf(n) = Top.storage_cache /\ Seen(n) = storage /\ Address(n) = Current.address
        /\ Current = frames[n]
    BY <1>1, <1>2 DEF CacheOf, Seen, Address, Current, Top, Depth
  <2>3. /\ DOMAIN Top.storage_cache = Current.tracked
        /\ \A k \in Current.tracked : Top.storage_cache[k] = storage[Current.address][k]
    BY <2>1, <2>2 DEF CacheInv
  <2>4. Top.storage_cache \in Cache
    <3>1. Top \in ContextType
      BY <1>1, <1>2 DEF ControlInv, TypeOK, Top, Depth
    <3> QED
      BY <3>1, ContextFields
  <2>5. Top.storage_cache \in [DOMAIN Top.storage_cache -> Val]
    BY <2>4, CacheType
  <2> QED
    BY <2>3, <2>5
<1>6. r.op = e.op /\ r.depth = e.depth /\ r.gas = e.gas /\ r.storage = e.storage
  BY <1>1, <1>2, <1>3, <1>4, <1>5
<1>7. r = e
  BY <1>6 DEF LogType
<1> QED
  BY <1>3, <1>4, <1>7

LEMMA ReplayNext == ReplayInv /\ [Next]_vars => ReplayInv'
<1> SUFFICES ASSUME ReplayInv, [Next]_vars PROVE ReplayInv'
  OBVIOUS
<1>0. ControlInv /\ StorageInv /\ (odd = {} => step_logs = executed)
  BY DEF ReplayInv
<1>1. ControlInv'
  BY <1>0, ControlNext
<1>2. StorageInv'
  <2>1. CASE UNCHANGED vars
    BY <1>0, <2>1 DEF vars, listenerVars, evmVars, StorageInv, AtMostTwice, CacheInv, ChangesInv,
                      Seen, Address, CacheOf, ChangesOf, Effective
  <2>2. CASE Next
    BY <1>0, <2>2, StorageRecord, StorageStep, StorageCost, StorageAccessed, StorageResult,
       StorageEnter, StorageExit, StorageOther DEF Next
  <2> QED
    BY <2>1, <2>2, SMTT(30)
<1>3. ASSUME odd' = {} PROVE step_logs' = executed'
  <2>1. odd = {}
    BY <1>3 DEF Next, vars, evmVars, ApplyExtrinsic, TransactionNotFound,
       EmitRecordTransaction, EmitStep, EmitCost, EmitOtherCost, OutOfGas, EmitStorage, EmitResult,
       EmitTrap, EnterFrame, EnterNoCode, EnterPrecompile, EmitExit, Odd
  <2>2. CASE EmitResult \/ EmitTrap \/ EmitExit
    <3>1. stage \in {"charged", "accessed"} /\ step_logs' = LoggedStep /\ executed' = Completed
      BY <2>2 DEF EmitResult, EmitTrap, EmitExit, StepResultTrap, StepResultExit
    <3> QED
      BY <1>0, <2>1, <3>1, SameRecord
  <2>3. CASE ~(EmitResult \/ EmitTrap \/ EmitExit)
    <3>1. UNCHANGED <<step_logs, executed>>
      <4>1. ~EnterNoCode
        BY <1>3 DEF EnterNoCode, Odd
      <4> QED
        BY <2>3, <4>1 DEF Next, vars, listenerVars, evmVars, ApplyExtrinsic, TransactionNotFound,
           EmitRecordTransaction, EmitStep, EmitCost, EmitOtherCost, OutOfGas, EmitStorage,
           EnterFrame, EnterPrecompile, RecordTransaction, RuntimeStep, RecordCost, StorageAccess
    <3> QED
      BY <1>0, <2>1, <3>1
  <2> QED
    BY <2>2, <2>3
<1> QED
  BY <1>1, <1>2, <1>3 DEF ReplayInv

\* The log of debug_traceTransaction is the execution: every completed opcode in
\* order, with its depth, gas and for each key its frame has accessed the value
\* the contract's storage holds, after all calls and reverts below (raw.rs, the
\* context stack with storage_cache and global_storage_changes), for any
\* contracts, keys, values and number of frames, as long as every frame sends
\* its events and no contract runs in three open frames.
THEOREM LogCorrect == Spec => []LogIsTheExecution
<1>1. Init => ReplayInv
  BY InitControl DEF ReplayInv, Init, ListenerInit, StorageInv
<1>2. ReplayInv /\ [Next]_vars => ReplayInv'
  BY ReplayNext
<1>3. ReplayInv => LogIsTheExecution
  BY DEF ReplayInv, ControlInv, ExactInv, LogIsTheExecution
<1> QED
  BY <1>1, <1>2, <1>3, PTL DEF Spec

=============================================================================
