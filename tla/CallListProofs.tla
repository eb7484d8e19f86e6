--------------------------- MODULE CallListProofs ---------------------------
(***************************************************************************)
(* Proofs about CallList under CallListReplay, and about the Formatters,   *)
(* for both kinds of runtime, any transactions and bounds, and both        *)
(* callers. The formatters come after the theorems about the listener, on  *)
(* whose invariants they rest. What is defined for the proofs is in        *)
(* CallListInvariants.                                                     *)
(***************************************************************************)
EXTENDS CallListInvariants, SequenceTheorems, FiniteSetTheorems, WellFoundedInduction, TLAPS

-----------------------------------------------------------------------------
\* The invariant.

-----------------------------------------------------------------------------
\* Paths.

LEMMA StackFields ==
    ASSUME NEW stack \in Seq(Context)
    PROVE  /\ Len(stack) \in Nat
           /\ \A i \in 1..Len(stack) :
                 /\ stack[i] \in Context
                 /\ stack[i].trace_address \in Seq(Nat) /\ stack[i].subtraces \in Nat
                 /\ stack[i].entries_index \in Nat
<1>1. \A c \in Context : c.trace_address \in Seq(Nat) /\ c.subtraces \in Nat /\ c.entries_index \in Nat
  BY DEF Context
<1> HIDE DEF Context
<1>2. Len(stack) \in Nat /\ \A i \in 1..Len(stack) : stack[i] \in Context OBVIOUS
<1> QED BY <1>1, <1>2

LEMMA TopReplaced ==
    ASSUME NEW stack \in Seq(Context), stack # <<>>, NEW new \in Context,
           NEW counted, counted = [stack EXCEPT ![Len(stack)] = new]
    PROVE  /\ counted \in Seq(Context) /\ Len(counted) = Len(stack)
           /\ counted[Len(stack)] = new
           /\ \A i \in 1..Len(stack) : i # Len(stack) => counted[i] = stack[i]
<1>1. Len(stack) \in Nat /\ Len(stack) # 0 BY StackFields, EmptySeq
<1> HIDE DEF Context
<1> QED BY <1>1

LEMMA ChildIsCounted ==
    ASSUME NEW stack \in Seq(Context), stack # <<>>
    PROVE  Counted(stack, [stack EXCEPT ![Len(stack)].subtraces = @ + 1])
<1>1. PICK n : n = Len(stack) /\ n \in Nat /\ n # 0 BY StackFields, EmptySeq
<1>2. PICK top : top = stack[n] /\ top \in Context BY <1>1, StackFields
<1>3. PICK new : new = [top EXCEPT !.subtraces = @ + 1] OBVIOUS
<1>4. new \in Context /\ new.subtraces = top.subtraces + 1 /\ new.trace_address = top.trace_address
  <2>1. PICK e, ty, q, c, g, sg :
            /\ top = [entries_index |-> e, context_type |-> ty, trace_address |-> q, subtraces |-> c,
                      gas |-> g, start_gas |-> sg]
            /\ e \in Nat /\ ty \in ContextType /\ q \in Seq(Nat) /\ c \in Nat /\ g \in Nat
            /\ sg \in Nat \cup {NoGas}
    BY <1>2 DEF Context
  <2>2. new = [entries_index |-> e, context_type |-> ty, trace_address |-> q, subtraces |-> c + 1,
               gas |-> g, start_gas |-> sg]
    BY <1>3, <2>1
  <2>3. c + 1 \in Nat BY <2>1
  <2>4. new \in Context BY <2>1, <2>2, <2>3 DEF Context
  <2> QED BY <2>1, <2>2, <2>4
<1>5. PICK counted : counted = [stack EXCEPT ![n] = new] OBVIOUS
<1>6. [stack EXCEPT ![Len(stack)].subtraces = @ + 1] = counted BY <1>1, <1>2, <1>3, <1>5
<1>7. /\ counted \in Seq(Context) /\ Len(counted) = n /\ counted[n] = new
      /\ \A i \in 1..n : i # n => counted[i] = stack[i]
  BY <1>1, <1>4, <1>5, TopReplaced
<1>8. Counted(stack, counted) BY <1>1, <1>2, <1>4, <1>7 DEF Counted
<1> QED BY <1>6, <1>8

\* The next child of the innermost context has a new path, and so has anything
\* that is below it.
LEMMA ChildFresh ==
    ASSUME NEW stack \in Seq(Context), stack # <<>>, Chain(stack),
           NEW paths \in SUBSET Seq(Nat), Fresh(paths, stack),
           NEW counted, Counted(stack, counted),
           NEW child, child = ChildOf(stack)
    PROVE  /\ child \in Seq(Nat) /\ child \notin paths /\ Len(child) = Len(stack)
           /\ Chain(counted) /\ Fresh(paths \cup {child}, counted)
           /\ \A i \in 1..Len(stack) : child[i] < counted[i].subtraces
           /\ \A path \in paths : ~Below(path, child)
<1>1. PICK n : n = Len(stack) /\ n \in Nat /\ n # 0 BY StackFields, EmptySeq
<1>2. PICK top : top = stack[n] /\ top \in Context BY <1>1, StackFields
<1>3. PICK q, c : q = top.trace_address /\ c = top.subtraces /\ q \in Seq(Nat) /\ c \in Nat
  BY <1>2 DEF Context
<1>4. Len(q) = n - 1 BY <1>1, <1>2, <1>3 DEF Chain
<1>5. child = Append(q, c) BY <1>1, <1>2, <1>3 DEF ChildOf
<1>6. /\ child \in Seq(Nat) /\ Len(child) = n /\ child[n] = c
      /\ \A l \in 1..(n - 1) : child[l] = q[l]
  BY <1>1, <1>3, <1>4, <1>5
<1>7. ASSUME NEW path \in paths, path = child \/ Below(path, child) PROVE FALSE
  <2>1. path \in Seq(Nat) /\ Len(path) >= n /\ path[n] = c /\ \A l \in 1..(n - 1) : path[l] = q[l]
    <3>1. CASE path = child BY <1>1, <1>6, <3>1
    <3>2. CASE Below(path, child) BY <1>6, <3>2, <1>1 DEF Below
    <3> QED BY <1>7, <3>1, <3>2
  <2>2. Below(path, q) BY <1>1, <1>4, <2>1 DEF Below
  <2>3. path[n] < c
    <3>1. n \in 1..Len(stack) /\ stack[n].trace_address = q /\ stack[n].subtraces = c
      BY <1>1, <1>2, <1>3
    <3> QED BY <2>2, <3>1 DEF Fresh
  <2> QED BY <1>3, <2>1, <2>3
<1>8. /\ counted \in Seq(Context) /\ Len(counted) = n
      /\ \A i \in 1..n : counted[i].trace_address = stack[i].trace_address
      /\ \A i \in 1..n : i # n => counted[i] = stack[i]
      /\ counted[n].subtraces = c + 1
  BY <1>1, <1>2, <1>3 DEF Counted
<1>9. \A i \in 1..n : stack[i].subtraces <= counted[i].subtraces /\ stack[i].subtraces \in Nat
                      /\ counted[i].subtraces \in Nat
  <2>1. \A i \in 1..n : stack[i].subtraces \in Nat BY <1>1, StackFields
  <2> QED BY <1>1, <1>2, <1>3, <1>8, <2>1
<1>10. \A i \in 1..n : stack[i].trace_address \in Seq(Nat) /\ Len(stack[i].trace_address) = i - 1
  BY <1>1, StackFields DEF Chain
<1>11. Chain(counted)
  <2>1. \A i \in 1..n : Len(counted[i].trace_address) = i - 1 BY <1>8, <1>10
  <2>2. ASSUME NEW i \in 1..n, NEW j \in 1..n, i < j
        PROVE  counted[j].trace_address[i] < counted[i].subtraces
    <3>1. stack[j].trace_address[i] < stack[i].subtraces BY <1>1, <2>2 DEF Chain
    <3>2. stack[j].trace_address[i] \in Nat
      <4>1. i \in 1..(j - 1) BY <2>2
      <4>2. Len(stack[j].trace_address) = j - 1 /\ stack[j].trace_address \in Seq(Nat) BY <1>10
      <4>3. PICK s : s = stack[j].trace_address OBVIOUS
      <4>4. s[i] \in Nat BY <4>1, <4>2, <4>3
      <4> QED BY <4>3, <4>4
    <3>3. counted[j].trace_address = stack[j].trace_address BY <1>8
    <3>4. PICK v, a, b : v = stack[j].trace_address[i] /\ a = stack[i].subtraces /\ b = counted[i].subtraces
      OBVIOUS
    <3>5. a <= b /\ a \in Nat /\ b \in Nat BY <1>9, <3>4
    <3>6. v < b BY <3>1, <3>2, <3>4, <3>5
    <3> QED BY <3>3, <3>4, <3>6
  <2> QED BY <1>8, <2>1, <2>2 DEF Chain
<1>12. \A i \in 1..n : child[i] < counted[i].subtraces
  <2> TAKE i \in 1..n
  <2>1. CASE i = n BY <1>3, <1>6, <1>8, <2>1
  <2>2. CASE i # n
    <3>1. i \in 1..(n - 1) /\ i < n BY <1>1, <2>2
    <3>2. q[i] < stack[i].subtraces
      <4>1. i \in 1..Len(stack) /\ n \in 1..Len(stack) BY <1>1
      <4> QED BY <1>2, <1>3, <3>1, <4>1 DEF Chain
    <3>3. child[i] = q[i] BY <1>6, <3>1
    <3> QED BY <1>8, <2>2, <3>2, <3>3
  <2> QED BY <2>1, <2>2
<1>13. Fresh(paths \cup {child}, counted)
  <2> SUFFICES ASSUME NEW path \in paths \cup {child}, NEW i \in 1..n
               PROVE  /\ path # counted[i].trace_address
                      /\ Below(path, counted[i].trace_address) => path[i] < counted[i].subtraces
    BY <1>8 DEF Fresh
  <2>1. CASE path = child
    <3>1. Len(child) # Len(counted[i].trace_address)
      <4>1. Len(child) = n BY <1>6
      <4>2. Len(counted[i].trace_address) = i - 1 BY <1>8, <1>10
      <4>3. n # i - 1 BY <1>1
      <4> QED BY <4>1, <4>2, <4>3
    <3> QED BY <1>12, <2>1, <3>1
  <2>2. CASE path \in paths
    <3>1. /\ path # stack[i].trace_address
          /\ Below(path, stack[i].trace_address) => path[i] < stack[i].subtraces
      BY <1>1, <2>2 DEF Fresh
    <3>2. Below(path, stack[i].trace_address) => path[i] \in Nat
      <4>1. SUFFICES ASSUME Below(path, stack[i].trace_address) PROVE path[i] \in Nat OBVIOUS
      <4>2. Len(path) > i - 1 /\ path \in Seq(Nat) BY <1>10, <2>2, <4>1 DEF Below
      <4>3. i \in 1..Len(path) BY <1>1, <4>2
      <4> QED BY <4>2, <4>3
    <3> QED BY <1>8, <1>9, <3>1, <3>2
  <2> QED BY <2>1, <2>2
<1> QED BY <1>1, <1>6, <1>7, <1>8, <1>11, <1>12, <1>13

\* A context for the next child.
LEMMA PushFresh ==
    ASSUME NEW stack \in Seq(Context), Chain(stack),
           NEW paths \in SUBSET Seq(Nat), Fresh(paths, stack),
           NEW context \in Context, context.subtraces = 0,
           Len(context.trace_address) = Len(stack),
           context.trace_address \notin paths,
           \A i \in 1..Len(stack) : context.trace_address[i] < stack[i].subtraces,
           \A path \in paths : ~Below(path, context.trace_address)
    PROVE  /\ Append(stack, context) \in Seq(Context)
           /\ Chain(Append(stack, context)) /\ Fresh(paths, Append(stack, context))
<1>1. PICK n, more : n = Len(stack) /\ n \in Nat /\ more = Append(stack, context) BY StackFields
<1>2. /\ more \in Seq(Context) /\ Len(more) = n + 1 /\ more[n + 1] = context
      /\ \A i \in 1..n : more[i] = stack[i]
  BY <1>1
<1>3. Chain(more)
  <2>1. \A i \in 1..(n + 1) : Len(more[i].trace_address) = i - 1 BY <1>1, <1>2 DEF Chain
  <2>2. ASSUME NEW i \in 1..(n + 1), NEW j \in 1..(n + 1), i < j
        PROVE  more[j].trace_address[i] < more[i].subtraces
    <3>1. i \in 1..n BY <1>1, <2>2
    <3>2. CASE j = n + 1 BY <1>1, <1>2, <3>1, <3>2
    <3>3. CASE j # n + 1
      <4>1. j \in 1..n BY <1>1, <3>3
      <4> QED BY <1>1, <1>2, <2>2, <3>1, <4>1 DEF Chain
    <3> QED BY <3>2, <3>3
  <2> QED BY <1>2, <2>1, <2>2 DEF Chain
<1>4. Fresh(paths, more)
  <2> SUFFICES ASSUME NEW path \in paths, NEW i \in 1..(n + 1)
               PROVE  /\ path # more[i].trace_address
                      /\ Below(path, more[i].trace_address) => path[i] < more[i].subtraces
    BY <1>2 DEF Fresh
  <2>1. CASE i = n + 1 BY <1>2, <2>1
  <2>2. CASE i # n + 1
    <3>1. i \in 1..n BY <1>1, <2>2
    <3> QED BY <1>1, <1>2, <3>1 DEF Fresh
  <2> QED BY <2>1, <2>2
<1> QED BY <1>1, <1>2, <1>3, <1>4

\* The path of the innermost context when it is popped.
LEMMA PopFresh ==
    ASSUME NEW stack \in Seq(Context), stack # <<>>, Chain(stack),
           NEW paths \in SUBSET Seq(Nat), Fresh(paths, stack),
           NEW rest, rest = SubSeq(stack, 1, Len(stack) - 1)
    PROVE  /\ stack[Len(stack)].trace_address \notin paths
           /\ rest \in Seq(Context) /\ Len(rest) = Len(stack) - 1
           /\ Chain(rest) /\ Fresh(paths \cup {stack[Len(stack)].trace_address}, rest)
<1>1. PICK n, q : n = Len(stack) /\ n \in Nat /\ n # 0 /\ q = stack[n].trace_address
  BY StackFields, EmptySeq
<1>2. /\ rest \in Seq(Context) /\ Len(rest) = n - 1 /\ \A i \in 1..(n - 1) : rest[i] = stack[i]
  BY <1>1
<1>3. \A i \in 1..(n - 1) : i \in 1..n /\ i < n BY <1>1
<1>4. q \notin paths BY <1>1 DEF Fresh
<1>5. Chain(rest) BY <1>1, <1>2, <1>3 DEF Chain
<1>6. Fresh(paths \cup {q}, rest)
  <2> SUFFICES ASSUME NEW path \in paths \cup {q}, NEW i \in 1..(n - 1)
               PROVE  /\ path # rest[i].trace_address
                      /\ Below(path, rest[i].trace_address) => path[i] < rest[i].subtraces
    BY <1>2 DEF Fresh
  <2>1. CASE path = q BY <1>1, <1>3, <1>2, <2>1 DEF Chain
  <2>2. CASE path \in paths BY <1>1, <1>2, <1>3, <2>2 DEF Fresh
  <2> QED BY <2>1, <2>2
<1> QED BY <1>1, <1>2, <1>4, <1>5, <1>6

LEMMA FreshOfFewer ==
    ASSUME NEW stack, NEW paths, NEW more, paths \subseteq more, Fresh(more, stack)
    PROVE  Fresh(paths, stack)
  BY DEF Fresh

-----------------------------------------------------------------------------
\* insert_entry.

\* Append to a sequence of anything.
LEMMA AppendAny ==
    ASSUME NEW s, NEW x, Len(s) \in Nat, s = [i \in 1..Len(s) |-> s[i]]
    PROVE  /\ Len(Append(s, x)) = Len(s) + 1
           /\ \A i \in 1..Len(s) : Append(s, x)[i] = s[i]
           /\ Append(s, x)[Len(s) + 1] = x
           /\ Append(s, x) = [i \in 1..(Len(s) + 1) |-> Append(s, x)[i]]
<1>1. PICK S : S = {s[i] : i \in 1..Len(s)} \cup {x} OBVIOUS
<1>2. s \in Seq(S) /\ x \in S BY <1>1
<1>3. Append(s, x) \in Seq(S) /\ Len(Append(s, x)) = Len(s) + 1 BY <1>2
<1>4. /\ \A i \in 1..Len(s) : Append(s, x)[i] = s[i]
      /\ Append(s, x)[Len(s) + 1] = x
  BY <1>2
<1>5. \A q \in Seq(S) : q = [i \in 1..Len(q) |-> q[i]] OBVIOUS
<1> QED BY <1>3, <1>4, <1>5

LEMMA WithUnique ==
    ASSUME NEW map, Unique(map), Typed(map), NEW key \in Nat, NEW entry \in Call,
           entry.trace_address \notin PathsOf(map)
    PROVE  /\ Unique(With(map, key, entry)) /\ Typed(With(map, key, entry))
           /\ PathsOf(With(map, key, entry)) \subseteq PathsOf(map) \cup {entry.trace_address}
<1>1. PICK new : new = With(map, key, entry) OBVIOUS
<1>2. /\ DOMAIN new = DOMAIN map \cup {key} /\ new[key] = entry
      /\ \A k \in DOMAIN map : k # key => new[k] = map[k]
  BY <1>1 DEF With
<1>3. Typed(new) BY <1>2 DEF Typed
<1>4. PathsOf(new) \subseteq PathsOf(map) \cup {entry.trace_address} BY <1>2 DEF PathsOf
<1>5. Unique(new) BY <1>2 DEF Unique, PathsOf
<1> QED BY <1>1, <1>3, <1>4, <1>5

\* insert_entry adds to the last map, and makes a first one.
LEMMA InsertedIs ==
    ASSUME IsMaps(entries), NEW key, NEW entry
    PROVE  /\ IsMaps(Inserted(key, entry)) /\ Inserted(key, entry) # <<>>
           /\ entries # <<>> => Len(Inserted(key, entry)) = Len(entries)
           /\ entries = <<>> => Len(Inserted(key, entry)) = 1
           /\ LastOf(Inserted(key, entry)) = With(LastOf(entries), key, entry)
           /\ \A t \in 1..Len(entries) :
                 t # Len(entries) => Inserted(key, entry)[t] = entries[t]
<1>1. PICK n, new : n = Len(entries) /\ n \in Nat /\ new = Inserted(key, entry) BY DEF IsMaps
<1>2. CASE entries = <<>>
  <2>1. PICK m : m = [k \in {key} |-> entry] OBVIOUS
  <2>2. new = <<m>> BY <1>1, <1>2, <2>1 DEF Inserted
  <2>3. Len(new) = 1 /\ new[1] = m /\ new # <<>> /\ new = [t \in 1..Len(new) |-> new[t]] BY <2>2
  <2>4. n = 0 BY <1>1, <1>2
  <2>5. LastOf(new) = m /\ LastOf(entries) = <<>> BY <1>2, <2>3 DEF LastOf
  <2>6. With(<<>>, key, entry) = m BY <2>1 DEF With
  <2> QED BY <1>1, <1>2, <2>3, <2>4, <2>5, <2>6 DEF IsMaps
<1>3. CASE entries # <<>>
  <2>1. PICK last, m : last = entries[n] /\ m = With(last, key, entry) OBVIOUS
  <2>2. new = [entries EXCEPT ![n] = m] BY <1>1, <1>3, <2>1 DEF Inserted, With
  <2>3. entries = [t \in 1..n |-> entries[t]] BY <1>1 DEF IsMaps
  <2>4. n # 0 BY <1>3, <2>3
  <2>5. n \in 1..n BY <1>1, <2>4
  <2>6. /\ DOMAIN new = 1..n /\ new[n] = m
        /\ \A t \in 1..n : t # n => new[t] = entries[t]
        /\ new = [t \in 1..n |-> new[t]]
    BY <2>2, <2>3, <2>5
  <2>7. Len(new) = n BY <1>1, <2>6
  <2>8. new # <<>> BY <2>5, <2>6
  <2>9. LastOf(new) = m /\ LastOf(entries) = last BY <1>1, <1>3, <2>1, <2>6, <2>7, <2>8 DEF LastOf
  <2> QED BY <1>1, <1>3, <2>1, <2>6, <2>7, <2>8, <2>9 DEF IsMaps
<1> QED BY <1>2, <1>3

LEMMA LastMapIs ==
    ASSUME NEW maps, MapsAre(maps)
    PROVE  Typed(LastOf(maps)) /\ Unique(LastOf(maps)) /\ PathsOf(LastOf(maps)) \in SUBSET Seq(Nat)
<1>1. Typed(LastOf(maps)) /\ Unique(LastOf(maps))
  <2>1. CASE maps = <<>>
    <3>1. LastOf(maps) = <<>> /\ DOMAIN <<>> = {} BY <2>1 DEF LastOf
    <3> QED BY <3>1 DEF Typed, Unique
  <2>2. CASE maps # <<>>
    <3>1. PICK n : n = Len(maps) /\ n \in Nat /\ maps = [t \in 1..n |-> maps[t]]
      BY DEF MapsAre, IsMaps
    <3>2. n # 0 BY <2>2, <3>1
    <3>3. n \in 1..n BY <3>1, <3>2
    <3> QED BY <2>2, <3>1, <3>3 DEF MapsAre, LastOf
  <2> QED BY <2>1, <2>2
<1>2. PathsOf(LastOf(maps)) \in SUBSET Seq(Nat)
  <2>1. \A e \in Call : e.trace_address \in Seq(Nat) BY DEF Call
  <2> QED BY <1>1, <2>1 DEF Typed, PathsOf
<1> QED BY <1>1, <1>2

LEMMA InsertKeeps ==
    ASSUME MapsAre(entries), NEW key \in Nat, NEW entry \in Call,
           entry.trace_address \notin PathsOf(LastOf(entries))
    PROVE  /\ MapsAre(Inserted(key, entry))
           /\ PathsOf(LastOf(Inserted(key, entry)))
                \subseteq PathsOf(LastOf(entries)) \cup {entry.trace_address}
<1>1. PICK n, new : n = Len(entries) /\ n \in Nat /\ new = Inserted(key, entry)
  BY DEF MapsAre, IsMaps
<1>2. /\ IsMaps(new) /\ new # <<>>
      /\ entries # <<>> => Len(new) = n
      /\ entries = <<>> => Len(new) = 1
      /\ LastOf(new) = With(LastOf(entries), key, entry)
      /\ \A t \in 1..n : t # n => new[t] = entries[t]
  BY <1>1, InsertedIs DEF MapsAre
<1>3. /\ Unique(LastOf(new)) /\ Typed(LastOf(new))
      /\ PathsOf(LastOf(new)) \subseteq PathsOf(LastOf(entries)) \cup {entry.trace_address}
  BY <1>2, LastMapIs, WithUnique
<1>4. ASSUME NEW t \in 1..Len(new) PROVE Typed(new[t]) /\ Unique(new[t])
  <2>1. CASE t = Len(new) BY <1>2, <1>3, <2>1 DEF LastOf
  <2>2. CASE t # Len(new)
    <3>1. entries # <<>>
      <4>1. SUFFICES ASSUME entries = <<>> PROVE FALSE OBVIOUS
      <4>2. Len(new) = 1 /\ t \in 1..1 BY <1>2, <4>1
      <4> QED BY <2>2, <4>2
    <3>2. t \in 1..n /\ t # n BY <1>2, <2>2, <3>1
    <3> QED BY <1>1, <1>2, <3>2 DEF MapsAre
  <2> QED BY <2>1, <2>2
<1> QED BY <1>1, <1>2, <1>3, <1>4 DEF MapsAre

-----------------------------------------------------------------------------
\* The handlers of the listener.

LEMMA LastMapIsLastOf == LastMap = LastOf(entries)
  BY DEF LastMap, LastOf

LEMMA ListenerParts == ListenerInv <=> FlagsOK /\ MapsAre(entries) /\ StackOK /\ StepOK
<1>1. MapsInv /\ (\A t \in DOMAIN entries : \A k \in DOMAIN entries[t] :
                     k \in Nat /\ entries[t][k] \in Call)
        /\ (\A t \in 1..Len(entries) : Unique(entries[t]))
      <=> MapsAre(entries)
  <2>1. MapsInv => DOMAIN entries = 1..Len(entries) BY DEF MapsInv
  <2>2. MapsInv <=> IsMaps(entries) BY DEF MapsInv, IsMaps
  <2> QED BY <2>1, <2>2 DEF MapsAre, Typed
<1> QED BY <1>1, LastMapIsLastOf
  DEF ListenerInv, ListenerTypeOK, PathsInv, FlagsOK, StackOK, StepOK, Used

LEMMA ListenerPartsNext ==
    ASSUME FlagsOK', MapsAre(entries'), StackOK', StepOK'
    PROVE  ListenerInv'
<1>1. /\ MapsInv' /\ \A t \in 1..Len(entries') : Unique(entries'[t])
      /\ \A t \in DOMAIN entries' : \A k \in DOMAIN entries'[t] :
            k \in Nat /\ entries'[t][k] \in Call
  <2>1. DOMAIN entries' = 1..Len(entries') BY DEF MapsAre, IsMaps
  <2> QED BY <2>1 DEF MapsAre, IsMaps, MapsInv, Typed
<1>2. LastMap' = LastOf(entries)' BY DEF LastMap, LastOf
<1> QED BY <1>1, <1>2
  DEF ListenerInv, ListenerTypeOK, PathsInv, FlagsOK, StackOK, StepOK, Used

\* The paths that are in use are paths.
LEMMA UsedArePaths ==
    ASSUME MapsAre(entries), StepOK
    PROVE  Used \in SUBSET Seq(Nat) /\ StepPath \in SUBSET Seq(Nat)
<1>1. StepPath \in SUBSET Seq(Nat) BY DEF Call, StepOK, StepPath
<1> QED BY <1>1, LastMapIs DEF Used

LEMMA EntryIsCall ==
    ASSUME FlagsOK, NEW c \in Context,
           NEW res \in {"Output", "Error", "Revert", "Fatal", "EarlyExit"}
    PROVE  EntryOf(c, res) \in Call /\ EntryOf(c, res).trace_address = c.trace_address
<1>1. /\ c.context_type \in ContextType /\ c.trace_address \in Seq(Nat) /\ c.subtraces \in Nat
      /\ c.gas \in Int /\ c.start_gas \in Int
  BY DEF Context, NoGas
<1>2. transaction_cost \in Int BY DEF FlagsOK
<1>3. GasUsed(c) \in Int BY <1>1, <1>2 DEF GasUsed
<1> QED BY <1>1, <1>3 DEF EntryOf, Call

LEMMA ResultIs ==
    ASSUME NEW reason \in ExitReason
    PROVE  CallResult(reason) \in {"Output", "Error", "Revert", "Fatal", "EarlyExit"}
  BY DEF ExitReason, CallResult

LEMMA UnpaidIsCall == UnpaidEntry \in Call /\ UnpaidEntry.trace_address = <<>>
<1>1. <<>> \in Seq(Nat) OBVIOUS
<1>2. "Call" \in ContextType BY DEF ContextType, CallType
<1> QED BY <1>1, <1>2 DEF UnpaidEntry, Call

\* RecordCost changes the gas of the innermost context only.
LEMMA CostKeeps ==
    ASSUME ListenerInv, NEW gas \in Nat, RecordCost(gas)
    PROVE  /\ ListenerInv' /\ Len(context_stack') = Len(context_stack)
           /\ entries' = entries /\ UNCHANGED step_result_entry
           /\ UNCHANGED record_transaction_event_only
           /\ version' = version
<1>1. FlagsOK /\ MapsAre(entries) /\ StackOK /\ StepOK BY ListenerParts
<1>2. /\ entries' = entries /\ UNCHANGED step_result_entry /\ version' = version
      /\ UNCHANGED transaction_cost /\ UNCHANGED entries_next_index
      /\ call_type' = call_type /\ UNCHANGED skip_next_context
      /\ UNCHANGED call_list_first_transaction
      /\ UNCHANGED record_transaction_event_only
  BY DEF RecordCost
<1>3. FlagsOK' /\ MapsAre(entries') /\ StepOK' /\ Used' = Used
  BY <1>1, <1>2 DEF FlagsOK, StepOK, StepPath, Used
<1>4. PICK s, n : s = context_stack /\ n = Len(s) /\ n \in Nat /\ s \in Seq(Context)
  BY <1>1, StackFields DEF StackOK
<1>5. CASE s = <<>>
  <2>1. context_stack' = s BY <1>4, <1>5 DEF RecordCost
  <2> QED BY <1>1, <1>2, <1>3, <1>4, <2>1, ListenerPartsNext DEF StackOK
<1>6. CASE s # <<>>
  <2>1. PICK top, new : /\ top = s[n]
                        /\ new = Charged(top, gas)
    OBVIOUS
  <2>2. PICK t : t = context_stack' /\ t = [s EXCEPT ![n] = new]
    BY <1>4, <1>6, <2>1 DEF RecordCost, Top
  <2>3. n \in 1..n BY <1>4, <1>6, EmptySeq
  <2>4. new \in Context /\ new.trace_address = top.trace_address /\ new.subtraces = top.subtraces
    <3>1. PICK e, ty, q, c, g, sg :
              /\ top = [entries_index |-> e, context_type |-> ty, trace_address |-> q,
                        subtraces |-> c, gas |-> g, start_gas |-> sg]
              /\ e \in Nat /\ ty \in ContextType /\ q \in Seq(Nat) /\ c \in Nat /\ g \in Nat
              /\ sg \in Nat \cup {NoGas}
      <4>1. top \in Context BY <1>4, <2>1, <2>3, StackFields
      <4> QED BY <4>1 DEF Context
    <3>2. PICK ng : ng = (IF sg = NoGas THEN gas ELSE sg) /\ ng \in Nat \cup {NoGas} BY <3>1
    <3>3. new = [entries_index |-> e, context_type |-> ty, trace_address |-> q, subtraces |-> c,
                 gas |-> gas, start_gas |-> ng]
      <4>1. new = [top EXCEPT !.gas = gas, !.start_gas = ng]
        <5>1. top.start_gas = sg BY <3>1
        <5> QED BY <2>1, <3>2, <5>1 DEF Charged
      <4> HIDE DEF NoGas
      <4>2. [top EXCEPT !.gas = gas, !.start_gas = ng]
              = [entries_index |-> e, context_type |-> ty, trace_address |-> q, subtraces |-> c,
                 gas |-> gas, start_gas |-> ng]
        <5>1. PICK mid : mid = [top EXCEPT !.gas = gas] OBVIOUS
        <5>2. mid = [entries_index |-> e, context_type |-> ty, trace_address |-> q,
                     subtraces |-> c, gas |-> gas, start_gas |-> sg]
          BY <3>1, <5>1
        <5>3. [top EXCEPT !.gas = gas, !.start_gas = ng] = [mid EXCEPT !.start_gas = ng] BY <5>1
        <5> QED BY <5>2, <5>3
      <4> QED BY <4>1, <4>2
    <3>4. new \in Context BY <3>1, <3>2, <3>3 DEF Context
    <3> QED BY <3>1, <3>3, <3>4
  <2>5. /\ t \in Seq(Context) /\ Len(t) = n /\ t[n] = new
        /\ \A i \in 1..n : i # n => t[i] = s[i]
    BY <1>4, <1>6, <2>2, <2>4, TopReplaced
  <2>6. \A i \in 1..n : t[i].trace_address = s[i].trace_address /\ t[i].subtraces = s[i].subtraces
    BY <2>1, <2>4, <2>5
  <2>7. Chain(t)
    <3>1. Chain(s) BY <1>1, <1>4 DEF StackOK
    <3> QED BY <1>4, <2>5, <2>6, <3>1 DEF Chain
  <2>8. Fresh(Used, t)
    <3>1. Fresh(Used, s) BY <1>1, <1>4 DEF StackOK
    <3> QED BY <1>4, <2>5, <2>6, <3>1 DEF Fresh
  <2>9. StackOK' BY <1>3, <2>2, <2>5, <2>7, <2>8 DEF StackOK
  <2>10. ListenerInv' BY <1>3, <2>9, ListenerPartsNext
  <2> QED BY <1>2, <1>4, <2>2, <2>5, <2>10
<1> QED BY <1>5, <1>6

\* What a handler leaves: the flags are checked by DEF, the rest goes through
\* the maps, the stack and the pending entry.
LEMMA PopKeeps ==
    ASSUME FlagsOK, MapsAre(entries), StackOK, StepOK, context_stack # <<>>,
           NEW res \in {"Output", "Error", "Revert", "Fatal", "EarlyExit"},
           context_stack' = Popped,
           \/ /\ entries' = Inserted(Top.entries_index, EntryOf(Top, res))
              /\ step_result_entry' \in {<<>>, step_result_entry}
           \/ /\ entries' = entries
              /\ step_result_entry' = <<Top.entries_index, EntryOf(Top, res)>>
    PROVE  MapsAre(entries') /\ StackOK' /\ StepOK' /\ Len(context_stack') = Len(context_stack) - 1
<1>1. PICK s, n : s = context_stack /\ n = Len(s) /\ n \in Nat /\ s \in Seq(Context) /\ s # <<>>
  BY StackFields DEF StackOK
<1>2. PICK top, q, e : top = s[n] /\ q = top.trace_address /\ e = EntryOf(top, res) OBVIOUS
<1>3. n \in 1..n BY <1>1, EmptySeq
<1>4. top \in Context /\ top.entries_index \in Nat /\ q \in Seq(Nat)
  BY <1>1, <1>2, <1>3, StackFields
<1>5. e \in Call /\ e.trace_address = q BY <1>2, <1>4, EntryIsCall
<1>6. PICK r : r = context_stack' /\ r = SubSeq(s, 1, Len(s) - 1) BY <1>1 DEF Popped
<1>7. Used \in SUBSET Seq(Nat) BY UsedArePaths
<1>8. /\ q \notin Used /\ r \in Seq(Context) /\ Len(r) = n - 1
      /\ Chain(r) /\ Fresh(Used \cup {q}, r)
  <2>1. Chain(s) /\ Fresh(Used, s) BY <1>1 DEF StackOK
  <2> QED BY <1>1, <1>2, <1>6, <1>7, <2>1, PopFresh
<1>9. CASE /\ entries' = Inserted(Top.entries_index, EntryOf(Top, res))
           /\ step_result_entry' \in {<<>>, step_result_entry}
  <2>1. entries' = Inserted(top.entries_index, e) BY <1>1, <1>2, <1>9 DEF Top
  <2>2. q \notin PathsOf(LastOf(entries)) BY <1>8 DEF Used
  <2>3. /\ MapsAre(entries')
        /\ PathsOf(LastOf(entries')) \subseteq PathsOf(LastOf(entries)) \cup {q}
    BY <1>4, <1>5, <2>1, <2>2, InsertKeeps
  <2>4. StepPath' \subseteq StepPath /\ step_result_entry' \in {<<>>} \cup (Nat \X Call)
    <3>1. CASE step_result_entry' = <<>> BY <3>1 DEF StepPath
    <3>2. CASE step_result_entry' = step_result_entry BY <3>2 DEF StepPath, StepOK
    <3> QED BY <1>9, <3>1, <3>2
  <2>5. StepOK' BY <1>8, <2>3, <2>4 DEF StepOK, Used
  <2>6. Used' \subseteq Used \cup {q} BY <2>3, <2>4 DEF Used
  <2>7. StackOK' BY <1>6, <1>8, <2>6, FreshOfFewer DEF StackOK
  <2> QED BY <1>1, <1>6, <1>8, <2>3, <2>5, <2>7
<1>10. CASE /\ entries' = entries
            /\ step_result_entry' = <<Top.entries_index, EntryOf(Top, res)>>
  <2>1. step_result_entry' = <<top.entries_index, e>> BY <1>1, <1>2, <1>10 DEF Top
  <2>2. step_result_entry' # <<>> /\ step_result_entry'[2] = e /\ step_result_entry' \in Nat \X Call
    BY <1>4, <1>5, <2>1
  <2>3. StepPath' = {q} BY <1>5, <2>2 DEF StepPath
  <2>4. StepOK' BY <1>8, <1>10, <2>2, <2>3 DEF StepOK, Used
  <2>5. Used' \subseteq Used \cup {q} BY <1>10, <2>3 DEF Used
  <2>6. StackOK' BY <1>6, <1>8, <2>5, FreshOfFewer DEF StackOK
  <2> QED BY <1>1, <1>6, <1>8, <1>10, <2>4, <2>6
<1> QED BY <1>9, <1>10

\* StepResult and Exit.
LEMMA StepResultExitKeeps ==
    ASSUME ListenerInv, NEW reason \in ExitReason, StepResultExit(reason), context_stack # <<>>
    PROVE  ListenerInv' /\ Len(context_stack') = Len(context_stack) - 1
<1>1. FlagsOK /\ MapsAre(entries) /\ StackOK /\ StepOK BY ListenerParts
<1>2. FlagsOK' BY <1>1 DEF StepResultExit, FlagsOK
<1>3. context_stack' = Popped BY DEF StepResultExit
<1>4. \/ /\ entries' = Inserted(Top.entries_index, EntryOf(Top, CallResult(reason)))
         /\ UNCHANGED step_result_entry
      \/ /\ entries' = entries
         /\ step_result_entry' = <<Top.entries_index, EntryOf(Top, CallResult(reason))>>
  BY DEF StepResultExit
<1>5. MapsAre(entries') /\ StackOK' /\ StepOK' /\ Len(context_stack') = Len(context_stack) - 1
  BY <1>1, <1>3, <1>4, PopKeeps, ResultIs
<1> QED BY <1>2, <1>5, ListenerPartsNext

LEMMA ExitKeeps ==
    ASSUME ListenerInv, NEW reason \in ExitReason, EvmExit(reason)
    PROVE  /\ ListenerInv' /\ step_result_entry' = <<>> /\ ~record_transaction_event_only'
           /\ step_result_entry # <<>> => UNCHANGED context_stack
           /\ step_result_entry = <<>> /\ context_stack # <<>> =>
                 Len(context_stack') = Len(context_stack) - 1
<1>1. FlagsOK /\ MapsAre(entries) /\ StackOK /\ StepOK BY ListenerParts
<1>2. FlagsOK' /\ step_result_entry' = <<>> /\ ~record_transaction_event_only'
  BY <1>1 DEF EvmExit, FlagsOK
<1>3. StepPath' = {} BY <1>2 DEF StepPath
<1>4. CASE step_result_entry # <<>>
  <2>1. UNCHANGED context_stack /\ entries' = Inserted(step_result_entry[1], step_result_entry[2])
    BY <1>4 DEF EvmExit
  <2>2. PICK k, e : /\ k = step_result_entry[1] /\ e = step_result_entry[2]
                    /\ k \in Nat /\ e \in Call
    BY <1>1, <1>4 DEF StepOK
  <2>3. StepPath = {e.trace_address} BY <1>4, <2>2 DEF StepPath
  <2>4. e.trace_address \notin PathsOf(LastOf(entries)) BY <1>1, <2>3 DEF StepOK
  <2>5. entries' = Inserted(k, e) BY <2>1, <2>2
  <2>6. /\ MapsAre(entries')
        /\ PathsOf(LastOf(entries')) \subseteq PathsOf(LastOf(entries)) \cup {e.trace_address}
    BY <1>1, <2>2, <2>4, <2>5, InsertKeeps
  <2>7. Used' \subseteq Used BY <1>3, <2>3, <2>6 DEF Used
  <2>8. StackOK' BY <1>1, <2>1, <2>7, FreshOfFewer DEF StackOK
  <2>9. StepOK' BY <1>2, <1>3 DEF StepOK
  <2> QED BY <1>2, <1>4, <2>1, <2>6, <2>8, <2>9, ListenerPartsNext
<1>5. CASE step_result_entry = <<>> /\ context_stack # <<>>
  BY <1>5, <1>1, <1>2, PopKeeps, ResultIs, ListenerPartsNext DEF EvmExit
<1>6. CASE step_result_entry = <<>> /\ context_stack = <<>>
  <2>1. entries' = entries /\ context_stack' = context_stack BY <1>6 DEF EvmExit
  <2>2. StepOK' /\ Used' = Used BY <1>1, <1>2, <1>3, <1>6, <2>1 DEF StepOK, Used, StepPath
  <2> QED BY <1>1, <1>2, <1>6, <2>1, <2>2, ListenerPartsNext DEF StackOK
<1> QED BY <1>4, <1>5, <1>6

\* Handlers that leave maps, stack and pending entry alone.
LEMMA FlagHandlersKeep ==
    ASSUME ListenerInv,
           \/ RecordTransaction(TxCost) \/ PrecompileSubcall
           \/ \E opcode \in Opcodes : StepResultTrap(opcode)
    PROVE  /\ ListenerInv' /\ entries' = entries /\ UNCHANGED context_stack
           /\ UNCHANGED step_result_entry /\ version' = version
<1>1. FlagsOK /\ MapsAre(entries) /\ StackOK /\ StepOK BY ListenerParts
<1>2. /\ entries' = entries /\ UNCHANGED context_stack
      /\ UNCHANGED step_result_entry /\ version' = version
  BY DEF RecordTransaction, PrecompileSubcall, StepResultTrap
<1>3. FlagsOK'
  <2>1. CASE RecordTransaction(TxCost)
    BY <1>1, <2>1, BoundsAssumption DEF RecordTransaction, FlagsOK
  <2>2. CASE PrecompileSubcall
    <3>1. "Call" \in CallType BY DEF CallType
    <3> QED BY <1>1, <2>2, <3>1 DEF PrecompileSubcall, FlagsOK
  <2>3. CASE \E opcode \in Opcodes : StepResultTrap(opcode)
    BY <1>1, <2>3 DEF StepResultTrap, FlagsOK
  <2> QED BY <2>1, <2>2, <2>3
<1>4. Used' = Used /\ StepOK' /\ StackOK' BY <1>1, <1>2 DEF Used, StepPath, StepOK, StackOK
<1> QED BY <1>1, <1>2, <1>3, <1>4, ListenerPartsNext

\* The first context of a transaction: there is no path yet.
LEMMA RootFresh ==
    ASSUME NEW context \in Context, context.trace_address = <<>>
    PROVE  /\ <<context>> \in Seq(Context) /\ Len(<<context>>) = 1
           /\ Chain(<<context>>) /\ Fresh({}, <<context>>)
<1>1. PICK s : s = <<context>> OBVIOUS
<1>2. s \in Seq(Context) /\ Len(s) = 1 /\ s[1] = context BY <1>1
<1>3. Len(<<>>) = 0 OBVIOUS
<1>4. \A i \in 1..1 : i = 1 OBVIOUS
<1>5. Chain(s) BY <1>2, <1>3, <1>4 DEF Chain
<1>6. Fresh({}, s) BY DEF Fresh
<1> QED BY <1>1, <1>2, <1>5, <1>6

LEMMA BlankIsUnused ==
    ASSUME Blank, step_result_entry = <<>>
    PROVE  Used = {} /\ context_stack = <<>>
<1>1. DOMAIN LastOf(entries) = {} BY DEF Blank, LastMap, LastOf
<1> QED BY <1>1 DEF Blank, Used, PathsOf, StepPath

LEMMA NewContextIs ==
    ASSUME FlagsOK, NEW type \in ContextType, NEW address \in Seq(Nat)
    PROVE  /\ NewContext(type, address) \in Context
           /\ NewContext(type, address).trace_address = address
           /\ NewContext(type, address).subtraces = 0
  BY DEF FlagsOK, NewContext, Context

LEMMA TransactKeeps ==
    ASSUME ListenerInv, NEW type \in ContextType, Transact(type), Blank, step_result_entry = <<>>
    PROVE  ListenerInv' /\ Len(context_stack') = 1
<1>1. FlagsOK /\ MapsAre(entries) /\ StackOK /\ StepOK BY ListenerParts
<1>2. /\ entries' = entries /\ UNCHANGED step_result_entry
      /\ context_stack' = Append(context_stack, NewContext(type, <<>>))
  BY DEF Transact
<1>3. FlagsOK'
  <2>1. entries_next_index' \in Nat BY <1>1 DEF Transact, FlagsOK
  <2> QED BY <1>1, <2>1 DEF Transact, FlagsOK
<1>4. PICK c : c = NewContext(type, <<>>) /\ c \in Context /\ c.trace_address = <<>>
  <2>1. <<>> \in Seq(Nat) OBVIOUS
  <2> QED BY <1>1, <2>1, NewContextIs
<1>5. context_stack' = <<c>> BY <1>2, <1>4, BlankIsUnused
<1>6. Used' = {} /\ StepOK' BY <1>1, <1>2, BlankIsUnused DEF Used, StepPath, StepOK
<1>7. StackOK' /\ Len(context_stack') = 1 BY <1>4, <1>5, <1>6, RootFresh DEF StackOK
<1> QED BY <1>1, <1>2, <1>3, <1>6, <1>7, ListenerPartsNext

\* A Call or Create event opens the next child of the innermost context, or the
\* root, unless TransactX has.
LEMMA OpenKeeps ==
    ASSUME ListenerInv, NEW type \in ContextType, OpenContext(type),
           context_stack # <<>> \/ (Blank /\ step_result_entry = <<>>)
    PROVE  /\ ListenerInv'
           /\ Len(context_stack') = Len(context_stack) + (IF skip_next_context THEN 0 ELSE 1)
<1>1. FlagsOK /\ MapsAre(entries) /\ StackOK /\ StepOK BY ListenerParts
<1>2. entries' = entries /\ step_result_entry' = step_result_entry BY DEF OpenContext
<1>3. Used' = Used /\ StepOK' BY <1>1, <1>2 DEF Used, StepPath, StepOK
<1>4. FlagsOK'
  <2>1. entries_next_index' \in Nat BY <1>1 DEF OpenContext, FlagsOK
  <2>2. skip_next_context' \in BOOLEAN BY <1>1 DEF OpenContext, FlagsOK
  <2> QED BY <1>1, <2>1, <2>2 DEF OpenContext, FlagsOK
<1>5. CASE skip_next_context
  <2>1. context_stack' = context_stack BY <1>5 DEF OpenContext
  <2>2. Len(context_stack) \in Nat BY <1>1, StackFields DEF StackOK
  <2> QED BY <1>1, <1>2, <1>3, <1>4, <1>5, <2>1, <2>2, ListenerPartsNext DEF StackOK
<1>6. CASE ~skip_next_context /\ context_stack # <<>>
  <2>1. PICK s, n, c, q : /\ s = context_stack /\ n = Len(s) /\ c = ChildCounted /\ q = ChildAddress
                          /\ n \in Nat /\ s \in Seq(Context) /\ s # <<>>
    BY <1>1, <1>6, StackFields DEF StackOK
  <2>2. Counted(s, c) /\ q = ChildOf(s)
    BY <1>6, <2>1, ChildIsCounted DEF ChildCounted, ChildAddress, ChildOf, Top
  <2>3. Chain(s) /\ Fresh(Used, s) BY <1>1, <2>1 DEF StackOK
  <2>4. Used \in SUBSET Seq(Nat) BY <1>1, UsedArePaths
  <2>5. /\ q \in Seq(Nat) /\ q \notin Used /\ Len(q) = n
        /\ Chain(c) /\ Fresh(Used \cup {q}, c)
        /\ \A i \in 1..n : q[i] < c[i].subtraces
        /\ \A path \in Used : ~Below(path, q)
    BY <2>1, <2>2, <2>3, <2>4, ChildFresh
  <2>6. c \in Seq(Context) /\ Len(c) = n BY <2>1, <2>2 DEF Counted
  <2>7. Fresh(Used, c) BY <2>5, FreshOfFewer
  <2>8. PICK new : /\ new = NewContext(type, q) /\ new \in Context /\ new.trace_address = q
                   /\ new.subtraces = 0
    BY <1>1, <2>5, NewContextIs
  <2>9. context_stack' = Append(c, new) BY <1>6, <2>1, <2>8 DEF OpenContext
  <2>10. Append(c, new) \in Seq(Context) /\ Chain(Append(c, new)) /\ Fresh(Used, Append(c, new))
    BY <2>4, <2>5, <2>6, <2>7, <2>8, PushFresh
  <2>11. StackOK' BY <1>3, <2>9, <2>10 DEF StackOK
  <2>12. Len(context_stack') = n + 1 BY <2>6, <2>8, <2>9
  <2> QED BY <1>1, <1>2, <1>3, <1>4, <1>6, <2>1, <2>11, <2>12, ListenerPartsNext
<1>7. CASE ~skip_next_context /\ context_stack = <<>>
  <2>1. ChildCounted = <<>> /\ ChildAddress = <<>> /\ Used = {}
    BY <1>7, BlankIsUnused DEF ChildCounted, ChildAddress
  <2>2. PICK new : new = NewContext(type, <<>>) /\ new \in Context /\ new.trace_address = <<>>
    <3>1. <<>> \in Seq(Nat) OBVIOUS
    <3> QED BY <1>1, <3>1, NewContextIs
  <2>3. context_stack' = <<new>> BY <1>7, <2>1, <2>2 DEF OpenContext
  <2>4. StackOK' /\ Len(context_stack') = 1 BY <1>3, <2>1, <2>2, <2>3, RootFresh DEF StackOK
  <2>5. Len(context_stack) = 0 BY <1>7
  <2> QED BY <1>1, <1>2, <1>3, <1>4, <1>7, <2>4, <2>5, ListenerPartsNext
<1> QED BY <1>5, <1>6, <1>7

LEMMA SuicideKeeps ==
    ASSUME ListenerInv, EvmSuicide, context_stack # <<>>
    PROVE  ListenerInv' /\ Len(context_stack') = Len(context_stack)
<1>1. FlagsOK /\ MapsAre(entries) /\ StackOK /\ StepOK BY ListenerParts
<1>2. FlagsOK' BY <1>1 DEF EvmSuicide, FlagsOK
<1>3. PICK s, n, c, q : /\ s = context_stack /\ n = Len(s) /\ c = ChildCounted /\ q = ChildAddress
                        /\ n \in Nat /\ s \in Seq(Context) /\ s # <<>>
  BY <1>1, StackFields DEF StackOK
<1>4. Counted(s, c) /\ q = ChildOf(s)
  BY <1>3, ChildIsCounted DEF ChildCounted, ChildAddress, ChildOf, Top
<1>5. Chain(s) /\ Fresh(Used, s) BY <1>1, <1>3 DEF StackOK
<1>6. Used \in SUBSET Seq(Nat) BY <1>1, UsedArePaths
<1>7. q \in Seq(Nat) /\ q \notin Used /\ Chain(c) /\ Fresh(Used \cup {q}, c)
  BY <1>3, <1>4, <1>5, <1>6, ChildFresh
<1>8. c \in Seq(Context) /\ Len(c) = n BY <1>3, <1>4 DEF Counted
<1>9. PICK e : e = [type |-> "SelfDestruct", trace_address |-> q, subtraces |-> 0,
                    gas_used |-> 0, res |-> "None"]
  OBVIOUS
<1>10. e \in Call /\ e.trace_address = q BY <1>7, <1>9 DEF Call
<1>11. /\ context_stack' = c /\ entries' = Inserted(entries_next_index, e)
       /\ UNCHANGED step_result_entry
  BY <1>3, <1>9 DEF EvmSuicide
<1>12. entries_next_index \in Nat BY <1>1 DEF FlagsOK
<1>13. /\ MapsAre(entries')
       /\ PathsOf(LastOf(entries')) \subseteq PathsOf(LastOf(entries)) \cup {q}
  <2>1. q \notin PathsOf(LastOf(entries)) BY <1>7 DEF Used
  <2> QED BY <1>1, <1>10, <1>11, <1>12, <2>1, InsertKeeps
<1>14. StepPath' = StepPath BY <1>11 DEF StepPath
<1>15. StepOK' BY <1>1, <1>7, <1>11, <1>13, <1>14 DEF StepOK, Used
<1>16. Used' \subseteq Used \cup {q} BY <1>13, <1>14 DEF Used
<1>17. StackOK' BY <1>7, <1>8, <1>11, <1>16, FreshOfFewer DEF StackOK
<1> QED BY <1>2, <1>3, <1>8, <1>11, <1>13, <1>15, <1>17, ListenerPartsNext

\* finish_transaction gives the path of the root to one entry.
LEMMA FinishedIs ==
    ASSUME FlagsOK, MapsAre(entries), StackOK, StepOK,
           context_stack = <<>> /\ record_transaction_event_only => Blank
    PROVE  MapsAre(FinishedEntries) /\ FinishedNextIndex \in Nat
<1>1. entries_next_index \in Nat /\ entries_next_index + 1 \in Nat BY DEF FlagsOK
<1>2. CASE context_stack # <<>>
  <2>1. PICK s, n, c : /\ s = context_stack /\ n = Len(s) /\ c = s[1]
                       /\ n \in Nat /\ s \in Seq(Context) /\ s # <<>>
    BY <1>2, StackFields DEF StackOK
  <2>2. 1 \in 1..n BY <2>1, EmptySeq
  <2>3. c \in Context /\ c.entries_index \in Nat BY <2>1, <2>2, StackFields
  <2>4. PICK e : e = EntryOf(c, "EarlyExit") /\ e \in Call /\ e.trace_address = c.trace_address
    BY <2>3, EntryIsCall
  <2>5. c.trace_address \notin PathsOf(LastOf(entries)) BY <2>1, <2>2 DEF StackOK, Fresh, Used
  <2>6. FinishedEntries = Inserted(c.entries_index, e) BY <1>2, <2>1, <2>4 DEF FinishedEntries
  <2>7. FinishedNextIndex = c.entries_index + 1 BY <1>2, <2>1 DEF FinishedNextIndex
  <2> QED BY <2>3, <2>4, <2>5, <2>6, <2>7, InsertKeeps
<1>3. CASE context_stack = <<>> /\ record_transaction_event_only
  <2>1. PathsOf(LastOf(entries)) = {}
    <3>1. DOMAIN LastOf(entries) = {} BY <1>3 DEF Blank, LastMap, LastOf
    <3> QED BY <3>1 DEF PathsOf
  <2>2. FinishedEntries = Inserted(entries_next_index, UnpaidEntry) BY <1>3 DEF FinishedEntries
  <2>3. FinishedNextIndex = entries_next_index + 1 BY <1>3 DEF FinishedNextIndex
  <2> QED BY <1>1, <2>1, <2>2, <2>3, UnpaidIsCall, InsertKeeps
<1>4. CASE context_stack = <<>> /\ ~record_transaction_event_only
  BY <1>1, <1>4 DEF FinishedEntries, FinishedNextIndex
<1> QED BY <1>2, <1>3, <1>4

\* Maps with an empty one for the next transaction.
LEMMA NextMap ==
    ASSUME NEW maps, MapsAre(maps)
    PROVE  MapsAre(Append(maps, <<>>)) /\ LastOf(Append(maps, <<>>)) = <<>>
<1>1. PICK n, more : n = Len(maps) /\ n \in Nat /\ more = Append(maps, <<>>) BY DEF MapsAre, IsMaps
<1>2. /\ Len(more) = n + 1 /\ more[n + 1] = <<>>
      /\ \A t \in 1..n : more[t] = maps[t]
      /\ more = [t \in 1..(n + 1) |-> more[t]]
  BY <1>1, AppendAny DEF MapsAre, IsMaps
<1>3. more # <<>> BY <1>1, <1>2
<1>4. Typed(<<>>) /\ Unique(<<>>) BY DEF Typed, Unique
<1>5. ASSUME NEW t \in 1..(n + 1) PROVE Typed(more[t]) /\ Unique(more[t])
  <2>1. CASE t = n + 1 BY <1>2, <1>4, <2>1
  <2>2. CASE t # n + 1
    <3>1. t \in 1..n BY <1>1, <2>2
    <3> QED BY <1>1, <1>2, <3>1 DEF MapsAre
  <2> QED BY <2>1, <2>2
<1>6. n + 1 \in Nat BY <1>1
<1> QED BY <1>1, <1>2, <1>3, <1>5, <1>6 DEF MapsAre, IsMaps, LastOf

LEMMA NoStack == <<>> \in Seq(Context) /\ Chain(<<>>) /\ \A paths : Fresh(paths, <<>>)
  BY DEF Chain, Fresh

LEMMA FinishKeeps ==
    ASSUME ListenerInv, FinishTransaction, step_result_entry = <<>>,
           context_stack = <<>> /\ record_transaction_event_only => Blank
    PROVE  ListenerInv'
<1>1. FlagsOK /\ MapsAre(entries) /\ StackOK /\ StepOK BY ListenerParts
<1>2. /\ entries' = FinishedEntries /\ entries_next_index' = FinishedNextIndex
      /\ context_stack' = <<>> /\ step_result_entry' = <<>>
  BY DEF FinishTransaction
<1>3. MapsAre(entries') /\ entries_next_index' \in Nat BY <1>1, <1>2, FinishedIs
<1>4. FlagsOK' BY <1>1, <1>3 DEF FinishTransaction, FlagsOK
<1>5. StackOK' /\ StepOK' BY <1>2, NoStack DEF StackOK, StepOK, StepPath
<1> QED BY <1>3, <1>4, <1>5, ListenerPartsNext

LEMMA NewKeeps ==
    ASSUME ListenerInv, CallListNew, step_result_entry = <<>>,
           context_stack = <<>> /\ record_transaction_event_only => Blank,
           call_list_first_transaction => Blank
    PROVE  ListenerInv' /\ Blank'
<1>1. FlagsOK /\ MapsAre(entries) /\ StackOK /\ StepOK BY ListenerParts
<1>2. step_result_entry' = <<>> BY DEF CallListNew
<1>3. CASE call_list_first_transaction
  <2>1. entries' = entries /\ context_stack' = context_stack BY <1>3 DEF CallListNew
  <2>2. FlagsOK' BY <1>1, <1>3 DEF CallListNew, FlagsOK
  <2>3. Used' = Used /\ StepOK' /\ StackOK' BY <1>1, <1>2, <2>1 DEF Used, StepPath, StepOK, StackOK
  <2>4. Blank' BY <1>3, <2>1 DEF Blank, LastMap
  <2> QED BY <1>1, <2>1, <2>2, <2>3, <2>4, ListenerPartsNext
<1>4. CASE ~call_list_first_transaction
  <2>1. /\ entries' = Append(FinishedEntries, <<>>) /\ entries_next_index' = FinishedNextIndex
        /\ context_stack' = <<>> /\ skip_next_context' = FALSE
    BY <1>4 DEF CallListNew
  <2>2. MapsAre(entries') /\ LastOf(entries') = <<>> /\ entries_next_index' \in Nat
    BY <1>1, <2>1, FinishedIs, NextMap
  <2>3. FlagsOK' BY <1>1, <2>1, <2>2 DEF CallListNew, FlagsOK
  <2>4. StackOK' /\ StepOK' BY <1>2, <2>1, NoStack DEF StackOK, StepOK, StepPath
  <2>5. Blank'
    <3>1. DOMAIN <<>> = {} OBVIOUS
    <3> QED BY <2>1, <2>2, <3>1 DEF Blank, LastMap, LastOf
  <2> QED BY <2>2, <2>3, <2>4, <2>5, ListenerPartsNext
<1> QED BY <1>3, <1>4

-----------------------------------------------------------------------------
\* Frames and call trees.

LEMMA TypeParts ==
    TypeOK <=> /\ ListenerTypeOK /\ runtime \in Runtimes
               /\ stage \in {"idle", "begun", "transact", "paid", "running"} \cup Callers
               /\ FramesOK /\ trap \in ContextType \cup {"none"} /\ TreeOK
  BY DEF TypeOK, FramesOK, TreeOK, Node, OpenNode

LEMMA NodeFields ==
    ASSUME NEW n
    PROVE  n \in Node <=>
             \E ty, q, c, g, r :
                /\ n = [type |-> ty, trace_address |-> q, subtraces |-> c, gas_used |-> g, res |-> r]
                /\ ty \in ContextType \cup {"SelfDestruct"} /\ q \in Seq(Nat) /\ c \in Nat /\ g \in Int
                /\ \/ r \in {"Output", "Error", "Revert", "Fatal", "EarlyExit", "Unpaid", "None"}
                   \/ r = "open" /\ ty \in ContextType
<1>1. n \in Call <=>
        \E ty, q, c, g, r :
           /\ n = [type |-> ty, trace_address |-> q, subtraces |-> c, gas_used |-> g, res |-> r]
           /\ ty \in ContextType \cup {"SelfDestruct"} /\ q \in Seq(Nat) /\ c \in Nat /\ g \in Int
           /\ r \in {"Output", "Error", "Revert", "Fatal", "EarlyExit", "Unpaid", "None"}
  BY DEF Call
<1>2. n \in OpenNode <=>
        \E ty, q, c, g, r :
           /\ n = [type |-> ty, trace_address |-> q, subtraces |-> c, gas_used |-> g, res |-> r]
           /\ ty \in ContextType /\ q \in Seq(Nat) /\ c \in Nat /\ g \in Int /\ r = "open"
  BY DEF OpenNode
<1>3. \A ty : ty \in ContextType => ty \in ContextType \cup {"SelfDestruct"} OBVIOUS
<1> QED BY <1>1, <1>2, <1>3, Zenon DEF Node

\* A node that counts one more child, and one that is closed.
LEMMA NodeCounts ==
    ASSUME NEW n \in Node
    PROVE  [n EXCEPT !.subtraces = @ + 1] \in Node
<1>1. PICK ty, q, c, g, r :
        /\ n = [type |-> ty, trace_address |-> q, subtraces |-> c, gas_used |-> g, res |-> r]
        /\ ty \in ContextType \cup {"SelfDestruct"} /\ q \in Seq(Nat) /\ c \in Nat /\ g \in Int
        /\ \/ r \in {"Output", "Error", "Revert", "Fatal", "EarlyExit", "Unpaid", "None"}
           \/ r = "open" /\ ty \in ContextType
  BY NodeFields
<1>2. PICK c2 : c2 = c + 1 /\ c2 \in Nat BY <1>1
<1>3. [n EXCEPT !.subtraces = @ + 1]
        = [type |-> ty, trace_address |-> q, subtraces |-> c2, gas_used |-> g, res |-> r]
  BY <1>1, <1>2
<1>4. [type |-> ty, trace_address |-> q, subtraces |-> c2, gas_used |-> g, res |-> r] \in Node
  BY <1>1, <1>2, NodeFields
<1> QED BY <1>3, <1>4

LEMMA NewNode ==
    ASSUME NEW type \in ContextType \cup {"SelfDestruct"}, NEW q \in Seq(Nat),
           NEW res \in {"open", "None"}, res = "open" => type \in ContextType
    PROVE  [type |-> type, trace_address |-> q, subtraces |-> 0, gas_used |-> 0, res |-> res] \in Node
<1>1. CASE res = "open" BY <1>1 DEF OpenNode, Node
<1>2. CASE res = "None" BY <1>2 DEF Call, Node
<1> QED BY <1>1, <1>2

LEMMA ReplacedAt ==
    ASSUME NEW S, NEW s \in Seq(S), NEW d \in 1..Len(s), NEW x \in S,
           NEW new, new = [s EXCEPT ![d] = x]
    PROVE  /\ new \in Seq(S) /\ Len(new) = Len(s) /\ new[d] = x
           /\ \A i \in 1..Len(s) : i # d => new[i] = s[i]
  OBVIOUS

LEMMA NodeCloses ==
    ASSUME NEW n \in Node, NEW used \in Int,
           NEW res \in {"Output", "Error", "Revert", "Fatal", "EarlyExit"}
    PROVE  [n EXCEPT !.res = res, !.gas_used = used] \in Node
<1>1. PICK ty, q, c, g, r :
        /\ n = [type |-> ty, trace_address |-> q, subtraces |-> c, gas_used |-> g, res |-> r]
        /\ ty \in ContextType \cup {"SelfDestruct"} /\ q \in Seq(Nat) /\ c \in Nat /\ g \in Int
  BY NodeFields
<1>2. PICK mid : mid = [n EXCEPT !.res = res] OBVIOUS
<1>3. mid = [type |-> ty, trace_address |-> q, subtraces |-> c, gas_used |-> g, res |-> res]
  BY <1>1, <1>2
<1>4. [n EXCEPT !.res = res, !.gas_used = used] = [mid EXCEPT !.gas_used = used] BY <1>2
<1>5. [mid EXCEPT !.gas_used = used]
        = [type |-> ty, trace_address |-> q, subtraces |-> c, gas_used |-> used, res |-> res]
  BY <1>3
<1>6. [type |-> ty, trace_address |-> q, subtraces |-> c, gas_used |-> used, res |-> res] \in Node
  BY <1>1, NodeFields
<1> QED BY <1>4, <1>5, <1>6

LEMMA NodesAre ==
    ASSUME TreeOK, Tx > 0
    PROVE  Nodes \in Seq(Node) /\ Len(Nodes) \in Nat /\ Tx \in Nat /\ Tx \in 1..Tx
  BY DEF TreeOK, Tx, Nodes

\* The tree with other nodes for the current transaction.
LEMMA TreeWith ==
    ASSUME TreeOK, Tx > 0, NEW nodes \in Seq(Node), tree' = [tree EXCEPT ![Tx] = nodes]
    PROVE  TreeOK' /\ Tx' = Tx /\ Nodes' = nodes /\ \A t \in 1..Tx : t # Tx => tree'[t] = tree[t]
<1>1. PICK t, n : t = tree /\ n = Len(t) /\ n \in Nat /\ t \in Seq(Seq(Node)) /\ n \in 1..n
  BY NodesAre DEF TreeOK, Tx
<1>2. PICK u : u = tree' /\ u = [t EXCEPT ![n] = nodes] BY <1>1 DEF Tx
<1>3. u \in Seq(Seq(Node)) /\ Len(u) = n /\ u[n] = nodes /\ \A i \in 1..n : i # n => u[i] = t[i]
  <2>1. PICK S : S = Seq(Node) OBVIOUS
  <2>2. t \in Seq(S) /\ nodes \in S /\ n \in 1..Len(t) BY <1>1, <2>1
  <2>3. u \in Seq(S) /\ Len(u) = n /\ u[n] = nodes /\ \A i \in 1..n : i # n => u[i] = t[i]
    <3>1. n = Len(t) /\ u = [t EXCEPT ![n] = nodes] BY <1>1, <1>2
    <3> QED BY <2>2, <3>1, ReplacedAt
  <2> QED BY <2>1, <2>3
<1> QED BY <1>1, <1>2, <1>3 DEF TreeOK, Tx, Nodes

LEMMA GrownIs ==
    ASSUME TreeOK, Tx > 0, FramesInv,
           NEW type \in ContextType \cup {"SelfDestruct"}, NEW res \in {"open", "None"},
           res = "open" => type \in ContextType, FramesOK
    PROVE  /\ Grown(type, res) \in Seq(Node) /\ Len(Grown(type, res)) = Len(Nodes) + 1
           /\ Grown(type, res)[Len(Nodes) + 1].res = res
           /\ \A i \in 1..Len(Nodes) : Grown(type, res)[i].res = Nodes[i].res
<1>1. PICK s : s = Nodes /\ s \in Seq(Node) BY NodesAre
<1>2. CASE frames = <<>>
  <2>1. PICK n : n = [type |-> type, trace_address |-> <<>>, subtraces |-> 0,
                      gas_used |-> 0, res |-> res]
    OBVIOUS
  <2>2. n \in Node
    <3>1. <<>> \in Seq(Nat) OBVIOUS
    <3> QED BY <2>1, <3>1, NewNode
  <2>3. Grown(type, res) = Append(s, n) BY <1>1, <1>2, <2>1 DEF Grown
  <2>4. n.res = res BY <2>1
  <2>5. /\ Append(s, n) \in Seq(Node) /\ Len(Append(s, n)) = Len(s) + 1
        /\ Append(s, n)[Len(s) + 1] = n /\ \A i \in 1..Len(s) : Append(s, n)[i] = s[i]
    BY <1>1, <2>2
  <2> QED BY <1>1, <2>3, <2>4, <2>5
<1>3. CASE frames # <<>>
  <2>1. PICK d : d = Current.node /\ d \in 1..Len(s)
    <3>1. Len(frames) \in 1..Len(frames) BY <1>3, EmptySeq DEF FramesOK
    <3> QED BY <1>1, <1>3, <3>1 DEF FramesInv, Current
  <2>2. PICK p : p = s[d] /\ p \in Node BY <1>1, <2>1
  <2>3. PICK more : more = [p EXCEPT !.subtraces = @ + 1] /\ more \in Node BY <2>2, NodeCounts
  <2>4. PICK t : t = [s EXCEPT ![d] = more] OBVIOUS
  <2>5. /\ t \in Seq(Node) /\ Len(t) = Len(s) /\ t[d] = more
        /\ \A i \in 1..Len(s) : i # d => t[i] = s[i]
    BY <1>1, <2>1, <2>3, <2>4, ReplacedAt
  <2>6. p.trace_address \in Seq(Nat) /\ p.subtraces \in Nat BY <2>2, NodeFields
  <2>7. PICK q : q = Append(p.trace_address, p.subtraces) /\ q \in Seq(Nat)
    <3>1. Append(p.trace_address, p.subtraces) \in Seq(Nat) BY <2>6
    <3> QED BY <3>1
  <2>8. PICK n : n = [type |-> type, trace_address |-> q, subtraces |-> 0, gas_used |-> 0, res |-> res]
    OBVIOUS
  <2>9. n \in Node BY <2>7, <2>8, NewNode
  <2>10. [Nodes EXCEPT ![Current.node].subtraces = @ + 1] = t BY <1>1, <2>1, <2>2, <2>3, <2>4
  <2>11. Append(CurrentNode.trace_address, CurrentNode.subtraces) = q
    BY <1>1, <2>1, <2>2, <2>7 DEF CurrentNode
  <2>12. Grown(type, res) = Append(t, n) BY <1>3, <2>8, <2>10, <2>11 DEF Grown
  <2>13. more.res = p.res BY <2>2, NodeFields, <2>3
  <2>14. \A i \in 1..Len(s) : t[i].res = s[i].res BY <2>2, <2>5, <2>13
  <2>15. n.res = res BY <2>8
  <2>16. /\ Append(t, n) \in Seq(Node) /\ Len(Append(t, n)) = Len(s) + 1
         /\ Append(t, n)[Len(s) + 1] = n /\ \A i \in 1..Len(s) : Append(t, n)[i] = t[i]
    BY <2>5, <2>9
  <2> QED BY <1>1, <2>12, <2>14, <2>15, <2>16
<1> QED BY <1>2, <1>3

LEMMA CurrentIs ==
    ASSUME FramesOK, frames # <<>>
    PROVE  /\ Len(frames) \in Nat /\ Len(frames) \in 1..Len(frames)
           /\ Current \in Frame /\ Current.node \in Nat /\ Current.costs \in Nat
           /\ Current.phase \in {"new", "running", "suicided", "stopped"}
<1>1. Len(frames) \in Nat /\ Len(frames) \in 1..Len(frames) BY EmptySeq DEF FramesOK
<1>2. Current \in Frame BY <1>1 DEF FramesOK, Current
<1> QED BY <1>1, <1>2 DEF Frame

\* A frame on top.
LEMMA OpenFrameKeeps ==
    ASSUME FramesOK, TreeOK, Tx > 0, FramesInv, runtime' = runtime, runtime \in Runtimes,
           Tx <= Len(MaxNodes[runtime]), NEW type \in ContextType, OpenFrame(type)
    PROVE  /\ FramesOK' /\ TreeOK' /\ Tx' = Tx /\ FramesInv'
           /\ Len(frames') = Len(frames) + 1 /\ frames' # <<>> /\ Current'.phase = "new"
           /\ \A i \in 1..Len(frames) : frames'[i] = frames[i]
           /\ Nodes' = Grown(type, "open") /\ \A t \in 1..Tx : t # Tx => tree'[t] = tree[t]
<1>1. PICK s, n, k : s = frames /\ n = Len(s) /\ s \in Seq(Frame) /\ n \in Nat /\ k = Len(Nodes) /\ k \in Nat
  <2>1. Len(frames) \in Nat BY DEF FramesOK
  <2>2. Len(Nodes) \in Nat BY NodesAre
  <2> QED BY <2>1, <2>2 DEF FramesOK
<1>2. PICK f : f = [node |-> k + 1, phase |-> "new", reason |-> "Succeed", costs |-> 0] OBVIOUS
<1>3. f \in Frame /\ f.node = k + 1 /\ f.phase = "new"
  <2>1. k + 1 \in Nat /\ "Succeed" \in ExitReason BY <1>1 DEF ExitReason
  <2> QED BY <1>2, <2>1 DEF Frame
<1>4. PICK t : t = frames' /\ t = Append(s, f) BY <1>1, <1>2 DEF OpenFrame
<1>5. /\ t \in Seq(Frame) /\ Len(t) = n + 1 /\ t[n + 1] = f
      /\ \A i \in 1..n : t[i] = s[i]
  BY <1>1, <1>3, <1>4
<1>6. PICK g : g = Grown(type, "open") /\ g \in Seq(Node) /\ Len(g) = k + 1 BY <1>1, GrownIs
<1>7. TreeOK' /\ Tx' = Tx /\ Nodes' = g /\ \A u \in 1..Tx : u # Tx => tree'[u] = tree[u]
  BY <1>6, TreeWith DEF OpenFrame
<1>8. k < MaxNodes[runtime][Tx] /\ MaxNodes[runtime][Tx] \in Nat
  <2>1. MaxNodes[runtime] \in Seq(Nat) /\ Tx \in 1..Len(MaxNodes[runtime])
    BY BoundsAssumption, NodesAre
  <2> QED BY <1>1, <2>1 DEF OpenFrame
<1>9. n <= k /\ \A i \in 1..n : s[i].node \in 1..k
  <2>1. CASE s = <<>> BY <1>1, <2>1
  <2>2. CASE s # <<>> BY <1>1, <2>2 DEF FramesInv
  <2> QED BY <2>1, <2>2
<1>10. ASSUME NEW i \in 1..(n + 1) PROVE t[i].node \in 1..(k + 1)
  <2>1. CASE i = n + 1 BY <1>1, <1>3, <1>5, <2>1
  <2>2. CASE i # n + 1
    <3>1. i \in 1..n BY <1>1, <2>2
    <3>2. t[i].node \in 1..k BY <1>5, <1>9, <3>1
    <3> QED BY <1>1, <3>2
  <2> QED BY <2>1, <2>2
<1>11. FramesInv'
  <2>1. Len(t) <= Len(g) /\ Len(g) <= MaxNodes[runtime][Tx] BY <1>1, <1>5, <1>6, <1>8, <1>9
  <2>2. \A i \in 1..Len(t) : t[i].node \in 1..Len(g) BY <1>5, <1>6, <1>10
  <2> QED BY <1>4, <1>7, <2>1, <2>2 DEF FramesInv
<1>12. t # <<>> BY <1>1, <1>5
<1> QED BY <1>1, <1>3, <1>4, <1>5, <1>6, <1>7, <1>11, <1>12 DEF FramesOK, Current

\* The innermost frame leaves.
LEMMA CloseFrameKeeps ==
    ASSUME FramesOK, TreeOK, Tx > 0, FramesInv, runtime' = runtime, frames # <<>>,
           NEW reason \in ExitReason, CloseFrame(reason)
    PROVE  /\ FramesOK' /\ TreeOK' /\ Tx' = Tx /\ FramesInv'
           /\ Len(frames') = Len(frames) - 1
           /\ \A i \in 1..(Len(frames) - 1) : frames'[i] = frames[i]
           /\ \A t \in 1..Tx : t # Tx => tree'[t] = tree[t]
           /\ Len(Nodes') = Len(Nodes)
           /\ \A i \in 1..Len(Nodes) : Nodes'[i].res \in {Nodes[i].res, CallResult(reason)}
<1>1. PICK s, n, k : /\ s = frames /\ n = Len(s) /\ s \in Seq(Frame) /\ n \in Nat /\ n \in 1..n
                     /\ k = Len(Nodes) /\ k \in Nat
  BY NodesAre, CurrentIs DEF FramesOK
<1>2. PICK nodes : nodes = Nodes /\ nodes \in Seq(Node) /\ Len(nodes) = k BY <1>1, NodesAre
<1>3. PICK d : d = Current.node /\ d \in 1..k BY <1>1, <1>2 DEF FramesInv, Current
<1>4. PICK p : p = nodes[d] /\ p \in Node BY <1>2, <1>3
<1>5. PICK used : /\ used = (IF Current.costs = 0 THEN 0 ELSE Current.costs - 1)
                              + (IF Current.node = 1 THEN TxCost ELSE 0)
                  /\ used \in Int
  <2>1. PICK a, b : /\ a = (IF Current.costs = 0 THEN 0 ELSE Current.costs - 1)
                    /\ b = (IF Current.node = 1 THEN TxCost ELSE 0)
    OBVIOUS
  <2>2. Current.costs \in Nat /\ TxCost \in Nat BY CurrentIs, BoundsAssumption
  <2>3. a \in Int BY <2>1, <2>2
  <2>4. b \in Int BY <2>1, <2>2
  <2>5. a + b \in Int BY <2>3, <2>4
  <2> QED BY <2>1, <2>5
<1>6. PICK q : q = [p EXCEPT !.res = CallResult(reason), !.gas_used = used] /\ q \in Node
  BY <1>4, <1>5, ResultIs, NodeCloses
<1>7. PICK g : g = [nodes EXCEPT ![d] = q] OBVIOUS
<1>8. g \in Seq(Node) /\ Len(g) = k /\ g[d] = q /\ \A i \in 1..k : i # d => g[i] = nodes[i]
  BY <1>2, <1>3, <1>6, <1>7, ReplacedAt
<1>9. tree' = [tree EXCEPT ![Tx] = g] BY <1>3, <1>5, <1>2, <1>4, <1>6, <1>7 DEF CloseFrame, Nodes
<1>10. TreeOK' /\ Tx' = Tx /\ Nodes' = g /\ \A i \in 1..Tx : i # Tx => tree'[i] = tree[i]
  BY <1>8, <1>9, TreeWith
<1>11. PICK t : t = frames' /\ t = SubSeq(s, 1, n - 1) BY <1>1 DEF CloseFrame
<1>12. t \in Seq(Frame) /\ Len(t) = n - 1 /\ \A i \in 1..(n - 1) : t[i] = s[i] BY <1>1, <1>11
<1>13. FramesInv' BY <1>1, <1>8, <1>12, <1>10, <1>11 DEF FramesInv
<1>14. q.res = CallResult(reason) BY <1>4, NodeFields, <1>6
<1>15. \A i \in 1..k : g[i].res \in {nodes[i].res, CallResult(reason)} BY <1>8, <1>14
<1> QED BY <1>1, <1>2, <1>8, <1>10, <1>11, <1>12, <1>13, <1>15 DEF FramesOK

\* The innermost frame goes on, with nodes of the tree that are at least as many.
LEMMA SetCurrentKeeps ==
    ASSUME FramesOK, FramesInv, runtime' = runtime, frames # <<>>,
           NEW frame \in Frame, frame.node = Current.node, SetCurrent(frame),
           Tx' = Tx, Len(Nodes) \in Nat, Len(Nodes') \in Nat, Len(Nodes) <= Len(Nodes'),
           Len(Nodes') <= MaxNodes[runtime][Tx]
    PROVE  /\ FramesOK' /\ FramesInv' /\ Len(frames') = Len(frames) /\ frames' # <<>>
           /\ Current' = frame
           /\ \A i \in 1..(Len(frames) - 1) : frames'[i] = frames[i]
<1>1. PICK s, n, k, m : /\ s = frames /\ n = Len(s) /\ s \in Seq(Frame) /\ n \in Nat /\ n \in 1..n
                        /\ k = Len(Nodes) /\ k \in Nat /\ m = Len(Nodes') /\ m \in Nat /\ k <= m
  BY CurrentIs DEF FramesOK
<1>2. PICK t : t = frames' /\ t = [s EXCEPT ![n] = frame] BY <1>1 DEF SetCurrent
<1>3. t \in Seq(Frame) /\ Len(t) = n /\ t[n] = frame /\ \A i \in 1..n : i # n => t[i] = s[i]
  BY <1>1, <1>2, ReplacedAt
<1>4. n <= k /\ \A i \in 1..n : s[i].node \in 1..k BY <1>1 DEF FramesInv
<1>5. \A i \in 1..n : t[i].node = s[i].node BY <1>1, <1>3 DEF Current
<1>6. n <= m /\ \A i \in 1..n : t[i].node \in 1..m BY <1>1, <1>4, <1>5
<1>7. FramesInv' BY <1>1, <1>2, <1>3, <1>6 DEF FramesInv
<1>8. t # <<>> BY <1>1, <1>3
<1>9. \A i \in 1..(n - 1) : i \in 1..n /\ i # n BY <1>1
<1> QED BY <1>1, <1>2, <1>3, <1>7, <1>8, <1>9 DEF FramesOK, Current

-----------------------------------------------------------------------------
\* The steps of the replay.

\* What the invariant says of the EVM's variables.
LEMMA Parts ==
    ASSUME IInv
    PROVE  /\ ListenerInv /\ runtime \in Runtimes /\ FramesOK /\ TreeOK
           /\ trap \in ContextType \cup {"none"} /\ stage \in Stage
           /\ StagesInv /\ FramesInv /\ DepthInv /\ PendingInv
           /\ Len(frames) \in Nat /\ Len(context_stack) \in Nat /\ Tx \in Nat
           /\ Len(MaxNodes[runtime]) \in Nat
           /\ "idle" \notin Callers /\ "begun" \notin Callers /\ "transact" \notin Callers
           /\ "paid" \notin Callers /\ "running" \notin Callers
<1>1. /\ ListenerInv /\ runtime \in Runtimes /\ FramesOK /\ TreeOK
      /\ trap \in ContextType \cup {"none"} /\ stage \in Stage
      /\ StagesInv /\ FramesInv /\ DepthInv /\ PendingInv
  BY TypeParts DEF IInv, ReplayInv, Stage
<1>2. Len(frames) \in Nat BY <1>1 DEF FramesOK
<1>3. Len(context_stack) \in Nat BY <1>1, ListenerParts, StackFields DEF StackOK
<1>4. Tx \in Nat BY <1>1 DEF TreeOK, Tx
<1>5. Len(MaxNodes[runtime]) \in Nat BY <1>1, BoundsAssumption
<1> QED BY <1>1, <1>2, <1>3, <1>4, <1>5, CallersAssumption

LEMMA PartsNext ==
    ASSUME ListenerInv', runtime' \in Runtimes, FramesOK', TreeOK',
           trap' \in ContextType \cup {"none"}, stage' \in Stage,
           StagesInv', FramesInv', DepthInv', PendingInv'
    PROVE  IInv'
<1>1. TypeOK' BY DEF ListenerInv, TypeOK, FramesOK, TreeOK, Node, OpenNode, Stage
<1> QED BY <1>1 DEF IInv, ReplayInv

LEMMA ListenerStutters ==
    ASSUME ListenerInv, UNCHANGED listenerVars
    PROVE  ListenerInv' /\ (Blank <=> Blank')
<1>1. FlagsOK /\ MapsAre(entries) /\ StackOK /\ StepOK BY ListenerParts
<1>2. /\ entries' = entries /\ UNCHANGED context_stack /\ UNCHANGED step_result_entry
  BY DEF listenerVars
<1>3. FlagsOK' BY <1>1 DEF FlagsOK, listenerVars
<1>4. Used' = Used /\ StepOK' /\ StackOK' BY <1>1, <1>2 DEF Used, StepPath, StepOK, StackOK
<1>5. Blank <=> Blank' BY <1>2 DEF Blank, LastMap
<1> QED BY <1>1, <1>2, <1>3, <1>4, <1>5, ListenerPartsNext

LEMMA NoFrames ==
    ASSUME frames' = <<>>
    PROVE  FramesOK' /\ FramesInv' /\ Len(frames') = 0
  BY DEF FramesOK, FramesInv

LEMMA EmitNewKeeps == IInv /\ EmitNew => IInv'
<1> SUFFICES ASSUME IInv, EmitNew PROVE IInv' OBVIOUS
<1>1. /\ stage = "idle" /\ stage' = "begun" /\ Tx < Len(MaxNodes[runtime]) /\ CallListNew
      /\ tree' = Append(tree, <<>>) /\ runtime' = runtime /\ frames' = frames /\ trap' = trap
  BY DEF EmitNew
<1>2. frames = <<>> /\ step_result_entry = <<>> /\ trap = "none"
  BY <1>1, Parts DEF StagesInv, PendingInv
<1>3. ListenerInv' /\ Blank' BY <1>1, <1>2, Parts, NewKeeps DEF PendingInv
<1>4. /\ step_result_entry' = <<>> /\ version' = version /\ ~call_list_first_transaction'
      /\ ~skip_next_context => ~skip_next_context'
  BY <1>1, <1>2 DEF CallListNew
<1>5. TreeOK' /\ Tx' = Tx + 1
  <2>1. PICK S : S = Seq(Node) OBVIOUS
  <2>2. <<>> \in S /\ tree \in Seq(S) BY <2>1, Parts DEF TreeOK
  <2>3. Append(tree, <<>>) \in Seq(S) /\ Len(Append(tree, <<>>)) = Len(tree) + 1 BY <2>2
  <2> QED BY <1>1, <2>1, <2>3 DEF TreeOK, Tx
<1>6. FramesOK' /\ FramesInv' /\ Len(frames') = 0 BY <1>1, <1>2, NoFrames
<1>7. StagesInv' BY <1>1, <1>2, <1>5, Parts DEF StagesInv, Early
<1>8. DepthInv'
  <2>1. ~Early => version = "Legacy" /\ ~skip_next_context BY Parts DEF DepthInv
  <2> QED BY <1>1, <1>4, <1>6, <2>1 DEF DepthInv, Early
<1>9. PendingInv' BY <1>1, <1>2, <1>3, <1>4 DEF PendingInv
<1> QED BY <1>1, <1>3, <1>5, <1>6, <1>7, <1>8, <1>9, Parts, PartsNext DEF Stage

LEMMA EmitTransactKeeps == IInv /\ EmitTransact => IInv'
<1> SUFFICES ASSUME IInv, EmitTransact PROVE IInv' OBVIOUS
<1>1. PICK type \in {"Call", "Create"} : Transact(type) /\ OpenFrame(type) BY DEF EmitTransact
<1>2. Early /\ stage = "begun" /\ stage' = "transact" /\ runtime' = runtime /\ trap' = trap
  BY DEF EmitTransact
<1>3. /\ frames = <<>> /\ step_result_entry = <<>> /\ trap = "none" /\ Blank /\ Tx > 0
      /\ ~call_list_first_transaction /\ Tx <= Len(MaxNodes[runtime])
  BY <1>2, Parts DEF StagesInv, PendingInv
<1>4. type \in ContextType BY <1>1 DEF ContextType, CallType
<1>5. ListenerInv' /\ Len(context_stack') = 1 BY <1>1, <1>3, <1>4, Parts, TransactKeeps
<1>6. /\ FramesOK' /\ TreeOK' /\ Tx' = Tx /\ FramesInv' /\ Len(frames') = Len(frames) + 1
      /\ frames' # <<>> /\ Current'.phase = "new"
  BY <1>1, <1>2, <1>3, <1>4, Parts, OpenFrameKeeps
<1>7. Len(frames') = 1 BY <1>3, <1>6
<1>8. /\ step_result_entry' = <<>> /\ version' = "EarlyTransact" /\ ~call_list_first_transaction'
  BY <1>1, <1>3 DEF Transact
<1>9. StagesInv' BY <1>2, <1>3, <1>6, <1>7, Parts DEF StagesInv, Early
<1>10. DepthInv'
  <2>1. \A i \in 1..Len(frames') : frames'[i].phase = "new"
    <3>1. frames'[1].phase = "new" BY <1>6, <1>7 DEF Current
    <3>2. \A i \in 1..1 : i = 1 OBVIOUS
    <3> QED BY <1>7, <3>1, <3>2
  <2>2. context_stack' # <<>> BY <1>5
  <2>3. \A i \in 1..(Len(frames') - 1) : FALSE BY <1>7
  <2> QED BY <1>2, <1>8, <2>1, <2>2, <2>3 DEF DepthInv, Early
<1>11. PendingInv' BY <1>2, <1>3, <1>8 DEF PendingInv
<1> QED BY <1>2, <1>5, <1>6, <1>9, <1>10, <1>11, Parts, PartsNext DEF Stage

LEMMA EmitRecordTransactionKeeps == IInv /\ EmitRecordTransaction => IInv'
<1> SUFFICES ASSUME IInv, EmitRecordTransaction PROVE IInv' OBVIOUS
<1>1. /\ stage = IF Early THEN "transact" ELSE "begun"
      /\ stage' = "paid" /\ RecordTransaction(TxCost)
      /\ runtime' = runtime /\ frames' = frames /\ trap' = trap /\ tree' = tree
  BY DEF EmitRecordTransaction
<1>2. /\ ListenerInv' /\ entries' = entries /\ UNCHANGED context_stack
      /\ UNCHANGED step_result_entry /\ version' = version
  BY <1>1, Parts, FlagHandlersKeep
<1>3. /\ UNCHANGED call_list_first_transaction
      /\ UNCHANGED skip_next_context
  BY <1>1 DEF RecordTransaction
<1>4. step_result_entry = <<>> /\ trap = "none" /\ ~call_list_first_transaction /\ Tx > 0
  BY <1>1, Parts DEF StagesInv, PendingInv
<1>5. /\ Early => stage = "transact" /\ frames # <<>> /\ Len(frames) <= 1
      /\ ~Early => stage = "begun" /\ frames = <<>> /\ Len(frames) <= 1
  BY <1>1, Parts DEF StagesInv
<1>6. StagesInv' BY <1>1, <1>4, <1>5, Parts DEF StagesInv, Early, Tx
<1>7. FramesOK' /\ TreeOK' /\ FramesInv' BY <1>1, Parts DEF FramesOK, TreeOK, FramesInv, Nodes, Tx
<1>8. DepthInv' BY <1>1, <1>5, Parts, <1>2, <1>3 DEF DepthInv, Early
<1>9. PendingInv'
  <2>1. ~Early => Blank BY <1>5, Parts DEF PendingInv
  <2> QED BY <1>1, <1>2, <1>3, <1>4, <2>1 DEF PendingInv, Blank, LastMap, Early
<1> QED BY <1>1, <1>2, <1>6, <1>7, <1>8, <1>9, Parts, PartsNext DEF Stage

LEMMA RefusedKeeps == IInv /\ Refused => IInv'
<1> SUFFICES ASSUME IInv, Refused PROVE IInv' OBVIOUS
<1>1. /\ stage = "begun" /\ stage' = "idle" /\ UNCHANGED listenerVars
      /\ runtime' = runtime /\ frames' = frames /\ trap' = trap /\ tree' = tree
  BY DEF Refused
<1>2. ListenerInv' /\ (Blank <=> Blank') BY <1>1, Parts, ListenerStutters
<1>3. /\ UNCHANGED step_result_entry /\ version' = version
      /\ UNCHANGED skip_next_context
      /\ UNCHANGED call_list_first_transaction
  BY <1>1 DEF listenerVars
<1>4. /\ frames = <<>> /\ step_result_entry = <<>> /\ trap = "none" /\ Blank /\ Tx > 0
      /\ ~call_list_first_transaction
  BY <1>1, Parts DEF StagesInv, PendingInv
<1>5. StagesInv' BY <1>1, <1>4, Parts DEF StagesInv, Early, Tx
<1>6. FramesOK' /\ TreeOK' /\ FramesInv' /\ Len(frames') = 0
  BY <1>1, <1>4, Parts, NoFrames DEF TreeOK
<1>7. DepthInv'
  <2>1. ~Early => version = "Legacy" /\ ~skip_next_context BY Parts DEF DepthInv
  <2> QED BY <1>1, <1>3, <1>4, <1>6, <2>1 DEF DepthInv, Early
<1>8. PendingInv' BY <1>1, <1>2, <1>3, <1>4 DEF PendingInv
<1> QED BY <1>1, <1>2, <1>5, <1>6, <1>7, <1>8, Parts, PartsNext DEF Stage

LEMMA UnpaidKeeps == IInv /\ Unpaid => IInv'
<1> SUFFICES ASSUME IInv, Unpaid PROVE IInv' OBVIOUS
<1>1. stage = "paid" /\ runtime' = runtime /\ trap' = trap BY DEF Unpaid
<1>2. /\ step_result_entry = <<>> /\ trap = "none" /\ Tx > 0 /\ ~call_list_first_transaction
  BY <1>1, Parts DEF StagesInv, PendingInv
<1>3. CASE Early
  <2>1. EvmExit("Error") /\ CloseFrame("Error") BY <1>3 DEF Unpaid
  <2>2. "Error" \in ExitReason BY DEF ExitReason
  <2>3. frames # <<>> /\ Len(frames) = 1
    <3>1. frames # <<>> /\ Len(frames) <= 1 BY <1>1, <1>3, Parts DEF StagesInv
    <3>2. Len(frames) \in Nat /\ Len(frames) \in 1..Len(frames) BY <3>1, Parts, CurrentIs
    <3>3. PICK n : n = Len(frames) /\ n \in Nat /\ n \in 1..n /\ n <= 1 BY <3>1, <3>2
    <3>4. n = 1 BY <3>3
    <3> QED BY <3>1, <3>3, <3>4
  <2>4. ListenerInv' /\ step_result_entry' = <<>> /\ ~record_transaction_event_only'
    BY <2>1, <2>2, Parts, ExitKeeps
  <2>5. FramesOK' /\ TreeOK' /\ Tx' = Tx /\ FramesInv' /\ Len(frames') = Len(frames) - 1
    BY <1>1, <1>2, <2>1, <2>2, <2>3, Parts, CloseFrameKeeps
  <2>6. stage' = "idle" /\ frames' = <<>> /\ Len(frames') = 0
    BY <2>1, <2>3, <2>5, EmptySeq DEF CloseFrame, FramesOK
  <2>7. version' = version /\ UNCHANGED call_list_first_transaction
    BY <2>1 DEF EvmExit
  <2>8. StagesInv' BY <1>1, <1>2, <2>5, <2>6, Parts DEF StagesInv, Early
  <2>9. DepthInv' BY <1>1, <1>3, <2>4, <2>6 DEF DepthInv, Early
  <2>10. PendingInv' BY <1>1, <1>2, <1>3, <2>4, <2>6, <2>7 DEF PendingInv, Early
  <2> QED BY <1>1, <2>4, <2>5, <2>6, <2>8, <2>9, <2>10, Parts, PartsNext DEF Stage
<1>4. CASE ~Early
  <2>1. /\ UNCHANGED listenerVars /\ frames' = frames /\ stage' = "idle"
        /\ tree' = [tree EXCEPT ![Tx] = <<UnpaidEntry>>]
    BY <1>4 DEF Unpaid
  <2>2. frames = <<>> /\ Blank BY <1>1, <1>4, Parts DEF StagesInv, PendingInv
  <2>3. ListenerInv' /\ Blank' BY <2>1, <2>2, Parts, ListenerStutters
  <2>4. <<UnpaidEntry>> \in Seq(Node) BY UnpaidIsCall DEF Node
  <2>5. TreeOK' /\ Tx' = Tx BY <1>2, <2>1, <2>4, Parts, TreeWith
  <2>6. /\ UNCHANGED step_result_entry /\ version' = version
        /\ UNCHANGED skip_next_context
        /\ UNCHANGED call_list_first_transaction
    BY <2>1 DEF listenerVars
  <2>7. FramesOK' /\ FramesInv' /\ Len(frames') = 0 BY <2>1, <2>2, NoFrames
  <2>8. StagesInv' BY <1>1, <1>2, <2>1, <2>2, <2>5, Parts DEF StagesInv, Early
  <2>9. DepthInv'
    <3>1. version = "Legacy" /\ ~skip_next_context BY <1>4, Parts DEF DepthInv
    <3> QED BY <1>1, <1>2, <2>1, <2>6, <2>7, <3>1 DEF DepthInv, Early
  <2>10. PendingInv' BY <1>1, <1>2, <2>1, <2>3, <2>6 DEF PendingInv
  <2> QED BY <1>1, <2>1, <2>3, <2>5, <2>7, <2>8, <2>9, <2>10, Parts, PartsNext DEF Stage
<1> QED BY <1>3, <1>4

LEMMA OpenCallIs ==
    ASSUME FlagsOK, NEW static \in BOOLEAN, EvmCall(static) \/ EvmCreate
    PROVE  \E type \in ContextType : OpenContext(type)
<1>1. CASE EvmCall(static)
  <2>1. PICK type : type = (IF call_type # "None" THEN call_type
                            ELSE IF static THEN "StaticCall" ELSE "Call")
    OBVIOUS
  <2>2. type \in ContextType BY <2>1 DEF FlagsOK, ContextType, CallType
  <2> QED BY <1>1, <2>1, <2>2 DEF EvmCall
<1>2. CASE EvmCreate BY <1>2 DEF EvmCreate, ContextType
<1> QED BY <1>1, <1>2

LEMMA EmitRootKeeps == IInv /\ EmitRoot => IInv'
<1> SUFFICES ASSUME IInv, EmitRoot PROVE IInv' OBVIOUS
<1>1. PICK type \in {"Call", "Create"} :
        /\ IF Early THEN type = CurrentNode.type /\ UNCHANGED <<frames, tree>> ELSE OpenFrame(type)
        /\ IF type = "Call" THEN EvmCall(FALSE) ELSE EvmCreate
  BY DEF EmitRoot
<1>2. stage = "paid" /\ stage' = "running" /\ runtime' = runtime /\ trap' = trap BY DEF EmitRoot
<1>3. /\ step_result_entry = <<>> /\ trap = "none" /\ Tx > 0 /\ ~call_list_first_transaction
      /\ Tx <= Len(MaxNodes[runtime])
  BY <1>2, Parts DEF StagesInv, PendingInv
<1>4. PICK ty \in ContextType : OpenContext(ty)
  <2>1. FlagsOK BY Parts, ListenerParts
  <2> QED BY <1>1, <2>1, OpenCallIs
<1>5. context_stack # <<>> \/ (Blank /\ step_result_entry = <<>>)
  BY <1>2, <1>3, Parts DEF DepthInv, PendingInv
<1>6. /\ ListenerInv'
      /\ Len(context_stack') = Len(context_stack) + (IF skip_next_context THEN 0 ELSE 1)
  BY <1>4, <1>5, Parts, OpenKeeps
<1>7. /\ step_result_entry' = <<>> /\ version' = version /\ ~record_transaction_event_only'
      /\ UNCHANGED call_list_first_transaction /\ ~skip_next_context'
  BY <1>3, <1>4 DEF OpenContext
<1>8. Len(context_stack') >= 1
  <2>1. Early => Len(context_stack) >= 1
    <3>1. Early => context_stack # <<>> BY <1>2, Parts DEF DepthInv
    <3>2. context_stack \in Seq(Context) BY Parts, ListenerParts DEF StackOK
    <3> QED BY <3>1, <3>2, EmptySeq
  <2>2. ~Early => ~skip_next_context BY Parts DEF DepthInv
  <2> QED BY <1>6, <2>1, <2>2, Parts
<1>9. /\ FramesOK' /\ TreeOK' /\ Tx' = Tx /\ FramesInv' /\ Len(frames') = 1
      /\ frames' # <<>> /\ Current'.phase = "new"
  <2>1. CASE Early
    <3>1. frames' = frames /\ tree' = tree BY <1>1, <2>1
    <3>2. frames # <<>> /\ Len(frames) <= 1 BY <1>2, <2>1, Parts DEF StagesInv
    <3>3. Len(frames) = 1
      <4>1. Len(frames) \in Nat /\ Len(frames) \in 1..Len(frames) BY <3>2, Parts, CurrentIs
      <4> QED BY <3>2, <4>1
    <3>4. \A i \in 1..Len(frames) : frames[i].phase = "new" BY <1>2, Parts DEF DepthInv
    <3>5. Current.phase = "new" BY <3>2, <3>4, Parts, CurrentIs DEF Current
    <3> QED
      BY <1>2, <3>1, <3>2, <3>3, <3>5, Parts DEF FramesOK, TreeOK, FramesInv, Nodes, Tx, Current
  <2>2. CASE ~Early
    <3>1. frames = <<>> /\ OpenFrame(type) BY <1>1, <1>2, <2>2, Parts DEF StagesInv
    <3>2. type \in ContextType BY DEF ContextType, CallType
    <3>3. /\ FramesOK' /\ TreeOK' /\ Tx' = Tx /\ FramesInv' /\ Len(frames') = Len(frames) + 1
          /\ frames' # <<>> /\ Current'.phase = "new"
      BY <1>2, <1>3, <3>1, <3>2, Parts, OpenFrameKeeps
    <3> QED BY <3>1, <3>3
  <2> QED BY <2>1, <2>2
<1>10. StagesInv' BY <1>2, <1>3, <1>9, Parts DEF StagesInv, Early
<1>11. DepthInv' BY <1>9, <1>8, <1>6, Parts, <1>2, <1>7 DEF DepthInv, Early
<1>12. PendingInv' BY <1>2, <1>3, <1>7 DEF PendingInv
<1> QED BY <1>2, <1>6, <1>9, <1>10, <1>11, <1>12, Parts, PartsNext DEF Stage

\* While a frame runs.
LEMMA RunningIs ==
    ASSUME IInv, stage = "running"
    PROVE  /\ frames # <<>> /\ Tx > 0 /\ Tx <= Len(MaxNodes[runtime])
           /\ ~call_list_first_transaction /\ ~record_transaction_event_only /\ ~skip_next_context
           /\ Current.phase # "stopped" => context_stack # <<>> /\ step_result_entry = <<>>
                                           /\ Len(frames) <= Len(context_stack)
           /\ Len(frames) <= Len(context_stack) + 1
           /\ \A i \in 1..(Len(frames) - 1) : frames[i].phase # "stopped"
           /\ Early => version = "EarlyTransact"
           /\ ~Early => version = "Legacy" /\ step_result_entry = <<>>
           /\ Early /\ Current.phase = "stopped" => step_result_entry # <<>>
<1>1. frames # <<>> /\ Tx > 0 /\ Tx <= Len(MaxNodes[runtime]) BY Parts DEF StagesInv
<1>2. ~call_list_first_transaction /\ ~record_transaction_event_only BY Parts DEF PendingInv
<1>3. Current.phase # "stopped" => step_result_entry = <<>> BY Parts DEF PendingInv
<1>4. Current.phase # "stopped" => Len(frames) <= Len(context_stack) BY Parts DEF DepthInv
<1>5. Current.phase # "stopped" => context_stack # <<>>
  <2>1. Len(frames) \in 1..Len(frames) BY <1>1, Parts, CurrentIs
  <2>2. Len(<<>>) = 0 OBVIOUS
  <2> QED BY <1>4, <2>1, <2>2, Parts
<1>6. /\ Len(frames) <= Len(context_stack) + 1 /\ ~skip_next_context
      /\ \A i \in 1..(Len(frames) - 1) : frames[i].phase # "stopped"
      /\ Early => version = "EarlyTransact"
      /\ ~Early => version = "Legacy" /\ step_result_entry = <<>>
      /\ Early /\ Current.phase = "stopped" => step_result_entry # <<>>
  BY Parts DEF DepthInv
<1> QED BY <1>1, <1>2, <1>3, <1>4, <1>5, <1>6

LEMMA RunsOn ==
    ASSUME IInv, stage = "running", stage' = "running", runtime' = runtime,
           ListenerInv', FramesOK', TreeOK', FramesInv', Tx' = Tx, frames' # <<>>,
           trap' \in ContextType \cup {"none"},
           \A i \in 1..(Len(frames') - 1) : frames'[i].phase # "stopped",
           Len(frames') <= Len(context_stack') + 1,
           Current'.phase # "stopped" => Len(frames') <= Len(context_stack'),
           Current'.phase # "stopped" => step_result_entry' = <<>>,
           Early /\ Current'.phase = "stopped" => step_result_entry' # <<>>,
           ~Early => step_result_entry' = <<>>,
           Current'.phase = "stopped" => trap' = "none",
           trap' # "none" => Current'.phase \in {"new", "running"},
           version' = version, UNCHANGED skip_next_context,
           UNCHANGED call_list_first_transaction,
           ~record_transaction_event_only'
    PROVE  IInv'
<1>1. StagesInv' BY RunningIs, Parts DEF StagesInv, Early
<1>2. DepthInv' BY RunningIs DEF DepthInv, Early
<1>3. PendingInv' BY RunningIs DEF PendingInv
<1> QED BY <1>1, <1>2, <1>3, Parts, PartsNext DEF Stage

LEMMA OneMore ==
    ASSUME NEW a \in Nat, NEW m \in Nat, NEW c \in Nat, c < m
    PROVE  (a + 1) * m - c \in Nat
<1>1. (a + 1) * m = a * m + m OBVIOUS
<1>2. PICK x : x = a * m /\ x \in Nat OBVIOUS
<1>3. x + m - c \in Nat BY <1>2
<1> QED BY <1>1, <1>2, <1>3

LEMMA SnapshotIs ==
    ASSUME IInv, stage = "running", Current.costs < MaxCosts[runtime]
    PROVE  Snapshot \in Nat
<1>1. PICK c, m : c = Current.costs /\ m = MaxCosts[runtime] /\ c \in Nat /\ m \in Nat /\ c < m
  BY Parts, RunningIs, CurrentIs, BoundsAssumption
<1>2. PICK f, k, b : /\ f = Len(frames) /\ k = Len(Nodes) /\ b = MaxNodes[runtime][Tx]
                     /\ f \in Nat /\ k \in Nat /\ b \in Nat /\ f <= k /\ k <= b
  <2>1. MaxNodes[runtime] \in Seq(Nat) /\ Tx \in 1..Len(MaxNodes[runtime])
    BY Parts, RunningIs, BoundsAssumption
  <2>2. MaxNodes[runtime][Tx] \in Nat BY <2>1
  <2>3. Len(Nodes) \in Nat BY Parts, RunningIs, NodesAre
  <2>4. Len(frames) <= Len(Nodes) /\ Len(Nodes) <= MaxNodes[runtime][Tx]
    BY Parts, RunningIs DEF FramesInv
  <2> QED BY <2>2, <2>3, <2>4, Parts
<1>3. PICK a : a = b - f /\ a \in Nat BY <1>2
<1>4. b - f + 1 = a + 1 BY <1>2, <1>3
<1>5. Snapshot = (a + 1) * m - c BY <1>1, <1>2, <1>4 DEF Snapshot
<1>6. (a + 1) * m - c \in Nat BY <1>1, <1>3, OneMore
<1> QED BY <1>5, <1>6

\* A frame in another phase, with another reason, or with more costs.
LEMMA FrameFields ==
    ASSUME NEW f \in Frame
    PROVE  \E n, q, s, c : /\ f = [node |-> n, phase |-> q, reason |-> s, costs |-> c]
                           /\ n \in Nat /\ q \in {"new", "running", "suicided", "stopped"}
                           /\ s \in ExitReason /\ c \in Nat
  BY DEF Frame

LEMMA PhaseSet ==
    ASSUME NEW f \in Frame, NEW p \in {"new", "running", "suicided", "stopped"},
           NEW new, new = [f EXCEPT !.phase = p]
    PROVE  new \in Frame /\ new.node = f.node /\ new.phase = p
<1>1. PICK n, q, s, c : /\ f = [node |-> n, phase |-> q, reason |-> s, costs |-> c]
                        /\ n \in Nat /\ s \in ExitReason /\ c \in Nat
  BY FrameFields
<1>2. new = [node |-> n, phase |-> p, reason |-> s, costs |-> c] BY <1>1
<1>3. [node |-> n, phase |-> p, reason |-> s, costs |-> c] \in Frame BY <1>1 DEF Frame
<1> QED BY <1>1, <1>2, <1>3

LEMMA ReasonSet ==
    ASSUME NEW f \in Frame, NEW r \in ExitReason, NEW new, new = [f EXCEPT !.reason = r]
    PROVE  new \in Frame /\ new.node = f.node /\ new.phase = f.phase
<1>1. PICK n, q, s, c : /\ f = [node |-> n, phase |-> q, reason |-> s, costs |-> c]
                        /\ n \in Nat /\ q \in {"new", "running", "suicided", "stopped"} /\ c \in Nat
  BY FrameFields
<1>2. new = [node |-> n, phase |-> q, reason |-> r, costs |-> c] BY <1>1
<1>3. [node |-> n, phase |-> q, reason |-> r, costs |-> c] \in Frame BY <1>1 DEF Frame
<1> QED BY <1>1, <1>2, <1>3

LEMMA CostSet ==
    ASSUME NEW f \in Frame, NEW new, new = [f EXCEPT !.costs = @ + 1]
    PROVE  new \in Frame /\ new.node = f.node /\ new.phase = f.phase
<1>1. PICK n, q, s, c : /\ f = [node |-> n, phase |-> q, reason |-> s, costs |-> c]
                        /\ n \in Nat /\ q \in {"new", "running", "suicided", "stopped"}
                        /\ s \in ExitReason /\ c \in Nat
  BY FrameFields
<1>2. PICK d : d = c + 1 /\ d \in Nat BY <1>1
<1>3. new = [node |-> n, phase |-> q, reason |-> s, costs |-> d] BY <1>1, <1>2
<1>4. [node |-> n, phase |-> q, reason |-> s, costs |-> d] \in Frame BY <1>1, <1>2 DEF Frame
<1> QED BY <1>1, <1>3, <1>4

\* The innermost frame goes on and the tree stays as it is.
LEMMA GoesOn ==
    ASSUME IInv, stage = "running", runtime' = runtime, tree' = tree,
           NEW frame \in Frame, frame.node = Current.node, SetCurrent(frame)
    PROVE  /\ FramesOK' /\ FramesInv' /\ TreeOK' /\ Tx' = Tx
           /\ Len(frames') = Len(frames) /\ frames' # <<>> /\ Current' = frame
           /\ \A i \in 1..(Len(frames') - 1) : frames'[i].phase # "stopped"
<1>1. TreeOK' /\ Tx' = Tx /\ Nodes' = Nodes BY Parts DEF TreeOK, Tx, Nodes
<1>2. Len(Nodes) \in Nat /\ Len(Nodes) <= Len(Nodes) /\ Len(Nodes) <= MaxNodes[runtime][Tx]
  <2>1. Len(Nodes) \in Nat BY Parts, RunningIs, NodesAre
  <2>2. Len(Nodes) <= MaxNodes[runtime][Tx] BY Parts, RunningIs DEF FramesInv
  <2> QED BY <2>1, <2>2
<1>3. /\ FramesOK' /\ FramesInv' /\ Len(frames') = Len(frames) /\ frames' # <<>>
      /\ Current' = frame
      /\ \A i \in 1..(Len(frames) - 1) : frames'[i] = frames[i]
  BY <1>1, <1>2, Parts, RunningIs, SetCurrentKeeps
<1>4. \A i \in 1..(Len(frames') - 1) : frames'[i].phase # "stopped" BY <1>3, RunningIs
<1> QED BY <1>1, <1>3, <1>4

LEMMA EmitRecordCostKeeps == IInv /\ EmitRecordCost => IInv'
<1> SUFFICES ASSUME IInv, EmitRecordCost PROVE IInv' OBVIOUS
<1>1. /\ stage = "running" /\ trap = "none" /\ Current.phase \in {"new", "running"}
      /\ Current.costs < MaxCosts[runtime] /\ RecordCost(Snapshot)
      /\ SetCurrent([Current EXCEPT !.costs = @ + 1])
      /\ runtime' = runtime /\ stage' = stage /\ trap' = trap /\ tree' = tree
  BY DEF EmitRecordCost, Executing
<1>2. Snapshot \in Nat BY <1>1, SnapshotIs
<1>3. /\ ListenerInv' /\ Len(context_stack') = Len(context_stack)
      /\ UNCHANGED step_result_entry /\ version' = version
      /\ UNCHANGED record_transaction_event_only
  BY <1>1, <1>2, Parts, CostKeeps
<1>4. /\ UNCHANGED skip_next_context
      /\ UNCHANGED call_list_first_transaction
  BY <1>1 DEF RecordCost
<1>5. PICK f : /\ f = [Current EXCEPT !.costs = @ + 1] /\ f \in Frame /\ f.node = Current.node
               /\ f.phase = Current.phase
  <2>1. Current \in Frame BY <1>1, Parts, RunningIs, CurrentIs
  <2> QED BY <2>1, CostSet
<1>6. /\ FramesOK' /\ FramesInv' /\ TreeOK' /\ Tx' = Tx
      /\ Len(frames') = Len(frames) /\ frames' # <<>> /\ Current' = f
      /\ \A i \in 1..(Len(frames') - 1) : frames'[i].phase # "stopped"
  BY <1>1, <1>5, GoesOn
<1>7. Current'.phase \in {"new", "running"} /\ Current'.phase # "stopped" BY <1>1, <1>5, <1>6
<1>8. /\ Len(frames') <= Len(context_stack') + 1 /\ Len(frames') <= Len(context_stack')
      /\ step_result_entry' = <<>>
  BY <1>1, <1>3, <1>6, RunningIs
<1> QED BY <1>1, <1>3, <1>4, <1>6, <1>7, <1>8, Parts, RunningIs, RunsOn

LEMMA EmitTrapKeeps == IInv /\ EmitTrap => IInv'
<1> SUFFICES ASSUME IInv, EmitTrap PROVE IInv' OBVIOUS
<1>1. PICK opcode \in Opcodes : StepResultTrap(opcode) /\ trap' = opcode BY DEF EmitTrap
<1>2. /\ stage = "running" /\ trap = "none" /\ Current.phase \in {"new", "running"}
      /\ SetCurrent([Current EXCEPT !.phase = "running"])
      /\ runtime' = runtime /\ stage' = stage /\ tree' = tree
  BY DEF EmitTrap, Executing
<1>3. /\ ListenerInv' /\ UNCHANGED context_stack
      /\ UNCHANGED step_result_entry /\ version' = version
  BY <1>1, Parts, FlagHandlersKeep
<1>4. /\ UNCHANGED skip_next_context
      /\ UNCHANGED call_list_first_transaction
      /\ UNCHANGED record_transaction_event_only
  BY <1>1 DEF StepResultTrap
<1>5. PICK f : /\ f = [Current EXCEPT !.phase = "running"] /\ f \in Frame /\ f.node = Current.node
               /\ f.phase = "running"
  <2>1. Current \in Frame /\ "running" \in {"new", "running", "suicided", "stopped"}
    BY <1>2, Parts, RunningIs, CurrentIs
  <2> QED BY <2>1, PhaseSet
<1>6. /\ FramesOK' /\ FramesInv' /\ TreeOK' /\ Tx' = Tx
      /\ Len(frames') = Len(frames) /\ frames' # <<>> /\ Current' = f
      /\ \A i \in 1..(Len(frames') - 1) : frames'[i].phase # "stopped"
  BY <1>2, <1>5, GoesOn
<1>7. Current'.phase \in {"new", "running"} /\ Current'.phase # "stopped" BY <1>5, <1>6
<1>8. /\ Len(frames') <= Len(context_stack') + 1 /\ Len(frames') <= Len(context_stack')
      /\ step_result_entry' = <<>>
  BY <1>2, <1>3, <1>6, RunningIs
<1>9. trap' \in ContextType \cup {"none"} BY <1>1, OpcodesAssumption
<1> QED BY <1>2, <1>3, <1>4, <1>6, <1>7, <1>8, <1>9, RunningIs, RunsOn

LEMMA EmitPrecompileSubcallKeeps == IInv /\ EmitPrecompileSubcall => IInv'
<1> SUFFICES ASSUME IInv, EmitPrecompileSubcall PROVE IInv' OBVIOUS
<1>1. /\ stage = "running" /\ Current.phase = "new" /\ PrecompileSubcall /\ trap' = "Call"
      /\ runtime' = runtime /\ stage' = stage /\ frames' = frames /\ tree' = tree
  BY DEF EmitPrecompileSubcall, Executing
<1>2. /\ ListenerInv' /\ UNCHANGED context_stack
      /\ UNCHANGED step_result_entry /\ version' = version
  BY <1>1, Parts, FlagHandlersKeep
<1>3. /\ UNCHANGED skip_next_context
      /\ UNCHANGED call_list_first_transaction
      /\ UNCHANGED record_transaction_event_only
  BY <1>1 DEF PrecompileSubcall
<1>4. /\ FramesOK' /\ FramesInv' /\ TreeOK' /\ Tx' = Tx /\ Current' = Current
  BY <1>1, Parts DEF FramesOK, FramesInv, TreeOK, Tx, Nodes, Current
<1>5. Current'.phase \in {"new", "running"} /\ Current'.phase # "stopped" BY <1>1, <1>4
<1>6. /\ Len(frames') <= Len(context_stack') + 1 /\ Len(frames') <= Len(context_stack')
      /\ step_result_entry' = <<>> /\ frames' # <<>>
      /\ \A i \in 1..(Len(frames') - 1) : frames'[i].phase # "stopped"
  BY <1>1, <1>2, RunningIs
<1>7. trap' \in ContextType \cup {"none"} BY <1>1 DEF ContextType, CallType
<1> QED BY <1>1, <1>2, <1>3, <1>4, <1>5, <1>6, <1>7, RunningIs, RunsOn

LEMMA EmitSubframeKeeps == IInv /\ EmitSubframe => IInv'
<1> SUFFICES ASSUME IInv, EmitSubframe PROVE IInv' OBVIOUS
<1>1. /\ stage = "running" /\ trap # "none" /\ trap' = "none" /\ OpenFrame(trap)
      /\ IF trap = "Create" THEN EvmCreate ELSE EvmCall(trap = "StaticCall")
      /\ runtime' = runtime /\ stage' = stage
  BY DEF EmitSubframe
<1>2. Current.phase # "stopped" BY <1>1, Parts DEF PendingInv
<1>3. trap \in ContextType BY <1>1, Parts
<1>4. PICK ty \in ContextType : OpenContext(ty)
  <2>1. FlagsOK BY Parts, ListenerParts
  <2>2. (trap = "StaticCall") \in BOOLEAN OBVIOUS
  <2> QED BY <1>1, <2>1, <2>2, OpenCallIs
<1>5. /\ ListenerInv'
      /\ Len(context_stack') = Len(context_stack) + (IF skip_next_context THEN 0 ELSE 1)
  BY <1>1, <1>2, <1>4, Parts, RunningIs, OpenKeeps
<1>6. Len(context_stack') = Len(context_stack) + 1 BY <1>1, <1>5, RunningIs
<1>7. /\ UNCHANGED step_result_entry /\ version' = version
      /\ ~record_transaction_event_only'
      /\ UNCHANGED call_list_first_transaction
      /\ UNCHANGED skip_next_context
  <2>1. ~skip_next_context BY <1>1, RunningIs
  <2> QED BY <1>4, <2>1 DEF OpenContext
<1>8. /\ FramesOK' /\ TreeOK' /\ Tx' = Tx /\ FramesInv' /\ Len(frames') = Len(frames) + 1
      /\ frames' # <<>> /\ Current'.phase = "new"
      /\ \A i \in 1..Len(frames) : frames'[i] = frames[i]
  BY <1>1, <1>3, Parts, RunningIs, OpenFrameKeeps
<1>9. \A i \in 1..Len(frames) : frames[i].phase # "stopped"
  BY <1>1, RunningIs, Parts, <1>2 DEF Current
<1>10. \A i \in 1..(Len(frames') - 1) : frames'[i].phase # "stopped" BY <1>8, <1>9, Parts
<1>11. Len(frames') <= Len(context_stack') + 1 /\ Len(frames') <= Len(context_stack')
  BY <1>1, <1>2, <1>6, <1>8, Parts, RunningIs
<1>12. step_result_entry' = <<>> BY <1>1, <1>2, <1>7, RunningIs
<1>13. Current'.phase # "stopped" BY <1>8
<1> QED BY <1>1, <1>5, <1>7, <1>8, <1>10, <1>11, <1>12, <1>13, RunningIs, RunsOn

LEMMA EmitSuicideKeeps == IInv /\ EmitSuicide => IInv'
<1> SUFFICES ASSUME IInv, EmitSuicide PROVE IInv' OBVIOUS
<1>1. /\ stage = "running" /\ trap = "none" /\ Current.phase \in {"new", "running"}
      /\ Len(Nodes) < MaxNodes[runtime][Tx] /\ EvmSuicide
      /\ tree' = [tree EXCEPT ![Tx] = Grown("SelfDestruct", "None")]
      /\ SetCurrent([Current EXCEPT !.phase = "suicided"])
      /\ runtime' = runtime /\ stage' = stage /\ trap' = trap
  BY DEF EmitSuicide, Executing
<1>2. Current.phase # "stopped" BY <1>1
<1>3. ListenerInv' /\ Len(context_stack') = Len(context_stack)
  BY <1>1, <1>2, Parts, RunningIs, SuicideKeeps
<1>4. /\ UNCHANGED step_result_entry /\ version' = version
      /\ UNCHANGED skip_next_context
      /\ UNCHANGED call_list_first_transaction
      /\ UNCHANGED record_transaction_event_only
  BY <1>1 DEF EvmSuicide
<1>5. PICK f : /\ f = [Current EXCEPT !.phase = "suicided"] /\ f \in Frame /\ f.node = Current.node
               /\ f.phase = "suicided"
  <2>1. Current \in Frame /\ "suicided" \in {"new", "running", "suicided", "stopped"}
    BY <1>1, Parts, RunningIs, CurrentIs
  <2> QED BY <2>1, PhaseSet
<1>6. PICK g : g = Grown("SelfDestruct", "None") /\ g \in Seq(Node) /\ Len(g) = Len(Nodes) + 1
  BY <1>1, Parts, RunningIs, GrownIs
<1>7. TreeOK' /\ Tx' = Tx /\ Nodes' = g BY <1>1, <1>6, Parts, RunningIs, TreeWith
<1>8. /\ Len(Nodes) \in Nat /\ Len(Nodes') \in Nat /\ Len(Nodes) <= Len(Nodes')
      /\ Len(Nodes') <= MaxNodes[runtime][Tx]
  BY <1>1, Parts, RunningIs, BoundsAssumption, NodesAre, <1>6, <1>7
<1>9. /\ FramesOK' /\ FramesInv' /\ Len(frames') = Len(frames) /\ frames' # <<>> /\ Current' = f
      /\ \A i \in 1..(Len(frames) - 1) : frames'[i] = frames[i]
  BY <1>1, <1>5, <1>7, <1>8, Parts, RunningIs, SetCurrentKeeps
<1>10. \A i \in 1..(Len(frames') - 1) : frames'[i].phase # "stopped" BY <1>1, <1>9, RunningIs
<1>11. Current'.phase # "stopped" BY <1>5, <1>9
<1>12. /\ Len(frames') <= Len(context_stack') + 1 /\ Len(frames') <= Len(context_stack')
       /\ step_result_entry' = <<>>
  BY <1>1, <1>2, <1>3, <1>4, <1>9, RunningIs
<1> QED BY <1>1, <1>3, <1>4, <1>7, <1>9, <1>10, <1>11, <1>12, Parts, RunningIs, RunsOn

LEMMA EmitStepResultExitKeeps == IInv /\ EmitStepResultExit => IInv'
<1> SUFFICES ASSUME IInv, EmitStepResultExit PROVE IInv' OBVIOUS
<1>1. /\ stage = "running" /\ trap = "none" /\ Current.phase # "stopped"
      /\ runtime' = runtime /\ stage' = stage /\ trap' = trap /\ tree' = tree
  BY DEF EmitStepResultExit
<1>2. PICK reason \in Reasons :
        /\ StepResultExit(reason)
        /\ SetCurrent([Current EXCEPT !.phase = "stopped", !.reason = reason])
  BY DEF EmitStepResultExit
<1>3. reason \in ExitReason BY ReasonsAssumption
<1>4. ListenerInv' /\ Len(context_stack') = Len(context_stack) - 1
  BY <1>1, <1>2, <1>3, Parts, RunningIs, StepResultExitKeeps
<1>5. /\ version' = version /\ UNCHANGED skip_next_context
      /\ UNCHANGED call_list_first_transaction
      /\ UNCHANGED record_transaction_event_only
  BY <1>2 DEF StepResultExit
<1>6. Early => step_result_entry' # <<>>
  <2>1. SUFFICES ASSUME Early PROVE step_result_entry' # <<>> OBVIOUS
  <2>2. version = "EarlyTransact" /\ context_stack # <<>> BY <1>1, <2>1, RunningIs
  <2>3. step_result_entry' = <<Top.entries_index, EntryOf(Top, CallResult(reason))>>
    BY <1>2, <2>2 DEF StepResultExit
  <2> QED BY <2>3
<1>7. ~Early => step_result_entry' = <<>>
  <2>1. SUFFICES ASSUME ~Early PROVE step_result_entry' = <<>> OBVIOUS
  <2>2. version = "Legacy" /\ context_stack # <<>> /\ step_result_entry = <<>>
    BY <1>1, <2>1, RunningIs
  <2> QED BY <1>2, <2>2 DEF StepResultExit
<1>8. PICK f : /\ f = [Current EXCEPT !.phase = "stopped", !.reason = reason] /\ f \in Frame
               /\ f.node = Current.node /\ f.phase = "stopped"
  <2>1. Current \in Frame /\ "stopped" \in {"new", "running", "suicided", "stopped"}
    BY <1>1, Parts, RunningIs, CurrentIs
  <2>2. PICK c, mid, g : /\ c = Current /\ mid = [c EXCEPT !.phase = "stopped"]
                         /\ g = [mid EXCEPT !.reason = reason]
    OBVIOUS
  <2>3. g = [Current EXCEPT !.phase = "stopped", !.reason = reason] BY <2>2
  <2>4. mid \in Frame /\ mid.node = c.node /\ mid.phase = "stopped" BY <2>1, <2>2, PhaseSet
  <2>5. g \in Frame /\ g.node = mid.node /\ g.phase = mid.phase
    <3>1. g = [mid EXCEPT !.reason = reason] BY <2>2
    <3>2. mid \in Frame BY <2>4
    <3> QED BY <1>3, <3>1, <3>2, ReasonSet, ZenonT(30)
  <2> QED BY <2>2, <2>3, <2>4, <2>5
<1>9. /\ FramesOK' /\ FramesInv' /\ TreeOK' /\ Tx' = Tx
      /\ Len(frames') = Len(frames) /\ frames' # <<>> /\ Current' = f
      /\ \A i \in 1..(Len(frames') - 1) : frames'[i].phase # "stopped"
  BY <1>1, <1>2, <1>8, GoesOn
<1>10. Current'.phase = "stopped" BY <1>8, <1>9
<1>11. Len(frames') <= Len(context_stack') + 1 BY <1>1, <1>4, <1>9, Parts, RunningIs
<1> QED BY <1>1, <1>4, <1>5, <1>6, <1>7, <1>9, <1>10, <1>11, Parts, RunningIs, RunsOn

LEMMA EndFrameKeeps == IInv /\ EndFrame => IInv'
<1> SUFFICES ASSUME IInv, EndFrame PROVE IInv' OBVIOUS
<1>1. stage = "running" /\ trap = "none" /\ runtime' = runtime /\ trap' = trap BY DEF EndFrame
<1>2. PICK reason \in Reasons :
        /\ IF Early THEN EvmExit(reason) ELSE UNCHANGED listenerVars
        /\ CloseFrame(reason)
  BY DEF EndFrame
<1>3. reason \in ExitReason BY ReasonsAssumption
<1>4. PICK n : n = Len(frames) /\ n \in Nat /\ n \in 1..n BY <1>1, Parts, RunningIs, CurrentIs
<1>5. /\ FramesOK' /\ TreeOK' /\ Tx' = Tx /\ FramesInv' /\ Len(frames') = n - 1
      /\ \A i \in 1..(n - 1) : frames'[i] = frames[i]
  BY <1>1, <1>2, <1>3, <1>4, Parts, RunningIs, CloseFrameKeeps
<1>6. /\ ListenerInv' /\ step_result_entry' = <<>> /\ ~record_transaction_event_only'
      /\ version' = version /\ UNCHANGED skip_next_context
      /\ UNCHANGED call_list_first_transaction
  <2>1. CASE Early BY <1>2, <1>3, <2>1, Parts, ExitKeeps DEF EvmExit
  <2>2. CASE ~Early
    <3>1. step_result_entry = <<>> /\ ~record_transaction_event_only BY <1>1, <2>2, RunningIs
    <3> QED BY <1>2, <2>2, <3>1, Parts, ListenerStutters DEF listenerVars
  <2> QED BY <2>1, <2>2
<1>7. n - 1 <= Len(context_stack') /\ Len(context_stack') \in Nat
  <2>1. CASE Early /\ step_result_entry # <<>>
    <3>1. context_stack' = context_stack BY <1>2, <1>3, <2>1, Parts, ExitKeeps
    <3> QED BY <1>1, <1>4, <3>1, Parts, RunningIs
  <2>2. CASE Early /\ step_result_entry = <<>>
    <3>1. Current.phase # "stopped" /\ context_stack # <<>> /\ n <= Len(context_stack)
      BY <1>1, <1>4, <2>2, RunningIs
    <3>2. Len(context_stack') = Len(context_stack) - 1 BY <1>2, <1>3, <2>2, <3>1, Parts, ExitKeeps
    <3> QED BY <1>4, <3>1, <3>2, Parts
  <2>3. CASE ~Early
    <3>1. context_stack' = context_stack BY <1>2, <2>3 DEF listenerVars
    <3> QED BY <1>1, <1>4, <3>1, Parts, RunningIs
  <2> QED BY <2>1, <2>2, <2>3
<1>8. \A i \in 1..(n - 1) : frames'[i].phase # "stopped" BY <1>1, <1>4, <1>5, RunningIs
<1>9. CASE n = 1
  <2>1. stage' = "idle" BY <1>2, <1>4, <1>9 DEF CloseFrame
  <2>2. frames' = <<>> /\ Len(frames') = 0 BY <1>5, <1>9, EmptySeq DEF FramesOK
  <2>3. StagesInv' BY <1>1, <1>5, <2>1, <2>2, Parts, RunningIs DEF StagesInv, Early
  <2>4. DepthInv' BY Parts, <2>2, <1>1, <1>6, <2>1 DEF DepthInv, Early
  <2>5. PendingInv'
    <3>1. ~call_list_first_transaction' BY <1>1, <1>6, RunningIs
    <3> QED BY <1>1, <1>6, <2>1, <3>1 DEF PendingInv
  <2> QED BY <1>1, <1>5, <1>6, <2>1, <2>3, <2>4, <2>5, Parts, PartsNext DEF Stage
<1>10. CASE n # 1
  <2>1. stage' = "running" BY <1>1, <1>2, <1>4, <1>10 DEF CloseFrame
  <2>2. PICK m : m = n - 1 /\ m \in Nat /\ m \in 1..m /\ m \in 1..(n - 1) BY <1>4, <1>10
  <2>3. frames' # <<>> BY <1>5, <2>2
  <2>4. Current'.phase # "stopped" BY <1>5, <1>8, <2>2 DEF Current
  <2>5. \A i \in 1..(Len(frames') - 1) : frames'[i].phase # "stopped" BY <2>2, <1>5, <1>8
  <2>6. Len(frames') <= Len(context_stack') + 1 /\ Len(frames') <= Len(context_stack')
    BY <1>4, <1>5, <1>7
  <2> QED BY <1>1, <1>5, <1>6, <2>1, <2>3, <2>4, <2>5, <2>6, Parts, RunsOn
<1> QED BY <1>9, <1>10

LEMMA EndReplayKeeps == IInv /\ EndReplay => IInv'
<1> SUFFICES ASSUME IInv, EndReplay PROVE IInv' OBVIOUS
<1>1. /\ stage = "idle" /\ Tx > 0 /\ stage' \in Callers
      /\ runtime' = runtime /\ frames' = frames /\ trap' = trap /\ tree' = tree
      /\ FinishTransaction \/ UNCHANGED listenerVars
  BY DEF EndReplay
<1>2. /\ frames = <<>> /\ step_result_entry = <<>> /\ trap = "none"
      /\ ~call_list_first_transaction /\ (record_transaction_event_only => Blank)
  BY <1>1, Parts DEF StagesInv, PendingInv
<1>3. ListenerInv' BY <1>1, <1>2, Parts, FinishKeeps, ListenerStutters
<1>4. /\ UNCHANGED step_result_entry /\ version' = version
      /\ UNCHANGED skip_next_context
      /\ UNCHANGED call_list_first_transaction
  BY <1>1 DEF FinishTransaction, listenerVars
<1>5. FramesOK' /\ TreeOK' /\ FramesInv' /\ Len(frames') = 0 /\ Tx' = Tx
  BY <1>1, <1>2, Parts, NoFrames DEF TreeOK, Tx
<1>6. stage' # "idle" /\ stage' # "begun" /\ stage' # "transact" /\ stage' # "paid" /\ stage' # "running"
  BY <1>1, Parts
<1>7. StagesInv' BY <1>1, <1>2, <1>5, <1>6, Parts DEF StagesInv, Early
<1>8. DepthInv' BY Parts, <1>5, <1>1, <1>2, <1>4, <1>6 DEF DepthInv, Early
<1>9. PendingInv' BY <1>1, <1>2, <1>4, <1>6 DEF PendingInv
<1> QED BY <1>1, <1>3, <1>5, <1>7, <1>8, <1>9, Parts, PartsNext DEF Stage

-----------------------------------------------------------------------------
\* The theorems.

LEMMA InitKeeps == Init => IInv
<1> SUFFICES ASSUME Init PROVE IInv OBVIOUS
<1>1. /\ entries = <<>> /\ context_stack = <<>> /\ step_result_entry = <<>> /\ stage = "idle"
      /\ frames = <<>> /\ trap = "none" /\ tree = <<>> /\ runtime \in Runtimes
      /\ version = "Legacy" /\ ~record_transaction_event_only /\ ~skip_next_context
  BY DEF Init, ListenerInit
<1>2. Len(<<>>) = 0 /\ DOMAIN <<>> = {} /\ <<>> \in Seq(Frame) /\ <<>> \in Seq(Seq(Node))
      /\ 1..0 = {} /\ <<>> = [t \in 1..0 |-> <<>>[t]]
  OBVIOUS
<1>3. FlagsOK BY DEF Init, ListenerInit, FlagsOK
<1>4. MapsAre(entries) BY <1>1, <1>2 DEF MapsAre, IsMaps
<1>5. StackOK /\ StepOK BY <1>1, NoStack DEF StackOK, StepOK, StepPath
<1>6. ListenerInv BY <1>3, <1>4, <1>5, ListenerParts
<1>7. TypeOK BY <1>1, <1>2, <1>6, TypeParts DEF ListenerInv, FramesOK, TreeOK
<1>8. StagesInv
  <2>1. Len(MaxNodes[runtime]) \in Nat BY <1>1, BoundsAssumption
  <2> QED BY <1>1, <1>2, <2>1 DEF StagesInv, Tx
<1>9. FramesInv /\ DepthInv BY <1>1, <1>2 DEF FramesInv, DepthInv
<1>10. PendingInv BY <1>1, <1>2 DEF PendingInv, Blank, LastMap, Tx
<1> QED BY <1>6, <1>7, <1>8, <1>9, <1>10 DEF IInv, ReplayInv

LEMMA NextKeeps == IInv /\ [Next]_vars => IInv'
<1> SUFFICES ASSUME IInv, [Next]_vars PROVE IInv' OBVIOUS
<1>1. CASE Next
  BY <1>1, EmitNewKeeps, EmitTransactKeeps, EmitRecordTransactionKeeps, UnpaidKeeps, RefusedKeeps,
     EmitRootKeeps, EmitRecordCostKeeps, EmitTrapKeeps, EmitPrecompileSubcallKeeps,
     EmitSubframeKeeps, EmitSuicideKeeps, EmitStepResultExitKeeps, EndFrameKeeps, EndReplayKeeps
  DEF Next
<1>2. CASE UNCHANGED vars
  <2>1. UNCHANGED listenerVars /\ UNCHANGED <<runtime, stage, frames, trap, tree>>
    BY <1>2 DEF vars, evmVars
  <2>2. ListenerInv' /\ (Blank <=> Blank') BY <2>1, Parts, ListenerStutters
  <2>3. FramesOK' /\ TreeOK' /\ StagesInv' /\ FramesInv'
    BY <2>1, Parts DEF FramesOK, TreeOK, StagesInv, FramesInv, Early, Tx, Nodes
  <2>4. DepthInv' BY <2>1, Parts DEF DepthInv, Early, Current, listenerVars
  <2>5. PendingInv' BY <2>1, <2>2, Parts DEF PendingInv, Early, Current, Tx, listenerVars
  <2> QED BY <2>1, <2>2, <2>3, <2>4, <2>5, Parts, PartsNext
<1> QED BY <1>1, <1>2

\* Every reachable state of the replay has the types of TypeOK: contexts, entries
\* and the pending entry are what call_list.rs declares, and no handler of the
\* listener is applied outside of what it handles.
THEOREM CallListTypeCorrect == Spec => []TypeOK
<1>1. IInv => TypeOK BY DEF IInv
<1> QED BY <1>1, InitKeeps, NextKeeps, PTL DEF Spec

\* No two entries of a transaction have the same trace address, for both kinds
\* of runtime, however its frames end and whatever contexts were left over.
THEOREM PathsCorrect == Spec => []PathsAreUnique
<1>1. IInv => PathsAreUnique
  <2> SUFFICES ASSUME IInv PROVE PathsAreUnique OBVIOUS
  <2>1. MapsAre(entries) BY Parts, ListenerParts
  <2>2. DOMAIN entries = 1..Len(entries) BY <2>1 DEF MapsAre, IsMaps
  <2> QED BY <2>1, <2>2 DEF MapsAre, Unique, PathsAreUnique
<1> QED BY <1>1, InitKeeps, NextKeeps, PTL DEF Spec

-----------------------------------------------------------------------------
\* The roots: a second invariant, on top of the first.

LEMMA WithHas ==
    ASSUME NEW map, NEW key, NEW entry
    PROVE  entry.trace_address \in PathsOf(With(map, key, entry))
<1>1. PICK new : new = With(map, key, entry) OBVIOUS
<1>2. key \in DOMAIN new /\ new[key] = entry BY <1>1 DEF With
<1> QED BY <1>1, <1>2 DEF PathsOf

\* The outermost context is the root.
LEMMA BottomIsRoot ==
    ASSUME StackOK, context_stack # <<>>
    PROVE  /\ 1 \in 1..Len(context_stack) /\ context_stack[1] \in Context
           /\ context_stack[1].trace_address = <<>>
<1>1. PICK s, n : s = context_stack /\ n = Len(s) /\ n \in Nat /\ s \in Seq(Context) /\ s # <<>>
  BY StackFields DEF StackOK
<1>2. n # 0 BY <1>1, EmptySeq
<1>3. 1 \in 1..n BY <1>1, <1>2
<1>4. PICK q : q = s[1].trace_address /\ q \in Seq(Nat) /\ s[1] \in Context
  BY <1>1, <1>3, StackFields
<1>5. Len(q) = 0
  <2>1. Chain(s) BY <1>1 DEF StackOK
  <2>2. Len(q) = 1 - 1 BY <1>1, <1>3, <1>4, <2>1 DEF Chain
  <2> QED BY <2>2
<1> QED BY <1>1, <1>3, <1>4, <1>5, EmptySeq

LEMMA PopRoot ==
    ASSUME FlagsOK, MapsAre(entries), StackOK, context_stack # <<>>,
           NEW res \in {"Output", "Error", "Revert", "Fatal", "EarlyExit"},
           context_stack' = Popped,
           \/ /\ entries' = Inserted(Top.entries_index, EntryOf(Top, res))
              /\ step_result_entry' = <<>>
           \/ /\ entries' = entries
              /\ step_result_entry' = <<Top.entries_index, EntryOf(Top, res)>>
    PROVE  RootKnown'
<1>1. PICK s, n : s = context_stack /\ n = Len(s) /\ n \in Nat /\ s \in Seq(Context) /\ s # <<>>
  BY StackFields DEF StackOK
<1>2. 1 \in 1..n /\ s[1] \in Context /\ s[1].trace_address = <<>> BY <1>1, BottomIsRoot
<1>3. CASE n # 1
  <2>1. PICK r : r = context_stack' /\ r = SubSeq(s, 1, n - 1) BY <1>1 DEF Popped
  <2>2. Len(r) = n - 1 /\ n - 1 # 0 BY <1>1, <1>2, <1>3, <2>1
  <2>3. r # <<>> BY <2>2
  <2> QED BY <2>1, <2>3 DEF RootKnown
<1>4. CASE n = 1
  <2>1. PICK k, e : k = Top.entries_index /\ e = EntryOf(Top, res) OBVIOUS
  <2>2. e.trace_address = <<>>
    <3>1. PICK top : top = s[1] /\ top \in Context /\ top.trace_address = <<>> BY <1>2
    <3>2. Top = top BY <1>1, <1>4, <3>1 DEF Top
    <3>3. EntryOf(top, res).trace_address = top.trace_address BY <3>1, EntryIsCall
    <3> QED BY <2>1, <3>1, <3>2, <3>3
  <2>3. CASE /\ entries' = Inserted(Top.entries_index, EntryOf(Top, res))
             /\ step_result_entry' = <<>>
    BY <2>1, <2>3, InsertedIs, <2>2, WithHas DEF MapsAre, LastMap, LastOf, RootKnown
  <2>4. CASE /\ entries' = entries
             /\ step_result_entry' = <<Top.entries_index, EntryOf(Top, res)>>
    BY <2>1, <2>4, <2>2 DEF StepPath, RootKnown
  <2> QED BY <2>3, <2>4
<1> QED BY <1>3, <1>4

LEMMA StepResultExitRoot ==
    ASSUME ListenerInv, NEW reason \in ExitReason, StepResultExit(reason), context_stack # <<>>,
           step_result_entry = <<>>
    PROVE  RootKnown' /\ Inserts
  BY ListenerParts, PopRoot, ResultIs DEF StepResultExit, Inserts

LEMMA ExitRoot ==
    ASSUME ListenerInv, NEW reason \in ExitReason, EvmExit(reason), RootKnown
    PROVE  RootKnown' /\ Inserts
<1>1. FlagsOK /\ MapsAre(entries) /\ StackOK /\ StepOK BY ListenerParts
<1>2. step_result_entry' = <<>> BY DEF EvmExit
<1>3. LastMap' = LastOf(entries') BY DEF LastMap, LastOf
<1>4. CASE step_result_entry # <<>>
  <2>1. UNCHANGED context_stack /\ entries' = Inserted(step_result_entry[1], step_result_entry[2])
    BY <1>4 DEF EvmExit
  <2>2. PICK k, e : k = step_result_entry[1] /\ e = step_result_entry[2] OBVIOUS
  <2>3. entries' = Inserted(k, e) BY <2>1, <2>2
  <2>4. LastOf(entries') = With(LastOf(entries), k, e) BY <1>1, <2>3, InsertedIs DEF MapsAre
  <2>5. e.trace_address \in PathsOf(LastOf(entries')) BY <2>4, WithHas
  <2>6. context_stack = <<>> => e.trace_address = <<>> BY <1>4, <2>2 DEF RootKnown, StepPath
  <2>7. RootKnown' BY <1>2, <1>3, <2>1, <2>5, <2>6 DEF RootKnown
  <2> QED BY <2>3, <2>7 DEF Inserts
<1>5. CASE step_result_entry = <<>> /\ context_stack # <<>>
  BY <1>5, <1>1, <1>2, PopRoot, ResultIs DEF EvmExit, Inserts
<1>6. CASE step_result_entry = <<>> /\ context_stack = <<>>
  <2>1. entries' = entries /\ context_stack' = context_stack BY <1>6 DEF EvmExit
  <2> QED BY <1>2, <1>6, <2>1 DEF RootKnown, LastMap, StepPath, Inserts
<1> QED BY <1>4, <1>5, <1>6

LEMMA RootStays ==
    ASSUME RootKnown, entries' = entries, UNCHANGED step_result_entry,
           context_stack' = <<>> <=> context_stack = <<>>
    PROVE  RootKnown'
  BY DEF RootKnown, LastMap, StepPath

\* A transaction is shown as before while its tree and those before stay.
LEMMA ShownStays ==
    ASSUME NEW t \in Nat, runtime' = runtime, \A u \in 1..t : tree'[u] = tree[u], t \in 1..t
    PROVE  Shown(t)' <=> Shown(t)
  BY DEF Invented, Early, Shown

\* An entry in the last map leaves the roots of the other transactions alone.
LEMMA InsertedRoots ==
    ASSUME MapsAre(entries), Tx \in Nat, Tx > 0, OneMapEach(entries), RootsUpTo(entries, Tx - 1),
           NEW key, NEW entry
    PROVE  OneMapEach(Inserted(key, entry)) /\ RootsUpTo(Inserted(key, entry), Tx - 1)
<1>1. PICK n, x : n = Len(entries) /\ n \in Nat /\ x = Tx /\ x \in Nat /\ x > 0 /\ n <= x /\ x <= n + 1
  BY DEF MapsAre, IsMaps, OneMapEach
<1>2. PICK m : m = Inserted(key, entry) OBVIOUS
<1>3. CASE entries = <<>>
  <2>1. Len(m) = 1 BY <1>2, <1>3, InsertedIs DEF MapsAre
  <2>2. n = 0 BY <1>1, <1>3
  <2>3. x = 1 BY <1>1, <2>2
  <2>4. 1..(x - 1) = {} BY <2>3
  <2> QED BY <1>1, <1>2, <2>1, <2>3, <2>4 DEF OneMapEach, RootsUpTo
<1>4. CASE entries # <<>>
  <2>1. Len(m) = n /\ \A t \in 1..n : t # n => m[t] = entries[t]
    BY <1>1, <1>2, <1>4, InsertedIs DEF MapsAre
  <2>2. PICK o : o = x - n /\ o \in Int BY <1>1
  <2>3. \A t \in 1..(x - 1) : t > o => t - o \in 1..n /\ t - o # n BY <1>1, <2>2
  <2>4. \A t \in 1..(x - 1) : t > o => m[t - o] = entries[t - o] BY <2>1, <2>3
  <2>5. Tx - Len(entries) = o /\ Tx - Len(m) = o BY <1>1, <2>1, <2>2
  <2>6. RootsUpTo(m, Tx - 1)
    <3> SUFFICES ASSUME NEW t \in 1..(x - 1)
                 PROVE  IF Shown(t) THEN t > o /\ RootOf(m[t - o], tree[t]) ELSE t > o => DOMAIN m[t - o] = {}
      BY <1>1, <2>5 DEF RootsUpTo
    <3>1. IF Shown(t) THEN t > o /\ RootOf(entries[t - o], tree[t]) ELSE t > o => DOMAIN entries[t - o] = {}
      BY <1>1, <2>5 DEF RootsUpTo
    <3>2. t > o => m[t - o] = entries[t - o] BY <2>4
    <3> QED BY <3>1, <3>2
  <2> QED BY <1>1, <1>2, <2>1, <2>6 DEF OneMapEach
<1> QED BY <1>3, <1>4

\* What the current transaction does leaves the roots of the others alone.
LEMMA RootsStay ==
    ASSUME MapsAre(entries), Tx \in Nat, Tx > 0, Tx' = Tx, runtime' = runtime,
           \A t \in 1..Tx : t # Tx => tree'[t] = tree[t],
           OneMapEach(entries), RootsUpTo(entries, Tx - 1), Inserts
    PROVE  OneMapEach(entries)' /\ RootsUpTo(entries, Tx - 1)'
<1>1. PICK x : x = Tx /\ x \in Nat /\ x > 0 OBVIOUS
<1>2. \A t \in 1..(x - 1) : Shown(t)' <=> Shown(t)
  <2> SUFFICES ASSUME NEW t \in 1..(x - 1) PROVE Shown(t)' <=> Shown(t) OBVIOUS
  <2>1. t \in Nat /\ t \in 1..t /\ \A u \in 1..t : u \in 1..x /\ u # x BY <1>1
  <2> QED BY <1>1, <2>1, ShownStays
<1>3. PICK m : m = entries' /\ OneMapEach(m) /\ RootsUpTo(m, x - 1)
  BY <1>1, InsertedRoots DEF Inserts
<1>4. \A t \in 1..(x - 1) : tree'[t] = tree[t] BY <1>1
<1> QED BY <1>1, <1>2, <1>3, <1>4 DEF OneMapEach, RootsUpTo, RootOf, Marked, Executed

\* The first node of an executed transaction is the one it began with.
LEMMA GrownExecuted ==
    ASSUME TreeOK, Tx > 0, FramesInv, FramesOK, Nodes = <<>> \/ Executed(Nodes),
           NEW type \in ContextType \cup {"SelfDestruct"}, NEW res \in {"open", "None"},
           res = "open" => type \in ContextType
    PROVE  Executed(Grown(type, res))
<1>1. PICK s, k : s = Nodes /\ s \in Seq(Node) /\ k = Len(s) /\ k \in Nat BY NodesAre
<1>2. PICK g : /\ g = Grown(type, res) /\ g \in Seq(Node) /\ Len(g) = k + 1 /\ g[k + 1].res = res
               /\ \A i \in 1..k : g[i].res = s[i].res
  BY <1>1, GrownIs
<1>3. g # <<>> BY <1>1, <1>2
<1>4. CASE s = <<>>
  <2>1. k = 0 BY <1>1, <1>4
  <2>2. g[1].res = res BY <1>2, <2>1
  <2> QED BY <1>2, <1>3, <2>2 DEF Executed
<1>5. CASE Executed(s) BY <1>5, <1>1, EmptySeq, <1>2, <1>3 DEF Executed
<1> QED BY <1>1, <1>4, <1>5

LEMMA ClosedExecuted ==
    ASSUME FramesOK, TreeOK, Tx > 0, FramesInv, runtime' = runtime, frames # <<>>, Executed(Nodes),
           NEW reason \in ExitReason, CloseFrame(reason)
    PROVE  Executed(Nodes')
<1>1. PICK s, k : s = Nodes /\ s \in Seq(Node) /\ k = Len(s) /\ k \in Nat BY NodesAre
<1>2. /\ Len(Nodes') = k /\ Tx' = Tx
      /\ \A i \in 1..k : Nodes'[i].res \in {s[i].res, CallResult(reason)}
  BY <1>1, CloseFrameKeeps
<1>3. s # <<>> /\ s[1].res # "Unpaid" BY <1>1 DEF Executed
<1>4. k # 0 BY <1>1, <1>3, EmptySeq
<1>5. 1 \in 1..k BY <1>1, <1>4
<1>6. CallResult(reason) # "Unpaid" BY DEF CallResult, ExitReason
<1>7. Nodes' # <<>> BY <1>2, <1>4
<1> QED BY <1>2, <1>3, <1>5, <1>6, <1>7 DEF Executed

LEMMA RootParts ==
    ASSUME IInv, RootIInv
    PROVE  /\ MapsAre(entries) /\ StackOK /\ StepOK /\ FlagsOK
           /\ OneMapEach(entries) /\ (Tx = 0 => call_list_first_transaction)
           /\ stage # "debug" => RootsUpTo(entries, Tx - 1)
           /\ stage = "debug" => RootsUpTo(entries, Tx)
           /\ CurrentInv /\ FlagInv
  BY Parts, ListenerParts DEF RootIInv, RootsInv

\* RootsInv for whatever the current transaction does.
LEMMA InTransaction ==
    ASSUME IInv, RootIInv, Tx > 0, stage # "debug", stage' # "debug", Tx' = Tx, runtime' = runtime,
           \A t \in 1..Tx : t # Tx => tree'[t] = tree[t], Inserts
    PROVE  RootsInv'
<1>1. OneMapEach(entries)' /\ RootsUpTo(entries, Tx - 1)' BY Parts, RootParts, RootsStay
<1>2. ~(Tx' = 0) BY Parts
<1>3. (IF stage = "debug" THEN Tx ELSE Tx - 1)' = Tx' - 1 OBVIOUS
<1>4. RootsUpTo(entries, IF stage = "debug" THEN Tx ELSE Tx - 1)' BY <1>1 DEF RootsUpTo
<1> QED BY <1>1, <1>2, <1>4 DEF RootsInv

-----------------------------------------------------------------------------
\* The steps and the roots.

LEMMA ExecutesOn ==
    ASSUME RootsInv', stage' \in {"transact", "running"}, Executed(Nodes)', RootKnown'
    PROVE  RootIInv'
  BY DEF RootIInv, CurrentInv, FlagInv

\* Steps of a running frame that leave the tree alone.
LEMMA RunsInTree ==
    ASSUME IInv, RootIInv, stage = "running", stage' = stage, runtime' = runtime, tree' = tree,
           Inserts, RootKnown'
    PROVE  RootIInv'
<1>1. Tx > 0 BY RunningIs
<1>2. RootsInv' BY <1>1, InTransaction DEF Tx
<1>3. Executed(Nodes) BY RootParts DEF CurrentInv
<1>4. Executed(Nodes)' BY <1>3 DEF Nodes, Tx, Executed
<1> QED BY <1>2, <1>4, ExecutesOn

LEMMA EmitRecordCostRoot == IInv /\ RootIInv /\ EmitRecordCost => RootIInv'
<1> SUFFICES ASSUME IInv, RootIInv, EmitRecordCost PROVE RootIInv' OBVIOUS
<1>1. /\ stage = "running" /\ Current.costs < MaxCosts[runtime] /\ RecordCost(Snapshot)
      /\ runtime' = runtime /\ stage' = stage /\ tree' = tree
  BY DEF EmitRecordCost, Executing
<1>2. /\ Len(context_stack') = Len(context_stack) /\ entries' = entries
      /\ UNCHANGED step_result_entry /\ ListenerInv'
  BY <1>1, SnapshotIs, Parts, CostKeeps
<1>3. context_stack' = <<>> <=> context_stack = <<>>
  <2>1. context_stack' \in Seq(Context) BY <1>2 DEF ListenerInv, ListenerTypeOK
  <2>2. context_stack \in Seq(Context) BY Parts, ListenerParts DEF StackOK
  <2> QED BY <1>2, <2>1, <2>2, EmptySeq
<1>4. RootKnown BY <1>1, RootParts DEF CurrentInv
<1>5. RootKnown' BY <1>2, <1>3, <1>4, RootStays
<1> QED BY <1>1, <1>2, <1>5, RunsInTree DEF Inserts

LEMMA EmitTrapRoot == IInv /\ RootIInv /\ (EmitTrap \/ EmitPrecompileSubcall) => RootIInv'
<1> SUFFICES ASSUME IInv, RootIInv, EmitTrap \/ EmitPrecompileSubcall PROVE RootIInv' OBVIOUS
<1>1. /\ stage = "running" /\ runtime' = runtime /\ stage' = stage /\ tree' = tree
      /\ PrecompileSubcall \/ \E opcode \in Opcodes : StepResultTrap(opcode)
  BY DEF EmitTrap, EmitPrecompileSubcall, Executing
<1>2. /\ UNCHANGED context_stack /\ entries' = entries
      /\ UNCHANGED step_result_entry
  BY <1>1, Parts, FlagHandlersKeep
<1>3. RootKnown BY <1>1, RootParts DEF CurrentInv
<1>4. RootKnown' BY <1>2, <1>3, RootStays
<1> QED BY <1>1, <1>2, <1>4, RunsInTree DEF Inserts

LEMMA EmitStepResultExitRoot == IInv /\ RootIInv /\ EmitStepResultExit => RootIInv'
<1> SUFFICES ASSUME IInv, RootIInv, EmitStepResultExit PROVE RootIInv' OBVIOUS
<1>1. /\ stage = "running" /\ Current.phase # "stopped"
      /\ runtime' = runtime /\ stage' = stage /\ tree' = tree
  BY DEF EmitStepResultExit
<1>2. PICK reason \in Reasons : StepResultExit(reason) BY DEF EmitStepResultExit
<1>3. reason \in ExitReason BY ReasonsAssumption
<1>4. RootKnown' /\ Inserts BY <1>1, <1>2, <1>3, Parts, RunningIs, StepResultExitRoot
<1> QED BY <1>1, <1>4, RunsInTree

\* Steps that add a node.
LEMMA EmitSubframeRoot == IInv /\ IInv' /\ RootIInv /\ EmitSubframe => RootIInv'
<1> SUFFICES ASSUME IInv, IInv', RootIInv, EmitSubframe PROVE RootIInv' OBVIOUS
<1>1. /\ stage = "running" /\ trap # "none" /\ runtime' = runtime /\ stage' = stage
      /\ OpenFrame(trap) /\ (EvmCreate \/ EvmCall(trap = "StaticCall"))
  BY DEF EmitSubframe
<1>2. trap \in ContextType /\ trap \in ContextType \cup {"SelfDestruct"} BY <1>1, Parts
<1>3. PICK ty \in ContextType : OpenContext(ty)
  <2>1. FlagsOK /\ (trap = "StaticCall") \in BOOLEAN BY Parts, ListenerParts
  <2> QED BY <1>1, <2>1, OpenCallIs
<1>4. entries' = entries BY <1>3 DEF OpenContext
<1>5. Tx > 0 /\ Executed(Nodes) BY <1>1, RootParts, RunningIs DEF CurrentInv
<1>6. /\ Nodes' = Grown(trap, "open") /\ Tx' = Tx
      /\ \A t \in 1..Tx : t # Tx => tree'[t] = tree[t]
  BY <1>1, <1>2, Parts, RunningIs, OpenFrameKeeps
<1>7. Executed(Nodes')
  <2>1. Executed(Grown(trap, "open")) BY <1>2, <1>5, Parts, GrownExecuted
  <2> QED BY <1>6, <2>1
<1>8. RootsInv' BY <1>1, <1>4, <1>5, <1>6, InTransaction DEF Inserts
<1>9. context_stack' # <<>>
  <2>1. PICK s, c : s = ChildCounted /\ c = NewContext(ty, ChildAddress) OBVIOUS
  <2>2. context_stack' = Append(s, c) BY <1>1, <1>3, <2>1, RunningIs DEF OpenContext
  <2> QED BY <2>2
<1>10. RootKnown' BY <1>9 DEF RootKnown
<1> QED BY <1>1, <1>7, <1>8, <1>10, ExecutesOn DEF Executed

LEMMA EmitSuicideRoot == IInv /\ RootIInv /\ EmitSuicide => RootIInv'
<1> SUFFICES ASSUME IInv, RootIInv, EmitSuicide PROVE RootIInv' OBVIOUS
<1>1. /\ stage = "running" /\ Current.phase # "stopped" /\ EvmSuicide
      /\ tree' = [tree EXCEPT ![Tx] = Grown("SelfDestruct", "None")]
      /\ runtime' = runtime /\ stage' = stage
  BY DEF EmitSuicide, Executing
<1>2. Tx > 0 /\ Executed(Nodes) /\ context_stack # <<>> BY <1>1, RootParts, RunningIs DEF CurrentInv
<1>3. PICK g : g = Grown("SelfDestruct", "None") /\ g \in Seq(Node) /\ Executed(g)
  BY <1>2, Parts, GrownIs, GrownExecuted
<1>4. Tx' = Tx /\ Nodes' = g /\ \A t \in 1..Tx : t # Tx => tree'[t] = tree[t]
  BY <1>1, <1>2, <1>3, Parts, TreeWith
<1>5. ListenerInv' /\ Len(context_stack') = Len(context_stack) BY <1>1, <1>2, Parts, SuicideKeeps
<1>6. context_stack' # <<>>
  <2>1. context_stack \in Seq(Context) BY Parts, ListenerParts DEF StackOK
  <2>2. Len(<<>>) = 0 OBVIOUS
  <2> QED BY <1>2, <1>5, <2>1, <2>2, EmptySeq
<1>7. Inserts BY <1>1 DEF EvmSuicide, Inserts
<1>8. RootsInv' BY <1>1, <1>2, <1>4, <1>7, InTransaction
<1>9. RootKnown' BY <1>6 DEF RootKnown
<1> QED BY <1>1, <1>3, <1>4, <1>8, <1>9, ExecutesOn DEF Executed

\* Steps at the beginning of a transaction.
LEMMA EmitTransactRoot == IInv /\ RootIInv /\ EmitTransact => RootIInv'
<1> SUFFICES ASSUME IInv, RootIInv, EmitTransact PROVE RootIInv' OBVIOUS
<1>1. stage = "begun" /\ stage' = "transact" /\ runtime' = runtime BY DEF EmitTransact
<1>2. PICK type \in {"Call", "Create"} : Transact(type) /\ OpenFrame(type) BY DEF EmitTransact
<1>3. type \in ContextType /\ type \in ContextType \cup {"SelfDestruct"}
  BY DEF ContextType, CallType
<1>4. Tx > 0 /\ Nodes = <<>> /\ Tx <= Len(MaxNodes[runtime])
  BY <1>1, RootParts, Parts DEF CurrentInv, StagesInv
<1>5. /\ Nodes' = Grown(type, "open") /\ Tx' = Tx
      /\ \A t \in 1..Tx : t # Tx => tree'[t] = tree[t]
  BY <1>1, <1>2, <1>3, <1>4, Parts, OpenFrameKeeps
<1>6. Executed(Nodes')
  <2>1. Executed(Grown(type, "open")) BY <1>3, <1>4, Parts, GrownExecuted
  <2> QED BY <1>5, <2>1
<1>7. entries' = entries /\ context_stack' = Append(context_stack, NewContext(type, <<>>))
  BY <1>2 DEF Transact
<1>8. RootsInv' BY <1>1, <1>4, <1>5, <1>7, InTransaction DEF Inserts
<1>9. RootKnown'
  <2>1. PICK s, c : s = context_stack /\ c = NewContext(type, <<>>) OBVIOUS
  <2>2. context_stack' = Append(s, c) BY <1>7, <2>1
  <2>3. context_stack' # <<>> BY <2>2
  <2> QED BY <2>3 DEF RootKnown
<1> QED BY <1>1, <1>6, <1>8, <1>9, ExecutesOn DEF Executed

LEMMA EmitRecordTransactionRoot == IInv /\ RootIInv /\ EmitRecordTransaction => RootIInv'
<1> SUFFICES ASSUME IInv, RootIInv, EmitRecordTransaction PROVE RootIInv' OBVIOUS
<1>1. /\ stage = (IF Early THEN "transact" ELSE "begun") /\ stage' = "paid"
      /\ runtime' = runtime /\ tree' = tree /\ RecordTransaction(TxCost)
  BY DEF EmitRecordTransaction
<1>2. /\ UNCHANGED context_stack /\ entries' = entries
      /\ UNCHANGED step_result_entry
  BY <1>1, Parts, FlagHandlersKeep
<1>3. record_transaction_event_only' BY <1>1 DEF RecordTransaction
<1>4. Tx > 0 /\ stage # "debug" BY <1>1, Parts DEF StagesInv
<1>5. Tx' = Tx /\ Nodes' = Nodes BY <1>1 DEF Tx, Nodes
<1>6. RootsInv' BY <1>1, <1>2, <1>4, <1>5, InTransaction DEF Inserts
<1>7. ~Early => Nodes' = <<>> BY <1>1, <1>5, RootParts DEF CurrentInv
<1>8. Early => Executed(Nodes') /\ RootKnown'
  <2>1. Early => Executed(Nodes) /\ RootKnown BY <1>1, RootParts DEF CurrentInv
  <2>2. RootKnown => RootKnown' BY <1>2, RootStays
  <2> QED BY <1>5, <2>1, <2>2
<1>9. Early' <=> Early BY <1>1 DEF Early
<1>10. CurrentInv' BY <1>1, <1>7, <1>8, <1>9 DEF CurrentInv, Executed
<1>11. FlagInv' BY <1>1, <1>3 DEF FlagInv
<1> QED BY <1>6, <1>10, <1>11 DEF RootIInv

LEMMA RefusedRoot == IInv /\ RootIInv /\ Refused => RootIInv'
<1> SUFFICES ASSUME IInv, RootIInv, Refused PROVE RootIInv' OBVIOUS
<1>1. stage = "begun" /\ stage' = "idle" /\ runtime' = runtime /\ tree' = tree /\ UNCHANGED listenerVars
  BY DEF Refused
<1>2. /\ UNCHANGED context_stack /\ entries' = entries
      /\ UNCHANGED record_transaction_event_only
  BY <1>1 DEF listenerVars
<1>3. Tx > 0 /\ Nodes = <<>> /\ Blank
  BY <1>1, RootParts, Parts DEF CurrentInv, StagesInv, PendingInv
<1>4. Tx' = Tx /\ Nodes' = Nodes BY <1>1 DEF Tx, Nodes
<1>5. RootsInv' BY <1>1, <1>2, <1>3, <1>4, InTransaction DEF Inserts
<1>6. Blank' BY <1>2, <1>3 DEF Blank, LastMap
<1>7. CurrentInv' BY <1>1, <1>3, <1>4, <1>6 DEF CurrentInv
<1>8. UnpaidBefore' <=> UnpaidBefore BY <1>1 DEF UnpaidBefore, Early, Tx
<1>9. FlagInv' BY <1>1, <1>2, <1>8, RootParts DEF FlagInv
<1> QED BY <1>5, <1>7, <1>9 DEF RootIInv

LEMMA EmitRootRoot == IInv /\ IInv' /\ RootIInv /\ EmitRoot => RootIInv'
<1> SUFFICES ASSUME IInv, IInv', RootIInv, EmitRoot PROVE RootIInv' OBVIOUS
<1>1. PICK type \in {"Call", "Create"} :
        /\ IF Early THEN type = CurrentNode.type /\ UNCHANGED <<frames, tree>> ELSE OpenFrame(type)
        /\ IF type = "Call" THEN EvmCall(FALSE) ELSE EvmCreate
  BY DEF EmitRoot
<1>2. stage = "paid" /\ stage' = "running" /\ runtime' = runtime BY DEF EmitRoot
<1>3. type \in ContextType /\ type \in ContextType \cup {"SelfDestruct"}
  BY DEF ContextType, CallType
<1>4. Tx > 0 /\ Tx <= Len(MaxNodes[runtime]) BY <1>2, Parts DEF StagesInv
<1>5. PICK ty \in ContextType : OpenContext(ty)
  <2>1. FlagsOK BY Parts, ListenerParts
  <2> QED BY <1>1, <2>1, OpenCallIs
<1>6. entries' = entries BY <1>5 DEF OpenContext
<1>7. Executed(Nodes') /\ Tx' = Tx /\ \A t \in 1..Tx : t # Tx => tree'[t] = tree[t]
  <2>1. CASE Early
    <3>1. tree' = tree BY <1>1, <2>1
    <3>2. Executed(Nodes) BY <1>2, <2>1, RootParts DEF CurrentInv
    <3> QED BY <3>1, <3>2 DEF Nodes, Tx
  <2>2. CASE ~Early
    <3>1. OpenFrame(type) /\ Nodes = <<>> BY <1>1, <1>2, <2>2, RootParts DEF CurrentInv
    <3>2. /\ Nodes' = Grown(type, "open") /\ Tx' = Tx
          /\ \A t \in 1..Tx : t # Tx => tree'[t] = tree[t]
      BY <1>2, <1>3, <1>4, <3>1, Parts, OpenFrameKeeps
    <3>3. Executed(Grown(type, "open")) BY <1>3, <1>4, <3>1, Parts, GrownExecuted
    <3> QED BY <3>2, <3>3
  <2> QED BY <2>1, <2>2
<1>8. RootsInv' BY <1>2, <1>4, <1>6, <1>7, InTransaction DEF Inserts
<1>9. context_stack' # <<>>
  <2>1. CASE skip_next_context BY <1>5, <2>1, Parts, <1>2 DEF OpenContext, DepthInv
  <2>2. CASE ~skip_next_context
    <3>1. PICK s, c : s = ChildCounted /\ c = NewContext(ty, ChildAddress) OBVIOUS
    <3>2. context_stack' = Append(s, c) BY <1>5, <2>2, <3>1 DEF OpenContext
    <3> QED BY <3>2
  <2> QED BY <2>1, <2>2
<1>10. RootKnown' BY <1>9 DEF RootKnown
<1> QED BY <1>2, <1>7, <1>8, <1>10, ExecutesOn DEF Executed

\* A transaction ends that was executed: the flag is not set, and not expected.
LEMMA ExecutedEnds ==
    ASSUME TreeOK', Tx' = Tx, Tx > 0, Tx \in Nat, stage' = "idle", Executed(Nodes'), RootsInv', RootKnown',
           ~record_transaction_event_only'
    PROVE  RootIInv'
<1>1. CurrentInv' BY DEF CurrentInv, Executed
<1>2. ~UnpaidBefore'
  <2> SUFFICES ASSUME NEW u \in 1..Tx, tree'[u] = <<UnpaidEntry>>,
                      \A v \in (u + 1)..Tx : tree'[v] = <<>>
               PROVE  FALSE
    BY DEF UnpaidBefore
  <2>1. tree'[Tx] # <<>> /\ tree'[Tx][1].res # "Unpaid" BY DEF Executed, Nodes
  <2>2. u = Tx BY <2>1
  <2>3. PICK e : e = UnpaidEntry /\ e.res = "Unpaid" BY DEF UnpaidEntry
  <2>4. tree'[Tx] = <<e>> BY <2>2, <2>3
  <2>5. tree'[Tx][1] = e BY <2>4
  <2> QED BY <2>1, <2>3, <2>5
<1>3. FlagInv' BY <1>2 DEF FlagInv
<1> QED BY <1>1, <1>3 DEF RootIInv

LEMMA UnpaidRoot == IInv /\ IInv' /\ RootIInv /\ Unpaid => RootIInv'
<1> SUFFICES ASSUME IInv, IInv', RootIInv, Unpaid PROVE RootIInv' OBVIOUS
<1>1. stage = "paid" /\ runtime' = runtime /\ Tx > 0 BY Parts DEF Unpaid, StagesInv
<1>2. CASE Early
  <2>1. EvmExit("Error") /\ CloseFrame("Error") BY <1>2 DEF Unpaid
  <2>2. "Error" \in ExitReason BY DEF ExitReason
  <2>3. frames # <<>> /\ Len(frames) = 1
    <3>1. frames # <<>> /\ Len(frames) <= 1 BY <1>1, <1>2, Parts DEF StagesInv
    <3>2. PICK n : n = Len(frames) /\ n \in Nat /\ n \in 1..n /\ n <= 1 BY <3>1, Parts, CurrentIs
    <3>3. n = 1 BY <3>2
    <3> QED BY <3>1, <3>2, <3>3
  <2>4. Executed(Nodes) /\ RootKnown BY <1>1, <1>2, RootParts DEF CurrentInv
  <2>5. Executed(Nodes') BY <1>1, <2>1, <2>2, <2>3, <2>4, Parts, ClosedExecuted
  <2>6. TreeOK' /\ Tx' = Tx /\ \A t \in 1..Tx : t # Tx => tree'[t] = tree[t]
    BY <1>1, <2>1, <2>2, <2>3, Parts, CloseFrameKeeps
  <2>7. RootKnown' /\ Inserts /\ ~record_transaction_event_only'
    BY <2>1, <2>2, <2>4, Parts, ExitRoot DEF EvmExit
  <2>8. stage' = "idle" BY <2>1, <2>3 DEF CloseFrame
  <2>9. RootsInv' BY <1>1, <2>6, <2>7, <2>8, InTransaction
  <2> QED BY <1>1, <2>5, <2>6, <2>7, <2>8, <2>9, Parts, ExecutedEnds
<1>3. CASE ~Early
  <2>1. /\ UNCHANGED listenerVars /\ stage' = "idle"
        /\ tree' = [tree EXCEPT ![Tx] = <<UnpaidEntry>>]
    BY <1>3 DEF Unpaid
  <2>2. entries' = entries /\ UNCHANGED record_transaction_event_only
    BY <2>1 DEF listenerVars
  <2>3. record_transaction_event_only BY <1>1, RootParts DEF FlagInv
  <2>4. PICK nodes : nodes = <<UnpaidEntry>> /\ nodes \in Seq(Node) /\ nodes # <<>>
    <3>1. PICK e : e = UnpaidEntry /\ e \in Node BY UnpaidIsCall DEF Node
    <3>2. <<e>> \in Seq(Node) /\ <<e>> # <<>> BY <3>1
    <3> QED BY <3>1, <3>2
  <2>5. Tx' = Tx /\ Nodes' = nodes /\ \A t \in 1..Tx : t # Tx => tree'[t] = tree[t]
    BY <1>1, <2>1, <2>4, Parts, TreeWith
  <2>6. RootsInv' BY <1>1, <2>1, <2>2, <2>5, InTransaction DEF Inserts
  <2>7. CurrentInv' BY <2>1, <2>2, <2>3, <2>4, <2>5 DEF CurrentInv
  <2>8. UnpaidBefore'
    <3>1. Tx \in 1..Tx /\ (Tx + 1)..Tx = {} BY <1>1, Parts
    <3>2. tree'[Tx] = <<UnpaidEntry>> BY <2>4, <2>5 DEF Nodes
    <3> QED BY <1>1, <1>3, <2>5, <3>1, <3>2 DEF UnpaidBefore, Early
  <2>9. FlagInv' BY <2>1, <2>2, <2>3, <2>8 DEF FlagInv
  <2> QED BY <2>6, <2>7, <2>9 DEF RootIInv
<1> QED BY <1>2, <1>3

LEMMA EndFrameRoot == IInv /\ IInv' /\ RootIInv /\ EndFrame => RootIInv'
<1> SUFFICES ASSUME IInv, IInv', RootIInv, EndFrame PROVE RootIInv' OBVIOUS
<1>1. stage = "running" /\ runtime' = runtime /\ Tx > 0 /\ frames # <<>> BY RunningIs DEF EndFrame
<1>2. PICK reason \in Reasons :
        /\ IF Early THEN EvmExit(reason) ELSE UNCHANGED listenerVars
        /\ CloseFrame(reason)
  BY DEF EndFrame
<1>3. reason \in ExitReason BY ReasonsAssumption
<1>4. Executed(Nodes) /\ RootKnown BY <1>1, RootParts DEF CurrentInv
<1>5. Executed(Nodes') BY <1>1, <1>2, <1>3, <1>4, Parts, ClosedExecuted
<1>6. TreeOK' /\ Tx' = Tx /\ \A t \in 1..Tx : t # Tx => tree'[t] = tree[t]
  BY <1>1, <1>2, <1>3, Parts, CloseFrameKeeps
<1>7. RootKnown' /\ Inserts /\ ~record_transaction_event_only'
  <2>1. CASE Early BY <1>2, <1>3, <1>4, <2>1, Parts, ExitRoot DEF EvmExit
  <2>2. CASE ~Early BY <1>2, <2>2, <1>1, RunningIs, <1>4, RootStays DEF listenerVars, Inserts
  <2> QED BY <2>1, <2>2
<1>8. stage' \in {"idle", "running"} BY <1>1, <1>2 DEF CloseFrame
<1>9. RootsInv' BY <1>1, <1>6, <1>7, <1>8, InTransaction
<1>10. CASE stage' = "idle" BY <1>1, <1>5, <1>6, <1>7, <1>9, <1>10, Parts, ExecutedEnds
<1>11. CASE stage' = "running" BY <1>5, <1>7, <1>9, <1>11, ExecutesOn DEF Executed
<1> QED BY <1>8, <1>10, <1>11

\* What handlers insert for a transaction that is executed does not say that it is unpaid.
LEMMA PaidInsert ==
    ASSUME MapsAre(entries), \A k \in DOMAIN LastMap : LastMap[k].res # "Unpaid",
           NEW key, NEW entry, entry.res # "Unpaid", entries' = Inserted(key, entry)
    PROVE  \A k \in DOMAIN LastMap' : LastMap'[k].res # "Unpaid"
<1>1. PICK new : new = entries' /\ LastOf(new) = With(LastOf(entries), key, entry)
  BY InsertedIs DEF MapsAre
<1>2. LastMap' = LastOf(new) BY <1>1 DEF LastMap, LastOf
<1> QED BY <1>1, <1>2, LastMapIsLastOf DEF With

LEMMA PaidEntry ==
    ASSUME NEW c, NEW reason \in ExitReason
    PROVE  EntryOf(c, CallResult(reason)).res # "Unpaid"
  BY DEF EntryOf, CallResult, ExitReason

LEMMA ExitUnmarked ==
    ASSUME MapsAre(entries), Unmarked, stage # "debug", NEW reason \in ExitReason, EvmExit(reason)
    PROVE  Unmarked'
<1>1. step_result_entry' = <<>> BY DEF EvmExit
<1>2. \A k \in DOMAIN LastMap' : LastMap'[k].res # "Unpaid"
  <2>1. CASE step_result_entry # <<>>
    <3>1. PICK k, e : k = step_result_entry[1] /\ e = step_result_entry[2] OBVIOUS
    <3>2. entries' = Inserted(k, e) /\ e.res # "Unpaid" BY <2>1, <3>1 DEF EvmExit, Unmarked
    <3> QED BY <3>2, PaidInsert DEF Unmarked
  <2>2. CASE step_result_entry = <<>> /\ context_stack # <<>>
    <3>1. PICK k, e : k = Top.entries_index /\ e = EntryOf(Top, CallResult(reason)) OBVIOUS
    <3>2. entries' = Inserted(k, e) /\ e.res # "Unpaid" BY <2>2, <3>1, PaidEntry DEF EvmExit
    <3> QED BY <3>2, PaidInsert DEF Unmarked
  <2>3. CASE step_result_entry = <<>> /\ context_stack = <<>>
    <3>1. entries' = entries BY <2>3 DEF EvmExit
    <3> QED BY <3>1 DEF Unmarked, LastMap
  <2> QED BY <2>1, <2>2, <2>3
<1> QED BY <1>1, <1>2 DEF Unmarked

LEMMA UnmarkedNext == IInv /\ IInv' /\ Unmarked /\ [Next]_vars => Unmarked'
<1> SUFFICES ASSUME IInv, IInv', Unmarked, [Next]_vars PROVE Unmarked' OBVIOUS
<1>1. MapsAre(entries) BY Parts, ListenerParts
<1>2. ASSUME entries' = entries, step_result_entry' = step_result_entry,
             stage # "debug" \/ stage' = stage
      PROVE  Unmarked'
  BY <1>2 DEF Unmarked, LastMap
<1>3. CASE EmitNew
  <2>1. stage' = "begun" /\ step_result_entry' = step_result_entry BY <1>3 DEF EmitNew, CallListNew
  <2>2. Blank' BY <2>1 DEF IInv, ReplayInv, PendingInv
  <2> QED BY <2>1, <2>2 DEF Unmarked, Blank
<1>4. CASE EndReplay BY <1>4 DEF EndReplay, FinishTransaction, listenerVars, Unmarked, LastMap
<1>5. CASE EmitTransact \/ EmitRecordTransaction \/ Refused \/ EmitRoot \/ EmitRecordCost \/ EmitTrap
             \/ EmitPrecompileSubcall \/ EmitSubframe
  <2>1. entries' = entries /\ step_result_entry' = step_result_entry
    BY <1>5 DEF EmitTransact, Transact, EmitRecordTransaction, RecordTransaction, Refused,
      listenerVars, EmitRoot, EvmCall, EvmCreate, OpenContext, EmitRecordCost, RecordCost, EmitTrap,
      StepResultTrap, EmitPrecompileSubcall, PrecompileSubcall, EmitSubframe
  <2>2. stage # "debug"
    BY <1>5 DEF EmitTransact, EmitRecordTransaction, Refused, EmitRoot, EmitRecordCost, EmitTrap,
      EmitPrecompileSubcall, EmitSubframe, Executing
  <2> QED BY <1>2, <2>1, <2>2
<1>6. CASE EmitSuicide
  <2>1. stage = "running" /\ EvmSuicide BY <1>6 DEF EmitSuicide, Executing
  <2>2. PICK k, e : /\ k = entries_next_index
                    /\ e = [type |-> "SelfDestruct", trace_address |-> ChildAddress, subtraces |-> 0,
                            gas_used |-> 0, res |-> "None"]
    OBVIOUS
  <2>3. e.res # "Unpaid" BY <2>2
  <2>4. entries' = Inserted(k, e) /\ step_result_entry' = step_result_entry BY <2>1, <2>2 DEF EvmSuicide
  <2> QED BY <1>1, <2>1, <2>3, <2>4, PaidInsert DEF Unmarked
<1>7. CASE EmitStepResultExit
  <2>1. PICK reason \in Reasons : stage = "running" /\ StepResultExit(reason)
    BY <1>7 DEF EmitStepResultExit
  <2>2. PICK k, e : k = Top.entries_index /\ e = EntryOf(Top, CallResult(reason)) OBVIOUS
  <2>3. e.res # "Unpaid" BY <2>2, ReasonsAssumption, PaidEntry
  <2>4. \/ entries' = entries /\ step_result_entry' = step_result_entry
        \/ entries' = Inserted(k, e) /\ step_result_entry' = step_result_entry
        \/ entries' = entries /\ step_result_entry' = <<k, e>>
    BY <2>1, <2>2 DEF StepResultExit
  <2>5. CASE entries' = entries /\ step_result_entry' = <<k, e>>
    <3>1. step_result_entry'[2] = e BY <2>5
    <3> QED BY <2>1, <2>3, <2>5, <3>1 DEF Unmarked, LastMap
  <2>6. CASE entries' = Inserted(k, e) /\ step_result_entry' = step_result_entry
    BY <1>1, <2>1, <2>3, <2>6, PaidInsert DEF Unmarked
  <2> QED BY <1>2, <2>1, <2>4, <2>5, <2>6
<1>8. CASE Unpaid \/ EndFrame
  <2>1. PICK reason \in ExitReason : stage # "debug" /\ (EvmExit(reason) \/ UNCHANGED listenerVars)
    <3>1. "Error" \in ExitReason BY DEF ExitReason
    <3> QED BY <1>8, <3>1, ReasonsAssumption DEF Unpaid, EndFrame
  <2>2. UNCHANGED listenerVars => entries' = entries /\ step_result_entry' = step_result_entry
    BY DEF listenerVars
  <2> QED BY <1>1, <1>2, <2>1, <2>2, ExitUnmarked
<1>9. CASE UNCHANGED vars
  <2>1. entries' = entries /\ step_result_entry' = step_result_entry /\ stage' = stage
    BY <1>9 DEF vars, listenerVars, evmVars
  <2> QED BY <1>2, <2>1
<1> QED BY <1>3, <1>4, <1>5, <1>6, <1>7, <1>8, <1>9 DEF Next

LEMMA UnmarkedInit == Init => Unmarked
  BY DEF Init, ListenerInit, Unmarked, LastMap

\* finish_transaction leaves a root for the transaction if it has anything to show.
LEMMA FinishRoots ==
    ASSUME IInv, RootIInv, Unmarked, stage = "idle", Tx > 0
    PROVE  IsMaps(FinishedEntries) /\ OneMapEach(FinishedEntries) /\ RootsUpTo(FinishedEntries, Tx)
<1>1. PICK F : F = FinishedEntries OBVIOUS
<1>2. /\ MapsAre(entries) /\ StackOK /\ FlagsOK /\ OneMapEach(entries) /\ RootsUpTo(entries, Tx - 1)
      /\ step_result_entry = <<>> /\ Tx \in Nat
  BY RootParts, Parts DEF PendingInv
<1>3. Nodes = <<>> => Blank BY RootParts DEF CurrentInv
<1>4. Nodes # <<>> => (RootKnown /\ Executed(Nodes)) \/ record_transaction_event_only
  BY RootParts DEF CurrentInv
<1>5. record_transaction_event_only <=> UnpaidBefore BY RootParts DEF FlagInv
<1>6. Nodes # <<>> => Shown(Tx) BY DEF Nodes, Shown
<1>u. \A k \in DOMAIN LastOf(entries) : LastOf(entries)[k].res # "Unpaid"
  BY LastMapIsLastOf DEF Unmarked
<1>7. ASSUME NEW key, NEW entry, F = Inserted(key, entry), entry.trace_address = <<>>, Shown(Tx),
             IF Executed(Nodes) THEN entry.res # "Unpaid"
             ELSE entry = UnpaidEntry /\ DOMAIN LastOf(entries) = {}
      PROVE  /\ IsMaps(F) /\ OneMapEach(F) /\ RootsUpTo(F, Tx - 1)
             /\ Shown(Tx) /\ F # <<>> /\ RootOf(F[Len(F)], Nodes)
  <2>1. IsMaps(F) /\ F # <<>> /\ LastOf(F) = With(LastOf(entries), key, entry)
    BY <1>2, <1>7, InsertedIs DEF MapsAre
  <2>2. HasRoot(LastOf(F)) BY <1>7, <2>1, WithHas DEF HasRoot
  <2>3. LastOf(F) = F[Len(F)] BY <2>1 DEF LastOf
  <2>4. OneMapEach(F) /\ RootsUpTo(F, Tx - 1) BY <1>2, <1>7, InsertedRoots
  <2>5. Marked(LastOf(F), Nodes) BY <1>u, <1>7, <2>1 DEF Marked, With
  <2> QED BY <1>7, <2>1, <2>2, <2>3, <2>4, <2>5 DEF RootOf
<1>8. /\ IsMaps(F) /\ OneMapEach(F) /\ RootsUpTo(F, Tx - 1)
      /\ IF Shown(Tx) THEN F # <<>> /\ RootOf(F[Len(F)], Nodes) ELSE F # <<>> => DOMAIN F[Len(F)] = {}
  <2>1. CASE context_stack # <<>>
    <3>1. PICK c, k, e : /\ c = context_stack[1] /\ k = c.entries_index
                         /\ e = EntryOf(c, "EarlyExit")
      OBVIOUS
    <3>2. e.trace_address = <<>>
      <4>1. c \in Context /\ c.trace_address = <<>> BY <1>2, <2>1, <3>1, BottomIsRoot
      <4> QED BY <1>2, <3>1, <4>1, EntryIsCall
    <3>3. F = Inserted(k, e) BY <1>1, <2>1, <3>1 DEF FinishedEntries
    <3>4. Nodes # <<>> BY <1>3, <2>1 DEF Blank
    <3>5. Executed(Nodes)
      <4>1. ~record_transaction_event_only BY <2>1, Parts DEF PendingInv, Blank
      <4> QED BY <1>4, <3>4, <4>1
    <3>6. e.res # "Unpaid" BY <3>1 DEF EntryOf
    <3> QED BY <1>6, <1>7, <3>2, <3>3, <3>4, <3>5, <3>6
  <2>2. CASE context_stack = <<>> /\ record_transaction_event_only
    <3>1. F = Inserted(entries_next_index, UnpaidEntry) BY <1>1, <2>2 DEF FinishedEntries
    <3>2. PICK k, e : /\ k = entries_next_index /\ e = UnpaidEntry /\ e.trace_address = <<>>
                      /\ e.res = "Unpaid"
      BY UnpaidIsCall DEF UnpaidEntry
    <3>3. Shown(Tx) /\ ~Executed(Nodes)
      <4>1. UnpaidBefore BY <1>5, <2>2
      <4>2. PICK u \in 1..Tx : tree[u] = <<UnpaidEntry>> /\ \A v \in (u + 1)..Tx : tree[v] = <<>>
        BY <4>1 DEF UnpaidBefore
      <4>3. CASE tree[Tx] = <<>>
        <5>1. <<UnpaidEntry>> # <<>> BY <3>2
        <5>2. u # Tx BY <4>2, <4>3, <5>1
        <5>3. u \in 1..(Tx - 1) BY <1>2, <5>2
        <5> QED BY <4>1, <4>2, <4>3, <5>3 DEF Shown, Invented, UnpaidBefore, Executed, Nodes
      <4>4. CASE tree[Tx] # <<>>
        <5>1. tree[Tx] = <<e>> BY <1>2, <3>2, <4>2, <4>4
        <5>2. tree[Tx][1] = e BY <5>1
        <5> QED BY <3>2, <4>4, <5>2 DEF Shown, Executed, Nodes
      <4> QED BY <4>3, <4>4
    <3>4. F = Inserted(k, e) BY <3>1, <3>2
    <3>5. DOMAIN LastOf(entries) = {} BY <2>2, Parts, LastMapIsLastOf DEF PendingInv, Blank
    <3> QED BY <1>7, <3>2, <3>3, <3>4, <3>5
  <2>3. CASE context_stack = <<>> /\ ~record_transaction_event_only
    <3>1. F = entries /\ IsMaps(F) BY <1>1, <1>2, <2>3 DEF FinishedEntries, MapsAre
    <3>2. entries # <<>> => LastMap = entries[Len(entries)] BY DEF LastMap
    <3>3. CASE Nodes # <<>>
      <4>1. <<>> \in PathsOf(LastMap) BY <1>2, <1>4, <2>3, <3>3 DEF RootKnown, StepPath
      <4>2. entries # <<>> BY <4>1 DEF PathsOf, LastMap
      <4>3. Marked(LastMap, Nodes) BY <1>4, <1>u, <2>3, <3>3, LastMapIsLastOf DEF Marked
      <4> QED BY <1>2, <1>6, <3>1, <3>2, <3>3, <4>1, <4>2, <4>3 DEF HasRoot, RootOf
    <3>4. CASE Nodes = <<>>
      <4>1. DOMAIN LastMap = {} BY <1>3, <3>4 DEF Blank
      <4>2. ~Shown(Tx)
        <5> SUFFICES ASSUME Invented(Tx) PROVE FALSE BY <3>4 DEF Shown, Nodes
        <5>1. PICK u \in 1..(Tx - 1) :
                 tree[u] = <<UnpaidEntry>> /\ \A v \in (u + 1)..Tx : tree[v] = <<>>
          BY DEF Invented
        <5>2. u \in 1..Tx BY <1>2
        <5>3. UnpaidBefore BY <5>1, <5>2 DEF UnpaidBefore, Invented
        <5> QED BY <1>5, <2>3, <5>3
      <4> QED BY <1>2, <3>1, <3>2, <4>1, <4>2
    <3> QED BY <3>3, <3>4
  <2> QED BY <2>1, <2>2, <2>3
<1>9. PICK x, m, o : /\ x = Tx /\ m = Len(F) /\ x \in Nat /\ x > 0 /\ m \in Nat /\ o = x - m /\ o \in Int
                     /\ m <= x /\ x <= m + 1
  <2>1. Len(F) \in Nat /\ Len(F) <= Tx /\ Tx <= Len(F) + 1 BY <1>8 DEF IsMaps, OneMapEach
  <2>2. PICK x, m : x = Tx /\ m = Len(F) OBVIOUS
  <2>3. x \in Nat /\ x > 0 /\ m \in Nat /\ m <= x /\ x <= m + 1 /\ x - m \in Int BY <1>2, <2>1, <2>2
  <2> QED BY <2>2, <2>3
<1>10. RootsUpTo(F, Tx)
  <2> SUFFICES ASSUME NEW t \in 1..x
               PROVE  IF Shown(t) THEN t > o /\ RootOf(F[t - o], tree[t]) ELSE t > o => DOMAIN F[t - o] = {}
    BY <1>9 DEF RootsUpTo
  <2>1. CASE t # x
    <3>1. t \in 1..(x - 1) BY <1>9, <2>1
    <3> QED BY <1>8, <1>9, <3>1 DEF RootsUpTo
  <2>2. CASE t = x
    <3>1. t - o = m BY <1>9, <2>2
    <3>2. F # <<>> <=> t > o
      <4>1. F # <<>> <=> m # 0 BY <1>8, <1>9 DEF IsMaps
      <4> QED BY <1>9, <2>2, <4>1
    <3> QED BY <1>8, <1>9, <2>2, <3>1, <3>2 DEF Nodes
  <2> QED BY <2>1, <2>2
<1> QED BY <1>1, <1>8, <1>10

LEMMA EmitNewRoot == IInv /\ RootIInv /\ Unmarked /\ EmitNew => RootIInv'
<1> SUFFICES ASSUME IInv, RootIInv, Unmarked, EmitNew PROVE RootIInv' OBVIOUS
<1>1. /\ stage = "idle" /\ stage' = "begun" /\ runtime' = runtime /\ tree' = Append(tree, <<>>)
      /\ CallListNew
  BY DEF EmitNew
<1>2. PICK x, s : x = Len(s) /\ s = tree /\ x \in Nat /\ s \in Seq(Seq(Node)) /\ Tx = x
  BY Parts DEF TreeOK, Tx
<1>3. /\ Tx' = x + 1 /\ tree'[x + 1] = <<>> /\ Nodes' = <<>>
      /\ \A t \in 1..x : tree'[t] = tree[t]
  <2>1. PICK u : u = Append(s, <<>>) /\ Len(u) = x + 1 /\ u[x + 1] = <<>> /\ \A t \in 1..x : u[t] = s[t]
    <3>1. s = [i \in 1..Len(s) |-> s[i]] /\ Len(s) \in Nat
      <4>1. PICK S : S = Seq(Node) OBVIOUS
      <4>2. s \in Seq(S) BY <1>2, <4>1
      <4> QED BY <4>2
    <3>2. PICK e, u : e = <<>> /\ u = Append(s, e) OBVIOUS
    <3>3. Len(u) = Len(s) + 1 /\ u[Len(s) + 1] = e /\ \A t \in 1..Len(s) : u[t] = s[t]
      BY <3>1, <3>2, AppendAny
    <3> QED BY <1>2, <3>2, <3>3
  <2> QED BY <1>1, <1>2, <2>1 DEF Tx, Nodes
<1>4. record_transaction_event_only' = record_transaction_event_only BY <1>1 DEF CallListNew
<1>5. CurrentInv' BY <1>1, <1>3 DEF CurrentInv
<1>6. FlagInv'
  <2>1. UnpaidBefore' <=> UnpaidBefore
    <3>1. Early' <=> Early BY <1>1 DEF Early
    <3>2. ASSUME UnpaidBefore PROVE UnpaidBefore'
      <4>1. PICK u \in 1..x : tree[u] = <<UnpaidEntry>> /\ \A v \in (u + 1)..x : tree[v] = <<>>
        BY <1>2, <3>2 DEF UnpaidBefore
      <4>2. u \in 1..(x + 1) /\ \A v \in (u + 1)..(x + 1) : v = x + 1 \/ (v \in (u + 1)..x /\ v \in 1..x)
        <5>1. x \in Nat BY <1>2
        <5>2. u \in Nat /\ 1 <= u /\ u <= x /\ u \in 1..(x + 1) BY <4>1, <5>1
        <5>3. ASSUME NEW v \in (u + 1)..(x + 1), v # x + 1 PROVE v \in (u + 1)..x /\ v \in 1..x
          BY <5>1, <5>2, <5>3
        <5> QED BY <5>2, <5>3
      <4>3. \A v \in (u + 1)..(x + 1) : tree'[v] = <<>> BY <1>3, <4>1, <4>2
      <4> QED BY <1>3, <3>1, <3>2, <4>1, <4>2, <4>3 DEF UnpaidBefore
    <3>3. ASSUME UnpaidBefore' PROVE UnpaidBefore
      <4>1. PICK u \in 1..(x + 1) :
               tree'[u] = <<UnpaidEntry>> /\ \A v \in (u + 1)..(x + 1) : tree'[v] = <<>>
        BY <1>3, <3>3 DEF UnpaidBefore
      <4>2. <<UnpaidEntry>> # <<>>
        <5>1. PICK e : e = UnpaidEntry OBVIOUS
        <5>2. <<e>> # <<>> OBVIOUS
        <5> QED BY <5>1, <5>2
      <4>3. u # x + 1 BY <1>3, <4>1, <4>2
      <4>4. u \in 1..x /\ \A v \in (u + 1)..x : v \in (u + 1)..(x + 1) /\ v \in 1..x BY <1>2, <4>3
      <4>5. tree[u] = <<UnpaidEntry>> /\ \A v \in (u + 1)..x : tree[v] = <<>> BY <1>3, <4>1, <4>4
      <4> QED BY <1>2, <3>1, <3>3, <4>4, <4>5 DEF UnpaidBefore
    <3> QED BY <3>2, <3>3
  <2> QED BY <1>1, <1>4, <2>1, RootParts DEF FlagInv
<1>7. RootsInv'
  <2>1. CASE call_list_first_transaction
    <3>1. entries' = entries BY <1>1, <2>1 DEF CallListNew
    <3>2. x = 0 BY <1>2, <2>1, Parts DEF PendingInv
    <3>3. PICK n : n = Len(entries) /\ n \in Nat /\ n <= 0
      BY <1>2, <3>2, RootParts DEF OneMapEach, MapsAre, IsMaps
    <3>4. n = 0 BY <3>3
    <3>5. 1..(Tx' - 1) = {} /\ Tx' = 1 BY <1>3, <3>2
    <3> QED BY <1>1, <3>1, <3>3, <3>4, <3>5 DEF RootsInv, OneMapEach, RootsUpTo
  <2>2. CASE ~call_list_first_transaction
    <3>1. entries' = Append(FinishedEntries, <<>>) BY <1>1, <2>2 DEF CallListNew
    <3>2. Tx > 0 BY <1>2, <2>2, RootParts
    <3>3. PICK F : F = FinishedEntries /\ IsMaps(F) /\ OneMapEach(F) /\ RootsUpTo(F, Tx)
      BY <1>1, <3>2, FinishRoots
    <3>4. PICK m : m = Len(F) /\ m \in Nat /\ m <= x /\ x <= m + 1
      BY <1>2, <3>3 DEF IsMaps, OneMapEach
    <3>5. PICK G : G = entries' /\ Len(G) = m + 1 /\ \A i \in 1..m : G[i] = F[i]
      BY <3>1, <3>3, <3>4, AppendAny DEF IsMaps
    <3>6. PICK o : o = x - m /\ o \in Int /\ (x + 1) - (m + 1) = o BY <1>2, <3>4
    <3>7. \A t \in 1..x : t > o => t - o \in 1..m BY <1>2, <3>4, <3>6
    <3>8. OneMapEach(entries)' BY <1>2, <1>3, <3>4, <3>5 DEF OneMapEach
    <3>9. RootsUpTo(entries, x)'
      <4> SUFFICES ASSUME NEW t \in 1..x
                   PROVE  IF Shown(t)' THEN t > o /\ RootOf(G[t - o], tree'[t])
                                       ELSE t > o => DOMAIN G[t - o] = {}
        BY <1>3, <3>5, <3>6 DEF RootsUpTo, RootOf, Marked, Executed
      <4>1. IF Shown(t) THEN t > o /\ RootOf(F[t - o], tree[t]) ELSE t > o => DOMAIN F[t - o] = {}
        BY <1>2, <3>3, <3>4, <3>6 DEF RootsUpTo
      <4>2. Shown(t)' <=> Shown(t)
        <5>1. t \in Nat /\ t \in 1..t /\ \A u \in 1..t : u \in 1..x BY <1>2
        <5> QED BY <1>1, <1>3, <5>1, ShownStays
      <4>3. t > o => G[t - o] = F[t - o] BY <3>5, <3>7
      <4> QED BY <1>3, <4>1, <4>2, <4>3
    <3>10. Tx' - 1 = x /\ Tx' # 0 BY <1>2, <1>3
    <3>11. RootsUpTo(entries, IF stage = "debug" THEN Tx ELSE Tx - 1)'
      BY <1>1, <3>9, <3>10 DEF RootsUpTo
    <3> QED BY <3>8, <3>10, <3>11 DEF RootsInv
  <2> QED BY <2>1, <2>2
<1> QED BY <1>5, <1>6, <1>7 DEF RootIInv

LEMMA EndReplayRoot == IInv /\ RootIInv /\ Unmarked /\ EndReplay => RootIInv'
<1> SUFFICES ASSUME IInv, RootIInv, Unmarked, EndReplay PROVE RootIInv' OBVIOUS
<1>1. /\ stage = "idle" /\ Tx > 0 /\ stage' \in Callers /\ runtime' = runtime /\ tree' = tree
      /\ IF stage' = "debug" THEN FinishTransaction ELSE UNCHANGED listenerVars
  BY DEF EndReplay
<1>2. Tx' = Tx /\ Tx \in Nat BY <1>1, Parts DEF Tx
<1>3. \A t \in 1..Tx : Shown(t)' <=> Shown(t)
  <2> SUFFICES ASSUME NEW t \in 1..Tx PROVE Shown(t)' <=> Shown(t) OBVIOUS
  <2>1. t \in Nat /\ t \in 1..t BY <1>2
  <2> QED BY <1>1, <2>1, ShownStays
<1>4. /\ stage' # "idle" /\ stage' # "begun" /\ stage' # "transact" /\ stage' # "paid"
      /\ stage' # "running"
  BY <1>1, Parts
<1>5. CurrentInv' /\ FlagInv' BY <1>4 DEF CurrentInv, FlagInv
<1>6. CASE stage' = "debug"
  <2>1. entries' = FinishedEntries BY <1>1, <1>6 DEF FinishTransaction
  <2>2. PICK F : F = entries' /\ OneMapEach(F) /\ RootsUpTo(F, Tx) BY <1>1, <2>1, FinishRoots
  <2>3. OneMapEach(entries)' /\ RootsUpTo(entries, Tx)'
    BY <1>1, <1>2, <1>3, <2>2 DEF OneMapEach, RootsUpTo, RootOf, Marked, Executed
  <2>4. RootsUpTo(entries, IF stage = "debug" THEN Tx ELSE Tx - 1)' BY <1>6, <2>3 DEF RootsUpTo
  <2> QED BY <1>1, <1>2, <1>5, <2>3, <2>4 DEF RootIInv, RootsInv
<1>7. CASE stage' # "debug"
  <2>1. entries' = entries BY <1>1, <1>7 DEF listenerVars
  <2>2. RootsInv' BY <1>1, <1>2, <1>7, <2>1, InTransaction DEF Inserts
  <2> QED BY <1>5, <2>2 DEF RootIInv
<1> QED BY <1>6, <1>7

LEMMA RootInit == Init => RootIInv
<1> SUFFICES ASSUME Init PROVE RootIInv OBVIOUS
<1>1. /\ entries = <<>> /\ stage = "idle" /\ tree = <<>> /\ ~record_transaction_event_only
      /\ call_list_first_transaction
  BY DEF Init, ListenerInit
<1>2. Tx = 0 /\ Len(entries) = 0 /\ 1..0 = {} /\ 1..(0 - 1) = {} BY <1>1 DEF Tx
<1>3. RootsInv BY <1>1, <1>2 DEF RootsInv, OneMapEach, RootsUpTo
<1>4. CurrentInv BY <1>1, <1>2 DEF CurrentInv
<1>5. ~UnpaidBefore BY <1>2 DEF UnpaidBefore
<1>6. FlagInv BY <1>1, <1>5 DEF FlagInv
<1> QED BY <1>3, <1>4, <1>6 DEF RootIInv

LEMMA RootNext == IInv /\ IInv' /\ RootIInv /\ Unmarked /\ [Next]_vars => RootIInv'
<1> SUFFICES ASSUME IInv, IInv', RootIInv, Unmarked, [Next]_vars PROVE RootIInv' OBVIOUS
<1>1. CASE Next
  BY <1>1, EmitNewRoot, EmitTransactRoot, EmitRecordTransactionRoot, UnpaidRoot, RefusedRoot,
     EmitRootRoot, EmitRecordCostRoot, EmitTrapRoot, EmitSubframeRoot, EmitSuicideRoot,
     EmitStepResultExitRoot, EndFrameRoot, EndReplayRoot
  DEF Next
<1>2. CASE UNCHANGED vars
  <2>1. UNCHANGED listenerVars /\ UNCHANGED <<runtime, stage, frames, trap, tree>>
    BY <1>2 DEF vars, evmVars
  <2>2. /\ entries' = entries /\ UNCHANGED context_stack
        /\ UNCHANGED step_result_entry
        /\ UNCHANGED record_transaction_event_only
        /\ UNCHANGED call_list_first_transaction
    BY <2>1 DEF listenerVars
  <2>3. Tx' = Tx /\ Nodes' = Nodes /\ (Early' <=> Early) /\ (UnpaidBefore' <=> UnpaidBefore)
    BY <2>1 DEF Tx, Nodes, Early, UnpaidBefore
  <2>4. FlagInv' BY <2>1, <2>2, <2>3 DEF RootIInv, FlagInv
  <2>5. (RootKnown' <=> RootKnown) /\ (Blank' <=> Blank)
    BY <2>2 DEF RootKnown, Blank, LastMap, StepPath
  <2>6. CurrentInv' BY <2>1, <2>2, <2>3, <2>5 DEF RootIInv, CurrentInv, Executed
  <2>7. RootsInv'
    <3>1. \A t : Shown(t)' <=> Shown(t) BY <2>1 DEF Shown, Invented, Early
    <3> QED BY <2>1, <2>2, <2>3, <3>1 DEF RootIInv, RootsInv, OneMapEach, RootsUpTo, RootOf, Marked, Executed
  <2> QED BY <2>4, <2>6, <2>7 DEF RootIInv
<1> QED BY <1>1, <1>2

-----------------------------------------------------------------------------
\* The order of what is kept.

LEMMA LeastNumber ==
    ASSUME NEW T \in SUBSET Nat, T # {}
    PROVE  \E x \in T : \A y \in T : x <= y
<1>1. PICK x \in T : \A y \in T : ~(<<y, x>> \in OpToRel(<, Nat))
  BY NatLessThanWellFounded, WFMin, Zenon
<1>2. \A y \in T : ~(y < x) BY <1>1 DEF OpToRel
<1> QED BY <1>2

LEMMA RankGrows ==
    ASSUME NEW S, IsFiniteSet(S), NEW R, Strict(R, S), NEW a \in S, NEW b \in S, <<a, b>> \in R
    PROVE  Cardinality(Earlier(R, S, a)) < Cardinality(Earlier(R, S, b))
<1>1. PICK A, B, C : A = Earlier(R, S, a) /\ B = Earlier(R, S, b) /\ C = A \cup {a} OBVIOUS
<1>2. A \in SUBSET S /\ B \in SUBSET S /\ a \notin A /\ a \in B /\ A \in SUBSET B
  BY <1>1 DEF Earlier, Strict
<1>3. IsFiniteSet(A) /\ IsFiniteSet(B) /\ Cardinality(A) \in Nat /\ Cardinality(B) \in Nat
  BY <1>2, FS_Subset, FS_CardinalityType
<1>4. Cardinality(C) = Cardinality(A) + 1 BY <1>1, <1>2, <1>3, FS_AddElement
<1>5. C \in SUBSET B BY <1>1, <1>2
<1>6. Cardinality(C) <= Cardinality(B) BY <1>3, <1>5, FS_Subset
<1>7. Cardinality(A) < Cardinality(B) BY <1>3, <1>4, <1>6
<1> QED BY <1>1, <1>7

LEMMA RankIn ==
    ASSUME NEW S, IsFiniteSet(S), NEW R, Strict(R, S), NEW a \in S
    PROVE  /\ Cardinality(Earlier(R, S, a)) \in 0..(Cardinality(S) - 1)
           /\ Cardinality(Earlier(R, S, a)) + 1 \in 1..Cardinality(S)
<1>1. PICK A, C, n : A = Earlier(R, S, a) /\ C = A \cup {a} /\ n = Cardinality(S) OBVIOUS
<1>2. A \in SUBSET S /\ a \notin A /\ C \in SUBSET S BY <1>1 DEF Earlier, Strict
<1>3. IsFiniteSet(A) /\ Cardinality(A) \in Nat /\ n \in Nat
  BY <1>1, <1>2, FS_Subset, FS_CardinalityType
<1>4. Cardinality(C) = Cardinality(A) + 1 BY <1>1, <1>2, <1>3, FS_AddElement
<1>5. Cardinality(C) <= n BY <1>1, <1>2, FS_Subset
<1>6. Cardinality(A) \in 0..(n - 1) /\ Cardinality(A) + 1 \in 1..n BY <1>3, <1>4, <1>5
<1> QED BY <1>1, <1>6

LEMMA RankHit ==
    ASSUME NEW S, IsFiniteSet(S), NEW R, Strict(R, S), NEW r \in 1..Cardinality(S)
    PROVE  Ranked(R, S, r)
<1>1. PICK n, T, f : /\ n = Cardinality(S) /\ T = 0..(n - 1)
                     /\ f = [c \in S |-> Cardinality(Earlier(R, S, c))]
  OBVIOUS
<1>2. n \in Nat /\ r \in 1..n BY <1>1, FS_CardinalityType
<1>3. IsFiniteSet(T) /\ Cardinality(T) = n BY <1>2, FS_Interval, <1>1
<1>4. f \in [S -> T] /\ \A c \in S : f[c] = Cardinality(Earlier(R, S, c)) BY <1>1, RankIn
<1>5. \A a, b \in S : f[a] = f[b] => a = b
  <2> SUFFICES ASSUME NEW a \in S, NEW b \in S, f[a] = f[b], a # b PROVE FALSE OBVIOUS
  <2>1. f[a] \in Nat /\ f[b] \in Nat BY <1>1, <1>2, <1>4
  <2>2. <<a, b>> \in R \/ <<b, a>> \in R BY DEF Strict
  <2>3. f[a] < f[b] \/ f[b] < f[a] BY <1>4, <2>2, RankGrows
  <2> QED BY <2>1, <2>3
<1>6. f \in Injection(S, T) BY <1>4, <1>5 DEF Injection, IsInjective
<1>7. f \in Surjection(S, T) BY <1>1, <1>3, <1>6, FS_Injection
<1>8. r - 1 \in T BY <1>1, <1>2
<1>9. PICK c \in S : f[c] = r - 1 BY <1>7, <1>8 DEF Surjection
<1> QED BY <1>4, <1>5, <1>9 DEF Ranked

LEMMA SizesAre ==
    ASSUME NEW K \in SUBSET Nat
    PROVE  /\ Strict(Sizes(K), K)
           /\ \A k \in K : Earlier(Sizes(K), K, k) = {u \in K : u < k}
           /\ \A a, b \in K : <<a, b>> \in Sizes(K) <=> a < b
<1>1. \A k \in K : k \in Nat OBVIOUS
<1>2. \A a, b \in K : <<a, b>> \in Sizes(K) <=> a < b BY DEF Sizes
<1>3. /\ \A a \in K : ~(a < a)
      /\ \A a, b \in K : a = b \/ a < b \/ b < a
      /\ \A a, b, c \in K : a < b /\ b < c => a < c
  BY <1>1
<1>4. Strict(Sizes(K), K) BY <1>2, <1>3 DEF Strict
<1>5. \A k \in K : Earlier(Sizes(K), K, k) = {u \in K : u < k} BY <1>2 DEF Earlier
<1> QED BY <1>2, <1>4, <1>5

\* The i-th number, and the place of a number.
LEMMA NthOf ==
    ASSUME NEW K \in SUBSET Nat, IsFiniteSet(K), NEW i \in 1..Cardinality(K)
    PROVE  /\ Nth(K, i) \in K /\ Cardinality({u \in K : u < Nth(K, i)}) = i - 1
           /\ \A k \in K : Cardinality({u \in K : u < k}) = i - 1 => k = Nth(K, i)
<1>1. PICK R : R = Sizes(K) OBVIOUS
<1>2. Strict(R, K) /\ \A k \in K : Earlier(R, K, k) = {u \in K : u < k} BY <1>1, SizesAre
<1>a. Ranked(R, K, i) BY <1>2, RankHit
<1>3. PICK c \in K : /\ Cardinality(Earlier(R, K, c)) = i - 1
                     /\ \A d \in K : Cardinality(Earlier(R, K, d)) = i - 1 => d = c
  BY <1>a DEF Ranked
<1>4. /\ Cardinality({u \in K : u < c}) = i - 1
      /\ \A d \in K : Cardinality({u \in K : u < d}) = i - 1 => d = c
  BY <1>2, <1>3
<1>5. \E t \in K : Cardinality({u \in K : u < t}) = i - 1 BY <1>4
<1>6. Nth(K, i) \in K /\ Cardinality({u \in K : u < Nth(K, i)}) = i - 1 BY <1>5 DEF Nth
<1> QED BY <1>4, <1>6

LEMMA NthGrows ==
    ASSUME NEW K \in SUBSET Nat, IsFiniteSet(K), NEW i \in 1..Cardinality(K),
           NEW j \in 1..Cardinality(K), i < j
    PROVE  Nth(K, i) < Nth(K, j)
<1>1. Cardinality(K) \in Nat BY FS_CardinalityType
<1>2. /\ Nth(K, i) \in K /\ Cardinality({u \in K : u < Nth(K, i)}) = i - 1
      /\ Nth(K, j) \in K /\ Cardinality({u \in K : u < Nth(K, j)}) = j - 1
  BY NthOf
<1>3. PICK a, b : a = Nth(K, i) /\ b = Nth(K, j) OBVIOUS
<1>4. /\ a \in K /\ Cardinality({u \in K : u < a}) = i - 1
      /\ b \in K /\ Cardinality({u \in K : u < b}) = j - 1
  BY <1>2, <1>3
<1>5. i - 1 # j - 1 /\ ~(j - 1 < i - 1) /\ a \in Nat /\ b \in Nat BY <1>1, <1>4
<1>6. ~(b < a)
  <2> SUFFICES ASSUME b < a PROVE FALSE OBVIOUS
  <2>1. PICK R : R = Sizes(K) OBVIOUS
  <2>2. /\ Strict(R, K) /\ \A k \in K : Earlier(R, K, k) = {u \in K : u < k}
        /\ <<b, a>> \in R
    BY <1>4, <2>1, SizesAre
  <2>3. Cardinality(Earlier(R, K, b)) < Cardinality(Earlier(R, K, a)) BY <1>4, <2>2, RankGrows
  <2> QED BY <1>4, <1>5, <2>2, <2>3
<1>7. a # b BY <1>4, <1>5
<1> QED BY <1>3, <1>5, <1>6, <1>7

\* The place of an element.
LEMMA PlaceOf ==
    ASSUME NEW K \in SUBSET Nat, IsFiniteSet(K), NEW k \in K
    PROVE  \E i \in 1..Cardinality(K) : Nth(K, i) = k
<1>1. PICK R, i : R = Sizes(K) /\ i = Cardinality({u \in K : u < k}) + 1 OBVIOUS
<1>2. Strict(R, K) /\ Earlier(R, K, k) = {u \in K : u < k} BY <1>1, SizesAre
<1>3. Cardinality(Earlier(R, K, k)) \in 0..(Cardinality(K) - 1) /\ i \in 1..Cardinality(K)
  BY <1>1, <1>2, RankIn
<1>4. Cardinality(K) \in Nat BY FS_CardinalityType
<1>5. Cardinality({u \in K : u < k}) = i - 1 BY <1>1, <1>2, <1>3, <1>4
<1>6. \A q \in K : Cardinality({u \in K : u < q}) = i - 1 => q = Nth(K, i) BY <1>3, NthOf
<1>7. k = Nth(K, i) BY <1>5, <1>6
<1> QED BY <1>3, <1>7

\* Sets of numbers that differ by an offset have the same size.
LEMMA ShiftedSize ==
    ASSUME NEW L \in SUBSET Int, IsFiniteSet(L), NEW o \in Int, NEW M, M = {t + o : t \in L}
    PROVE  Cardinality(M) = Cardinality(L)
<1>1. PICK f : f = [t \in L |-> t + o] OBVIOUS
<1>2. f \in [L -> M] /\ \A t \in L : f[t] = t + o BY <1>1
<1>3. f \in Injection(L, M)
  <2>1. \A t \in L : t \in Int OBVIOUS
  <2>2. \A a, b \in L : a + o = b + o => a = b BY <2>1
  <2> QED BY <1>2, <2>2 DEF Injection, IsInjective
<1>4. f \in Surjection(L, M) BY <1>2 DEF Surjection
<1>5. f \in Bijection(L, M) BY <1>3, <1>4 DEF Bijection
<1>6. ExistsBijection(L, M) BY <1>5 DEF ExistsBijection
<1> QED BY <1>6, FS_Bijection

\* The maps with entries of the transactions that are over are those that show something.
LEMMA FinishedMaps ==
    ASSUME IInv, RootIInv
    PROVE  /\ Kept(entries) = {t \in 1..Len(entries) : DOMAIN entries[t] # {}}
           /\ DoneKept \in SUBSET Kept(entries)
           /\ IsFiniteSet(Kept(entries)) /\ IsFiniteSet(DoneKept) /\ IsFiniteSet(Finished)
           /\ Cardinality(Kept(entries)) \in Nat /\ Cardinality(DoneKept) \in Nat
           /\ Cardinality(DoneKept) <= Cardinality(Kept(entries))
           /\ Cardinality(Finished) = Cardinality(DoneKept)
           /\ \A k \in DoneKept : HasRoot(entries[k])
<1>1. PICK E : E = entries /\ MapsAre(E) /\ OneMapEach(E) /\ DOMAIN E = 1..Len(E)
  BY RootParts DEF MapsAre, IsMaps
<1>2. PICK n, x, o, last : n = Len(E) /\ x = Tx /\ o = x - n /\ last = Done OBVIOUS
<1>3. n \in Nat /\ x \in Nat /\ o \in Int /\ o + n = x /\ last \in Int /\ last <= x /\ o \in 0..1
  <2>1. n \in Nat /\ x \in Nat /\ n <= x /\ x <= n + 1
    BY <1>1, <1>2, Parts DEF MapsAre, IsMaps, OneMapEach
  <2>2. last = x \/ last = x - 1 BY <1>2 DEF Done
  <2> QED BY <1>2, <2>1, <2>2
<1>4. \A t \in 1..last :
         IF Shown(t) THEN t > o /\ HasRoot(E[t - o]) ELSE t > o => DOMAIN E[t - o] = {}
  <2>1. RootsUpTo(entries, Done) BY DEF RootIInv, RootsInv, Done
  <2> QED BY <1>1, <1>2, <2>1 DEF RootsUpTo, RootOf
<1>5. PICK K, L : K = Kept(E) /\ L = {k \in K : k + o <= last} OBVIOUS
<1>l. L = DoneKept BY <1>1, <1>2, <1>5 DEF DoneKept
<1>6. K = {t \in 1..n : DOMAIN E[t] # {}} /\ K \in SUBSET (1..n) /\ L \in SUBSET K /\ L \in SUBSET Int
  BY <1>1, <1>2, <1>5 DEF Kept
<1>7. IsFiniteSet(K) /\ IsFiniteSet(L) /\ Cardinality(K) \in Nat /\ Cardinality(L) \in Nat
        /\ Cardinality(L) <= Cardinality(K)
  <2>1. IsFiniteSet(1..n) BY <1>3, FS_Interval
  <2>2. IsFiniteSet(K) BY <1>6, <2>1, FS_Subset
  <2>3. IsFiniteSet(L) /\ Cardinality(L) <= Cardinality(K) BY <1>6, <2>2, FS_Subset
  <2> QED BY <2>2, <2>3, FS_CardinalityType
<1>8. \A map : HasRoot(map) => DOMAIN map # {} BY DEF HasRoot, PathsOf
<1>9. ASSUME NEW k \in L PROVE k + o \in 1..last /\ Shown(k + o) /\ HasRoot(E[k])
  <2>1. k \in 1..n /\ DOMAIN E[k] # {} /\ k + o <= last BY <1>5, <1>6
  <2>2. PICK t : t = k + o /\ t \in 1..last /\ t > o /\ t - o = k BY <1>3, <2>1
  <2> QED BY <1>4, <2>1, <2>2
<1>10. Finished = {t \in 1..last : Shown(t)}
  <2>1. Finished \subseteq {t \in 1..last : Shown(t)}
    <3> SUFFICES ASSUME NEW t \in Finished PROVE t \in 1..last /\ Shown(t) OBVIOUS
    <3>1. t \in 1..x /\ (t < x \/ stage = "debug") /\ Shown(t) BY <1>2 DEF Finished, Shown
    <3>2. t \in 1..last
      <4>1. CASE stage = "debug" BY <1>2, <3>1, <4>1 DEF Done
      <4>2. CASE stage # "debug" BY <1>2, <1>3, <3>1, <4>2 DEF Done
      <4> QED BY <4>1, <4>2
    <3> QED BY <3>1, <3>2
  <2>2. {t \in 1..last : Shown(t)} \subseteq Finished
    <3> SUFFICES ASSUME NEW t \in 1..last, Shown(t) PROVE t \in Finished OBVIOUS
    <3>1. t \in 1..x BY <1>3
    <3>2. t < x \/ stage = "debug" BY <1>2, <1>3 DEF Done
    <3> QED BY <1>2, <3>1, <3>2 DEF Finished, Shown
  <2> QED BY <2>1, <2>2
<1>11. Finished = {k + o : k \in L}
  <2>1. ASSUME NEW t \in Finished PROVE \E k \in L : t = k + o
    <3>1. t \in 1..last /\ Shown(t) BY <1>10
    <3>2. t > o /\ HasRoot(E[t - o]) BY <1>4, <3>1
    <3>3. PICK k : k = t - o /\ k \in 1..n /\ t = k + o /\ k + o <= last BY <1>3, <3>1, <3>2
    <3>4. DOMAIN E[k] # {} BY <1>8, <3>2, <3>3
    <3>5. k \in L BY <1>5, <1>6, <3>3, <3>4
    <3> QED BY <3>3, <3>5
  <2>2. ASSUME NEW k \in L PROVE k + o \in Finished BY <1>9, <1>10
  <2> QED BY <2>1, <2>2
<1>12. Cardinality(Finished) = Cardinality(L)
  <2>1. PICK M : M = Finished OBVIOUS
  <2>2. M = {k + o : k \in L} BY <1>11, <2>1
  <2>3. L \in SUBSET Int /\ IsFiniteSet(L) /\ o \in Int BY <1>3, <1>6, <1>7
  <2>4. Cardinality(M) = Cardinality(L) BY <2>2, <2>3, ShiftedSize
  <2> QED BY <2>1, <2>4
<1>13. IsFiniteSet(Finished)
  <2>1. IsFiniteSet(1..last) BY <1>3, FS_Interval
  <2> QED BY <1>10, <2>1, FS_Subset
<1> QED BY <1>1, <1>2, <1>5, <1>l, <1>6, <1>7, <1>9, <1>12, <1>13

LEMMA RootsSuffice == IInv /\ RootIInv => OneRootPerTransaction
<1> SUFFICES ASSUME IInv, RootIInv PROVE OneRootPerTransaction OBVIOUS
<1>1. PICK E : E = entries /\ MapsAre(E) /\ OneMapEach(E) BY RootParts
<1>2. PICK n, x, o, last : n = Len(E) /\ x = Tx /\ o = x - n /\ last = Done OBVIOUS
<1>3. n \in Nat /\ x \in Nat /\ o \in Int /\ o + n = x /\ last \in Int
  <2>1. n \in Nat /\ x \in Nat BY <1>1, <1>2, Parts DEF MapsAre, IsMaps
  <2>2. last = x \/ last = x - 1 BY <1>2 DEF Done
  <2> QED BY <1>2, <2>1, <2>2
<1>4. PICK K, L : K = Kept(E) /\ L = DoneKept OBVIOUS
<1>5. K = Kept(E) /\ L = {k \in K : k + o <= last} BY <1>1, <1>2, <1>4 DEF DoneKept
<1>6. /\ K = {t \in 1..n : DOMAIN E[t] # {}} /\ L \in SUBSET K
      /\ IsFiniteSet(K) /\ IsFiniteSet(L)
      /\ Cardinality(K) \in Nat /\ Cardinality(L) \in Nat /\ Cardinality(L) <= Cardinality(K)
      /\ Cardinality(Finished) = Cardinality(L)
      /\ \A k \in L : HasRoot(E[k])
  BY <1>1, <1>2, <1>4, FinishedMaps
<1>7. K \in SUBSET (1..n) /\ K \in SUBSET Nat /\ IsFiniteSet(K) BY <1>3, <1>6
<1>13. PICK c, l : c = Cardinality(K) /\ l = Cardinality(L) /\ c \in Nat /\ l \in Nat /\ l <= c
  BY <1>6
<1>14. PICK maps : maps = Filled(E) /\ maps = [i \in 1..c |-> E[Nth(K, i)]]
  BY <1>5, <1>13 DEF Filled
<1>15. Len(maps) = c /\ \A i \in 1..c : maps[i] = E[Nth(K, i)] BY <1>13, <1>14
<1>16. stage = "debug" => c = l
  <2> SUFFICES ASSUME stage = "debug" PROVE K = L BY <1>13
  <2>1. last = x BY <1>2 DEF Done
  <2>2. \A k \in 1..n : k + o <= x BY <1>3
  <2> QED BY <1>5, <1>7, <2>1, <2>2
<1>17. ASSUME NEW i \in 1..l
       PROVE  \E k \in DOMAIN maps[i] :
                 \A j \in DOMAIN maps[i] : (j = k) <=> (maps[i][j].trace_address = <<>>)
  <2>1. i \in 1..c /\ i \in 1..Cardinality(K) /\ i \in Nat /\ i <= l BY <1>13
  <2>2. PICK t : t = Nth(K, i) /\ t \in K /\ Cardinality({u \in K : u < t}) = i - 1
    <3>1. Nth(K, i) \in K /\ Cardinality({u \in K : u < Nth(K, i)}) = i - 1
      BY <1>7, <2>1, NthOf
    <3> QED BY <3>1
  <2>3. t \in L
    <3> SUFFICES ASSUME t \notin L PROVE FALSE OBVIOUS
    <3>1. PICK B : B = {u \in K : u < t} OBVIOUS
    <3>2. ~(t + o <= last) /\ t \in Int
      <4>1. ~(t + o <= last) BY <1>5, <2>2
      <4>2. t \in 1..n BY <1>7, <2>2
      <4> QED BY <4>1, <4>2
    <3>3. ASSUME NEW u \in L PROVE u \in B
      <4>1. u \in Int /\ u + o <= last /\ u \in K BY <1>5, <1>6, <1>7
      <4>2. u < t BY <1>3, <3>2, <4>1
      <4> QED BY <3>1, <4>1, <4>2
    <3>4. L \in SUBSET B /\ B \in SUBSET K BY <3>1, <3>3
    <3>5. IsFiniteSet(B) BY <1>6, <3>4, FS_Subset
    <3>6. l <= Cardinality(B) BY <1>13, <3>4, <3>5, FS_Subset
    <3>7. Cardinality(B) = i - 1 BY <2>2, <3>1
    <3> QED BY <1>13, <2>1, <3>6, <3>7
  <2>4. PICK map : map = maps[i] /\ map = E[t] /\ HasRoot(map) /\ Unique(map)
    <3>1. HasRoot(E[t]) BY <1>6, <2>3
    <3>2. Unique(E[t]) BY <1>1, <1>2, <1>7, <2>2 DEF MapsAre
    <3> QED BY <1>15, <2>1, <2>2, <3>1, <3>2
  <2>5. PICK k \in DOMAIN map : map[k].trace_address = <<>> BY <2>4 DEF HasRoot, PathsOf
  <2>6. \A j \in DOMAIN map : (j = k) <=> (map[j].trace_address = <<>>) BY <2>4, <2>5 DEF Unique
  <2> QED BY <2>4, <2>5, <2>6
<1>18. Filled(entries) = maps /\ Cardinality(Finished) = l BY <1>1, <1>6, <1>13, <1>14
<1> QED BY <1>13, <1>15, <1>16, <1>17, <1>18 DEF OneRootPerTransaction

\* For both kinds of runtime, every transaction that is over and has something to
\* show has exactly one entry for its outermost call, in the order of transactions,
\* and the last one has it when the debug handler has run finish_transaction.
THEOREM RootsCorrect == Spec => []OneRootPerTransaction
<1>1. Init => IInv /\ RootIInv /\ Unmarked BY InitKeeps, RootInit, UnmarkedInit
<1>2. (IInv /\ RootIInv /\ Unmarked) /\ [Next]_vars => (IInv /\ RootIInv /\ Unmarked)'
  BY NextKeeps, RootNext, UnmarkedNext
<1> QED BY <1>1, <1>2, RootsSuffice, PTL DEF Spec

-----------------------------------------------------------------------------
\* The call trees of a runtime that emits Exit: a third invariant.

LEMMA MapCloses ==
    ASSUME NEW map, NEW nodes, NEW more, NEW n \in Nat, Len(nodes) = n, Len(more) = n,
           NEW open, NEW d \in open, d \in 1..n, NEW base \in Nat, NEW entry,
           MapIs(map, nodes, open, base),
           \A k \in 1..n : k # d => more[k] = nodes[k],
           Same(entry, more[d])
    PROVE  MapIs(With(map, base + d - 1, entry), more, open \ {d}, base)
<1>1. PICK key : key = base + d - 1 /\ key \in Nat /\ key - base + 1 = d
  <2>1. base + d - 1 \in Nat /\ (base + d - 1) - base + 1 = d OBVIOUS
  <2> QED BY <2>1
<1>2. PICK new : new = With(map, key, entry) OBVIOUS
<1>3. /\ DOMAIN new = DOMAIN map \cup {key} /\ new[key] = entry
      /\ \A k \in DOMAIN map : k # key => new[k] = map[k]
  BY <1>2 DEF With
<1>4. (1..n) \ (open \ {d}) = ((1..n) \ open) \cup {d} OBVIOUS
<1>5. ASSUME NEW k \in Nat
      PROVE  k \in DOMAIN new <=> k - base + 1 \in (1..n) \ (open \ {d})
  <2>1. k \in DOMAIN map <=> k - base + 1 \in (1..n) \ open BY DEF MapIs
  <2>2. k - base + 1 = d <=> k = key BY <1>1
  <2> QED BY <1>3, <1>4, <2>1, <2>2
<1>6. ASSUME NEW k \in (1..n) \ (open \ {d})
      PROVE  Same(new[base + k - 1], more[k])
  <2>1. CASE k = d BY <1>1, <1>3, <2>1
  <2>2. CASE k # d
    <3>1. k \in (1..n) \ open /\ k \in 1..n BY <2>2
    <3>2. Same(map[base + k - 1], nodes[k]) BY <3>1 DEF MapIs
    <3>3. PICK j : j = base + k - 1 /\ j \in Nat /\ j # key /\ j - base + 1 = k BY <1>1, <2>2, <3>1
    <3>4. j \in DOMAIN map BY <3>1, <3>3 DEF MapIs
    <3>5. new[j] = map[j] /\ more[k] = nodes[k] BY <1>3, <2>2, <3>1, <3>3, <3>4
    <3> QED BY <3>2, <3>3, <3>5
  <2> QED BY <2>1, <2>2
<1> QED BY <1>1, <1>2, <1>5, <1>6 DEF MapIs

LEMMA MapAdds ==
    ASSUME NEW map, NEW nodes, NEW more, NEW n \in Nat, Len(nodes) = n, Len(more) = n + 1,
           NEW open \in SUBSET (1..n), NEW base \in Nat, NEW entry,
           MapIs(map, nodes, open, base),
           \A k \in (1..n) \ open : more[k] = nodes[k],
           Same(entry, more[n + 1])
    PROVE  MapIs(With(map, base + n, entry), more, open, base)
<1>1. PICK key : key = base + n /\ key \in Nat /\ key - base + 1 = n + 1
  <2>1. base + n \in Nat /\ (base + n) - base + 1 = n + 1 OBVIOUS
  <2> QED BY <2>1
<1>2. PICK new : new = With(map, key, entry) OBVIOUS
<1>3. /\ DOMAIN new = DOMAIN map \cup {key} /\ new[key] = entry
      /\ \A k \in DOMAIN map : k # key => new[k] = map[k]
  BY <1>2 DEF With
<1>4. (1..(n + 1)) \ open = ((1..n) \ open) \cup {n + 1}
  <2>1. n + 1 \notin 1..n /\ 1..(n + 1) = (1..n) \cup {n + 1} OBVIOUS
  <2> QED BY <2>1
<1>5. ASSUME NEW k \in Nat
      PROVE  k \in DOMAIN new <=> k - base + 1 \in (1..(n + 1)) \ open
  <2>1. k \in DOMAIN map <=> k - base + 1 \in (1..n) \ open BY DEF MapIs
  <2>2. k - base + 1 = n + 1 <=> k = key BY <1>1
  <2> QED BY <1>3, <1>4, <2>1, <2>2
<1>6. ASSUME NEW k \in (1..(n + 1)) \ open
      PROVE  Same(new[base + k - 1], more[k])
  <2>1. CASE k = n + 1 BY <1>1, <2>1, <1>3
  <2>2. CASE k # n + 1
    <3>1. k \in (1..n) \ open /\ k \in 1..n BY <1>4, <2>2
    <3>2. Same(map[base + k - 1], nodes[k]) BY <3>1 DEF MapIs
    <3>3. PICK j : j = base + k - 1 /\ j \in Nat /\ j # key /\ j - base + 1 = k BY <1>1, <2>2, <3>1
    <3>4. j \in DOMAIN map BY <3>1, <3>3 DEF MapIs
    <3>5. new[j] = map[j] /\ more[k] = nodes[k] BY <1>3, <3>1, <3>3, <3>4
    <3> QED BY <3>2, <3>3, <3>5
  <2> QED BY <2>1, <2>2
<1> QED BY <1>1, <1>2, <1>5, <1>6 DEF MapIs

LEMMA MapOpens ==
    ASSUME NEW map, NEW nodes, NEW more, NEW n \in Nat, Len(nodes) = n, Len(more) = n + 1,
           NEW open \in SUBSET (1..n), NEW base \in Nat, MapIs(map, nodes, open, base),
           \A k \in (1..n) \ open : more[k] = nodes[k]
    PROVE  MapIs(map, more, open \cup {n + 1}, base)
<1>1. (1..(n + 1)) \ (open \cup {n + 1}) = (1..n) \ open
  <2>1. n + 1 \notin 1..n /\ 1..(n + 1) = (1..n) \cup {n + 1} OBVIOUS
  <2> QED BY <2>1
<1> QED BY <1>1 DEF MapIs

\* All nodes are closed.
LEMMA MapMatches ==
    ASSUME NEW map, NEW nodes, NEW n \in Nat, Len(nodes) = n, NEW base \in Nat, NEW bound \in Nat,
           base <= bound, MapIs(map, nodes, {}, base), DOMAIN map \subseteq Nat
    PROVE  Matches(map, nodes, bound)
<1>1. DOMAIN map = base..(base + n - 1)
  <2>1. \A k \in Nat : k - base + 1 \in 1..n <=> k \in base..(base + n - 1) OBVIOUS
  <2>2. \A k \in base..(base + n - 1) : k \in Nat OBVIOUS
  <2>3. \A k \in Nat : k \in DOMAIN map <=> k - base + 1 \in 1..n BY DEF MapIs
  <2> QED BY <2>1, <2>2, <2>3
<1>2. \A k \in 1..n : Same(map[base + k - 1], nodes[k]) BY DEF MapIs
<1>3. base \in 0..bound OBVIOUS
<1> QED BY <1>1, <1>2, <1>3 DEF Matches

LEMMA SameUntaxed ==
    ASSUME NEW entry \in Call, NEW node \in Node, Same(entry, node)
    PROVE  Untaxed(entry) = Untaxed(node)
<1>1. PICK ty, q, c, g, r :
        entry = [type |-> ty, trace_address |-> q, subtraces |-> c, gas_used |-> g, res |-> r]
  BY DEF Call
<1>2. PICK ty2, q2, c2, g2, r2 :
        node = [type |-> ty2, trace_address |-> q2, subtraces |-> c2, gas_used |-> g2, res |-> r2]
  BY NodeFields
<1>3. ty = ty2 /\ q = q2 /\ c = c2 /\ r = r2 /\ (q # <<>> => g = g2) BY <1>1, <1>2 DEF Same
<1>4. CASE q = <<>> BY <1>1, <1>2, <1>3, <1>4 DEF Untaxed
<1>5. CASE q # <<>> BY <1>1, <1>2, <1>3, <1>5 DEF Untaxed
<1> QED BY <1>4, <1>5

LEMMA CountsTo ==
    ASSUME NEW n \in Node, NEW new, new = [n EXCEPT !.subtraces = @ + 1]
    PROVE  /\ new.type = n.type /\ new.trace_address = n.trace_address
           /\ new.subtraces = n.subtraces + 1
<1>1. PICK ty, q, c, g, r :
        /\ n = [type |-> ty, trace_address |-> q, subtraces |-> c, gas_used |-> g, res |-> r]
        /\ ty \in ContextType \cup {"SelfDestruct"} /\ q \in Seq(Nat) /\ c \in Nat /\ g \in Int
        /\ \/ r \in {"Output", "Error", "Revert", "Fatal", "EarlyExit", "Unpaid", "None"}
           \/ r = "open" /\ ty \in ContextType
  BY NodeFields
<1> QED BY <1>1

LEMMA ClosesTo ==
    ASSUME NEW n \in Node, NEW result, NEW used,
           NEW mid, mid = [n EXCEPT !.res = result], NEW new, new = [mid EXCEPT !.gas_used = used]
    PROVE  /\ new.type = n.type /\ new.trace_address = n.trace_address
           /\ new.subtraces = n.subtraces /\ new.res = result /\ new.gas_used = used
<1>1. PICK ty, q, c, g, r :
        /\ n = [type |-> ty, trace_address |-> q, subtraces |-> c, gas_used |-> g, res |-> r]
        /\ ty \in ContextType \cup {"SelfDestruct"} /\ q \in Seq(Nat) /\ c \in Nat /\ g \in Int
        /\ \/ r \in {"Output", "Error", "Revert", "Fatal", "EarlyExit", "Unpaid", "None"}
           \/ r = "open" /\ ty \in ContextType
  BY NodeFields
<1> QED BY <1>1

LEMMA GrownTo ==
    ASSUME TreeOK, Tx > 0, FramesInv, FramesOK, frames # <<>>,
           NEW type \in ContextType \cup {"SelfDestruct"}, NEW res \in {"open", "None"},
           res = "open" => type \in ContextType
    PROVE  GrewTo(Grown(type, res), Nodes, Current.node, type, res)
<1>1. PICK s, d : s = Nodes /\ s \in Seq(Node) /\ d = Current.node /\ d \in 1..Len(s)
  <2>1. Nodes \in Seq(Node) BY NodesAre
  <2>2. Len(frames) \in 1..Len(frames) BY EmptySeq DEF FramesOK
  <2> QED BY <2>1, <2>2 DEF FramesInv, Current
<1>2. PICK p : p = s[d] /\ p \in Node BY <1>1
<1>3. PICK more : more = [p EXCEPT !.subtraces = @ + 1] /\ more \in Node BY <1>2, NodeCounts
<1>4. PICK t : t = [s EXCEPT ![d] = more] OBVIOUS
<1>5. /\ t \in Seq(Node) /\ Len(t) = Len(s) /\ t[d] = more
      /\ \A i \in 1..Len(s) : i # d => t[i] = s[i]
  BY <1>1, <1>3, <1>4, ReplacedAt
<1>6. /\ more.type = p.type /\ more.trace_address = p.trace_address
      /\ more.subtraces = p.subtraces + 1
  BY <1>2, <1>3, CountsTo
<1>7. PICK q, n : /\ q = Append(p.trace_address, p.subtraces)
                  /\ n = [type |-> type, trace_address |-> q, subtraces |-> 0, gas_used |-> 0, res |-> res]
  OBVIOUS
<1>8. n \in Node
  <2>1. p.trace_address \in Seq(Nat) /\ p.subtraces \in Nat BY <1>2, NodeFields
  <2>2. q \in Seq(Nat) BY <1>7, <2>1
  <2> QED BY <1>7, <2>2, NewNode
<1>9. [Nodes EXCEPT ![Current.node].subtraces = @ + 1] = t BY <1>1, <1>2, <1>3, <1>4
<1>10. Grown(type, res) = Append(t, n) BY <1>1, <1>2, <1>7, <1>9 DEF Grown, CurrentNode
<1>11. PICK g : /\ g = Append(t, n) /\ Len(g) = Len(s) + 1 /\ g[Len(s) + 1] = n
                /\ \A i \in 1..Len(s) : g[i] = t[i]
  <2>1. Append(t, n) \in Seq(Node) /\ Len(Append(t, n)) = Len(s) + 1
        /\ Append(t, n)[Len(s) + 1] = n /\ \A i \in 1..Len(s) : Append(t, n)[i] = t[i]
    BY <1>5, <1>8
  <2> QED BY <2>1
<1>12. GrewTo(g, s, d, type, res)
  <2>1. Len(g) = Len(s) + 1 /\ \A i \in 1..Len(s) : i # d => g[i] = s[i] BY <1>5, <1>11
  <2>2. d \in 1..Len(s) BY <1>1
  <2>3. g[d] = more BY <1>5, <1>11, <2>2
  <2>4. /\ g[d].type = s[d].type /\ g[d].trace_address = s[d].trace_address
        /\ g[d].subtraces = s[d].subtraces + 1
    BY <1>2, <1>6, <2>3
  <2>5. g[Len(s) + 1] =
          [type |-> type, trace_address |-> Append(s[d].trace_address, s[d].subtraces),
           subtraces |-> 0, gas_used |-> 0, res |-> res]
    BY <1>2, <1>7, <1>11
  <2> QED BY <2>1, <2>4, <2>5 DEF GrewTo
<1> QED BY <1>1, <1>10, <1>11, <1>12

LEMMA CloseFrameTo ==
    ASSUME FramesOK, TreeOK, Tx > 0, FramesInv, frames # <<>>,
           NEW reason \in ExitReason, CloseFrame(reason)
    PROVE  /\ Tx' = Tx /\ \A t \in 1..Tx : t # Tx => tree'[t] = tree[t]
           /\ Nodes' \in Seq(Node)
           /\ ClosedTo(Nodes', Nodes, Current.node, CallResult(reason),
                       UsedBy(Current) + (IF Current.node = 1 THEN TxCost ELSE 0))
<1>1. PICK s, k : s = Nodes /\ s \in Seq(Node) /\ k = Len(s) /\ k \in Nat BY NodesAre
<1>2. PICK d : d = Current.node /\ d \in 1..k
  <2>1. Len(frames) \in 1..Len(frames) BY CurrentIs
  <2> QED BY <1>1, <2>1 DEF FramesInv, Current
<1>3. PICK p : p = s[d] /\ p \in Node BY <1>1, <1>2
<1>4. PICK used : /\ used = UsedBy(Current) + (IF Current.node = 1 THEN TxCost ELSE 0)
                  /\ used \in Int
  <2>1. PICK a, b : a = UsedBy(Current) /\ b = (IF Current.node = 1 THEN TxCost ELSE 0) OBVIOUS
  <2>2. Current.costs \in Nat /\ TxCost \in Nat BY CurrentIs, BoundsAssumption
  <2>3. a \in Int BY <2>1, <2>2 DEF UsedBy
  <2>4. b \in Int BY <2>1, <2>2
  <2>5. a + b \in Int BY <2>3, <2>4
  <2> QED BY <2>1, <2>5
<1>5. PICK q : q = [p EXCEPT !.res = CallResult(reason), !.gas_used = used] /\ q \in Node
  BY <1>3, <1>4, ResultIs, NodeCloses
<1>6. PICK g : g = [s EXCEPT ![d] = q] OBVIOUS
<1>7. g \in Seq(Node) /\ Len(g) = k /\ g[d] = q /\ \A i \in 1..k : i # d => g[i] = s[i]
  BY <1>1, <1>2, <1>5, <1>6, ReplacedAt
<1>8. tree' = [tree EXCEPT ![Tx] = g]
  BY <1>2, <1>4, <1>1, <1>3, <1>5, <1>6 DEF CloseFrame, UsedBy, Nodes
<1>9. Tx' = Tx /\ Nodes' = g /\ \A i \in 1..Tx : i # Tx => tree'[i] = tree[i]
  BY <1>7, <1>8, TreeWith
<1>10. /\ q.type = p.type /\ q.trace_address = p.trace_address /\ q.subtraces = p.subtraces
       /\ q.res = CallResult(reason) /\ q.gas_used = used
  <2>1. p \in Node BY <1>3
  <2>2. PICK v, mid : v = CallResult(reason) /\ mid = [p EXCEPT !.res = v] OBVIOUS
  <2>3. q = [mid EXCEPT !.gas_used = used] BY <1>5, <2>2
  <2>4. /\ q.type = p.type /\ q.trace_address = p.trace_address /\ q.subtraces = p.subtraces
        /\ q.res = v /\ q.gas_used = used
    <3>1. mid = [p EXCEPT !.res = v] BY <2>2
    <3> QED BY <2>1, <2>3, <3>1, ClosesTo
  <2> QED BY <2>2, <2>4
<1>11. ClosedTo(g, s, d, CallResult(reason), used) BY <1>1, <1>2, <1>3, <1>7, <1>10 DEF ClosedTo
<1> QED BY <1>1, <1>2, <1>4, <1>7, <1>9, <1>11

-----------------------------------------------------------------------------
\* Contexts and the nodes of their frames.

LEMMA LinkedStays ==
    ASSUME NEW stack, NEW open, NEW nodes, NEW base, NEW max, NEW costs,
           Linked(stack, open, nodes, base, max, costs),
           NEW stack2, NEW open2, NEW nodes2, Remain(stack2, open2, nodes2, stack, open, nodes)
    PROVE  Linked(stack2, open2, nodes2, base, max, costs)
<1>1. PICK k, n : /\ k = Len(stack2) /\ n = Len(open2) /\ k \in Nat /\ n \in Nat
                  /\ (1..k) \subseteq 1..Len(stack) /\ (1..n) \subseteq 1..Len(open)
                  /\ (1..k) \subseteq 1..n /\ k <= n
  BY DEF Remain
<1>2. \A i, j \in 1..n : i < j => open2[i].node < open2[j].node BY <1>1 DEF Linked, Remain
<1>3. ASSUME NEW i \in 1..k
      PROVE  Link(stack2[i], open2[i], nodes2[open2[i].node], base, First(max, costs, i))
  BY <1>1, SMTT(30) DEF Linked, Remain, Link, Described
<1> QED BY <1>1, <1>2, <1>3 DEF Linked

\* The innermost context counts a child as its node does.
LEMMA LinkedCounts ==
    ASSUME NEW stack, NEW open, NEW nodes, NEW base, NEW max, NEW costs,
           Linked(stack, open, nodes, base, max, costs),
           NEW n \in Nat, n > 0, Len(stack) = n, Len(open) = n,
           NEW counted, Counted(stack, counted), CountedOnly(stack, counted),
           NEW more, \A i \in 1..n : open[i].node \in 1..Len(nodes),
           NEW type, NEW res, GrewTo(more, nodes, open[n].node, type, res)
    PROVE  Linked(counted, open, more, base, max, costs)
<1>1. \A i, j \in 1..n : i < j => open[i].node < open[j].node BY DEF Linked
<1>2. ASSUME NEW i \in 1..n
      PROVE  Link(counted[i], open[i], more[open[i].node], base, First(max, costs, i))
  <2>1. Link(stack[i], open[i], nodes[open[i].node], base, First(max, costs, i)) BY DEF Linked
  <2>2. CASE i = n
    <3>1. /\ counted[n].trace_address = stack[n].trace_address
          /\ counted[n].subtraces = stack[n].subtraces + 1
      BY DEF Counted
    <3>2. /\ counted[n].entries_index = stack[n].entries_index
          /\ counted[n].context_type = stack[n].context_type
          /\ counted[n].gas = stack[n].gas /\ counted[n].start_gas = stack[n].start_gas
      BY DEF CountedOnly
    <3>3. PICK d : d = open[n].node OBVIOUS
    <3>4. /\ more[d].type = nodes[d].type /\ more[d].trace_address = nodes[d].trace_address
          /\ more[d].subtraces = nodes[d].subtraces + 1
      BY <3>3 DEF GrewTo
    <3>5. Link(stack[n], open[n], nodes[d], base, First(max, costs, n)) BY <2>1, <2>2, <3>3
    <3>6. Link(counted[n], open[n], more[d], base, First(max, costs, n))
      BY <3>1, <3>2, <3>4, <3>5 DEF Link
    <3> QED BY <2>2, <3>3, <3>6
  <2>3. CASE i # n
    <3>1. i < n /\ n \in 1..n BY <2>3
    <3>2. open[i].node # open[n].node /\ open[i].node \in 1..Len(nodes) BY <1>1, <3>1
    <3>3. more[open[i].node] = nodes[open[i].node] BY <3>2 DEF GrewTo
    <3>4. counted[i] = stack[i] BY <2>3 DEF Counted
    <3> QED BY <2>1, <3>3, <3>4
  <2> QED BY <2>2, <2>3
<1> QED BY <1>1, <1>2 DEF Linked, Counted

LEMMA LinkedPush ==
    ASSUME NEW stack, NEW open, NEW nodes, NEW base, NEW max, NEW costs,
           Linked(stack, open, nodes, base, max, costs),
           NEW n, n = Len(open), Len(stack) = Len(open),
           NEW stack2, NEW context, OneLonger(stack2, stack, context),
           NEW open2, NEW frame, OneLonger(open2, open, frame),
           \A i \in 1..n : open[i].node < frame.node,
           Link(context, frame, nodes[frame.node], base, First(max, costs, n + 1))
    PROVE  Linked(stack2, open2, nodes, base, max, costs)
<1>0. /\ n \in Nat /\ Len(stack) = n /\ Len(open) = n /\ Len(stack2) = n + 1 /\ Len(open2) = n + 1
      /\ stack2[n + 1] = context /\ open2[n + 1] = frame
      /\ \A i \in 1..n : stack2[i] = stack[i]
      /\ \A i \in 1..n : open2[i] = open[i]
  BY DEF OneLonger
<1>1. \A i \in 1..(n + 1) : i \in 1..n \/ i = n + 1 BY <1>0
<1>2. ASSUME NEW i \in 1..(n + 1), NEW j \in 1..(n + 1), i < j
      PROVE  open2[i].node < open2[j].node
  <2>1. i \in 1..n BY <1>0, <1>2
  <2>2. CASE j \in 1..n BY <1>0, <1>2, <2>1, <2>2 DEF Linked
  <2>3. CASE j = n + 1 BY <1>0, <2>1, <2>3
  <2> QED BY <1>1, <2>2, <2>3
<1>3. ASSUME NEW i \in 1..(n + 1)
      PROVE  Link(stack2[i], open2[i], nodes[open2[i].node], base, First(max, costs, i))
  <2>1. CASE i \in 1..n BY <1>0, <2>1 DEF Linked
  <2>2. CASE i = n + 1 BY <1>0, <2>2
  <2> QED BY <1>1, <2>1, <2>2
<1> QED BY <1>0, <1>2, <1>3 DEF Linked

\* A snapshot of the innermost frame's gas.
LEMMA LinkedCharge ==
    ASSUME NEW stack, NEW open, NEW nodes, NEW base, NEW max \in Int, NEW costs \in Int,
           Linked(stack, open, nodes, base, max, costs),
           NEW n, NEW stack2, NEW open2, NEW gas, NEW c,
           Charges(stack, stack2, open, open2, n, c, gas), gas = First(max, costs, n) - c
    PROVE  Linked(stack2, open2, nodes, base, max, costs)
<1>0. /\ n \in Nat /\ n > 0 /\ Len(stack) = n /\ Len(open) = n
      /\ Len(stack2) = n /\ (\A i \in 1..n : i # n => stack2[i] = stack[i])
      /\ Len(open2) = n /\ (\A i \in 1..n : i # n => open2[i] = open[i])
      /\ c \in Nat /\ c = open[n].costs /\ gas \in Nat
      /\ ChargedTo(stack2[n], stack[n], gas)
      /\ open2[n].node = open[n].node /\ open2[n].costs = c + 1
  BY DEF Charges
<1> USE <1>0
<1>1. \A i \in 1..n : open2[i].node = open[i].node OBVIOUS
<1>2. \A i, j \in 1..n : i < j => open2[i].node < open2[j].node BY <1>1 DEF Linked
<1>3. ASSUME NEW i \in 1..n
      PROVE  Link(stack2[i], open2[i], nodes[open2[i].node], base, First(max, costs, i))
  <2>1. Link(stack[i], open[i], nodes[open[i].node], base, First(max, costs, i)) BY DEF Linked
  <2>2. CASE i # n BY <2>1, <2>2
  <2>3. CASE i = n
    <3>1. PICK f : f = First(max, costs, n) /\ f \in Int BY DEF First
    <3>2. Link(stack[n], open[n], nodes[open[n].node], base, f) BY <2>1, <2>3, <3>1
    <3>3. /\ stack2[n].entries_index = stack[n].entries_index
          /\ stack2[n].context_type = stack[n].context_type
          /\ stack2[n].trace_address = stack[n].trace_address
          /\ stack2[n].subtraces = stack[n].subtraces /\ stack2[n].gas = gas
          /\ stack2[n].start_gas = IF stack[n].start_gas = NoGas THEN gas ELSE stack[n].start_gas
      BY DEF ChargedTo
    <3>4. stack2[n].start_gas = f /\ stack2[n].gas = f - ((c + 1) - 1)
      <4>1. CASE c = 0
        <5>1. stack[n].start_gas = NoGas /\ gas = f BY <3>1, <3>2, <4>1 DEF Link
        <5> QED BY <3>1, <3>3, <4>1, <5>1
      <4>2. CASE c # 0
        <5>1. stack[n].start_gas = f /\ f # NoGas
          <6>1. f \in Nat BY <3>1
          <6> QED BY <3>2, <4>2, <6>1 DEF Link, NoGas
        <5> QED BY <3>1, <3>3, <5>1
      <4> QED BY <4>1, <4>2
    <3>5. open2[n].costs # 0 OBVIOUS
    <3>6. Link(stack2[n], open2[n], nodes[open2[n].node], base, f)
      BY <3>2, <3>3, <3>4, <3>5 DEF Link
    <3> QED BY <2>3, <3>1, <3>6
  <2> QED BY <2>2, <2>3
<1> QED BY <1>2, <1>3 DEF Linked

LEMMA ContextFields ==
    ASSUME NEW c \in Context
    PROVE  \E e, ty, q, s, g, sg :
              /\ c = [entries_index |-> e, context_type |-> ty, trace_address |-> q, subtraces |-> s,
                      gas |-> g, start_gas |-> sg]
              /\ e \in Nat /\ ty \in ContextType /\ q \in Seq(Nat) /\ s \in Nat /\ g \in Nat
              /\ sg \in Nat \cup {NoGas}
  BY DEF Context

LEMMA ChildCountedOnly ==
    ASSUME NEW stack \in Seq(Context), stack # <<>>
    PROVE  CountedOnly(stack, [stack EXCEPT ![Len(stack)].subtraces = @ + 1])
<1>1. PICK n : n = Len(stack) /\ n \in Nat /\ n \in 1..n BY StackFields, EmptySeq
<1>2. PICK top : top = stack[n] /\ top \in Context BY <1>1, StackFields
<1>3. PICK new : new = [top EXCEPT !.subtraces = @ + 1] OBVIOUS
<1>4. /\ new.entries_index = top.entries_index /\ new.context_type = top.context_type
      /\ new.gas = top.gas /\ new.start_gas = top.start_gas
  <2>1. top \in Context BY <1>2
  <2>2. PICK e, ty, q, s, g, sg :
          /\ top = [entries_index |-> e, context_type |-> ty, trace_address |-> q, subtraces |-> s,
                    gas |-> g, start_gas |-> sg]
          /\ e \in Nat /\ ty \in ContextType /\ q \in Seq(Nat) /\ s \in Nat /\ g \in Nat
          /\ sg \in Nat \cup {NoGas}
    BY <2>1, ContextFields
  <2> QED BY <1>3, <2>2
<1>5. PICK counted : counted = [stack EXCEPT ![n] = new] OBVIOUS
<1>6. [stack EXCEPT ![Len(stack)].subtraces = @ + 1] = counted BY <1>1, <1>2, <1>3, <1>5
<1>7. counted[n] = new BY <1>1, <1>5
<1>8. CountedOnly(stack, counted) BY <1>1, <1>2, <1>4, <1>7 DEF CountedOnly
<1> QED BY <1>6, <1>8

LEMMA ChargedIs ==
    ASSUME NEW c \in Context, NEW gas \in Nat
    PROVE  Charged(c, gas) \in Context /\ ChargedTo(Charged(c, gas), c, gas)
<1>1. PICK e, ty, q, s, g, sg :
        /\ c = [entries_index |-> e, context_type |-> ty, trace_address |-> q, subtraces |-> s,
                gas |-> g, start_gas |-> sg]
        /\ e \in Nat /\ ty \in ContextType /\ q \in Seq(Nat) /\ s \in Nat /\ g \in Nat
        /\ sg \in Nat \cup {NoGas}
  BY ContextFields
<1>2. PICK ng : ng = (IF sg = NoGas THEN gas ELSE sg) /\ ng \in Nat \cup {NoGas} BY <1>1
<1>3. c.start_gas = sg BY <1>1
<1>4. Charged(c, gas) = [c EXCEPT !.gas = gas, !.start_gas = ng] BY <1>2, <1>3 DEF Charged
<1> HIDE DEF NoGas
<1>5. PICK mid : mid = [c EXCEPT !.gas = gas] OBVIOUS
<1>6. mid = [entries_index |-> e, context_type |-> ty, trace_address |-> q, subtraces |-> s,
             gas |-> gas, start_gas |-> sg]
  BY <1>1, <1>5
<1>7. Charged(c, gas) = [mid EXCEPT !.start_gas = ng] BY <1>4, <1>5
<1>8. PICK new : /\ new = Charged(c, gas)
                 /\ new = [entries_index |-> e, context_type |-> ty, trace_address |-> q,
                           subtraces |-> s, gas |-> gas, start_gas |-> ng]
  BY <1>6, <1>7
<1>9. new \in Context BY <1>1, <1>2, <1>8 DEF Context
<1>10. ChargedTo(new, c, gas) BY <1>1, <1>2, <1>3, <1>8 DEF ChargedTo
<1> QED BY <1>8, <1>9, <1>10

LEMMA ChildCountedIs ==
    ASSUME StackOK, context_stack # <<>>
    PROVE  /\ Counted(context_stack, ChildCounted) /\ CountedOnly(context_stack, ChildCounted)
           /\ ChildAddress = ChildOf(context_stack)
<1>1. ChildCounted = [context_stack EXCEPT ![Len(context_stack)].subtraces = @ + 1]
  BY DEF ChildCounted
<1>2. ChildAddress = ChildOf(context_stack) BY DEF ChildAddress, ChildOf, Top
<1> QED BY <1>1, <1>2, ChildIsCounted, ChildCountedOnly DEF StackOK

\* What the current transaction does leaves the maps of the others alone.
LEMMA MatchesMore ==
    ASSUME NEW map, NEW nodes, NEW a \in Nat, NEW b \in Nat, a <= b, Matches(map, nodes, a)
    PROVE  Matches(map, nodes, b)
  BY DEF Matches

LEMMA InsertedTrees ==
    ASSUME MapsAre(entries), Tx \in Nat, Tx > 0, OneMapEach(entries), NEW bound,
           TreesUpTo(entries, Tx - 1, bound), NEW key, NEW entry
    PROVE  TreesUpTo(Inserted(key, entry), Tx - 1, bound)
<1>1. PICK n, x : n = Len(entries) /\ n \in Nat /\ x = Tx /\ x \in Nat /\ x > 0 /\ n <= x /\ x <= n + 1
  BY DEF MapsAre, IsMaps, OneMapEach
<1>2. PICK m : m = Inserted(key, entry) OBVIOUS
<1>3. CASE entries = <<>>
  <2>1. n = 0 BY <1>1, <1>3
  <2>2. x = 1 BY <1>1, <2>1
  <2>3. 1..(x - 1) = {} BY <2>2
  <2> QED BY <1>1, <2>3 DEF TreesUpTo
<1>4. CASE entries # <<>>
  <2>1. Len(m) = n /\ \A t \in 1..n : t # n => m[t] = entries[t]
    BY <1>1, <1>2, <1>4, InsertedIs DEF MapsAre
  <2>2. PICK o : o = x - n /\ o \in Int BY <1>1
  <2>3. \A t \in 1..(x - 1) : t > o => t - o \in 1..n /\ t - o # n BY <1>1, <2>2
  <2>4. \A t \in 1..(x - 1) : t > o => m[t - o] = entries[t - o] BY <2>1, <2>3
  <2>5. Tx - Len(entries) = o /\ Tx - Len(m) = o BY <1>1, <2>1, <2>2
  <2>6. TreesUpTo(m, Tx - 1, bound)
    <3> SUFFICES ASSUME NEW t \in 1..(x - 1)
                 PROVE  IF t > o THEN Matches(m[t - o], tree[t], bound) ELSE tree[t] = <<>>
      BY <1>1, <2>5 DEF TreesUpTo
    <3>1. IF t > o THEN Matches(entries[t - o], tree[t], bound) ELSE tree[t] = <<>>
      BY <1>1, <2>5 DEF TreesUpTo
    <3>2. t > o => m[t - o] = entries[t - o] BY <2>4
    <3> QED BY <3>1, <3>2
  <2> QED BY <1>2, <2>6
<1> QED BY <1>3, <1>4

LEMMA TreesStay ==
    ASSUME MapsAre(entries), Tx \in Nat, Tx > 0, Tx' = Tx,
           \A t \in 1..Tx : t # Tx => tree'[t] = tree[t],
           OneMapEach(entries), TreesUpTo(entries, Tx - 1, entries_next_index), Inserts,
           entries_next_index \in Nat, entries_next_index' \in Nat,
           entries_next_index <= entries_next_index'
    PROVE  TreesUpTo(entries, Tx - 1, entries_next_index)'
<1>1. PICK x, a, b : /\ x = Tx /\ x \in Nat /\ x > 0
                     /\ a = entries_next_index /\ b = entries_next_index'
  OBVIOUS
<1>2. a \in Nat /\ b \in Nat /\ a <= b BY <1>1
<1>3. PICK m : m = entries' /\ TreesUpTo(m, x - 1, a) BY <1>1, InsertedTrees DEF Inserts
<1>4. \A t \in 1..(x - 1) : tree'[t] = tree[t] BY <1>1
<1>5. ASSUME NEW t \in 1..(x - 1)
      PROVE  IF t > x - Len(m) THEN Matches(m[t - (x - Len(m))], tree'[t], b) ELSE tree'[t] = <<>>
  <2>1. IF t > x - Len(m) THEN Matches(m[t - (x - Len(m))], tree[t], a) ELSE tree[t] = <<>>
    BY <1>1, <1>3 DEF TreesUpTo
  <2>2. tree'[t] = tree[t] BY <1>4
  <2>3. CASE t > x - Len(m) BY <1>2, <2>1, <2>2, <2>3, MatchesMore
  <2>4. CASE ~(t > x - Len(m)) BY <2>1, <2>2, <2>4
  <2> QED BY <2>3, <2>4
<1> QED BY <1>1, <1>3, <1>5 DEF TreesUpTo

LEMMA NodesPop ==
    ASSUME NEW open, NEW n \in Nat, n > 0, Len(open) = n, NEW open2, Len(open2) = n - 1,
           \A i \in 1..(n - 1) : open2[i].node = open[i].node,
           \A i \in 1..n : open[i].node \in Nat,
           \A i, j \in 1..n : i < j => open[i].node < open[j].node
    PROVE  NodesOf(open2) = NodesOf(open) \ {open[n].node}
<1>1. \A i \in 1..n : i \in 1..(n - 1) \/ i = n OBVIOUS
<1>2. \A i \in 1..(n - 1) : i \in 1..n /\ i < n /\ n \in 1..n OBVIOUS
<1>3. ASSUME NEW i \in 1..(n - 1) PROVE open[i].node # open[n].node BY <1>2
<1> QED BY <1>1, <1>2, <1>3 DEF NodesOf

LEMMA NodesPush ==
    ASSUME NEW open, NEW open2, NEW frame, OneLonger(open2, open, frame)
    PROVE  NodesOf(open2) = NodesOf(open) \cup {frame.node}
<1>1. PICK n : /\ n \in Nat /\ Len(open) = n /\ Len(open2) = n + 1 /\ open2[n + 1] = frame
               /\ \A i \in 1..n : open2[i] = open[i]
  BY DEF OneLonger
<1>2. \A i \in 1..(n + 1) : i \in 1..n \/ i = n + 1 BY <1>1
<1>3. \A i \in 1..n : i \in 1..(n + 1) BY <1>1
<1>4. n + 1 \in 1..(n + 1) BY <1>1
<1> QED BY <1>1, <1>2, <1>3, <1>4 DEF NodesOf

LEMMA AppendedOne ==
    ASSUME NEW S, NEW s \in Seq(S), NEW x \in S
    PROVE  OneLonger(Append(s, x), s, x) /\ Append(s, x) # <<>>
  BY DEF OneLonger

LEMMA NodesSame ==
    ASSUME NEW open, NEW open2, Len(open2) = Len(open),
           \A i \in 1..Len(open) : open2[i].node = open[i].node
    PROVE  NodesOf(open2) = NodesOf(open)
  BY DEF NodesOf

\* The entry of a context says what the node of its frame does.
LEMMA LinkEntry ==
    ASSUME FlagsOK, NEW c \in Context, NEW f \in Frame, NEW node, NEW base \in Nat, NEW first \in Int,
           Link(c, f, node, base, first), f.node >= 1, NEW res
    PROVE  EntryFor(EntryOf(c, res), f, node, res)
<1>1. c.entries_index = base + f.node - 1 BY DEF Link
<1>2. c.context_type = node.type /\ c.trace_address = node.trace_address
        /\ c.subtraces = node.subtraces
  BY DEF Link
<1>3. EntryOf(c, res) = [type |-> c.context_type, trace_address |-> c.trace_address,
                         subtraces |-> c.subtraces, gas_used |-> GasUsed(c), res |-> res]
  BY DEF EntryOf
<1>4. EntryOf(c, res).gas_used = GasUsed(c) BY <1>3
<1>5. ASSUME f.node # 1 PROVE GasUsed(c) = UsedBy(f)
  <2>1. PICK k, d, g, sg : /\ k = f.costs /\ k \in Nat /\ d = f.node /\ d \in Nat
                           /\ g = c.gas /\ g \in Nat /\ sg = c.start_gas /\ sg \in Nat \cup {NoGas}
    BY DEF Frame, Context
  <2>2. c.entries_index # 0 BY <1>1, <1>5, <2>1
  <2>3. GasUsed(c) = (IF sg = NoGas THEN 0 ELSE sg) - g + 0 BY <2>1, <2>2 DEF GasUsed
  <2>4. IF k = 0 THEN sg = NoGas /\ g = 0 ELSE sg = first /\ g = first - (k - 1) BY <2>1 DEF Link
  <2>5. UsedBy(f) = IF k = 0 THEN 0 ELSE k - 1 BY <2>1 DEF UsedBy
  <2>6. CASE k = 0 BY <2>3, <2>4, <2>5, <2>6
  <2>7. CASE k # 0
    <3>1. sg = first /\ g = first - (k - 1) BY <2>4, <2>7
    <3>2. first # -1 BY <2>1, <2>7, <3>1
    <3>3. sg # NoGas BY <3>1, <3>2 DEF NoGas
    <3>4. GasUsed(c) = first - g + 0 BY <2>3, <3>1, <3>3
    <3>5. GasUsed(c) = k - 1 BY <2>1, <3>1, <3>4
    <3> QED BY <2>5, <2>7, <3>5
  <2> QED BY <2>6, <2>7
<1> QED BY <1>2, <1>3, <1>4, <1>5 DEF EntryFor

\* What the invariants say of the current transaction.
LEMMA TreeParts ==
    ASSUME IInv, Tx > 0, NodesInv
    PROVE  /\ FlagsOK /\ MapsAre(entries) /\ StackOK /\ context_stack \in Seq(Context)
           /\ Nodes \in Seq(Node) /\ Len(Nodes) \in Nat /\ Base \in Nat
           /\ entries_next_index = Base + Len(Nodes) /\ entries_next_index \in Nat
           /\ MaxCosts[runtime] \in Nat /\ MaxNodes[runtime][Tx] \in Nat
           /\ Tx \in Nat /\ FramesOK /\ Len(frames) \in Nat
           /\ \A i \in 1..Len(frames) :
                 /\ frames[i] \in Frame /\ frames[i].node \in 1..Len(Nodes)
                 /\ frames[i].node \in Nat /\ frames[i].node >= 1
           /\ NodesOf(frames) \in SUBSET (1..Len(Nodes))
<1>1. FlagsOK /\ MapsAre(entries) /\ StackOK /\ context_stack \in Seq(Context)
  BY Parts, ListenerParts DEF StackOK
<1>2. Nodes \in Seq(Node) /\ Len(Nodes) \in Nat /\ Tx \in Nat BY Parts, NodesAre
<1>3. entries_next_index \in Nat BY <1>1 DEF FlagsOK
<1>4. PICK b, l, e : b = Base /\ l = Len(Nodes) /\ e = entries_next_index /\ b = e - l BY DEF Base
<1>5. b \in Nat /\ e = b + l
  <2>1. b >= 0 BY <1>4 DEF NodesInv
  <2> QED BY <1>2, <1>3, <1>4, <2>1
<1>6. MaxCosts[runtime] \in Nat /\ MaxNodes[runtime][Tx] \in Nat
  BY Parts, BoundsAssumption, <1>2 DEF StagesInv
<1>7. FramesOK /\ Len(frames) \in Nat BY Parts
<1>8. ASSUME NEW i \in 1..Len(frames)
      PROVE  /\ frames[i] \in Frame /\ frames[i].node \in 1..Len(Nodes)
             /\ frames[i].node \in Nat /\ frames[i].node >= 1
  <2>1. frames # <<>> BY <1>7
  <2>2. frames[i].node \in 1..Len(Nodes) BY <2>1, Parts DEF FramesInv
  <2>3. frames[i] \in Frame BY <1>7 DEF FramesOK
  <2> QED BY <1>2, <2>2, <2>3
<1>9. NodesOf(frames) \in SUBSET (1..Len(Nodes)) BY <1>8 DEF NodesOf
<1> QED BY <1>1, <1>2, <1>3, <1>4, <1>5, <1>6, <1>7, <1>8, <1>9

\* The entry that Exit inserts is the one of the innermost frame's node.
LEMMA ExitEntry ==
    ASSUME IInv, Early, Tx > 0, frames # <<>>, LinksInv, NodesInv,
           NEW reason \in ExitReason, EvmExit(reason), Stopped => reason = Current.reason
    PROVE  \E key, entry :
             /\ entries' = Inserted(key, entry) /\ key = Base + Current.node - 1
             /\ EntryFor(entry, Current, CurrentNode, CallResult(reason))
             /\ Len(context_stack') = Len(frames) - 1
             /\ \A i \in 1..(Len(frames) - 1) : context_stack'[i] = context_stack[i]
<1>1. CASE Stopped
  <2>1. /\ step_result_entry # <<>> /\ step_result_entry[1] = Base + Current.node - 1
        /\ EntryFor(step_result_entry[2], Current, CurrentNode, CallResult(Current.reason))
        /\ Len(context_stack) = Len(frames) - 1
    BY <1>1 DEF LinksInv
  <2>2. PICK key, entry : key = step_result_entry[1] /\ entry = step_result_entry[2] OBVIOUS
  <2>3. entries' = Inserted(key, entry) /\ context_stack' = context_stack BY <2>1, <2>2 DEF EvmExit
  <2>4. EntryFor(entry, Current, CurrentNode, CallResult(Current.reason)) /\ reason = Current.reason
    BY <1>1, <2>1, <2>2
  <2>6. key = Base + Current.node - 1 BY <2>1, <2>2
  <2>7. /\ Len(context_stack') = Len(frames) - 1
        /\ \A i \in 1..(Len(frames) - 1) : context_stack'[i] = context_stack[i]
    BY <2>1, <2>3
  <2> QED BY <2>3, <2>4, <2>6, <2>7
<1>2. CASE ~Stopped
  <2>1. PICK n, s : n = Len(frames) /\ n \in Nat /\ n \in 1..n /\ s = context_stack
    BY Parts, CurrentIs
  <2>2. Len(s) = n /\ s \in Seq(Context) /\ s # <<>>
    <3>1. Len(s) = n BY <1>2, <2>1 DEF LinksInv
    <3>2. s \in Seq(Context) BY <2>1, TreeParts
    <3> QED BY <2>1, <3>1, <3>2
  <2>3. step_result_entry = <<>> BY <1>2, Parts DEF PendingInv, Stopped
  <2>4. /\ entries' = Inserted(Top.entries_index, EntryOf(Top, CallResult(reason)))
        /\ context_stack' = Popped
    BY <2>1, <2>2, <2>3 DEF EvmExit
  <2>5. PICK c, f, node, base, first :
          /\ c = s[n] /\ f = frames[n] /\ node = CurrentNode /\ base = Base
          /\ first = First(MaxNodes[runtime][Tx], MaxCosts[runtime], n)
    OBVIOUS
  <2>6. Link(c, f, node, base, first) BY <2>1, <2>5, <2>2 DEF LinksInv, Current, CurrentNode, Linked
  <2>7. c \in Context /\ f \in Frame /\ base \in Nat /\ first \in Int /\ f.node >= 1
    BY <2>1, <2>2, <2>5, TreeParts, SMTT(30) DEF First
  <2>8. Top = c /\ Current = f BY <2>1, <2>2, <2>5 DEF Top, Current
  <2>9. PICK key, entry : key = c.entries_index /\ entry = EntryOf(c, CallResult(reason)) OBVIOUS
  <2>10. key = base + f.node - 1 BY <2>6, <2>9 DEF Link
  <2>11. EntryFor(entry, f, node, CallResult(reason))
    <3>1. FlagsOK BY TreeParts
    <3>2. PICK res : res = CallResult(reason) OBVIOUS
    <3>3. EntryFor(EntryOf(c, res), f, node, res) BY <2>6, <2>7, <3>1, LinkEntry
    <3> QED BY <2>9, <3>2, <3>3
  <2>12. entries' = Inserted(key, entry) BY <2>4, <2>8, <2>9
  <2>13. /\ Len(context_stack') = n - 1
         /\ \A i \in 1..(n - 1) : context_stack'[i] = s[i]
    <3>1. context_stack' = SubSeq(s, 1, n - 1) BY <2>1, <2>2, <2>4 DEF Popped
    <3> QED BY <2>1, <2>2, <3>1
  <2> QED BY <2>1, <2>5, <2>8, <2>10, <2>11, <2>12, <2>13
<1> QED BY <1>1, <1>2

\* A frame ends: its entry is inserted, and the context is gone.
LEMMA FrameEnds ==
    ASSUME IInv, Early, Tx > 0, frames # <<>>, LinksInv, NodesInv, runtime' = runtime,
           NEW reason \in ExitReason, EvmExit(reason), CloseFrame(reason),
           Stopped => reason = Current.reason
    PROVE  /\ LinksInv' /\ NodesInv' /\ Inserts /\ UNCHANGED entries_next_index
           /\ Tx' = Tx /\ \A t \in 1..Tx : t # Tx => tree'[t] = tree[t]
<1>1. PICK n, d, nodes, more, base, used :
        /\ n = Len(frames) /\ d = Current.node /\ nodes = Nodes /\ more = Nodes' /\ base = Base
        /\ used = UsedBy(Current) + (IF Current.node = 1 THEN TxCost ELSE 0)
  OBVIOUS
<1>2. /\ Tx' = Tx /\ \A t \in 1..Tx : t # Tx => tree'[t] = tree[t]
      /\ more \in Seq(Node) /\ ClosedTo(more, nodes, d, CallResult(reason), used)
  BY <1>1, Parts, CloseFrameTo
<1>3. entries_next_index' = entries_next_index BY DEF EvmExit
<1>4. PICK l : l = Len(nodes) /\ l \in Nat /\ base \in Nat /\ Len(more) = l
  BY <1>1, <1>2, TreeParts DEF ClosedTo
<1>5. Base' = base BY <1>1, <1>2, <1>3, <1>4 DEF Base
<1>6. n \in Nat /\ n > 0 /\ n \in 1..n /\ d = frames[n].node /\ d \in 1..l
  <2>1. n \in Nat /\ n \in 1..n BY <1>1, Parts, CurrentIs
  <2>2. d = frames[n].node BY <1>1 DEF Current
  <2>3. d \in 1..l BY <1>1, <1>4, <2>1, <2>2, TreeParts
  <2> QED BY <2>1, <2>2, <2>3
<1>7. PICK open2, stack, stack2 : open2 = frames' /\ stack = context_stack /\ stack2 = context_stack'
  OBVIOUS
<1>8. Len(open2) = n - 1 /\ \A i \in 1..(n - 1) : open2[i] = frames[i]
  BY <1>1, <1>7, Parts, CloseFrameKeeps
<1>9. PICK key, entry :
        /\ entries' = Inserted(key, entry) /\ key = base + d - 1
        /\ EntryFor(entry, Current, nodes[d], CallResult(reason))
        /\ Len(stack2) = n - 1 /\ \A i \in 1..(n - 1) : stack2[i] = stack[i]
  BY <1>1, <1>7, ExitEntry DEF CurrentNode
<1>10. Same(entry, more[d])
  <2>1. /\ more[d].type = nodes[d].type /\ more[d].trace_address = nodes[d].trace_address
        /\ more[d].subtraces = nodes[d].subtraces
        /\ more[d].res = CallResult(reason) /\ more[d].gas_used = used
    BY <1>2 DEF ClosedTo
  <2>2. ASSUME entry.trace_address # <<>> PROVE entry.gas_used = used
    <3>1. d # 1
      <4>1. nodes # <<>> BY <1>4, <1>6
      <4> QED BY <1>1, <1>9, <2>2, <4>1 DEF NodesInv, EntryFor
    <3>2. used = UsedBy(Current)
      <4>1. UsedBy(Current) \in Int BY Parts, CurrentIs DEF UsedBy
      <4> QED BY <1>1, <3>1, <4>1
    <3> QED BY <1>1, <1>9, <3>1, <3>2 DEF EntryFor
  <2> QED BY <1>9, <2>1, <2>2 DEF Same, EntryFor
<1>11. \A i, j \in 1..n : i < j => frames[i].node < frames[j].node BY <1>1 DEF LinksInv, Linked
<1>12. NodesOf(open2) = NodesOf(frames) \ {d}
  <2>1. \A i \in 1..n : frames[i].node \in Nat BY <1>1, TreeParts
  <2>2. PICK open : open = frames OBVIOUS
  <2>3. n \in Nat /\ n > 0 /\ Len(open) = n /\ Len(open2) = n - 1 /\ d = open[n].node
    BY <1>1, <1>6, <1>8, <2>2
  <2>4. \A i \in 1..(n - 1) : open2[i].node = open[i].node BY <1>8, <2>2
  <2>5. \A i \in 1..n : open[i].node \in Nat BY <2>1, <2>2
  <2>6. \A i, j \in 1..n : i < j => open[i].node < open[j].node BY <1>11, <2>2
  <2>7. NodesOf(open2) = NodesOf(open) \ {open[n].node} BY <2>3, <2>4, <2>5, <2>6, NodesPop
  <2> QED BY <2>2, <2>3, <2>7
<1>13. MapIs(LastMap', more, NodesOf(open2), base)
  <2>1. PICK map, map2 : map = LastMap /\ map2 = LastMap' OBVIOUS
  <2>2. map2 = With(map, key, entry)
    BY TreeParts, InsertedIs, <1>9, <2>1 DEF MapsAre, LastMap, LastOf
  <2>3. MapIs(map, nodes, NodesOf(frames), base) BY <1>1, <2>1 DEF NodesInv
  <2>4. d \in NodesOf(frames) BY <1>1, <1>6 DEF NodesOf
  <2>5. \A k \in 1..l : k # d => more[k] = nodes[k] BY <1>2, <1>4 DEF ClosedTo
  <2>6. MapIs(With(map, base + d - 1, entry), more, NodesOf(frames) \ {d}, base)
    BY <1>4, <1>6, <1>10, <2>3, <2>4, <2>5, MapCloses
  <2> QED BY <1>9, <1>12, <2>1, <2>2, <2>6
<1>14. NodesInv'
  <2>1. Base' >= 0 BY <1>4, <1>5
  <2>2. ASSUME more # <<>> PROVE more[1].trace_address = <<>>
    <3>1. nodes[1].trace_address = <<>>
      <4>1. nodes # <<>> BY <1>4, <1>6
      <4> QED BY <1>1, <4>1 DEF NodesInv
    <3>2. 1 \in 1..l BY <1>4, <1>6
    <3>3. more[1].trace_address = nodes[1].trace_address BY <1>2, <1>4, <3>2 DEF ClosedTo
    <3> QED BY <3>1, <3>3
  <2> QED BY <1>1, <1>5, <1>7, <1>13, <2>1, <2>2 DEF NodesInv
<1>15. ~Stopped'
  <2> SUFFICES ASSUME Stopped' PROVE FALSE OBVIOUS
  <2>1. open2 # <<>> /\ open2[n - 1].phase = "stopped" BY <1>7, <1>8 DEF Stopped, Current
  <2>2. n - 1 \in 1..(n - 1)
    <3>1. open2 \in Seq(Frame) BY <1>7, Parts, CloseFrameKeeps DEF FramesOK
    <3>2. Len(open2) # 0 BY <2>1, <3>1, EmptySeq
    <3> QED BY <1>6, <1>8, <3>2
  <2>3. frames[n - 1].phase # "stopped" BY <1>1, <2>2, Parts DEF DepthInv
  <2> QED BY <1>8, <2>1, <2>2, <2>3
<1>16. Linked(stack2, open2, more, base, MaxNodes[runtime][Tx], MaxCosts[runtime])
  <2>1. PICK max, costs, k : max = MaxNodes[runtime][Tx] /\ costs = MaxCosts[runtime] /\ k = n - 1
    OBVIOUS
  <2>2. Linked(stack, frames, nodes, base, max, costs) BY <1>1, <1>7, <2>1 DEF LinksInv
  <2>3. k \in Nat /\ k <= n /\ k <= k /\ Len(stack) \in Nat /\ k <= Len(stack)
    <3>1. Len(stack) = n \/ Len(stack) = n - 1 BY <1>1, <1>6, <1>7 DEF LinksInv
    <3> QED BY <1>6, <2>1, <3>1
  <2>4. \A i \in 1..k : stack2[i] = stack[i] /\ open2[i].costs = frames[i].costs
                          /\ open2[i].node = frames[i].node
    BY <1>8, <1>9, <2>1
  <2>5. ASSUME NEW i \in 1..k PROVE Described(more[frames[i].node], nodes[frames[i].node])
    <3>1. i \in 1..n BY <1>6, <2>1
    <3>2. PICK j : j = frames[i].node /\ j \in 1..l BY <1>1, <1>4, <3>1, TreeParts
    <3>3. Described(more[j], nodes[j]) BY <1>2, <1>4, <3>2 DEF ClosedTo, Described
    <3> QED BY <3>2, <3>3
  <2>6. Len(stack2) = k /\ Len(open2) = k /\ Len(frames) = n BY <1>1, <1>8, <1>9, <2>1
  <2>7. Remain(stack2, open2, more, stack, frames, nodes) BY <1>6, <2>3, <2>4, <2>5, <2>6 DEF Remain
  <2>8. Linked(stack2, open2, more, base, max, costs) BY <2>2, <2>7, LinkedStays
  <2> QED BY <2>1, <2>8
<1>17. LinksInv'
  <2>1. Linked(context_stack, frames, Nodes, Base, MaxNodes[runtime][Tx], MaxCosts[runtime])'
    BY <1>1, <1>2, <1>5, <1>7, <1>16
  <2>2. Len(context_stack') = Len(frames') - 0 BY <1>6, <1>7, <1>8, <1>9
  <2> QED BY <1>15, <2>1, <2>2 DEF LinksInv
<1>18. Inserts BY <1>9 DEF Inserts
<1> QED BY <1>2, <1>3, <1>14, <1>17, <1>18

-----------------------------------------------------------------------------
\* The third invariant, action by action.

LEMMA NothingNew ==
    ASSUME LinksInv, NodesInv,
           UNCHANGED <<entries, entries_next_index, context_stack, step_result_entry, frames, tree,
                       runtime>>
    PROVE  LinksInv' /\ NodesInv'
<1>1. /\ Nodes' = Nodes /\ Tx' = Tx /\ Base' = Base /\ Current' = Current
      /\ UNCHANGED CurrentNode /\ LastMap' = LastMap /\ (Stopped' <=> Stopped)
  BY DEF Nodes, Tx, Base, Current, CurrentNode, LastMap, Stopped
<1> QED BY <1>1 DEF LinksInv, NodesInv

\* An action within a transaction.
LEMMA TreeGoesOn ==
    ASSUME IInv, RootIInv, Early, Tx > 0, TreeNow,
           Tx' = Tx, \A t \in 1..Tx : t # Tx => tree'[t] = tree[t], Inserts,
           entries_next_index' \in {entries_next_index, entries_next_index + 1},
           LinksInv', NodesInv', TypeInv'
    PROVE  TreeIInv'
  BY RootParts, Parts, TreesStay DEF FlagsOK, TreeNow, TreeIInv

\* The actions that change neither the tree nor what the listener has of it.
LEMMA NoTreeStep ==
    ASSUME IInv, RootIInv, Early, Tx > 0, TreeNow, TypeInv',
           UNCHANGED <<entries, entries_next_index, context_stack, step_result_entry, frames, tree,
                       runtime>>
    PROVE  TreeIInv'
  BY NothingNew, TreeGoesOn DEF TreeNow, Tx, Inserts

LEMMA EmitRecordTransactionTree ==
    ASSUME IInv, RootIInv, Early, Tx > 0, TreeNow, EmitRecordTransaction
    PROVE  TreeIInv'
<1>1. UNCHANGED <<entries, entries_next_index, context_stack, step_result_entry, frames, tree,
                  runtime>>
  BY DEF EmitRecordTransaction, RecordTransaction
<1>2. TypeInv' BY DEF EmitRecordTransaction, RecordTransaction, TreeNow, TypeInv
<1> QED BY <1>1, <1>2, NoTreeStep

LEMMA RefusedTree ==
    ASSUME IInv, RootIInv, Early, Tx > 0, TreeNow, Refused
    PROVE  TreeIInv'
<1>1. UNCHANGED <<entries, entries_next_index, context_stack, step_result_entry, frames, tree,
                  runtime>>
  BY DEF Refused, listenerVars
<1>2. TypeInv'
  <2>1. trap' = trap /\ call_type' = call_type /\ stage' = "idle" BY DEF Refused, listenerVars
  <2> QED BY <2>1 DEF TreeNow, TypeInv
<1> QED BY <1>1, <1>2, NoTreeStep

\* TransactX has opened the context of the outermost call already.
LEMMA EmitRootTree ==
    ASSUME IInv, RootIInv, Early, Tx > 0, TreeNow, EmitRoot
    PROVE  TreeIInv'
<1>1. stage = "paid" /\ stage' = "running" /\ runtime' = runtime /\ trap' = trap
        /\ frames' = frames /\ tree' = tree
  BY DEF EmitRoot
<1>2. PICK type \in ContextType : OpenContext(type)
  <2>1. EvmCall(FALSE) \/ EvmCreate BY DEF EmitRoot
  <2> QED BY <2>1, Parts, ListenerParts, OpenCallIs
<1>3. skip_next_context BY <1>1 DEF TreeNow, TypeInv
<1>4. UNCHANGED <<entries, entries_next_index, context_stack, step_result_entry, call_type>>
  BY <1>2, <1>3 DEF OpenContext
<1>5. TypeInv' BY <1>1, <1>4 DEF TreeNow, TypeInv
<1> QED BY <1>1, <1>4, <1>5, NoTreeStep

LEMMA EmitPrecompileSubcallTree ==
    ASSUME IInv, RootIInv, Early, Tx > 0, TreeNow, EmitPrecompileSubcall
    PROVE  TreeIInv'
<1>1. UNCHANGED <<entries, entries_next_index, context_stack, step_result_entry, frames, tree,
                  runtime>>
  BY DEF EmitPrecompileSubcall, PrecompileSubcall
<1>2. TypeInv'
  <2>1. trap' = "Call" /\ call_type' = "Call" /\ stage' = "running"
    BY DEF EmitPrecompileSubcall, PrecompileSubcall, Executing
  <2> QED BY <2>1 DEF TypeInv
<1> QED BY <1>1, <1>2, NoTreeStep

LEMMA UnpaidTree ==
    ASSUME IInv, RootIInv, Early, Tx > 0, TreeNow, Unpaid
    PROVE  TreeIInv'
<1>1. stage = "paid" /\ EvmExit("Error") /\ CloseFrame("Error") /\ runtime' = runtime /\ trap' = trap
  BY DEF Unpaid
<1>2. "Error" \in ExitReason BY DEF ExitReason
<1>3. frames # <<>> /\ ~Stopped
  <2>1. frames # <<>> BY <1>1, Parts DEF StagesInv
  <2>2. Current.phase = "new" BY <1>1, <2>1, Parts, CurrentIs DEF DepthInv, Current
  <2> QED BY <2>1, <2>2 DEF Stopped
<1>4. /\ LinksInv' /\ NodesInv' /\ Inserts /\ UNCHANGED entries_next_index
      /\ Tx' = Tx /\ \A t \in 1..Tx : t # Tx => tree'[t] = tree[t]
  BY <1>1, <1>2, <1>3, FrameEnds DEF TreeNow
<1>5. TypeInv'
  <2>1. Len(frames) = 1
    <3>1. PICK n : n = Len(frames) /\ n <= 1 /\ n \in Nat /\ n \in 1..n
      BY <1>1, <1>3, Parts, CurrentIs DEF StagesInv
    <3>2. n = 1 BY <3>1
    <3> QED BY <3>1, <3>2
  <2>2. stage' = "idle" /\ call_type' = call_type BY <1>1, <2>1 DEF CloseFrame, EvmExit
  <2> QED BY <1>1, <2>2 DEF TreeNow, TypeInv
<1> QED BY <1>4, <1>5, TreeGoesOn

LEMMA EndFrameTree ==
    ASSUME IInv, RootIInv, Early, Tx > 0, TreeNow, EndFrame
    PROVE  TreeIInv'
<1>1. stage = "running" /\ trap = "none" /\ runtime' = runtime /\ trap' = trap BY DEF EndFrame
<1>2. PICK reason \in Reasons :
        /\ Current.phase = "stopped" => reason = Current.reason
        /\ EvmExit(reason) /\ CloseFrame(reason)
  BY DEF EndFrame
<1>3. reason \in ExitReason BY ReasonsAssumption
<1>4. frames # <<>> /\ (Stopped => reason = Current.reason) BY <1>1, <1>2, RunningIs DEF Stopped
<1>5. /\ LinksInv' /\ NodesInv' /\ Inserts /\ UNCHANGED entries_next_index
      /\ Tx' = Tx /\ \A t \in 1..Tx : t # Tx => tree'[t] = tree[t]
  BY <1>1, <1>2, <1>3, <1>4, FrameEnds DEF TreeNow
<1>6. TypeInv'
  <2>1. stage' \in {"idle", "running"} BY <1>1, <1>2 DEF CloseFrame
  <2>2. trap' \notin CallType BY <1>1 DEF CallType
  <2> QED BY <2>1, <2>2 DEF TypeInv
<1> QED BY <1>5, <1>6, TreeGoesOn

\* What a change of one field leaves of a frame.
LEMMA PhaseOnly ==
    ASSUME NEW f \in Frame, NEW p, NEW new, new = [f EXCEPT !.phase = p]
    PROVE  new.node = f.node /\ new.costs = f.costs /\ new.reason = f.reason
<1>1. PICK n, q, s, c : f = [node |-> n, phase |-> q, reason |-> s, costs |-> c] BY FrameFields
<1> QED BY <1>1

LEMMA ReasonOnly ==
    ASSUME NEW f \in Frame, NEW r, NEW new, new = [f EXCEPT !.reason = r]
    PROVE  new.node = f.node /\ new.costs = f.costs /\ new.reason = r
<1>1. PICK n, q, s, c : f = [node |-> n, phase |-> q, reason |-> s, costs |-> c] BY FrameFields
<1> QED BY <1>1

LEMMA CostOnly ==
    ASSUME NEW f \in Frame, NEW new, new = [f EXCEPT !.costs = @ + 1]
    PROVE  new.node = f.node /\ new.costs = f.costs + 1 /\ new.phase = f.phase
<1>1. PICK n, q, s, c : f = [node |-> n, phase |-> q, reason |-> s, costs |-> c] BY FrameFields
<1> QED BY <1>1

LEMMA SetCurrentTo ==
    ASSUME IInv, frames # <<>>, NEW f \in Frame, f.node = Current.node, SetCurrent(f)
    PROVE  CurrentBecomes(frames', f) /\ frames' # <<>> /\ Current' = f
<1>1. PICK n, s, t : n = Len(frames) /\ s = frames /\ t = frames' OBVIOUS
<1>2. s \in Seq(Frame) /\ n \in 1..Len(s) /\ n = Len(s) /\ t = [s EXCEPT ![n] = f]
  BY <1>1, Parts, CurrentIs DEF FramesOK, SetCurrent
<1>3. /\ t \in Seq(Frame) /\ Len(t) = Len(s) /\ t[n] = f
      /\ \A i \in 1..Len(s) : i # n => t[i] = s[i]
  BY <1>2, ReplacedAt
<1>4. s[n].node = f.node BY <1>1 DEF Current
<1>5. \A i \in 1..n : t[i].node = s[i].node BY <1>2, <1>3, <1>4
<1>6. t # <<>> BY <1>2, <1>3
<1> QED BY <1>1, <1>2, <1>3, <1>5, <1>6 DEF CurrentBecomes, Current

\* Such a step keeps the nodes.
LEMMA NodesKept ==
    ASSUME NodesInv, NEW f, CurrentBecomes(frames', f),
           UNCHANGED <<entries, entries_next_index, tree>>
    PROVE  NodesInv' /\ Base' = Base /\ Nodes' = Nodes /\ Tx' = Tx
<1>1. Nodes' = Nodes /\ Base' = Base /\ LastMap' = LastMap /\ Tx' = Tx
  BY DEF Nodes, Tx, Base, LastMap
<1>2. NodesOf(frames') = NodesOf(frames) BY NodesSame DEF CurrentBecomes
<1> QED BY <1>1, <1>2 DEF NodesInv

LEMMA EmitTrapTree ==
    ASSUME IInv, RootIInv, Early, Tx > 0, TreeNow, EmitTrap
    PROVE  TreeIInv'
<1>1. /\ stage = "running" /\ Current.phase # "stopped" /\ runtime' = runtime /\ tree' = tree
      /\ stage' = stage /\ SetCurrent([Current EXCEPT !.phase = "running"])
  BY DEF EmitTrap, Executing
<1>2. PICK opcode \in Opcodes : StepResultTrap(opcode) /\ trap' = opcode BY DEF EmitTrap
<1>3. UNCHANGED <<entries, entries_next_index, context_stack, step_result_entry>>
  BY <1>2 DEF StepResultTrap
<1>4. frames # <<>> /\ Current \in Frame BY <1>1, RunningIs, Parts, CurrentIs
<1>5. PICK f : /\ f = [Current EXCEPT !.phase = "running"] /\ f \in Frame /\ f.phase = "running"
               /\ f.node = Current.node /\ f.costs = Current.costs
  <2>1. PICK c, g : c = Current /\ c \in Frame /\ g = [c EXCEPT !.phase = "running"] BY <1>4
  <2>2. "running" \in {"new", "running", "suicided", "stopped"} OBVIOUS
  <2>3. g \in Frame /\ g.phase = "running" BY <2>1, <2>2, PhaseSet
  <2>4. g.node = c.node /\ g.costs = c.costs BY <2>1, PhaseOnly
  <2> QED BY <2>1, <2>3, <2>4
<1>6. CurrentBecomes(frames', f) /\ frames' # <<>> /\ Current' = f BY <1>1, <1>4, <1>5, SetCurrentTo
<1>7. NodesInv' /\ Base' = Base /\ Nodes' = Nodes /\ Tx' = Tx
  BY <1>1, <1>3, <1>6, NodesKept DEF TreeNow
<1>8. ~Stopped /\ ~Stopped' BY <1>1, <1>5, <1>6 DEF Stopped
<1>9. LinksInv'
  <2>1. PICK n, stack, open, open2, nodes :
           /\ n = Len(open) /\ stack = context_stack /\ open = frames /\ open2 = frames'
           /\ nodes = Nodes
    OBVIOUS
  <2>2. n \in Nat /\ n \in 1..n /\ Len(stack) = n
    <3>1. n \in Nat /\ n \in 1..n BY <1>4, <2>1, Parts, CurrentIs
    <3>2. Len(stack) = n BY <1>8, <2>1, <3>1 DEF TreeNow, LinksInv
    <3> QED BY <3>1, <3>2
  <2>3. /\ Len(open2) = n /\ \A i \in 1..n : open2[i].node = open[i].node
        /\ \A i \in 1..n : open2[i].costs = open[i].costs
    BY <1>6, <2>1, <1>5 DEF CurrentBecomes, Current
  <2>4. Remain(stack, open2, nodes, stack, open, nodes) BY <2>1, <2>2, <2>3 DEF Remain, Described
  <2>5. Linked(stack, open, nodes, Base, MaxNodes[runtime][Tx], MaxCosts[runtime])
    BY <2>1 DEF TreeNow, LinksInv
  <2>6. Linked(stack, open2, nodes, Base, MaxNodes[runtime][Tx], MaxCosts[runtime])
    BY <2>4, <2>5, LinkedStays
  <2>7. Linked(context_stack, frames, Nodes, Base, MaxNodes[runtime][Tx], MaxCosts[runtime])'
    BY <1>1, <1>3, <1>7, <2>1, <2>6
  <2>8. Len(context_stack') = Len(frames') - 0 BY <1>3, <2>1, <2>2, <2>3
  <2> QED BY <1>8, <2>7, <2>8 DEF LinksInv
<1>10. TypeInv'
  <2>1. trap' \in CallType => call_type' = trap' BY <1>2 DEF StepResultTrap
  <2> QED BY <1>1, <2>1 DEF TypeInv
<1>11. Inserts /\ \A t \in 1..Tx : t # Tx => tree'[t] = tree[t] BY <1>1, <1>3 DEF Inserts
<1> QED BY <1>3, <1>7, <1>9, <1>10, <1>11, TreeGoesOn

LEMMA EmitRecordCostTree ==
    ASSUME IInv, RootIInv, Early, Tx > 0, TreeNow, EmitRecordCost
    PROVE  TreeIInv'
<1>1. /\ stage = "running" /\ Current.phase # "stopped" /\ runtime' = runtime /\ tree' = tree
      /\ stage' = stage /\ trap' = trap /\ Current.costs < MaxCosts[runtime]
      /\ RecordCost(Snapshot) /\ SetCurrent([Current EXCEPT !.costs = @ + 1])
  BY DEF EmitRecordCost, Executing
<1>2. UNCHANGED <<entries, entries_next_index, step_result_entry, call_type, skip_next_context>>
  BY <1>1 DEF RecordCost
<1>3. PICK gas : gas = Snapshot /\ gas \in Nat BY <1>1, SnapshotIs
<1>4. frames # <<>> /\ Current \in Frame BY <1>1, RunningIs, Parts, CurrentIs
<1>5. PICK f : /\ f = [Current EXCEPT !.costs = @ + 1] /\ f \in Frame /\ f.phase = Current.phase
               /\ f.node = Current.node /\ f.costs = Current.costs + 1
  <2>1. PICK c, g : c = Current /\ c \in Frame /\ g = [c EXCEPT !.costs = @ + 1] BY <1>4
  <2>2. g \in Frame BY <2>1, CostSet
  <2>3. g.node = c.node /\ g.costs = c.costs + 1 /\ g.phase = c.phase BY <2>1, CostOnly
  <2> QED BY <2>1, <2>2, <2>3
<1>6. CurrentBecomes(frames', f) /\ frames' # <<>> /\ Current' = f BY <1>1, <1>4, <1>5, SetCurrentTo
<1>7. NodesInv' /\ Base' = Base /\ Nodes' = Nodes /\ Tx' = Tx
  BY <1>1, <1>2, <1>6, NodesKept DEF TreeNow
<1>8. ~Stopped /\ ~Stopped' BY <1>1, <1>5, <1>6 DEF Stopped
<1>9. LinksInv'
  <2>1. PICK n, stack, open, stack2, open2, nodes, max, costs, c :
           /\ n = Len(open) /\ stack = context_stack /\ open = frames /\ open2 = frames'
           /\ nodes = Nodes /\ stack2 = context_stack' /\ max = MaxNodes[runtime][Tx]
           /\ costs = MaxCosts[runtime] /\ c = open[n].costs
    OBVIOUS
  <2>2. n \in Nat /\ n > 0 /\ n \in 1..n /\ Len(stack) = n
    <3>1. n \in Nat /\ n \in 1..n BY <1>4, <2>1, Parts, CurrentIs
    <3>2. Len(stack) = n BY <1>8, <2>1, <3>1 DEF TreeNow, LinksInv
    <3> QED BY <3>1, <3>2
  <2>3. /\ Len(open2) = n /\ open2[n] = f /\ \A i \in 1..n : i # n => open2[i] = open[i]
    BY <1>6, <2>1 DEF CurrentBecomes
  <2>4. max \in Int /\ costs \in Int /\ c \in Nat /\ stack \in Seq(Context) /\ stack # <<>>
    BY <2>1, TreeParts, <1>4, Parts, CurrentIs, <2>2 DEF TreeNow, Current
  <2>5. gas = First(max, costs, n) - c BY <1>3, <2>1 DEF Snapshot, First, Current
  <2>6. PICK top, new : top = stack[n] /\ new = Charged(top, gas) OBVIOUS
  <2>7. top \in Context /\ new \in Context /\ ChargedTo(new, top, gas)
    <3>1. top \in Context BY <2>2, <2>4, <2>6
    <3> QED BY <1>3, <2>6, <3>1, ChargedIs
  <2>8. stack2 = [stack EXCEPT ![Len(stack)] = new]
    BY <1>1, <1>3, <2>1, <2>2, <2>4, <2>6 DEF RecordCost, Top
  <2>9. /\ Len(stack2) = n /\ stack2[n] = new /\ \A i \in 1..n : i # n => stack2[i] = stack[i]
    BY <2>2, <2>4, <2>7, <2>8, TopReplaced
  <2>10. Linked(stack, open, nodes, Base, max, costs) BY <2>1 DEF TreeNow, LinksInv
  <2>11. open2[n].node = open[n].node /\ open2[n].costs = c + 1 BY <1>5, <2>1, <2>3 DEF Current
  <2>12. ChargedTo(stack2[n], stack[n], gas) BY <2>6, <2>7, <2>9
  <2>13. Linked(stack2, open2, nodes, Base, max, costs)
    <3>1. PICK base : base = Base OBVIOUS
    <3>2. Linked(stack, open, nodes, base, max, costs) BY <2>10, <3>1
    <3>3. Len(open) = n BY <2>1
    <3>4. c = open[n].costs BY <2>1
    <3>5. Linked(stack2, open2, nodes, base, max, costs)
      <4>1. gas \in Nat BY <1>3
      <4>2. Charges(stack, stack2, open, open2, n, c, gas)
        BY <2>2, <2>3, <2>4, <2>9, <2>11, <2>12, <3>3, <3>4, <4>1 DEF Charges
      <4>3. max \in Int /\ costs \in Int BY <2>4
      <4> QED BY <2>5, <3>2, <4>2, <4>3, LinkedCharge
    <3> QED BY <3>1, <3>5
  <2>14. Linked(context_stack, frames, Nodes, Base, MaxNodes[runtime][Tx], MaxCosts[runtime])'
    BY <1>1, <1>7, <2>1, <2>13
  <2>15. Len(context_stack') = Len(frames') - 0 BY <2>1, <2>2, <2>3, <2>9
  <2> QED BY <1>8, <2>14, <2>15 DEF LinksInv
<1>10. TypeInv' BY <1>1, <1>2 DEF TreeNow, TypeInv
<1>11. Inserts /\ \A t \in 1..Tx : t # Tx => tree'[t] = tree[t] BY <1>1, <1>2 DEF Inserts
<1> QED BY <1>2, <1>7, <1>9, <1>10, <1>11, TreeGoesOn

LEMMA EmitStepResultExitTree ==
    ASSUME IInv, RootIInv, Early, Tx > 0, TreeNow, EmitStepResultExit
    PROVE  TreeIInv'
<1>1. /\ stage = "running" /\ trap = "none" /\ Current.phase # "stopped" /\ runtime' = runtime
      /\ tree' = tree /\ stage' = stage /\ trap' = trap
  BY DEF EmitStepResultExit
<1>2. PICK reason \in Reasons :
        /\ StepResultExit(reason)
        /\ SetCurrent([Current EXCEPT !.phase = "stopped", !.reason = reason])
  BY DEF EmitStepResultExit
<1>3. reason \in ExitReason BY ReasonsAssumption
<1>4. frames # <<>> /\ Current \in Frame /\ context_stack # <<>> /\ version = "EarlyTransact"
  BY <1>1, RunningIs, Parts, CurrentIs
<1>5. /\ UNCHANGED <<entries, entries_next_index, call_type, skip_next_context>>
      /\ context_stack' = Popped
      /\ step_result_entry' = <<Top.entries_index, EntryOf(Top, CallResult(reason))>>
  BY <1>2, <1>4 DEF StepResultExit
<1>6. PICK f : /\ f = [Current EXCEPT !.phase = "stopped", !.reason = reason] /\ f \in Frame
               /\ f.phase = "stopped" /\ f.reason = reason
               /\ f.node = Current.node /\ f.costs = Current.costs
  <2>1. PICK c, mid, g : /\ c = Current /\ mid = [c EXCEPT !.phase = "stopped"]
                         /\ g = [mid EXCEPT !.reason = reason]
    OBVIOUS
  <2>2. g = [Current EXCEPT !.phase = "stopped", !.reason = reason] BY <2>1
  <2>3. mid \in Frame /\ mid.phase = "stopped" BY <1>4, <2>1, PhaseSet
  <2>4. mid.node = c.node /\ mid.costs = c.costs BY <1>4, <2>1, PhaseOnly
  <2>5. g = [mid EXCEPT !.reason = reason] BY <2>1
  <2>6. g \in Frame /\ g.phase = mid.phase BY <1>3, <2>3, <2>5, ReasonSet
  <2>7. g.node = mid.node /\ g.costs = mid.costs /\ g.reason = reason BY <2>3, <2>5, ReasonOnly
  <2> QED BY <2>1, <2>2, <2>3, <2>4, <2>6, <2>7
<1>7. CurrentBecomes(frames', f) /\ frames' # <<>> /\ Current' = f BY <1>2, <1>4, <1>6, SetCurrentTo
<1>8. NodesInv' /\ Base' = Base /\ Nodes' = Nodes /\ Tx' = Tx
  BY <1>1, <1>5, <1>7, NodesKept DEF TreeNow
<1>9. ~Stopped /\ Stopped' BY <1>1, <1>6, <1>7 DEF Stopped
<1>10. LinksInv'
  <2>1. PICK n, stack, open, stack2, open2, nodes, base, max, costs :
           /\ n = Len(open) /\ stack = context_stack /\ open = frames /\ open2 = frames'
           /\ nodes = Nodes /\ stack2 = context_stack' /\ base = Base
           /\ max = MaxNodes[runtime][Tx] /\ costs = MaxCosts[runtime]
    OBVIOUS
  <2>2. n \in Nat /\ n \in 1..n /\ Len(stack) = n /\ stack \in Seq(Context)
    <3>1. n \in Nat /\ n \in 1..n BY <1>4, <2>1, Parts, CurrentIs
    <3>2. Len(stack) = n BY <1>9, <2>1, <3>1 DEF TreeNow, LinksInv
    <3> QED BY <2>1, <3>1, <3>2, TreeParts DEF TreeNow
  <2>3. /\ Len(open2) = n /\ open2[n] = f /\ \A i \in 1..n : i # n => open2[i] = open[i]
        /\ \A i \in 1..n : open2[i].node = open[i].node
    BY <1>7, <2>1 DEF CurrentBecomes
  <2>4. Len(stack2) = n - 1 /\ \A i \in 1..(n - 1) : stack2[i] = stack[i]
    <3>1. stack2 = SubSeq(stack, 1, n - 1) BY <1>5, <2>1, <2>2 DEF Popped
    <3> QED BY <2>2, <3>1
  <2>5. Linked(stack, open, nodes, base, max, costs) BY <2>1 DEF TreeNow, LinksInv
  <2>6. Remain(stack2, open2, nodes, stack, open, nodes)
    BY <2>2, <2>3, <2>1, <2>4 DEF Remain, Described
  <2>7. Linked(stack2, open2, nodes, base, max, costs) BY <2>5, <2>6, LinkedStays
  <2>8. PICK c, node, first : c = stack[n] /\ node = nodes[open[n].node] /\ first = First(max, costs, n)
    OBVIOUS
  <2>9. Top = c /\ Current = open[n] /\ CurrentNode = node /\ CurrentNode' = node
    BY <1>6, <1>7, <1>8, <2>1, <2>2, <2>8 DEF Top, Current, CurrentNode
  <2>10. Link(c, open[n], node, base, first) BY <2>1, <2>2, <2>5, <2>8 DEF Linked
  <2>11. /\ c \in Context /\ open[n] \in Frame /\ base \in Nat /\ first \in Int
         /\ open[n].node >= 1 /\ FlagsOK
    BY <2>2, <2>8, <2>1, TreeParts DEF TreeNow, First
  <2>12. PICK res, entry : res = CallResult(reason) /\ entry = EntryOf(c, res) OBVIOUS
  <2>13. EntryFor(EntryOf(c, res), open[n], node, res) BY <2>10, <2>11, LinkEntry
  <2>14. EntryFor(entry, f, node, CallResult(f.reason))
    <3>1. UsedBy(f) = UsedBy(open[n]) /\ f.node = open[n].node BY <1>6, <2>9 DEF UsedBy
    <3> QED BY <1>6, <2>12, <2>13, <3>1 DEF EntryFor
  <2>15. step_result_entry' = <<c.entries_index, entry>> BY <1>5, <2>9, <2>12
  <2>16. c.entries_index = base + f.node - 1 BY <1>6, <2>9, <2>10 DEF Link
  <2>17. /\ step_result_entry' # <<>> /\ step_result_entry'[1] = base + f.node - 1
         /\ step_result_entry'[2] = entry
    BY <2>15, <2>16
  <2>18. Linked(context_stack, frames, Nodes, Base, MaxNodes[runtime][Tx], MaxCosts[runtime])'
    BY <1>1, <1>8, <2>1, <2>7
  <2>19. Len(context_stack') = Len(frames') - 1 BY <2>1, <2>3, <2>4
  <2>20. /\ step_result_entry' # <<>> /\ step_result_entry'[1] = Base' + Current'.node - 1
         /\ EntryFor(step_result_entry'[2], Current', CurrentNode', CallResult(Current'.reason))
    BY <1>7, <1>8, <2>1, <2>9, <2>14, <2>17
  <2> QED BY <1>9, <2>18, <2>19, <2>20 DEF LinksInv
<1>11. TypeInv' BY <1>1, <1>5 DEF TreeNow, TypeInv
<1>12. Inserts /\ \A t \in 1..Tx : t # Tx => tree'[t] = tree[t] BY <1>1, <1>5 DEF Inserts
<1> QED BY <1>5, <1>8, <1>10, <1>11, <1>12, TreeGoesOn

\* A child of the current frame in the tree and in the stack of contexts.
LEMMA ChildTree ==
    ASSUME IInv, Early, Tx > 0, frames # <<>>, ~Stopped, LinksInv, NodesInv,
           NEW type \in ContextType \cup {"SelfDestruct"}, NEW res \in {"open", "None"},
           res = "open" => type \in ContextType
    PROVE  \E n, d, l, more, counted, path :
             /\ n = Len(frames) /\ n \in Nat /\ n > 0 /\ Len(context_stack) = n
             /\ d = Current.node /\ l = Len(Nodes) /\ l \in Nat /\ d \in 1..l
             /\ more = Grown(type, res) /\ Len(more) = l + 1 /\ more[1].trace_address = <<>>
             /\ \A k \in (1..l) \ NodesOf(frames) : more[k] = Nodes[k]
             /\ more[l + 1] = [type |-> type, trace_address |-> path, subtraces |-> 0,
                               gas_used |-> 0, res |-> res]
             /\ counted = ChildCounted /\ counted \in Seq(Context) /\ Len(counted) = n
             /\ path = ChildAddress /\ path \in Seq(Nat) /\ path # <<>>
             /\ Linked(counted, frames, more, Base, MaxNodes[runtime][Tx], MaxCosts[runtime])
<1>1. PICK n, d, nodes, l, more, stack, counted, base, max, costs :
        /\ n = Len(frames) /\ d = Current.node /\ nodes = Nodes /\ l = Len(nodes)
        /\ more = Grown(type, res) /\ stack = context_stack /\ counted = ChildCounted
        /\ base = Base /\ max = MaxNodes[runtime][Tx] /\ costs = MaxCosts[runtime]
  OBVIOUS
<1>2. n \in Nat /\ n > 0 /\ n \in 1..n /\ Len(stack) = n /\ stack \in Seq(Context) /\ stack # <<>>
  <2>1. n \in Nat /\ n \in 1..n BY <1>1, Parts, CurrentIs
  <2>2. Len(stack) = n BY <1>1, <2>1 DEF LinksInv
  <2>3. stack \in Seq(Context) BY <1>1, TreeParts
  <2> QED BY <2>1, <2>2, <2>3
<1>3. l \in Nat /\ d = frames[n].node /\ d \in 1..l /\ \A i \in 1..n : frames[i].node \in 1..l
  BY <1>1, <1>2, TreeParts DEF Current
<1>4. GrewTo(more, nodes, d, type, res) BY <1>1, Parts, GrownTo
<1>5. Counted(stack, counted) /\ CountedOnly(stack, counted) /\ ChildAddress = ChildOf(stack)
  BY <1>1, <1>2, TreeParts, ChildCountedIs
<1>6. Linked(stack, frames, nodes, base, max, costs) BY <1>1 DEF LinksInv
<1>7. Linked(counted, frames, more, base, max, costs)
  BY <1>3, <1>4, <1>1, <1>2, <1>5, <1>6, LinkedCounts
<1>8. PICK path : /\ path = ChildAddress
                  /\ path = Append(nodes[d].trace_address, nodes[d].subtraces)
  <2>1. stack[n].trace_address = nodes[d].trace_address /\ stack[n].subtraces = nodes[d].subtraces
    BY <1>2, <1>3, <1>6 DEF Linked, Link
  <2> QED BY <1>2, <1>5, <2>1 DEF ChildOf
<1>9. path \in Seq(Nat) /\ path # <<>>
  <2>1. nodes[d] \in Node BY <1>1, <1>3, TreeParts
  <2>2. nodes[d].trace_address \in Seq(Nat) /\ nodes[d].subtraces \in Nat BY <2>1, NodeFields
  <2> QED BY <1>8, <2>2
<1>10. more[l + 1] = [type |-> type, trace_address |-> path, subtraces |-> 0, gas_used |-> 0, res |-> res]
  BY <1>1, <1>4, <1>8 DEF GrewTo
<1>11. Len(more) = l + 1 /\ \A k \in (1..l) \ NodesOf(frames) : more[k] = nodes[k]
  <2>1. d \in NodesOf(frames) BY <1>1, <1>2, <1>3 DEF NodesOf
  <2> QED BY <1>1, <1>4, <2>1 DEF GrewTo
<1>12. more[1].trace_address = <<>> BY <1>1, <1>3, <1>4 DEF NodesInv, GrewTo
<1>13. counted \in Seq(Context) /\ Len(counted) = n BY <1>2, <1>5 DEF Counted
<1> QED BY <1>1, <1>2, <1>3, <1>7, <1>8, <1>9, <1>10, <1>11, <1>12, <1>13

LEMMA NewLink ==
    ASSUME NEW type, NEW path, NEW base \in Nat, NEW l \in Nat, entries_next_index = base + l,
           NEW frame, frame = [node |-> l + 1, phase |-> "new", reason |-> "Succeed", costs |-> 0],
           NEW node, NEW res, NEW first,
           node = [type |-> type, trace_address |-> path, subtraces |-> 0, gas_used |-> 0, res |-> res]
    PROVE  Link(NewContext(type, path), frame, node, base, first)
<1>1. PICK c : /\ c = NewContext(type, path)
               /\ c = [entries_index |-> base + l, context_type |-> type, trace_address |-> path,
                       subtraces |-> 0, gas |-> 0, start_gas |-> NoGas]
  BY DEF NewContext
<1>2. c.entries_index = base + frame.node - 1 BY <1>1
<1>3. /\ c.context_type = node.type /\ c.trace_address = node.trace_address
      /\ c.subtraces = node.subtraces
  BY <1>1
<1>4. frame.costs = 0 /\ c.start_gas = NoGas /\ c.gas = 0 BY <1>1
<1> QED BY <1>1, <1>2, <1>3, <1>4 DEF Link

LEMMA EmitSuicideTree ==
    ASSUME IInv, RootIInv, Early, Tx > 0, TreeNow, EmitSuicide
    PROVE  TreeIInv'
<1>1. /\ stage = "running" /\ Current.phase # "stopped" /\ EvmSuicide
      /\ tree' = [tree EXCEPT ![Tx] = Grown("SelfDestruct", "None")]
      /\ runtime' = runtime /\ stage' = stage /\ trap' = trap
      /\ SetCurrent([Current EXCEPT !.phase = "suicided"])
  BY DEF EmitSuicide, Executing
<1>2. frames # <<>> /\ Current \in Frame /\ ~Stopped
  BY <1>1, RunningIs, Parts, CurrentIs DEF Stopped
<1>3. "SelfDestruct" \in ContextType \cup {"SelfDestruct"} /\ "None" \in {"open", "None"}
        /\ "None" # "open"
  OBVIOUS
<1>4. PICK n, d, l, more, counted, path :
        /\ n = Len(frames) /\ n \in Nat /\ n > 0 /\ Len(context_stack) = n
        /\ d = Current.node /\ l = Len(Nodes) /\ l \in Nat /\ d \in 1..l
        /\ more = Grown("SelfDestruct", "None") /\ Len(more) = l + 1 /\ more[1].trace_address = <<>>
        /\ \A k \in (1..l) \ NodesOf(frames) : more[k] = Nodes[k]
        /\ more[l + 1] = [type |-> "SelfDestruct", trace_address |-> path, subtraces |-> 0,
                          gas_used |-> 0, res |-> "None"]
        /\ counted = ChildCounted /\ counted \in Seq(Context) /\ Len(counted) = n
        /\ path = ChildAddress /\ path \in Seq(Nat) /\ path # <<>>
        /\ Linked(counted, frames, more, Base, MaxNodes[runtime][Tx], MaxCosts[runtime])
  BY <1>2, <1>3, ChildTree DEF TreeNow
<1>5. PICK f : /\ f = [Current EXCEPT !.phase = "suicided"] /\ f \in Frame /\ f.phase = "suicided"
               /\ f.node = Current.node /\ f.costs = Current.costs
  <2>1. PICK c, g : c = Current /\ c \in Frame /\ g = [c EXCEPT !.phase = "suicided"] BY <1>2
  <2>2. "suicided" \in {"new", "running", "suicided", "stopped"} OBVIOUS
  <2>3. g \in Frame /\ g.phase = "suicided" BY <2>1, <2>2, PhaseSet
  <2>4. g.node = c.node /\ g.costs = c.costs BY <2>1, PhaseOnly
  <2> QED BY <2>1, <2>3, <2>4
<1>6. CurrentBecomes(frames', f) /\ frames' # <<>> /\ Current' = f BY <1>1, <1>2, <1>5, SetCurrentTo
<1>7. more \in Seq(Node) BY <1>3, <1>4, Parts, GrownIs
<1>8. Tx' = Tx /\ Nodes' = more /\ \A t \in 1..Tx : t # Tx => tree'[t] = tree[t]
  BY <1>1, <1>4, <1>7, Parts, TreeWith
<1>9. PICK entry : /\ entry = more[l + 1]
                   /\ entries' = Inserted(entries_next_index, entry)
                   /\ entries_next_index' = entries_next_index + 1 /\ context_stack' = counted
                   /\ call_type' = call_type /\ UNCHANGED skip_next_context
  BY <1>1, <1>4 DEF EvmSuicide
<1>10. PICK base : base = Base /\ base \in Nat /\ entries_next_index = base + l
  BY <1>4, TreeParts DEF TreeNow
<1>11. Base' = base
  <2>1. Base' = (base + l + 1) - (l + 1) BY <1>4, <1>8, <1>9, <1>10 DEF Base
  <2> QED BY <1>4, <1>10, <2>1
<1>12. NodesOf(frames') = NodesOf(frames) BY <1>6, NodesSame DEF CurrentBecomes
<1>13. MapIs(LastMap', more, NodesOf(frames), base)
  <2>1. PICK map, map2, nodes : map = LastMap /\ map2 = LastMap' /\ nodes = Nodes OBVIOUS
  <2>2. map2 = With(map, base + l, entry)
    BY TreeParts, InsertedIs, <1>9, <1>10, <2>1 DEF MapsAre, TreeNow, LastMap, LastOf
  <2>3. MapIs(map, nodes, NodesOf(frames), base) BY <1>10, <2>1 DEF TreeNow, NodesInv
  <2>4. NodesOf(frames) \in SUBSET (1..l) BY <1>4, TreeParts DEF TreeNow
  <2>5. Same(entry, more[l + 1]) BY <1>9 DEF Same
  <2>6. MapIs(With(map, base + l, entry), more, NodesOf(frames), base)
    BY <1>4, <1>10, <2>1, <2>3, <2>4, <2>5, MapAdds
  <2> QED BY <2>1, <2>2, <2>6
<1>14. NodesInv' BY <1>4, <1>8, <1>10, <1>11, <1>12, <1>13 DEF NodesInv
<1>15. ~Stopped' BY <1>5, <1>6 DEF Stopped
<1>16. LinksInv'
  <2>1. PICK open, open2, max, costs :
           /\ open = frames /\ open2 = frames'
           /\ max = MaxNodes[runtime][Tx] /\ costs = MaxCosts[runtime]
    OBVIOUS
  <2>2. /\ Len(open) = n /\ Len(open2) = n /\ open2[n] = f
        /\ \A i \in 1..n : i # n => open2[i] = open[i]
        /\ \A i \in 1..n : open2[i].node = open[i].node
    BY <1>4, <1>6, <2>1 DEF CurrentBecomes
  <2>3. open[n].costs = f.costs BY <1>4, <1>5, <2>1 DEF Current
  <2>4. \A i \in 1..n : open2[i].costs = open[i].costs BY <2>2, <2>3
  <2>5. Remain(counted, open2, more, counted, open, more) BY <1>4, <2>2, <2>4 DEF Remain, Described
  <2>6. Linked(counted, open, more, base, max, costs) BY <1>4, <1>10, <2>1
  <2>7. Linked(counted, open2, more, base, max, costs) BY <2>5, <2>6, LinkedStays
  <2>8. Linked(context_stack, frames, Nodes, Base, MaxNodes[runtime][Tx], MaxCosts[runtime])'
    BY <1>1, <1>8, <1>9, <1>11, <2>1, <2>7
  <2>9. Len(context_stack') = Len(frames') - 0 BY <1>4, <1>9, <2>1, <2>2
  <2> QED BY <1>15, <2>8, <2>9 DEF LinksInv
<1>17. TypeInv' BY <1>1, <1>9 DEF TreeNow, TypeInv
<1>18. Inserts BY <1>9 DEF Inserts
<1> QED BY <1>8, <1>9, <1>14, <1>16, <1>17, <1>18, TreeGoesOn

LEMMA EmitSubframeTree ==
    ASSUME IInv, RootIInv, Early, Tx > 0, TreeNow, EmitSubframe
    PROVE  TreeIInv'
<1>1. /\ stage = "running" /\ trap # "none" /\ runtime' = runtime /\ stage' = stage /\ trap' = "none"
      /\ OpenFrame(trap)
      /\ IF trap = "Create" THEN EvmCreate ELSE EvmCall(trap = "StaticCall")
  BY DEF EmitSubframe
<1>2. trap \in ContextType /\ trap \in ContextType \cup {"SelfDestruct"} /\ "open" \in {"open", "None"}
  BY <1>1, Parts
<1>3. frames # <<>> /\ ~Stopped /\ ~skip_next_context
  <2>1. Current.phase \in {"new", "running"} BY <1>1, Parts DEF PendingInv
  <2> QED BY <1>1, <2>1, RunningIs DEF Stopped
<1>4. OpenContext(trap)
  <2>1. CASE trap = "Create" BY <1>1, <2>1 DEF EvmCreate
  <2>2. CASE trap # "Create"
    <3>1. trap \in CallType BY <1>2, <2>2 DEF ContextType
    <3>2. call_type = trap /\ trap # "None" BY <3>1 DEF TreeNow, TypeInv, CallType
    <3> QED BY <1>1, <2>2, <3>2 DEF EvmCall
  <2> QED BY <2>1, <2>2
<1>5. PICK n, d, l, more, counted, path :
        /\ n = Len(frames) /\ n \in Nat /\ n > 0 /\ Len(context_stack) = n
        /\ d = Current.node /\ l = Len(Nodes) /\ l \in Nat /\ d \in 1..l
        /\ more = Grown(trap, "open") /\ Len(more) = l + 1 /\ more[1].trace_address = <<>>
        /\ \A k \in (1..l) \ NodesOf(frames) : more[k] = Nodes[k]
        /\ more[l + 1] = [type |-> trap, trace_address |-> path, subtraces |-> 0,
                          gas_used |-> 0, res |-> "open"]
        /\ counted = ChildCounted /\ counted \in Seq(Context) /\ Len(counted) = n
        /\ path = ChildAddress /\ path \in Seq(Nat) /\ path # <<>>
        /\ Linked(counted, frames, more, Base, MaxNodes[runtime][Tx], MaxCosts[runtime])
  BY <1>2, <1>3, ChildTree DEF TreeNow
<1>6. /\ Nodes' = more /\ Tx' = Tx /\ \A t \in 1..Tx : t # Tx => tree'[t] = tree[t]
  BY <1>1, <1>2, <1>5, Parts, RunningIs, OpenFrameKeeps
<1>7. PICK c : /\ c = NewContext(trap, path) /\ context_stack' = Append(counted, c)
               /\ entries_next_index' = entries_next_index + 1
               /\ entries' = entries /\ call_type' = call_type
  BY <1>3, <1>4, <1>5 DEF OpenContext
<1>8. PICK base : base = Base /\ base \in Nat /\ entries_next_index = base + l /\ FlagsOK
  BY <1>5, TreeParts DEF TreeNow
<1>9. Base' = base
  <2>1. Base' = (base + l + 1) - (l + 1) BY <1>5, <1>6, <1>7, <1>8 DEF Base
  <2> QED BY <1>5, <1>8, <2>1
<1>10. PICK frame, open, open2 :
         /\ frame = [node |-> l + 1, phase |-> "new", reason |-> "Succeed", costs |-> 0]
         /\ open = frames /\ open2 = frames' /\ open2 = Append(open, frame)
  BY <1>1, <1>5 DEF OpenFrame
<1>11. OneLonger(open2, open, frame) /\ open2 # <<>>
  <2>1. open \in Seq(Frame) BY <1>10, Parts DEF FramesOK
  <2>2. frame \in Frame
    <3>1. l + 1 \in Nat BY <1>5
    <3> QED BY <1>10, <3>1 DEF Frame, ExitReason
  <2> QED BY <1>10, <2>1, <2>2, AppendedOne
<1>12. PICK stack2 : stack2 = context_stack' /\ OneLonger(stack2, counted, c)
  <2>1. c \in Context BY <1>2, <1>5, <1>7, <1>8, NewContextIs
  <2>2. counted \in Seq(Context) BY <1>5
  <2> QED BY <1>7, <2>1, <2>2, AppendedOne
<1>13. frame.node = l + 1 /\ frame.phase = "new" BY <1>10
<1>14. NodesOf(open2) = NodesOf(open) \cup {l + 1} BY <1>11, NodesPush, <1>13
<1>15. MapIs(LastMap', more, NodesOf(open2), base)
  <2>1. PICK map, nodes : map = LastMap /\ map = LastMap' /\ nodes = Nodes BY <1>7 DEF LastMap
  <2>2. MapIs(map, nodes, NodesOf(open), base) BY <1>8, <1>10, <2>1 DEF TreeNow, NodesInv
  <2>3. NodesOf(open) \in SUBSET (1..l) BY <1>5, <1>10, TreeParts DEF TreeNow
  <2>4. MapIs(map, more, NodesOf(open) \cup {l + 1}, base)
    BY <1>5, <1>8, <1>10, <2>1, <2>2, <2>3, MapOpens
  <2> QED BY <1>14, <2>1, <2>4
<1>16. NodesInv' BY <1>5, <1>6, <1>8, <1>9, <1>10, <1>15 DEF NodesInv
<1>17. ~Stopped' /\ Len(context_stack') = Len(frames')
  BY <1>5, <1>10, <1>11, <1>12, <1>13 DEF OneLonger, Current, Stopped
<1>18. LinksInv'
  <2>1. PICK max, costs : max = MaxNodes[runtime][Tx] /\ costs = MaxCosts[runtime] OBVIOUS
  <2>2. Linked(counted, open, more, base, max, costs) /\ n = Len(open) /\ Len(counted) = Len(open)
    BY <1>5, <1>8, <1>10, <2>1
  <2>3. PICK node, first : node = more[l + 1] /\ first = First(max, costs, n + 1) OBVIOUS
  <2>4. Link(c, frame, node, base, first)
    <3>1. l \in Nat /\ node = [type |-> trap, trace_address |-> path, subtraces |-> 0,
                                gas_used |-> 0, res |-> "open"]
      BY <1>5, <2>3
    <3>2. frame = [node |-> l + 1, phase |-> "new", reason |-> "Succeed", costs |-> 0] BY <1>10
    <3>3. Link(NewContext(trap, path), frame, node, base, first) BY <1>8, <3>1, <3>2, NewLink
    <3> QED BY <1>7, <3>3
  <2>5. Link(c, frame, more[frame.node], base, First(max, costs, n + 1)) BY <1>13, <2>3, <2>4
  <2>6. \A i \in 1..n : open[i].node < frame.node
    <3>1. \A i \in 1..n : open[i].node \in 1..l BY <1>5, <1>10, TreeParts DEF TreeNow
    <3>2. \A k \in 1..l : k < l + 1 BY <1>5
    <3> QED BY <1>13, <3>1, <3>2
  <2>7. Linked(stack2, open2, more, base, max, costs) BY <1>11, <1>12, <2>2, <2>5, <2>6, LinkedPush
  <2>8. Linked(context_stack, frames, Nodes, Base, MaxNodes[runtime][Tx], MaxCosts[runtime])'
    BY <1>1, <1>6, <1>9, <1>10, <1>12, <2>1, <2>7
  <2>9. Len(context_stack') = Len(frames') - 0
    <3>1. PICK a : a = Len(frames') /\ a \in Nat BY <1>10, <1>11, <1>5 DEF OneLonger
    <3> QED BY <1>17, <3>1
  <2> QED BY <1>17, <2>8, <2>9 DEF LinksInv
<1>19. TypeInv' BY <1>1 DEF CallType, TypeInv
<1>20. Inserts BY <1>7 DEF Inserts
<1> QED BY <1>6, <1>7, <1>16, <1>18, <1>19, <1>20, TreeGoesOn

\* The outermost frame, with the context that TransactX opens for it.
LEMMA EmitTransactTree ==
    ASSUME IInv, RootIInv, Early, Tx > 0, TreeNow, EmitTransact
    PROVE  TreeIInv'
<1>1. stage = "begun" /\ stage' = "transact" /\ runtime' = runtime /\ trap' = trap
  BY DEF EmitTransact
<1>2. PICK type \in {"Call", "Create"} : Transact(type) /\ OpenFrame(type) BY DEF EmitTransact
<1>3. type \in ContextType BY DEF ContextType, CallType
<1>4. /\ frames = <<>> /\ context_stack = <<>> /\ Nodes = <<>> /\ Tx <= Len(MaxNodes[runtime])
  BY <1>1, RootParts, Parts DEF CurrentInv, StagesInv, PendingInv, Blank
<1>5. /\ Nodes' = Grown(type, "open") /\ Tx' = Tx
      /\ \A t \in 1..Tx : t # Tx => tree'[t] = tree[t]
  BY <1>1, <1>2, <1>3, <1>4, Parts, OpenFrameKeeps
<1>6. PICK c : /\ c = NewContext(type, <<>>) /\ context_stack' = Append(<<>>, c)
               /\ entries_next_index' = entries_next_index + 1 /\ skip_next_context'
               /\ entries' = entries /\ call_type' = call_type
  BY <1>2, <1>4 DEF Transact
<1>7. PICK node, more :
        /\ node = [type |-> type, trace_address |-> <<>>, subtraces |-> 0, gas_used |-> 0,
                   res |-> "open"]
        /\ more = Nodes' /\ more = Append(<<>>, node)
  BY <1>4, <1>5 DEF Grown
<1>8. <<>> \in Seq(Nat) /\ <<>> \in Seq(Node) /\ <<>> \in Seq(Context) /\ <<>> \in Seq(Frame)
        /\ Len(<<>>) = 0
  OBVIOUS
<1>9. node \in Node
  <2>1. type \in ContextType \cup {"SelfDestruct"} /\ "open" \in {"open", "None"} BY <1>3
  <2>2. PICK q, r : q = <<>> /\ q \in Seq(Nat) /\ r = "open" /\ r \in {"open", "None"} BY <1>8, <2>1
  <2>3. [type |-> type, trace_address |-> q, subtraces |-> 0, gas_used |-> 0, res |-> r] \in Node
    BY <1>3, <2>1, <2>2, NewNode
  <2> QED BY <1>7, <2>2, <2>3
<1>10. OneLonger(more, <<>>, node) BY <1>7, <1>8, <1>9, AppendedOne
<1>11. Len(more) = 1 /\ more[1] = node /\ more[1].trace_address = <<>>
  <2>1. Len(more) = 0 + 1 /\ more[0 + 1] = node BY <1>8, <1>10 DEF OneLonger
  <2>2. 0 + 1 = 1 OBVIOUS
  <2> QED BY <1>7, <2>1, <2>2
<1>12. PICK base : base = Base /\ base \in Nat /\ entries_next_index = base + 0 /\ FlagsOK
  <2>1. Base \in Nat /\ entries_next_index = Base + Len(Nodes) /\ FlagsOK BY TreeParts DEF TreeNow
  <2> QED BY <1>4, <1>8, <2>1
<1>13. Base' = base
  <2>1. Base' = (base + 0 + 1) - 1 BY <1>6, <1>7, <1>11, <1>12 DEF Base
  <2> QED BY <1>12, <2>1
<1>14. PICK frame, open2 :
         /\ frame = [node |-> 1, phase |-> "new", reason |-> "Succeed", costs |-> 0]
         /\ open2 = frames' /\ open2 = Append(<<>>, frame)
  BY <1>2, <1>4, <1>8 DEF OpenFrame
<1>15. OneLonger(open2, <<>>, frame) /\ open2 # <<>>
  <2>1. frame \in Frame BY <1>14 DEF Frame, ExitReason
  <2> QED BY <1>8, <1>14, <2>1, AppendedOne
<1>16. PICK stack2 : stack2 = context_stack' /\ OneLonger(stack2, <<>>, c)
  <2>1. c \in Context BY <1>3, <1>6, <1>8, <1>12, NewContextIs
  <2> QED BY <1>6, <1>8, <2>1, AppendedOne
<1>17. frame.node = 1 /\ frame.phase = "new" BY <1>14
<1>18. NodesOf(<<>>) = {} BY <1>8 DEF NodesOf
<1>19. NodesOf(open2) = {} \cup {0 + 1}
  <2>1. NodesOf(open2) = NodesOf(<<>>) \cup {frame.node} BY <1>15, NodesPush
  <2> QED BY <1>17, <1>18, <2>1
<1>20. MapIs(LastMap', more, NodesOf(open2), base)
  <2>1. PICK map, nodes : map = LastMap /\ map = LastMap' /\ nodes = Nodes BY <1>6 DEF LastMap
  <2>2. MapIs(map, nodes, {}, base) BY <1>4, <1>12, <1>18, <2>1 DEF TreeNow, NodesInv
  <2>3. Len(nodes) = 0 /\ Len(more) = 0 + 1 BY <1>4, <1>8, <1>11, <2>1
  <2>4. {} \in SUBSET (1..0) /\ 0 \in Nat /\ \A k \in (1..0) \ {} : more[k] = nodes[k] OBVIOUS
  <2>5. MapIs(map, more, {} \cup {0 + 1}, base) BY <1>12, <2>2, <2>3, <2>4, MapOpens
  <2> QED BY <1>19, <2>1, <2>5
<1>21. NodesInv' BY <1>7, <1>11, <1>12, <1>13, <1>14, <1>20 DEF NodesInv
<1>22. ~Stopped' /\ Len(context_stack') = 1 /\ Len(frames') = 1
  BY <1>8, <1>15, <1>16, <1>14, <1>17 DEF OneLonger, Current, Stopped
<1>23. LinksInv'
  <2>1. PICK max, costs, none : max = MaxNodes[runtime][Tx] /\ costs = MaxCosts[runtime] /\ none = <<>>
    OBVIOUS
  <2>2. Linked(none, none, more, base, max, costs) BY <1>8, <2>1 DEF Linked
  <2>3. PICK first : first = First(max, costs, 0 + 1) OBVIOUS
  <2>4. Link(c, frame, node, base, first)
    <3>1. PICK q : q = <<>> OBVIOUS
    <3>2. node = [type |-> type, trace_address |-> q, subtraces |-> 0, gas_used |-> 0, res |-> "open"]
      BY <1>7, <3>1
    <3>3. frame = [node |-> 0 + 1, phase |-> "new", reason |-> "Succeed", costs |-> 0] BY <1>14
    <3>4. Link(NewContext(type, q), frame, node, base, first) BY <1>12, <3>2, <3>3, NewLink
    <3> QED BY <1>6, <3>1, <3>4
  <2>5. Link(c, frame, more[frame.node], base, First(max, costs, 0 + 1)) BY <1>11, <1>17, <2>3, <2>4
  <2>6. \A i \in 1..0 : none[i].node < frame.node OBVIOUS
  <2>7. 0 = Len(none) /\ OneLonger(stack2, none, c) /\ OneLonger(open2, none, frame)
    BY <1>8, <1>15, <1>16, <2>1
  <2>8. Linked(stack2, open2, more, base, max, costs) BY <2>2, <2>5, <2>6, <2>7, LinkedPush
  <2>9. Linked(context_stack, frames, Nodes, Base, MaxNodes[runtime][Tx], MaxCosts[runtime])'
    BY <1>1, <1>5, <1>7, <1>13, <1>14, <1>16, <2>1, <2>8
  <2>10. Len(context_stack') = Len(frames') - 0 BY <1>22
  <2> QED BY <1>22, <2>9, <2>10 DEF LinksInv
<1>24. TypeInv' BY <1>1, <1>6 DEF TreeNow, TypeInv
<1>25. Inserts BY <1>6 DEF Inserts
<1> QED BY <1>5, <1>6, <1>21, <1>23, <1>24, <1>25, TreeGoesOn

\* When no frame is open, all maps are those of their transactions.
LEMMA OverTrees ==
    ASSUME IInv, RootIInv, Early, Tx > 0, TreeNow, frames = <<>>
    PROVE  context_stack = <<>> /\ TreesUpTo(entries, Tx, entries_next_index)
<1>1. Len(<<>>) = 0 /\ DOMAIN <<>> = {} OBVIOUS
<1>2. context_stack = <<>> BY <1>1, TreeParts, EmptySeq DEF Stopped, TreeNow, LinksInv
<1>3. PICK x, n, E, nodes, l, base, bound, map :
        /\ x = Tx /\ E = entries /\ n = Len(E) /\ nodes = Nodes /\ l = Len(nodes)
        /\ base = Base /\ bound = entries_next_index /\ map = LastMap
  OBVIOUS
<1>4. /\ x \in Nat /\ x > 0 /\ n \in Nat /\ n <= x /\ l \in Nat
      /\ base \in Nat /\ bound \in Nat /\ bound = base + l /\ MapsAre(E)
  BY <1>3, TreeParts, RootParts DEF TreeNow, OneMapEach, MapsAre, IsMaps
<1>5. MapIs(map, nodes, {}, base)
  <2>1. NodesOf(frames) = {} BY <1>1 DEF NodesOf
  <2> QED BY <1>3, <2>1 DEF TreeNow, NodesInv
<1>6. TreesUpTo(E, x - 1, bound) BY <1>3 DEF TreeNow
<1>7. tree[x] = nodes BY <1>3 DEF Nodes
<1>8. IF x > x - n THEN Matches(E[x - (x - n)], tree[x], bound) ELSE tree[x] = <<>>
  <2>1. CASE n = 0
    <3>1. map = <<>>
      <4>1. E = <<>>
        <5>1. E = [t \in 1..n |-> E[t]] BY <1>3, <1>4 DEF MapsAre, IsMaps
        <5>2. E = [t \in 1..0 |-> E[t]] BY <2>1, <5>1
        <5> QED BY <5>2
      <4> QED BY <1>3, <4>1 DEF LastMap
    <3>2. l = 0
      <4> SUFFICES ASSUME l # 0 PROVE FALSE OBVIOUS
      <4>1. base - base + 1 \in (1..l) \ {} BY <1>4
      <4>2. base \in DOMAIN map BY <1>3, <1>4, <1>5, <4>1 DEF MapIs
      <4> QED BY <1>1, <3>1, <4>2
    <3>3. nodes = <<>>
      <4>1. nodes \in Seq(Node) BY <1>3, TreeParts DEF TreeNow
      <4> QED BY <1>3, <3>2, <4>1, EmptySeq
    <3>4. ~(x > x - n) BY <1>4, <2>1
    <3> QED BY <1>7, <3>3, <3>4
  <2>2. CASE n # 0
    <3>1. E # <<>> BY <1>1, <1>3, <2>2
    <3>2. map = E[n] BY <1>3, <3>1 DEF LastMap
    <3>3. n \in 1..n BY <1>4, <2>2
    <3>4. DOMAIN map \subseteq Nat BY <1>3, <1>4, <3>2, <3>3 DEF MapsAre, Typed
    <3>5. base <= bound BY <1>4
    <3>6. Matches(map, nodes, bound) BY <1>3, <1>4, <1>5, <3>4, <3>5, MapMatches
    <3>7. x > x - n /\ x - (x - n) = n BY <1>4, <2>2
    <3> QED BY <1>7, <3>2, <3>6, <3>7
  <2> QED BY <2>1, <2>2
<1>9. \A t \in 1..x : t \in 1..(x - 1) \/ t = x BY <1>4
<1>10. ASSUME NEW t \in 1..x
       PROVE  IF t > x - n THEN Matches(E[t - (x - n)], tree[t], bound) ELSE tree[t] = <<>>
  <2>1. CASE t = x BY <1>8, <2>1
  <2>2. CASE t \in 1..(x - 1) BY <1>3, <1>6, <2>2 DEF TreesUpTo
  <2> QED BY <1>9, <2>1, <2>2
<1>11. TreesUpTo(E, x, bound) BY <1>3, <1>10 DEF TreesUpTo
<1> QED BY <1>2, <1>3, <1>11

\* A transaction of which nothing is known yet.
LEMMA BeginsTree ==
    ASSUME Tx' > 0, frames' = <<>>, context_stack' = <<>>, Nodes' = <<>>, DOMAIN LastMap' = {},
           entries_next_index' \in Nat
    PROVE  LinksInv' /\ NodesInv'
<1>1. Len(<<>>) = 0 /\ DOMAIN <<>> = {} /\ 1..0 = {} OBVIOUS
<1>2. ~Stopped' BY DEF Stopped
<1>3. PICK base : base = Base' /\ base \in Nat BY <1>1 DEF Base
<1>4. LinksInv' BY <1>1, <1>2 DEF Linked, LinksInv
<1>5. NodesInv'
  <2>1. PICK map, none, all : map = LastMap' /\ none = <<>> /\ all = NodesOf(frames') OBVIOUS
  <2>2. (1..Len(none)) \ all = {} BY <1>1, <2>1
  <2>3. MapIs(map, none, all, base) BY <1>1, <2>1, <2>2 DEF MapIs
  <2>4. base >= 0 BY <1>3
  <2> QED BY <1>3, <2>1, <2>3, <2>4 DEF NodesInv
<1> QED BY <1>4, <1>5

LEMMA EmitNewTree ==
    ASSUME IInv, IInv', RootIInv, Early, Tx > 0 => TreeNow, EmitNew
    PROVE  TreeIInv'
<1>1. /\ stage = "idle" /\ stage' = "begun" /\ runtime' = runtime /\ tree' = Append(tree, <<>>)
      /\ CallListNew /\ frames' = frames /\ trap' = trap
  BY DEF EmitNew
<1>2. PICK x, s : x = Len(s) /\ s = tree /\ x \in Nat /\ s \in Seq(Seq(Node)) /\ Tx = x
  BY Parts DEF TreeOK, Tx
<1>3. /\ Tx' = x + 1 /\ tree'[x + 1] = <<>> /\ Nodes' = <<>>
      /\ \A t \in 1..x : tree'[t] = tree[t]
  <2>1. PICK u : u = Append(s, <<>>) /\ Len(u) = x + 1 /\ u[x + 1] = <<>> /\ \A t \in 1..x : u[t] = s[t]
    <3>1. s = [i \in 1..Len(s) |-> s[i]] /\ Len(s) \in Nat
      <4>1. PICK S : S = Seq(Node) OBVIOUS
      <4>2. s \in Seq(S) BY <1>2, <4>1
      <4> QED BY <4>2
    <3>2. PICK e, u : e = <<>> /\ u = Append(s, e) OBVIOUS
    <3>3. Len(u) = Len(s) + 1 /\ u[Len(s) + 1] = e /\ \A t \in 1..Len(s) : u[t] = s[t]
      BY <3>1, <3>2, AppendAny
    <3> QED BY <1>2, <3>2, <3>3
  <2> QED BY <1>1, <1>2, <2>1 DEF Tx, Nodes
<1>4. frames = <<>> /\ trap = "none" BY <1>1, Parts DEF StagesInv, PendingInv
<1>5. Blank' /\ entries_next_index' \in Nat
  <2>1. Blank' BY <1>1 DEF IInv, ReplayInv, PendingInv
  <2>2. entries_next_index' \in Nat BY DEF IInv, TypeOK, ListenerTypeOK
  <2> QED BY <2>1, <2>2
<1>6. LinksInv' /\ NodesInv'
  <2>1. Tx' > 0 BY <1>2, <1>3
  <2> QED BY <1>1, <1>3, <1>4, <1>5, <2>1, BeginsTree DEF Blank
<1>7. TypeInv' BY <1>1, <1>4 DEF TypeInv, CallType
<1>8. TreesUpTo(entries, Tx - 1, entries_next_index)'
  <2>1. CASE x = 0 BY <1>3, <2>1 DEF TreesUpTo
  <2>2. CASE x # 0
    <3>1. Tx > 0 /\ TreeNow BY <1>2, <2>2
    <3>2. context_stack = <<>> /\ TreesUpTo(entries, Tx, entries_next_index)
      BY <1>4, <3>1, OverTrees
    <3>3. ~call_list_first_transaction BY <1>1, <1>2, <2>2, Parts DEF PendingInv
    <3>4. ~record_transaction_event_only BY <1>1, RootParts DEF FlagInv, UnpaidBefore
    <3>5. entries' = Append(entries, <<>>) /\ UNCHANGED entries_next_index
      BY <1>1, <3>2, <3>3, <3>4 DEF CallListNew, FinishedEntries, FinishedNextIndex
    <3>6. PICK E, n, m, e, bound :
             /\ E = entries /\ n = Len(E) /\ e = <<>> /\ m = Append(E, e) /\ m = entries'
             /\ bound = entries_next_index /\ bound = entries_next_index'
      BY <3>5
    <3>7. E = [i \in 1..n |-> E[i]] /\ n \in Nat /\ n <= x
      BY <1>2, <3>6, RootParts DEF MapsAre, IsMaps, OneMapEach
    <3>8. Len(m) = n + 1 /\ \A t \in 1..n : m[t] = E[t] BY <3>6, <3>7, AppendAny
    <3>9. PICK o : o = x - n /\ o = (x + 1) - Len(m) /\ o \in Nat BY <1>2, <3>7, <3>8
    <3>10. ASSUME NEW t \in 1..x
           PROVE  IF t > o THEN Matches(m[t - o], tree'[t], bound) ELSE tree'[t] = <<>>
      <4>1. IF t > o THEN Matches(E[t - o], tree[t], bound) ELSE tree[t] = <<>>
        BY <1>2, <3>2, <3>6, <3>9 DEF TreesUpTo
      <4>2. tree'[t] = tree[t] BY <1>3
      <4>3. CASE t > o
        <5>1. t - o \in 1..n BY <1>2, <3>7, <3>9, <4>3
        <5>2. m[t - o] = E[t - o] BY <3>8, <5>1
        <5> QED BY <4>1, <4>2, <4>3, <5>2
      <4>4. CASE ~(t > o) BY <4>1, <4>2, <4>4
      <4> QED BY <4>3, <4>4
    <3>11. Tx' - 1 = x BY <1>2, <1>3
    <3> QED BY <1>3, <3>6, <3>9, <3>10, <3>11 DEF TreesUpTo
  <2> QED BY <2>1, <2>2
<1> QED BY <1>6, <1>7, <1>8 DEF TreeIInv

LEMMA EndReplayTree ==
    ASSUME IInv, RootIInv, Early, Tx > 0, TreeNow, EndReplay
    PROVE  TreeIInv'
<1>1. /\ stage = "idle" /\ stage' \in Callers /\ UNCHANGED <<runtime, frames, trap, tree>>
      /\ IF stage' = "debug" THEN FinishTransaction ELSE UNCHANGED listenerVars
  BY DEF EndReplay
<1>2. frames = <<>> /\ trap = "none" BY <1>1, Parts DEF StagesInv, PendingInv
<1>3. context_stack = <<>> BY <1>2, OverTrees
<1>4. ~record_transaction_event_only BY <1>1, RootParts DEF FlagInv, UnpaidBefore
<1>5. UNCHANGED <<entries, entries_next_index, context_stack, step_result_entry>>
  <2>1. CASE stage' = "debug"
    BY <1>1, <1>3, <1>4, <2>1 DEF FinishTransaction, FinishedEntries, FinishedNextIndex
  <2>2. CASE stage' # "debug" BY <1>1, <2>2 DEF listenerVars
  <2> QED BY <2>1, <2>2
<1>6. TypeInv'
  <2>1. stage' \notin {"transact", "paid"} BY <1>1, Parts
  <2>2. trap' \notin CallType BY <1>1, <1>2 DEF CallType
  <2> QED BY <2>1, <2>2 DEF TypeInv
<1> QED BY <1>1, <1>5, <1>6, NoTreeStep

LEMMA TreeInit == Init => TreeIInv
<1> SUFFICES ASSUME Init PROVE TreeIInv OBVIOUS
<1>1. Len(<<>>) = 0 OBVIOUS
<1>2. ~(Tx > 0) BY <1>1 DEF Init, Tx
<1> QED BY <1>2 DEF TreeIInv

LEMMA TreeNext == IInv /\ IInv' /\ RootIInv /\ TreeIInv /\ [Next]_vars => TreeIInv'
<1> SUFFICES ASSUME IInv, IInv', RootIInv, TreeIInv, [Next]_vars PROVE TreeIInv' OBVIOUS
<1>1. runtime' = runtime
  BY DEF Next, vars, evmVars, EmitNew, EmitTransact, EmitRecordTransaction, Unpaid, Refused, EmitRoot,
     EmitRecordCost, EmitTrap, EmitPrecompileSubcall, EmitSubframe, EmitSuicide, EmitStepResultExit,
     EndFrame, EndReplay
<1>2. CASE ~Early BY <1>1, <1>2 DEF TreeIInv, Early
<1>3. CASE Early
  <2>1. Tx > 0 => TreeNow BY <1>3 DEF TreeIInv, TreeNow
  <2>2. CASE EmitNew BY <1>3, <2>1, <2>2, EmitNewTree
  <2>3. CASE UNCHANGED vars
    <3>1. UNCHANGED <<entries, entries_next_index, context_stack, step_result_entry, frames, tree,
                      runtime, stage, trap, call_type, skip_next_context>>
      BY <2>3 DEF vars, evmVars, listenerVars
    <3>2. CASE Tx > 0
      <4>1. TypeInv' BY <2>1, <3>1, <3>2 DEF TypeInv, TreeNow
      <4> QED BY <1>3, <2>1, <3>1, <3>2, <4>1, NoTreeStep
    <3>3. CASE ~(Tx > 0)
      <4>1. Tx' = Tx BY <3>1 DEF Tx
      <4> QED BY <3>3, <4>1 DEF TreeIInv
    <3> QED BY <3>2, <3>3
  <2>4. ASSUME Next, ~EmitNew PROVE Tx > 0
    <3>1. stage # "idle" \/ Tx > 0
      BY <2>4 DEF Next, EmitTransact, EmitRecordTransaction, Unpaid, Refused, EmitRoot, EmitRecordCost,
         EmitTrap, EmitPrecompileSubcall, EmitSubframe, EmitSuicide, EmitStepResultExit, EndFrame,
         EndReplay, Executing
    <3> QED BY <3>1, Parts DEF StagesInv
  <2>5. CASE Next /\ ~EmitNew
    <3>1. Tx > 0 /\ TreeNow BY <2>1, <2>4, <2>5
    <3> QED
      BY <1>3, <2>5, <3>1, EmitTransactTree, EmitRecordTransactionTree, UnpaidTree, RefusedTree,
         EmitRootTree, EmitRecordCostTree, EmitTrapTree, EmitPrecompileSubcallTree, EmitSubframeTree,
         EmitSuicideTree, EmitStepResultExitTree, EndFrameTree, EndReplayTree DEF Next
  <2> QED BY <2>2, <2>3, <2>5
<1> QED BY <1>2, <1>3

-----------------------------------------------------------------------------
\* What is kept of the maps and of the trees.

\* Sets that differ by an offset have their i-th elements at that offset.
LEMMA NthShifted ==
    ASSUME NEW n, NEW x, NEW o, NEW K, NEW L, Shifted(K, L, o, n, x), NEW i \in 1..Cardinality(K)
    PROVE  Nth(K, i) \in K /\ Nth(L, i) = Nth(K, i) + o
<1>0. /\ n \in Nat /\ x \in Nat /\ o \in Nat /\ K \in SUBSET (1..n) /\ L \in SUBSET (1..x)
      /\ L = {k + o : k \in K} /\ Cardinality(L) = Cardinality(K)
  BY DEF Shifted
<1>4. \A k \in K : k \in Nat BY <1>0
<1>5. \A k \in L : k \in Nat
  <2>1. \A k \in 1..x : k \in Nat BY <1>0
  <2> QED BY <1>0, <2>1
<1>6. IsFiniteSet(K) /\ IsFiniteSet(L)
  <2>1. IsFiniteSet(1..n) /\ IsFiniteSet(1..x) BY <1>0, FS_Interval
  <2> QED BY <1>0, <2>1, FS_Subset
<1>1. PICK a : a = Nth(K, i) OBVIOUS
<1>2. a \in K /\ Cardinality({u \in K : u < a}) = i - 1
  <2>1. K \in SUBSET Nat BY <1>4
  <2> QED BY <1>1, <1>6, <2>1, NthOf
<1>7. PICK c, A, C : c = a + o /\ A = {u \in K : u < a} /\ C = {u \in L : u < c} OBVIOUS
<1>8. c \in L BY <1>0, <1>2, <1>7
<1>9. C = {k + o : k \in A}
  <2>1. \A k \in K : k < a <=> k + o < c
    <3>1. a \in Nat BY <1>2, <1>4
    <3> QED BY <1>0, <1>4, <1>7, <3>1
  <2> QED BY <1>0, <1>7, <2>1
<1>10. Cardinality(C) = i - 1
  <2>1. A \in SUBSET Int BY <1>7, <1>4
  <2>2. IsFiniteSet(A) BY <1>6, <1>7, FS_Subset
  <2>3. o \in Int BY <1>0
  <2>4. Cardinality(C) = Cardinality(A) BY <1>9, <2>1, <2>2, <2>3, ShiftedSize
  <2> QED BY <1>2, <1>7, <2>4
<1>11. c = Nth(L, i)
  <2>1. L \in SUBSET Nat /\ i \in 1..Cardinality(L) BY <1>0, <1>5
  <2>2. \A k \in L : Cardinality({u \in L : u < k}) = i - 1 => k = Nth(L, i) BY <1>6, <2>1, NthOf
  <2> QED BY <1>7, <1>8, <1>10, <2>2
<1> QED BY <1>1, <1>2, <1>7, <1>11

\* After a transaction all maps are those of the trees.
LEMMA TreesOver ==
    ASSUME IInv, RootIInv, TreeIInv, Early, stage \in {"idle"} \cup Callers
    PROVE  TreesUpTo(entries, Tx, entries_next_index)
<1>0. Tx \in Nat BY Parts
<1>1. CASE Tx = 0 BY <1>1 DEF TreesUpTo
<1>2. CASE Tx # 0
  <2>1. Tx > 0 BY <1>0, <1>2
  <2>2. TreeNow BY <2>1 DEF TreeIInv, TreeNow
  <2>3. frames = <<>> BY Parts DEF StagesInv
  <2> QED BY <2>1, <2>2, <2>3, OverTrees
<1> QED BY <1>1, <1>2

LEMMA MatchesFilled ==
    ASSUME NEW map, NEW nodes \in Seq(Node), NEW bound, Matches(map, nodes, bound)
    PROVE  DOMAIN nodes # {} <=> DOMAIN map # {}
<1>1. PICK l : l = Len(nodes) /\ l \in Nat OBVIOUS
<1>2. PICK base \in 0..bound : DOMAIN map = base..(base + l - 1) BY <1>1 DEF Matches
<1>3. base \in Int /\ DOMAIN nodes = 1..l BY <1>1
<1>4. base..(base + l - 1) # {} <=> 1..l # {}
  <2>1. CASE l = 0 BY <1>3, <2>1
  <2>2. CASE l # 0
    <3>1. base \in base..(base + l - 1) /\ 1 \in 1..l BY <1>1, <1>3, <2>2
    <3> QED BY <3>1
  <2> QED BY <2>1, <2>2
<1> QED BY <1>2, <1>3, <1>4

LEMMA TreesSuffice == IInv /\ RootIInv /\ TreeIInv => EntriesAreTheTree
<1> SUFFICES ASSUME IInv, RootIInv, TreeIInv, Early, stage \in {"idle"} \cup Callers
             PROVE  LET maps == Filled(entries)
                        trees == Filled(tree)
                    IN  /\ Len(maps) = Len(trees)
                        /\ \A t \in 1..Len(trees) :
                             \E base \in 0..entries_next_index :
                                /\ DOMAIN maps[t] = base .. base + Len(trees[t]) - 1
                                /\ \A k \in 1..Len(trees[t]) :
                                      Untaxed(maps[t][base + k - 1]) = Untaxed(trees[t][k])
  BY DEF EntriesAreTheTree
<1>1. PICK E, T, n, x, o, bound :
        /\ E = entries /\ T = tree /\ n = Len(E) /\ x = Tx /\ o = x - n /\ bound = entries_next_index
  OBVIOUS
<1>2. /\ n \in Nat /\ x \in Nat /\ o \in Nat /\ o + n = x
      /\ MapsAre(E) /\ DOMAIN E = 1..n /\ T \in Seq(Seq(Node)) /\ x = Len(T)
  BY <1>1, RootParts, Parts DEF OneMapEach, MapsAre, IsMaps, TreeOK, Tx
<1>3. DOMAIN T = 1..x /\ \A t \in 1..x : T[t] \in Seq(Node) /\ Len(T[t]) \in Nat
  <2>1. PICK S : S = Seq(Node) OBVIOUS
  <2>2. T \in Seq(S) BY <1>2, <2>1
  <2>3. DOMAIN T = 1..x /\ \A t \in 1..x : T[t] \in S BY <1>2, <2>2
  <2> QED BY <2>1, <2>3
<1>4. TreesUpTo(E, x, bound) BY <1>1, TreesOver
<1>5. ASSUME NEW t \in 1..x
      PROVE  IF t > o THEN Matches(E[t - o], T[t], bound) ELSE T[t] = <<>>
  BY <1>1, <1>4 DEF TreesUpTo
<1>6. PICK K, L : K = Kept(E) /\ L = Kept(T) OBVIOUS
<1>7. K = {k \in 1..n : DOMAIN E[k] # {}} /\ L = {t \in 1..x : DOMAIN T[t] # {}}
  BY <1>2, <1>3, <1>6 DEF Kept
<1>8. ASSUME NEW t \in 1..x, t > o
      PROVE  t - o \in 1..n /\ (DOMAIN T[t] # {} <=> DOMAIN E[t - o] # {})
  <2>1. t - o \in 1..n BY <1>2, <1>8
  <2>2. T[t] \in Seq(Node) /\ Matches(E[t - o], T[t], bound) BY <1>3, <1>5, <1>8
  <2> QED BY <2>1, <2>2, MatchesFilled
<1>9. L = {k + o : k \in K}
  <2>1. ASSUME NEW t \in L PROVE \E k \in K : t = k + o
    <3>1. t \in 1..x /\ DOMAIN T[t] # {} BY <1>7
    <3>2. t > o
      <4> SUFFICES ASSUME ~(t > o) PROVE FALSE OBVIOUS
      <4>1. T[t] = <<>> BY <1>5, <3>1
      <4>2. DOMAIN <<>> = {} OBVIOUS
      <4> QED BY <3>1, <4>1, <4>2
    <3>3. PICK k : k = t - o /\ k \in 1..n /\ DOMAIN E[k] # {} /\ t = k + o
      <4>1. t - o \in 1..n /\ DOMAIN E[t - o] # {} BY <1>8, <3>1, <3>2
      <4>2. t = (t - o) + o BY <1>2, <3>1
      <4> QED BY <4>1, <4>2
    <3> QED BY <1>7, <3>3
  <2>2. ASSUME NEW k \in K PROVE k + o \in L
    <3>1. k \in 1..n /\ DOMAIN E[k] # {} BY <1>7
    <3>2. PICK t : t = k + o /\ t \in 1..x /\ t > o /\ t - o = k BY <1>2, <3>1
    <3>3. DOMAIN T[t] # {} BY <1>8, <3>1, <3>2
    <3> QED BY <1>7, <3>2, <3>3
  <2> QED BY <2>1, <2>2
<1>10. PICK c : c = Cardinality(K) /\ c = Cardinality(L) /\ c \in Nat
  <2>1. K \in SUBSET (1..n) /\ IsFiniteSet(1..n) BY <1>2, <1>7, FS_Interval
  <2>2. IsFiniteSet(K) /\ Cardinality(K) \in Nat BY <2>1, FS_Subset, FS_CardinalityType
  <2>3. K \in SUBSET Int /\ o \in Int BY <1>2, <1>7
  <2>4. Cardinality(L) = Cardinality(K) BY <1>9, <2>2, <2>3, ShiftedSize
  <2> QED BY <2>2, <2>4
<1>11. PICK maps, trees : maps = Filled(E) /\ trees = Filled(T) OBVIOUS
<1>12. maps = [i \in 1..c |-> E[Nth(K, i)]] /\ trees = [i \in 1..c |-> T[Nth(L, i)]]
  BY <1>6, <1>10, <1>11 DEF Filled
<1>13. /\ Len(maps) = c /\ Len(trees) = c
       /\ \A i \in 1..c : maps[i] = E[Nth(K, i)] /\ trees[i] = T[Nth(L, i)]
  BY <1>10, <1>12
<1>14. ASSUME NEW i \in 1..c
       PROVE  \E base \in 0..bound :
                 /\ DOMAIN maps[i] = base .. base + Len(trees[i]) - 1
                 /\ \A k \in 1..Len(trees[i]) :
                       Untaxed(maps[i][base + k - 1]) = Untaxed(trees[i][k])
  <2>1. K \in SUBSET (1..n) /\ L \in SUBSET (1..x) /\ i \in 1..Cardinality(K) BY <1>7, <1>10
  <2>2. Nth(K, i) \in K /\ Nth(L, i) = Nth(K, i) + o
    <3>1. n \in Nat /\ x \in Nat /\ o \in Nat BY <1>2
    <3>2. Shifted(K, L, o, n, x) BY <1>9, <1>10, <2>1, <3>1 DEF Shifted
    <3>3. i \in 1..Cardinality(K) BY <2>1
    <3> QED BY <3>2, <3>3, NthShifted
  <2>3. PICK a, t, m, s, l :
          /\ a = Nth(K, i) /\ t = a + o /\ m = E[a] /\ s = T[t] /\ l = Len(s)
    OBVIOUS
  <2>4. a \in 1..n /\ t \in 1..x /\ t > o /\ t - o = a /\ maps[i] = m /\ trees[i] = s
    <3>1. a \in 1..n BY <2>1, <2>2, <2>3
    <3>2. t \in 1..x /\ t > o /\ t - o = a BY <1>2, <2>3, <3>1, SMTT(30)
    <3> QED BY <1>13, <2>2, <2>3, <3>1, <3>2
  <2>5. Matches(m, s, bound) BY <1>5, <2>3, <2>4
  <2>6. s \in Seq(Node) /\ l \in Nat BY <1>3, <2>3, <2>4
  <2>7. PICK base \in 0..bound :
          /\ DOMAIN m = base..(base + l - 1)
          /\ \A k \in 1..l : Same(m[base + k - 1], s[k])
    BY <2>3, <2>5 DEF Matches
  <2>8. ASSUME NEW k \in 1..l PROVE Untaxed(m[base + k - 1]) = Untaxed(s[k])
    <3>1. base + k - 1 \in base..(base + l - 1) BY <2>6
    <3>2. PICK j : j = base + k - 1 /\ j \in DOMAIN m BY <2>7, <3>1
    <3>3. m[j] \in Call BY <1>1, <1>2, <2>3, <2>4, <3>2 DEF MapsAre, Typed
    <3>4. s[k] \in Node BY <2>3, <2>6
    <3>5. Same(m[j], s[k]) BY <2>7, <3>2
    <3>6. Untaxed(m[j]) = Untaxed(s[k]) BY <3>3, <3>4, <3>5, SameUntaxed
    <3> QED BY <3>2, <3>6
  <2> QED BY <2>3, <2>4, <2>7, <2>8
<1> QED BY <1>1, <1>11, <1>13, <1>14

\* With EvmEvent::Exit, for any bounds, opcodes and exit reasons and both callers, the
\* maps that are not empty are the call trees of the transactions that were executed,
\* in their order: one entry per frame in the order of opening, with its path, number
\* of children, type, result and gas, however its frames ended.
THEOREM TreesCorrect == Spec => []EntriesAreTheTree
<1>1. Init => IInv /\ RootIInv /\ Unmarked /\ TreeIInv BY InitKeeps, RootInit, UnmarkedInit, TreeInit
<1>2. (IInv /\ RootIInv /\ Unmarked /\ TreeIInv) /\ [Next]_vars
        => (IInv /\ RootIInv /\ Unmarked /\ TreeIInv)'
  BY NextKeeps, RootNext, UnmarkedNext, TreeNext
<1> QED BY <1>1, <1>2, TreesSuffice, PTL DEF Spec

-----------------------------------------------------------------------------
\* Formatters: the order of a walk.

LEMMA PathAppend ==
    ASSUME NEW b \in Seq(Nat), NEW n \in Nat
    PROVE  Longer(Append(b, n), b, Len(b), n)
  BY DEF Longer

\* A path before a child is before the child that follows.
LEMMA BeforeSibling ==
    ASSUME NEW a \in Seq(Nat), NEW b \in Seq(Nat), NEW n \in Nat,
           WalkedBefore(a, Append(b, n))
    PROVE  WalkedBefore(a, Append(b, n + 1))
<1>a. PICK p, q, l : p = Append(b, n) /\ q = Append(b, n + 1) /\ l = Len(b) OBVIOUS
<1>1. /\ l \in Nat
      /\ Len(p) = l + 1 /\ Len(q) = l + 1
      /\ \A j \in 1..l : p[j] = b[j] /\ q[j] = b[j]
      /\ p[l + 1] = n /\ q[l + 1] = n + 1
  BY <1>a, PathAppend DEF Longer
<1>2. PICK m : m = Len(a) /\ m \in Nat /\ \A j \in 1..m : a[j] \in Nat BY SMTT(30)
<1>3. PICK i \in 1..(l + 1) : /\ i <= m + 1 /\ \A j \in 1..(i - 1) : a[j] = p[j]
                              /\ i <= m => a[i] < p[i]
  BY <1>a, <1>1, <1>2 DEF WalkedBefore
<1>b. /\ \A j \in 1..(i - 1) : j \in 1..l
      /\ i = l + 1 \/ i \in 1..l
      /\ i <= m => i \in 1..m
  BY <1>1, <1>2, <1>3
<1>4. \A j \in 1..(i - 1) : a[j] = q[j] BY <1>1, <1>3, <1>b
<1>5. i <= m => a[i] < q[i]
  <2>1. CASE i \in 1..l BY <1>1, <1>3, <2>1
  <2>2. CASE i = l + 1 /\ i \in 1..m
    <3>1. a[i] \in Nat /\ a[i] < n BY <1>1, <1>2, <1>3, <2>2
    <3>2. a[i] < n + 1 BY <3>1
    <3> QED BY <1>1, <2>2, <3>2
  <2> QED BY <1>b, <2>1, <2>2
<1> QED BY <1>a, <1>1, <1>2, <1>3, <1>4, <1>5 DEF WalkedBefore

LEMMA SiblingAfter ==
    ASSUME NEW b \in Seq(Nat), NEW n \in Nat
    PROVE  WalkedBefore(Append(b, n), Append(b, n + 1))
<1>a. PICK p, q, l : p = Append(b, n) /\ q = Append(b, n + 1) /\ l = Len(b) OBVIOUS
<1>1. /\ l \in Nat
      /\ Len(p) = l + 1 /\ Len(q) = l + 1
      /\ \A j \in 1..l : p[j] = b[j] /\ q[j] = b[j]
      /\ p[l + 1] = n /\ q[l + 1] = n + 1
  BY <1>a, PathAppend DEF Longer
<1>2. l + 1 \in 1..(l + 1) /\ (l + 1) - 1 = l /\ n < n + 1 /\ l + 1 <= (l + 1) + 1 BY <1>1
<1>3. \A j \in 1..((l + 1) - 1) : p[j] = q[j] BY <1>1, <1>2
<1> QED BY <1>a, <1>1, <1>2, <1>3 DEF WalkedBefore

\* A path is before the children of what it is before, and before its own.
LEMMA BeforeChild ==
    ASSUME NEW a \in Seq(Nat), NEW b \in Seq(Nat), NEW n \in Nat, WalkedBefore(a, b)
    PROVE  WalkedBefore(a, Append(b, n))
<1>a. PICK q, l : q = Append(b, n) /\ l = Len(b) OBVIOUS
<1>1. /\ l = Len(b) /\ l \in Nat /\ Len(q) = l + 1
      /\ \A j \in 1..l : q[j] = b[j]
  BY <1>a, PathAppend DEF Longer
<1>2. PICK i \in 1..l : /\ i <= Len(a) + 1 /\ \A j \in 1..(i - 1) : a[j] = b[j]
                        /\ i <= Len(a) => a[i] < b[i]
  BY <1>a, <1>1 DEF WalkedBefore
<1>3. i \in 1..(l + 1) /\ \A j \in 1..(i - 1) : j \in 1..l BY <1>1
<1>4. (\A j \in 1..(i - 1) : a[j] = q[j]) /\ (i <= Len(a) => a[i] < q[i]) BY <1>1, <1>2, <1>3
<1> QED BY <1>a, <1>1, <1>2, <1>3, <1>4 DEF WalkedBefore

LEMMA ChildAfter ==
    ASSUME NEW b \in Seq(Nat), NEW n \in Nat
    PROVE  WalkedBefore(b, Append(b, n))
<1>a. PICK q, l : q = Append(b, n) /\ l = Len(b) OBVIOUS
<1>1. /\ l = Len(b) /\ l \in Nat /\ Len(q) = l + 1
      /\ \A j \in 1..l : q[j] = b[j]
  BY <1>a, PathAppend DEF Longer
<1>2. l + 1 \in 1..(l + 1) /\ (l + 1) - 1 = l /\ ~(l + 1 <= l) BY <1>1
<1>3. l + 1 <= Len(b) + 1 BY <1>1
<1>4. \A j \in 1..((l + 1) - 1) : b[j] = q[j] BY <1>1, <1>2
<1> QED BY <1>a, <1>1, <1>2, <1>3, <1>4 DEF WalkedBefore

\* What is before a path that is not longer is before it with all it called.
LEMMA ChildBefore ==
    ASSUME NEW a \in Seq(Nat), NEW c \in Seq(Nat), NEW n \in Nat, WalkedBefore(a, c),
           Len(c) <= Len(a)
    PROVE  WalkedBefore(Append(a, n), c)
<1>a. PICK q, l : q = Append(a, n) /\ l = Len(a) OBVIOUS
<1>1. /\ l = Len(a) /\ l \in Nat /\ Len(q) = l + 1
      /\ \A j \in 1..l : q[j] = a[j]
  <2>1. Longer(q, a, l, n) BY <1>a, PathAppend
  <2> QED BY <1>a, <2>1 DEF Longer
<1>b. Len(c) \in Nat OBVIOUS
<1>2. PICK k : k = Len(c) /\ k \in Nat /\ k <= l BY <1>1, <1>b
<1>3. PICK i \in 1..k : /\ i <= l + 1 /\ \A j \in 1..(i - 1) : a[j] = c[j]
                        /\ i <= l => a[i] < c[i]
  BY <1>a, <1>1, <1>2 DEF WalkedBefore
<1>4. i \in 1..l /\ i <= (l + 1) + 1 /\ \A j \in 1..(i - 1) : j \in 1..l BY <1>1, <1>2
<1>c. i <= l BY <1>1, <1>4
<1>5. (\A j \in 1..(i - 1) : q[j] = c[j]) /\ q[i] < c[i] BY <1>1, <1>3, <1>4, <1>c
<1> QED BY <1>a, <1>1, <1>2, <1>4, <1>5 DEF WalkedBefore

-----------------------------------------------------------------------------
\* Keys are given in the order of a walk.

\* What an event leaves of the stack and of what is known.
LEMMA WalkStays ==
    ASSUME NEW pairs, NEW stack, Walks(pairs), Ahead(pairs, stack),
           NEW pairs2, pairs2 \subseteq pairs, NEW stack2, Len(stack) \in Nat, Len(stack2) \in Nat,
           Len(stack2) <= Len(stack),
           \A i \in 1..Len(stack2) : /\ stack2[i].trace_address = stack[i].trace_address
                                     /\ stack2[i].subtraces = stack[i].subtraces
    PROVE  Walks(pairs2) /\ Ahead(pairs2, stack2)
  BY DEF NextChild, Ahead, Walks

\* A new child comes after all that is known.
LEMMA WalkChild ==
    ASSUME NEW stack \in Seq(Context), stack # <<>>, Chain(stack),
           NEW counted, Counted(stack, counted),
           NEW pairs, Paired(pairs), StackPairs(stack) \subseteq pairs,
           Walks(pairs), Ahead(pairs, stack), NEW next \in Nat, Under(pairs, next),
           NEW more, more = pairs \cup {<<next, ChildOf(stack)>>}
    PROVE  /\ Walks(more) /\ Ahead(more, counted) /\ Under(more, next + 1)
           /\ \A x \in more : WalkedBefore(x[2], Append(ChildOf(stack), 0))
<1>1. PICK n, t, s, q : /\ n = Len(stack) /\ n \in Nat /\ n # 0
                        /\ t = stack[n].trace_address /\ s = stack[n].subtraces
                        /\ q = Append(t, s)
  BY StackFields, EmptySeq
<1>2. /\ n \in 1..n /\ t \in Seq(Nat) /\ s \in Nat /\ q = ChildOf(stack)
      /\ q = NextChild(stack[n])
  BY <1>1, StackFields DEF ChildOf, NextChild
<1>3. q \in Seq(Nat)
  <2>1. Longer(q, t, Len(t), s) BY <1>1, <1>2, PathAppend
  <2> QED BY <2>1 DEF Longer
<1>4. PICK z : z = <<next, q>> OBVIOUS
<1>5. z[1] = next /\ z[2] = q /\ more = pairs \cup {z} BY <1>2, <1>4
<1>6. \A x \in pairs : WalkedBefore(x[2], q) BY <1>1, <1>2 DEF Ahead
<1>7. \A x \in pairs : x[1] \in Nat /\ x[2] \in Seq(Nat) /\ x[1] < next BY DEF Paired, Under
<1>8. Under(more, next + 1) BY <1>7, <1>5 DEF Under
<1>9. Walks(more)
  <2> SUFFICES ASSUME NEW x \in more, NEW y \in more, x[1] < y[1]
               PROVE  WalkedBefore(x[2], y[2])
    BY DEF Walks
  <2>1. CASE x \in pairs /\ y \in pairs BY <2>1 DEF Walks
  <2>2. CASE x \in pairs /\ y = z BY <1>5, <1>6, <2>2
  <2>3. CASE x = z BY <1>5, <1>7, <2>3
  <2> QED BY <1>5, <2>1, <2>2, <2>3
<1>10. \A x \in more : WalkedBefore(x[2], Append(q, 0))
  <2>1. WalkedBefore(q, Append(q, 0)) BY <1>3, ChildAfter
  <2>2. \A x \in pairs : WalkedBefore(x[2], Append(q, 0))
    <3> SUFFICES ASSUME NEW x \in pairs PROVE WalkedBefore(x[2], Append(q, 0)) OBVIOUS
    <3>1. PICK a : a = x[2] /\ a \in Seq(Nat) /\ WalkedBefore(a, q) BY <1>6, <1>7
    <3>2. WalkedBefore(a, Append(q, 0)) BY <1>3, <3>1, BeforeChild
    <3> QED BY <3>1, <3>2
  <2> QED BY <1>5, <2>1, <2>2
<1>11. Ahead(more, counted)
  <2>1. /\ Len(counted) = n /\ counted[n].trace_address = t /\ counted[n].subtraces = s + 1
        /\ \A i \in 1..n : i # n => counted[i] = stack[i]
    BY <1>1 DEF Counted
  <2> SUFFICES ASSUME NEW x \in more, NEW i \in 1..n
               PROVE  WalkedBefore(x[2], NextChild(counted[i]))
    BY <2>1 DEF Ahead
  <2>2. CASE i = n
    <3>1. NextChild(counted[i]) = Append(t, s + 1) BY <2>1, <2>2 DEF NextChild
    <3>2. CASE x = z BY <1>1, <1>2, <1>5, <3>1, <3>2, SiblingAfter
    <3>3. CASE x \in pairs
      <4>1. PICK a : a = x[2] /\ a \in Seq(Nat) /\ WalkedBefore(a, q) BY <1>6, <1>7, <3>3
      <4>2. WalkedBefore(a, Append(t, s + 1)) BY <1>1, <1>2, <4>1, BeforeSibling
      <4> QED BY <3>1, <4>1, <4>2
    <3> QED BY <1>5, <3>2, <3>3
  <2>3. CASE i # n
    <3>1. counted[i] = stack[i] BY <2>1, <2>3
    <3>2. CASE x \in pairs BY <1>1, <3>1, <3>2 DEF Ahead
    <3>3. CASE x = z
      <4>1. <<stack[n].entries_index, t>> \in pairs BY <1>1, <1>2 DEF StackPairs
      <4>2. PICK w : w = <<stack[n].entries_index, t>> /\ w \in pairs /\ w[2] = t BY <4>1
      <4>3. PICK c : c = NextChild(stack[i]) /\ WalkedBefore(t, c) BY <1>1, <4>2 DEF Ahead
      <4>4. stack[i].trace_address \in Seq(Nat) /\ stack[i].subtraces \in Nat BY <1>1, StackFields
      <4>5. Len(stack[i].trace_address) = i - 1 /\ Len(t) = n - 1 BY <1>1, <1>2 DEF Chain
      <4>6. Longer(c, stack[i].trace_address, Len(stack[i].trace_address), stack[i].subtraces)
        BY <4>3, <4>4, PathAppend DEF NextChild
      <4>7. c \in Seq(Nat) /\ Len(c) = (i - 1) + 1 BY <4>5, <4>6 DEF Longer
      <4>8. Len(c) <= Len(t)
        <5>1. (i - 1) + 1 <= n - 1 BY <1>1, <2>3
        <5> QED BY <4>5, <4>7, <5>1
      <4>9. WalkedBefore(q, c) BY <1>1, <1>2, <4>3, <4>7, <4>8, ChildBefore
      <4> QED BY <1>5, <3>1, <3>3, <4>3, <4>9
    <3> QED BY <1>5, <3>2, <3>3
  <2> QED BY <2>2, <2>3
<1> QED BY <1>2, <1>8, <1>9, <1>10, <1>11

-----------------------------------------------------------------------------
\* The walk and the handlers.

LEMMA KnownPaired ==
    ASSUME ListenerInv
    PROVE  Paired(Known)
<1>1. FlagsOK /\ MapsAre(entries) /\ StackOK /\ StepOK BY ListenerParts
<1>2. \A e \in Call : e.trace_address \in Seq(Nat) BY DEF Call
<1>3. \A k \in DOMAIN LastOf(entries) :
          k \in Nat /\ LastOf(entries)[k].trace_address \in Seq(Nat)
  BY <1>1, <1>2, LastMapIs DEF Typed
<1>4. Paired(PairsOf(LastOf(entries))) BY <1>3 DEF Paired, PairsOf
<1>5. Paired(PendingPairs)
  <2>1. step_result_entry # <<>> => step_result_entry[1] \in Nat /\ step_result_entry[2] \in Call
    BY <1>1 DEF StepOK
  <2> QED BY <1>2, <2>1 DEF Paired, PendingPairs
<1>6. Paired(StackPairs(context_stack)) BY <1>1, StackFields DEF Paired, StackPairs, StackOK
<1> QED BY <1>4, <1>5, <1>6 DEF Paired, Known

LEMMA InsertedPairs ==
    ASSUME MapsAre(entries), NEW key, NEW entry
    PROVE  PairsOf(LastOf(Inserted(key, entry)))
             \subseteq PairsOf(LastOf(entries)) \cup {<<key, entry.trace_address>>}
<1>1. PICK map, new : map = LastOf(entries) /\ new = LastOf(Inserted(key, entry)) OBVIOUS
<1>2. new = With(map, key, entry) BY <1>1, InsertedIs DEF MapsAre
<1>3. /\ DOMAIN new = DOMAIN map \cup {key} /\ new[key] = entry
      /\ \A k \in DOMAIN map : k # key => new[k] = map[k]
  BY <1>2 DEF With
<1> QED BY <1>1, <1>3 DEF PairsOf

LEMMA NothingKnown ==
    ASSUME Blank, step_result_entry = <<>>
    PROVE  Known = {}
<1>1. DOMAIN LastOf(entries) = {} BY LastMapIsLastOf DEF Blank
<1>2. context_stack = <<>> /\ 1..Len(<<>>) = {} BY DEF Blank
<1> QED BY <1>1, <1>2 DEF Known, PairsOf, PendingPairs, StackPairs

LEMMA WalkStep ==
    ASSUME ListenerInv, WalkNow, Known' \subseteq Known,
           UNCHANGED entries_next_index,
           Len(context_stack') \in Nat, Len(context_stack') <= Len(context_stack),
           \A i \in 1..Len(context_stack') :
              /\ context_stack'[i].trace_address = context_stack[i].trace_address
              /\ context_stack'[i].subtraces = context_stack[i].subtraces
    PROVE  WalkNow'
<1>1. Len(context_stack) \in Nat BY ListenerParts, StackFields DEF StackOK
<1>2. PICK s, s2, k, k2 : /\ s = context_stack /\ s2 = context_stack' /\ k = Known /\ k2 = Known'
  OBVIOUS
<1>3. Walks(k2) /\ Ahead(k2, s2) BY <1>1, <1>2, WalkStays DEF WalkNow
<1>4. Under(k2, entries_next_index) BY <1>2 DEF WalkNow, Under
<1> QED BY <1>2, <1>3, <1>4 DEF WalkNow

LEMMA CostWalk ==
    ASSUME ListenerInv, WalkNow, NEW gas \in Nat, RecordCost(gas)
    PROVE  WalkNow'
<1>1. context_stack \in Seq(Context) BY ListenerParts DEF StackOK
<1>2. /\ entries' = entries /\ UNCHANGED step_result_entry
      /\ UNCHANGED entries_next_index
  BY DEF RecordCost
<1>3. PICK s, n : s = context_stack /\ n = Len(s) /\ n \in Nat /\ s \in Seq(Context)
  BY <1>1, StackFields
<1>4. PairsOf(LastOf(entries))' = PairsOf(LastOf(entries)) /\ UNCHANGED PendingPairs
  BY <1>2 DEF PendingPairs
<1>5. CASE s = <<>> BY <1>3, <1>5, <1>2, <1>4, WalkStep DEF RecordCost, Known
<1>6. CASE s # <<>>
  <2>1. PICK top, new : top = s[n] /\ new = Charged(top, gas) OBVIOUS
  <2>2. PICK t : t = context_stack' /\ t = [s EXCEPT ![n] = new]
    BY <1>3, <1>6, <2>1 DEF RecordCost, Top
  <2>3. n \in 1..n BY <1>3, <1>6, EmptySeq
  <2>4. top \in Context BY <1>3, <2>1, <2>3, StackFields
  <2>5. new \in Context /\ ChargedTo(new, top, gas) BY <2>1, <2>4, ChargedIs
  <2>6. /\ t \in Seq(Context) /\ Len(t) = n /\ t[n] = new
        /\ \A i \in 1..n : i # n => t[i] = s[i]
    BY <1>3, <1>6, <2>2, <2>5, TopReplaced
  <2>7. \A i \in 1..n : /\ t[i].trace_address = s[i].trace_address
                        /\ t[i].subtraces = s[i].subtraces
                        /\ t[i].entries_index = s[i].entries_index
    BY <2>1, <2>5, <2>6 DEF ChargedTo
  <2>8. StackPairs(t) = StackPairs(s) BY <1>3, <2>6, <2>7 DEF StackPairs
  <2>9. Known' = Known BY <1>2, <1>3, <1>4, <2>2, <2>8 DEF Known
  <2>10. n <= n BY <1>3
  <2> QED BY <1>2, <1>3, <2>2, <2>6, <2>7, <2>9, <2>10, WalkStep
<1> QED BY <1>5, <1>6

LEMMA PopWalk ==
    ASSUME ListenerInv, WalkNow, context_stack # <<>>, NEW res,
           context_stack' = Popped, UNCHANGED entries_next_index,
           \/ /\ entries' = Inserted(Top.entries_index, EntryOf(Top, res))
              /\ step_result_entry' \in {<<>>, step_result_entry}
           \/ /\ entries' = entries
              /\ step_result_entry' = <<Top.entries_index, EntryOf(Top, res)>>
    PROVE  WalkNow'
<1>1. context_stack \in Seq(Context) /\ MapsAre(entries) BY ListenerParts DEF StackOK
<1>2. PICK s, n, z : /\ s = context_stack /\ n = Len(s) /\ n \in Nat /\ s \in Seq(Context)
                     /\ z = <<Top.entries_index, Top.trace_address>>
  BY <1>1, StackFields
<1>3. n \in 1..n BY <1>2, EmptySeq
<1>4. z \in StackPairs(s) BY <1>2, <1>3 DEF StackPairs, Top
<1>5. PICK r : /\ r = context_stack' /\ r \in Seq(Context) /\ Len(r) = n - 1
               /\ \A i \in 1..(n - 1) : r[i] = s[i]
  <2>1. PICK r, m : r = context_stack' /\ m = n - 1 /\ r = SubSeq(s, 1, m) BY <1>2 DEF Popped
  <2>2. m \in Nat /\ m \in 0..n /\ \A i \in 1..m : s[i] \in Context BY <1>2, <1>3, <2>1
  <2>3. r \in Seq(Context) BY <2>1, <2>2, SubSeqProperties
  <2>4. Len(r) = m /\ \A i \in 1..m : r[i] = s[i] BY <1>2, <2>1, <2>2
  <2> QED BY <2>1, <2>3, <2>4
<1>6. n - 1 \in Nat /\ n - 1 <= n /\ (1..(n - 1)) \subseteq 1..n BY <1>2, <1>3
<1>7. StackPairs(r) \subseteq StackPairs(s) BY <1>2, <1>5, <1>6 DEF StackPairs
<1>8. EntryOf(Top, res).trace_address = Top.trace_address BY DEF EntryOf
<1>9. Known' \subseteq Known
  <2>1. CASE /\ entries' = Inserted(Top.entries_index, EntryOf(Top, res))
             /\ step_result_entry' \in {<<>>, step_result_entry}
    <3>1. PairsOf(LastOf(entries')) \subseteq PairsOf(LastOf(entries)) \cup {z}
      BY <1>1, <1>2, <1>8, <2>1, InsertedPairs
    <3>2. PendingPairs' \subseteq PendingPairs BY <2>1 DEF PendingPairs
    <3> QED BY <1>2, <1>4, <1>5, <1>7, <3>1, <3>2 DEF Known
  <2>2. CASE /\ entries' = entries
             /\ step_result_entry' = <<Top.entries_index, EntryOf(Top, res)>>
    <3>1. PendingPairs' = {z} BY <1>2, <1>8, <2>2 DEF PendingPairs
    <3> QED BY <1>2, <1>4, <1>5, <1>7, <2>2, <3>1 DEF Known
  <2> QED BY <2>1, <2>2
<1> QED BY <1>2, <1>5, <1>6, <1>9, WalkStep

LEMMA StepResultExitWalk ==
    ASSUME ListenerInv, WalkNow, NEW reason, StepResultExit(reason), context_stack # <<>>
    PROVE  WalkNow'
  BY PopWalk DEF StepResultExit

LEMMA ExitWalk ==
    ASSUME ListenerInv, WalkNow, NEW reason, EvmExit(reason)
    PROVE  WalkNow'
<1>1. step_result_entry' = <<>> /\ entries_next_index' = entries_next_index BY DEF EvmExit
<1>2. PICK n : n = Len(context_stack) /\ n \in Nat /\ n <= n
  BY ListenerParts, StackFields DEF StackOK
<1>3. PendingPairs' = {} BY <1>1 DEF PendingPairs
<1>4. CASE step_result_entry # <<>>
  <2>1. UNCHANGED context_stack /\ entries' = Inserted(step_result_entry[1], step_result_entry[2])
    BY <1>4 DEF EvmExit
  <2>2. PICK z : z = <<step_result_entry[1], step_result_entry[2].trace_address>> OBVIOUS
  <2>3. PendingPairs = {z} BY <1>4, <2>2 DEF PendingPairs
  <2>4. PairsOf(LastOf(entries')) \subseteq PairsOf(LastOf(entries)) \cup {z}
    BY <2>1, <2>2, InsertedPairs, ListenerParts
  <2>5. Known' \subseteq Known BY <1>3, <2>1, <2>3, <2>4 DEF Known
  <2> QED BY <1>1, <1>2, <2>1, <2>5, WalkStep
<1>5. CASE step_result_entry = <<>> /\ context_stack # <<>> BY <1>5, <1>1, PopWalk DEF EvmExit
<1>6. CASE step_result_entry = <<>> /\ context_stack = <<>>
  <2>1. entries' = entries /\ context_stack' = context_stack BY <1>6 DEF EvmExit
  <2>2. Known' \subseteq Known BY <1>3, <2>1 DEF Known
  <2> QED BY <1>1, <1>2, <2>1, <2>2, WalkStep
<1> QED BY <1>4, <1>5, <1>6

\* The steps that touch nothing of this.
LEMMA SameWalk ==
    ASSUME WalkNow, entries' = entries, UNCHANGED context_stack,
           UNCHANGED step_result_entry, UNCHANGED entries_next_index
    PROVE  WalkNow'
  BY DEF WalkNow, Known, PendingPairs

\* The root of a transaction is all that is known of it.
LEMMA RootWalk ==
    ASSUME NEW context, context.trace_address = <<>>, context.subtraces \in Nat,
           NEW next \in Nat, context.entries_index = next,
           NEW pairs, pairs \subseteq {<<next, <<>> >>}
    PROVE  /\ Walks(pairs) /\ Ahead(pairs, <<context>>) /\ Under(pairs, next + 1)
           /\ StackPairs(<<context>>) = {<<next, <<>> >>}
<1>1. PICK s, z : s = <<context>> /\ z = <<next, <<>> >> OBVIOUS
<1>2. Len(s) = 1 /\ s[1] = context /\ z[1] = next /\ z[2] = <<>> BY <1>1
<1>3. \A i \in 1..1 : i = 1 OBVIOUS
<1>4. \A x \in pairs : x = z BY <1>1
<1>5. next < next + 1 /\ ~(next < next) OBVIOUS
<1>6. Walks(pairs) /\ Under(pairs, next + 1) BY <1>2, <1>4, <1>5 DEF Walks, Under
<1>7. WalkedBefore(<<>>, NextChild(context))
  <2>1. <<>> \in Seq(Nat) OBVIOUS
  <2> QED BY <2>1, ChildAfter DEF NextChild
<1>8. Ahead(pairs, s) BY <1>2, <1>3, <1>4, <1>7 DEF Ahead
<1>9. StackPairs(s) = {z} BY <1>1, <1>2, <1>3 DEF StackPairs
<1> QED BY <1>1, <1>6, <1>8, <1>9

LEMMA FirstContextWalk ==
    ASSUME ListenerInv, Blank, step_result_entry = <<>>, NEW type,
           entries' = entries, UNCHANGED step_result_entry,
           context_stack' = <<NewContext(type, <<>>)>>,
           entries_next_index' = entries_next_index + 1
    PROVE  WalkNow'
<1>1. entries_next_index \in Nat BY ListenerParts DEF FlagsOK
<1>2. PICK c, n : c = NewContext(type, <<>>) /\ n = entries_next_index OBVIOUS
<1>3. c.trace_address = <<>> /\ c.subtraces \in Nat /\ c.entries_index = n /\ n \in Nat
  BY <1>1, <1>2 DEF NewContext
<1>4. PairsOf(LastOf(entries)) = {} /\ PendingPairs = {} BY NothingKnown DEF Known
<1>5. StackPairs(<<c>>) = {<<n, <<>> >>} BY <1>3, RootWalk
<1>6. PICK k : k = Known' /\ k = {<<n, <<>> >>}
  <2>1. PairsOf(LastOf(entries'))= {} /\ PendingPairs' = {} /\ StackPairs(context_stack') = {<<n, <<>> >>}
    BY <1>2, <1>4, <1>5 DEF PendingPairs
  <2> QED BY <2>1 DEF Known
<1>7. Walks(k) /\ Ahead(k, <<c>>) /\ Under(k, n + 1) BY <1>3, <1>6, RootWalk
<1> QED BY <1>2, <1>6, <1>7 DEF WalkNow

LEMMA TransactWalk ==
    ASSUME ListenerInv, NEW type \in ContextType, Transact(type), Blank, step_result_entry = <<>>
    PROVE  WalkNow'
<1>1. /\ entries' = entries /\ UNCHANGED step_result_entry
      /\ context_stack' = Append(context_stack, NewContext(type, <<>>))
      /\ entries_next_index' = entries_next_index + 1
  BY DEF Transact
<1>2. PICK c : c = NewContext(type, <<>>) OBVIOUS
<1>3. Append(<<>>, c) = <<c>> OBVIOUS
<1>4. context_stack' = <<NewContext(type, <<>>)>> BY <1>1, <1>2, <1>3 DEF Blank
<1> QED BY <1>1, <1>4, FirstContextWalk

\* The next child of the innermost context, on the stack or in the map.
LEMMA ChildWalk ==
    ASSUME ListenerInv, WalkNow, context_stack # <<>>
    PROVE  /\ \A more : more = Known \cup {<<entries_next_index, ChildAddress>>} =>
                 /\ Walks(more) /\ Ahead(more, ChildCounted)
                 /\ Under(more, entries_next_index + 1)
                 /\ \A x \in more : WalkedBefore(x[2], Append(ChildAddress, 0))
           /\ StackPairs(ChildCounted) = StackPairs(context_stack)
           /\ ChildCounted \in Seq(Context) /\ ChildAddress \in Seq(Nat)
<1>1. StackOK /\ entries_next_index \in Nat /\ Paired(Known)
  BY ListenerParts, KnownPaired DEF FlagsOK
<1>2. PICK s, c, n : /\ s = context_stack /\ c = ChildCounted /\ n = Len(s)
                     /\ s \in Seq(Context) /\ s # <<>> /\ n \in Nat /\ Chain(s)
  BY <1>1, StackFields DEF StackOK
<1>3. Counted(s, c) /\ CountedOnly(s, c) /\ ChildAddress = ChildOf(s) BY <1>1, <1>2, ChildCountedIs
<1>4. StackPairs(s) \subseteq Known BY <1>2 DEF Known
<1>5. \A i \in 1..n : /\ c[i].entries_index = s[i].entries_index
                      /\ c[i].trace_address = s[i].trace_address
  BY <1>2, <1>3 DEF Counted, CountedOnly
<1>6. StackPairs(c) = StackPairs(s) BY <1>2, <1>3, <1>5 DEF StackPairs, Counted
<1>7. ChildOf(s) \in Seq(Nat) BY <1>2, EmptySeq, StackFields, PathAppend DEF ChildOf, Longer
<1>8. ASSUME NEW more, more = Known \cup {<<entries_next_index, ChildOf(s)>>}
      PROVE  /\ Walks(more) /\ Ahead(more, c)
             /\ Under(more, entries_next_index + 1)
             /\ \A x \in more : WalkedBefore(x[2], Append(ChildOf(s), 0))
  <2>1. PICK k, next : k = Known /\ next = entries_next_index /\ next \in Nat BY <1>1
  <2>2. Paired(k) /\ StackPairs(s) \subseteq k /\ Walks(k) /\ Ahead(k, s) /\ Under(k, next)
    BY <1>1, <1>2, <1>4, <2>1 DEF WalkNow
  <2>3. more = k \cup {<<next, ChildOf(s)>>} BY <1>8, <2>1
  <2> QED BY <1>2, <1>3, <2>1, <2>2, <2>3, WalkChild
<1> QED BY <1>2, <1>3, <1>6, <1>7, <1>8 DEF Counted

LEMMA OpenWalk ==
    ASSUME ListenerInv, WalkNow, NEW type \in ContextType, OpenContext(type),
           context_stack # <<>> \/ (Blank /\ step_result_entry = <<>>)
    PROVE  WalkNow'
<1>1. entries' = entries /\ step_result_entry' = step_result_entry BY DEF OpenContext
<1>2. CASE skip_next_context BY <1>1, <1>2, SameWalk DEF OpenContext
<1>3. CASE ~skip_next_context /\ context_stack = <<>>
  <2>1. ChildCounted = <<>> /\ ChildAddress = <<>> BY <1>3 DEF ChildCounted, ChildAddress
  <2>2. PICK c : c = NewContext(type, <<>>) OBVIOUS
  <2>3. Append(<<>>, c) = <<c>> OBVIOUS
  <2>4. context_stack' = <<NewContext(type, <<>>)>> /\ entries_next_index' = entries_next_index + 1
    BY <1>3, <2>1, <2>2, <2>3 DEF OpenContext
  <2> QED BY <1>1, <1>3, <2>4, FirstContextWalk
<1>4. CASE ~skip_next_context /\ context_stack # <<>>
  <2>1. PICK more, q, next, c, new, m :
          /\ q = ChildAddress /\ next = entries_next_index /\ c = ChildCounted
          /\ more = Known \cup {<<next, q>>} /\ new = NewContext(type, q) /\ m = Len(c)
    OBVIOUS
  <2>2. /\ Walks(more) /\ Ahead(more, c) /\ Under(more, next + 1)
        /\ \A x \in more : WalkedBefore(x[2], Append(q, 0))
        /\ StackPairs(c) = StackPairs(context_stack)
        /\ c \in Seq(Context) /\ q \in Seq(Nat)
    BY <1>4, <2>1, ChildWalk
  <2>3. context_stack' = Append(c, new) /\ entries_next_index' = next + 1
    BY <1>4, <2>1 DEF OpenContext
  <2>4. new \in Context /\ new.trace_address = q /\ new.subtraces = 0 /\ new.entries_index = next
    <3>1. FlagsOK BY ListenerParts
    <3>2. NewContext(type, q).entries_index = entries_next_index BY DEF NewContext
    <3> QED BY <2>1, <2>2, <3>1, <3>2, NewContextIs
  <2>5. PICK s : /\ s = Append(c, new) /\ m \in Nat /\ Len(s) = m + 1 /\ s[m + 1] = new
                 /\ \A i \in 1..m : s[i] = c[i]
    <3>1. Len(c) \in Nat /\ Len(Append(c, new)) = Len(c) + 1 /\ Append(c, new)[Len(c) + 1] = new
      BY <2>2, <2>4, StackFields
    <3>2. \A i \in 1..Len(c) : Append(c, new)[i] = c[i] BY <2>2, <2>4
    <3> QED BY <2>1, <3>1, <3>2
  <2>6. /\ \A i \in 1..(m + 1) : i \in 1..m \/ i = m + 1
        /\ \A i \in 1..m : i \in 1..(m + 1)
        /\ m + 1 \in 1..(m + 1)
    BY <2>5
  <2>7. Ahead(more, s)
    <3>1. NextChild(new) = Append(q, 0) BY <2>4 DEF NextChild
    <3> SUFFICES ASSUME NEW x \in more, NEW i \in 1..(m + 1)
                 PROVE  WalkedBefore(x[2], NextChild(s[i]))
      BY <2>5 DEF Ahead
    <3>2. CASE i = m + 1 BY <2>2, <2>5, <3>1, <3>2
    <3>3. CASE i \in 1..m BY <2>1, <2>2, <2>5, <3>3 DEF Ahead
    <3> QED BY <2>6, <3>2, <3>3
  <2>8. StackPairs(s) \subseteq StackPairs(c) \cup {<<next, q>>}
    <3> SUFFICES ASSUME NEW i \in 1..(m + 1)
                 PROVE  <<s[i].entries_index, s[i].trace_address>> \in StackPairs(c) \cup {<<next, q>>}
      BY <2>5 DEF StackPairs
    <3>1. CASE i = m + 1 BY <2>4, <2>5, <3>1
    <3>2. CASE i \in 1..m BY <2>1, <2>5, <3>2 DEF StackPairs
    <3> QED BY <2>6, <3>1, <3>2
  <2>9. PICK k : k = Known' /\ k \subseteq more
    <3>1. PendingPairs' = PendingPairs BY <1>1 DEF PendingPairs
    <3>2. Known' \subseteq more BY <1>1, <2>1, <2>2, <2>3, <2>5, <2>8, <3>1 DEF Known
    <3> QED BY <3>2
  <2>10. Walks(k) /\ Ahead(k, s) /\ Under(k, next + 1) BY <2>2, <2>7, <2>9 DEF Walks, Ahead, Under
  <2> QED BY <2>3, <2>5, <2>9, <2>10 DEF WalkNow
<1> QED BY <1>2, <1>3, <1>4

LEMMA SuicideWalk ==
    ASSUME ListenerInv, WalkNow, EvmSuicide, context_stack # <<>>
    PROVE  WalkNow'
<1>1. PICK more, q, next, c :
          /\ q = ChildAddress /\ next = entries_next_index /\ c = ChildCounted
          /\ more = Known \cup {<<next, q>>}
  OBVIOUS
<1>2. /\ Walks(more) /\ Ahead(more, c) /\ Under(more, next + 1)
      /\ StackPairs(c) = StackPairs(context_stack)
  BY <1>1, ChildWalk
<1>a. PICK e : e = [type |-> "SelfDestruct", trace_address |-> q, subtraces |-> 0,
                    gas_used |-> 0, res |-> "None"]
  OBVIOUS
<1>3. e.trace_address = q BY <1>a
<1>4. /\ context_stack' = c /\ entries' = Inserted(next, e) /\ entries_next_index' = next + 1
      /\ UNCHANGED step_result_entry
  BY <1>1, <1>a DEF EvmSuicide
<1>5. PairsOf(LastOf(entries')) \subseteq PairsOf(LastOf(entries)) \cup {<<next, q>>}
  BY <1>3, <1>4, InsertedPairs, ListenerParts
<1>6. PICK k : k = Known' /\ k \subseteq more
  <2>1. PendingPairs' = PendingPairs BY <1>4 DEF PendingPairs
  <2>2. Known' \subseteq more BY <1>1, <1>2, <1>4, <1>5, <2>1 DEF Known
  <2> QED BY <2>2
<1>7. Walks(k) /\ Ahead(k, c) /\ Under(k, next + 1) BY <1>2, <1>6 DEF Walks, Ahead, Under
<1> QED BY <1>4, <1>6, <1>7 DEF WalkNow

LEMMA BlankWalk ==
    ASSUME Blank, step_result_entry = <<>>
    PROVE  WalkNow
  BY NothingKnown DEF WalkNow, Walks, Ahead, Under

\* finish_transaction gives the key and path of the outermost context to its entry.
LEMMA FinishWalk ==
    ASSUME ListenerInv, WalkNow, FinishTransaction, step_result_entry = <<>>,
           context_stack = <<>> /\ record_transaction_event_only => Blank
    PROVE  Walks(Known') /\ Ahead(Known', context_stack')
<1>1. /\ entries' = FinishedEntries /\ context_stack' = <<>> /\ step_result_entry' = <<>>
  BY DEF FinishTransaction
<1>2. Len(<<>>) = 0 /\ 1..0 = {} OBVIOUS
<1>3. PendingPairs' = {} /\ StackPairs(context_stack') = {} /\ Ahead(Known', context_stack')
  BY <1>1, <1>2 DEF PendingPairs, StackPairs, Ahead
<1>4. CASE context_stack # <<>>
  <2>1. PICK s, n, c : /\ s = context_stack /\ n = Len(s) /\ c = s[1]
                       /\ n \in Nat /\ s \in Seq(Context) /\ s # <<>>
    BY <1>4, ListenerParts, StackFields DEF StackOK
  <2>2. 1 \in 1..n BY <2>1, EmptySeq
  <2>3. <<c.entries_index, c.trace_address>> \in Known BY <2>1, <2>2 DEF StackPairs, Known
  <2>4. EntryOf(c, "EarlyExit").trace_address = c.trace_address BY DEF EntryOf
  <2>5. entries' = Inserted(c.entries_index, EntryOf(c, "EarlyExit"))
    BY <1>1, <1>4, <2>1 DEF FinishedEntries
  <2>6. PairsOf(LastOf(entries'))
           \subseteq PairsOf(LastOf(entries)) \cup {<<c.entries_index, c.trace_address>>}
    BY <2>4, <2>5, InsertedPairs, ListenerParts
  <2>7. Known' \subseteq Known BY <1>3, <2>3, <2>6 DEF Known
  <2> QED BY <1>3, <2>7 DEF WalkNow, Walks
<1>5. CASE context_stack = <<>> /\ record_transaction_event_only
  <2>1. entries' = Inserted(entries_next_index, UnpaidEntry) BY <1>1, <1>5 DEF FinishedEntries
  <2>2. PairsOf(LastOf(entries)) = {} BY <1>5, NothingKnown DEF Known
  <2>3. PICK z : z = <<entries_next_index, UnpaidEntry.trace_address>> OBVIOUS
  <2>4. PairsOf(LastOf(entries')) \subseteq {z} BY <2>1, <2>2, <2>3, InsertedPairs, ListenerParts
  <2>5. Known' \subseteq {z} BY <1>3, <2>4 DEF Known
  <2>6. z[1] \in Nat /\ ~(z[1] < z[1]) BY ListenerParts, <2>3 DEF FlagsOK
  <2>7. Walks(Known') BY <2>5, <2>6 DEF Walks
  <2> QED BY <1>3, <2>7
<1>6. CASE context_stack = <<>> /\ ~record_transaction_event_only
  <2>1. entries' = entries BY <1>1, <1>6 DEF FinishedEntries
  <2>2. Known' \subseteq Known BY <1>3, <2>1 DEF Known
  <2> QED BY <1>3, <2>2 DEF WalkNow, Walks
<1> QED BY <1>4, <1>5, <1>6

\* Outside of the callers' stages the walk goes on.
LEMMA WalkGoesOn ==
    ASSUME IInv, IInv', WalkInv, stage \notin Callers, ~EndReplay, [Next]_vars
    PROVE  WalkNow'
<1>1. WalkNow /\ ListenerInv BY Parts DEF WalkInv, WalkNow
<1>2. CASE EmitNew
  <2>1. CallListNew /\ stage = "idle" BY <1>2 DEF EmitNew
  <2>2. step_result_entry = <<>> BY <2>1, Parts DEF PendingInv
  <2>3. Blank' /\ step_result_entry' = <<>>
    BY <1>1, <2>1, <2>2, Parts, NewKeeps DEF PendingInv, CallListNew
  <2>4. Known' = {}
    <3>1. DOMAIN LastOf(entries') = {} BY <2>3 DEF Blank, LastMap, LastOf
    <3>2. context_stack' = <<>> /\ 1..Len(<<>>) = {} BY <2>3 DEF Blank
    <3> QED BY <2>3, <3>1, <3>2 DEF Known, PairsOf, PendingPairs, StackPairs
  <2> QED BY <2>4 DEF WalkNow, Walks, Ahead, Under
<1>3. CASE EmitTransact
  <2>1. PICK type \in {"Call", "Create"} : Transact(type) BY <1>3 DEF EmitTransact
  <2>2. Blank /\ step_result_entry = <<>> BY <1>3, Parts DEF EmitTransact, PendingInv
  <2>3. type \in ContextType BY DEF ContextType, CallType
  <2> QED BY <1>1, <2>1, <2>2, <2>3, TransactWalk
<1>4. CASE EmitRecordTransaction
  <2>1. RecordTransaction(TxCost) BY <1>4 DEF EmitRecordTransaction
  <2> QED BY <1>1, <2>1, SameWalk DEF RecordTransaction
<1>5. CASE Unpaid
  <2>1. EvmExit("Error") \/ UNCHANGED listenerVars BY <1>5 DEF Unpaid
  <2>2. CASE EvmExit("Error") BY <1>1, <2>2, ExitWalk
  <2>3. CASE UNCHANGED listenerVars BY <1>1, <2>3, SameWalk DEF listenerVars
  <2> QED BY <2>1, <2>2, <2>3
<1>6. CASE Refused BY <1>1, <1>6, SameWalk DEF Refused, listenerVars
<1>7. CASE EmitRoot
  <2>1. stage = "paid" /\ \E static \in BOOLEAN : EvmCall(static) \/ EvmCreate BY <1>7 DEF EmitRoot
  <2>2. PICK type \in ContextType : OpenContext(type) BY <1>1, <2>1, OpenCallIs, ListenerParts
  <2>3. context_stack # <<>> \/ (Blank /\ step_result_entry = <<>>)
    BY <2>1, Parts DEF DepthInv, PendingInv
  <2> QED BY <1>1, <2>2, <2>3, OpenWalk
<1>8. CASE EmitRecordCost BY <1>8, <1>1, Parts, SnapshotIs, CostWalk DEF EmitRecordCost, Executing
<1>9. CASE EmitTrap
  <2>1. PICK opcode \in Opcodes : StepResultTrap(opcode) BY <1>9 DEF EmitTrap
  <2> QED BY <1>1, <2>1, SameWalk DEF StepResultTrap
<1>10. CASE EmitPrecompileSubcall
  BY <1>1, <1>10, SameWalk DEF EmitPrecompileSubcall, PrecompileSubcall
<1>11. CASE EmitSubframe
  <2>1. stage = "running" /\ trap # "none" BY <1>11 DEF EmitSubframe
  <2>2. \E static \in BOOLEAN : EvmCall(static) \/ EvmCreate BY <1>11 DEF EmitSubframe
  <2>3. PICK type \in ContextType : OpenContext(type) BY <1>1, <2>2, OpenCallIs, ListenerParts
  <2>4. Current.phase # "stopped" BY <2>1, Parts DEF PendingInv
  <2>5. context_stack # <<>> BY <2>1, <2>4, RunningIs
  <2> QED BY <1>1, <2>3, <2>5, OpenWalk
<1>12. CASE EmitSuicide
  <2>1. stage = "running" /\ Current.phase # "stopped" /\ EvmSuicide
    BY <1>12 DEF EmitSuicide, Executing
  <2>2. context_stack # <<>> BY <2>1, RunningIs
  <2> QED BY <1>1, <2>1, <2>2, SuicideWalk
<1>13. CASE EmitStepResultExit BY <1>13, RunningIs, <1>1, StepResultExitWalk DEF EmitStepResultExit
<1>14. CASE EndFrame
  <2>1. PICK reason \in Reasons : EvmExit(reason) \/ UNCHANGED listenerVars BY <1>14 DEF EndFrame
  <2>2. CASE EvmExit(reason) BY <1>1, <2>2, ExitWalk
  <2>3. CASE UNCHANGED listenerVars BY <1>1, <2>3, SameWalk DEF listenerVars
  <2> QED BY <2>1, <2>2, <2>3
<1>15. CASE UNCHANGED vars BY <1>1, <1>15, SameWalk DEF vars, listenerVars
<1> QED BY <1>2, <1>3, <1>4, <1>5, <1>6, <1>7, <1>8, <1>9, <1>10, <1>11, <1>12, <1>13, <1>14, <1>15
  DEF Next

LEMMA WalkEnds == IInv /\ WalkInv /\ EndReplay => WalkInv'
<1> SUFFICES ASSUME IInv, WalkInv, EndReplay PROVE WalkInv' OBVIOUS
<1>1. stage = "idle" /\ stage' \in Callers /\ (FinishTransaction \/ UNCHANGED listenerVars)
  BY DEF EndReplay
<1>2. stage \notin Callers BY <1>1, CallersAssumption
<1>3. WalkNow /\ ListenerInv BY <1>2, Parts DEF WalkInv, WalkNow
<1>4. step_result_entry = <<>> /\ (record_transaction_event_only => Blank)
  BY <1>1, Parts DEF PendingInv
<1>5. CASE FinishTransaction
  <2>1. Walks(Known') /\ Ahead(Known', context_stack') BY <1>3, <1>4, <1>5, FinishWalk
  <2> QED BY <1>1, <2>1 DEF WalkInv
<1>6. CASE UNCHANGED listenerVars
  <2>1. WalkNow' BY <1>3, <1>6, SameWalk DEF listenerVars
  <2> QED BY <1>1, <2>1 DEF WalkInv, WalkNow
<1> QED BY <1>1, <1>5, <1>6

LEMMA WalkInit == Init => WalkInv
<1> SUFFICES ASSUME Init PROVE WalkInv OBVIOUS
<1>1. /\ entries = <<>> /\ context_stack = <<>> /\ step_result_entry = <<>>
      /\ DOMAIN <<>> = {}
  BY DEF Init, ListenerInit
<1>2. Blank BY <1>1 DEF Blank, LastMap
<1> QED BY <1>1, <1>2, BlankWalk DEF WalkInv, WalkNow

\* After the replay nothing happens any more.
LEMMA Over ==
    ASSUME stage \in Callers, [Next]_vars
    PROVE  UNCHANGED vars
<1>1. stage \in {"debug", "trace"} BY CallersAssumption
<1>2. ~Next BY <1>1
  DEF Next, EmitNew, EmitTransact, EmitRecordTransaction, Unpaid, Refused, EmitRoot,
      EmitRecordCost, EmitTrap, EmitPrecompileSubcall, EmitSubframe, EmitSuicide,
      EmitStepResultExit, EndFrame, EndReplay, Executing
<1> QED BY <1>2

LEMMA WalkNext == IInv /\ IInv' /\ WalkInv /\ [Next]_vars => WalkInv'
<1> SUFFICES ASSUME IInv, IInv', WalkInv, [Next]_vars PROVE WalkInv' OBVIOUS
<1>1. CASE EndReplay BY <1>1, WalkEnds
<1>2. CASE stage \in Callers
  <2>1. UNCHANGED vars BY <1>2, Over
  <2>2. /\ entries' = entries /\ UNCHANGED context_stack /\ stage' = stage
        /\ UNCHANGED step_result_entry
    BY <2>1 DEF vars, listenerVars, evmVars
  <2>3. Known' = Known BY <2>2 DEF Known, PendingPairs
  <2> QED BY <1>2, <2>2, <2>3 DEF WalkInv
<1>3. CASE stage \notin Callers /\ ~EndReplay
  <2>1. WalkNow' BY <1>3, WalkGoesOn
  <2> QED BY <2>1 DEF WalkInv, WalkNow
<1> QED BY <1>1, <1>2, <1>3

-----------------------------------------------------------------------------
\* The maps are finite.

LEMMA InsertedFinite ==
    ASSUME IsMaps(entries), Finite(entries), NEW key, NEW entry
    PROVE  Finite(Inserted(key, entry))
<1>1. PICK new, n, m : new = Inserted(key, entry) /\ n = Len(entries) /\ m = Len(new) OBVIOUS
<1>2. /\ IsMaps(new) /\ new # <<>> /\ (entries # <<>> => m = n) /\ (entries = <<>> => m = 1)
      /\ LastOf(new) = With(LastOf(entries), key, entry)
      /\ \A t \in 1..n : t # n => new[t] = entries[t]
  BY <1>1, InsertedIs
<1>3. n \in Nat /\ m \in Nat /\ LastOf(new) = new[m] BY <1>1, <1>2 DEF IsMaps, LastOf
<1>4. entries # <<>> => n \in 1..n BY <1>1, <1>3 DEF IsMaps
<1>5. IsFiniteSet(DOMAIN LastOf(entries))
  <2>1. CASE entries = <<>> BY <2>1, FS_EmptySet DEF LastOf
  <2>2. CASE entries # <<>> BY <1>1, <1>4, <2>2 DEF LastOf, Finite
  <2> QED BY <2>1, <2>2
<1>6. PICK last : last = LastOf(entries) OBVIOUS
<1>7. DOMAIN With(last, key, entry) = DOMAIN last \cup {key} BY DEF With
<1>8. IsFiniteSet(DOMAIN new[m])
  <2>1. PICK D : D = DOMAIN last /\ IsFiniteSet(D) BY <1>5, <1>6
  <2>2. IsFiniteSet(D \cup {key}) BY <2>1, FS_AddElement
  <2> QED BY <1>2, <1>3, <1>6, <1>7, <2>1, <2>2
<1>9. \A t \in 1..m : t = m \/ (t \in 1..n /\ t # n) BY <1>2, <1>3
<1>10. \A t \in 1..m : IsFiniteSet(DOMAIN new[t]) BY <1>1, <1>2, <1>8, <1>9 DEF Finite
<1> QED BY <1>1, <1>10 DEF Finite

LEMMA FinishedFinite ==
    ASSUME IsMaps(entries), Finite(entries)
    PROVE  Finite(FinishedEntries)
  BY InsertedFinite DEF FinishedEntries

LEMMA FiniteNext == IInv /\ Finite(entries) /\ [Next]_vars => Finite(entries')
<1> SUFFICES ASSUME IInv, Finite(entries), [Next]_vars PROVE Finite(entries') OBVIOUS
<1>1. ListenerInv /\ IsMaps(entries) BY Parts, ListenerParts DEF MapsAre
<1>2. CASE entries' = entries BY <1>2
<1>3. CASE \E key, entry : entries' = Inserted(key, entry) BY <1>1, <1>3, InsertedFinite
<1>4. CASE entries' = FinishedEntries BY <1>1, <1>4, FinishedFinite
<1>5. CASE entries' = Append(FinishedEntries, <<>>)
  <2>1. PICK F, new, n : F = FinishedEntries /\ new = Append(F, <<>>) /\ n = Len(F) OBVIOUS
  <2>2. IsMaps(F)
    <3>1. FinishedEntries = entries \/ \E key, entry : FinishedEntries = Inserted(key, entry)
      BY DEF FinishedEntries
    <3> QED BY <1>1, <2>1, <3>1, InsertedIs
  <2>3. n \in Nat /\ F = [t \in 1..n |-> F[t]] BY <2>1, <2>2 DEF IsMaps
  <2>4. Len(new) = n + 1 /\ new[n + 1] = <<>> /\ \A t \in 1..n : new[t] = F[t]
    BY <2>1, <2>3, AppendAny
  <2>5. \A t \in 1..(n + 1) : t \in 1..n \/ t = n + 1 BY <2>3
  <2>6. DOMAIN <<>> = {} /\ IsFiniteSet({}) BY FS_EmptySet
  <2>7. \A t \in 1..n : IsFiniteSet(DOMAIN F[t]) BY <1>1, <2>1, FinishedFinite DEF Finite
  <2>8. \A t \in 1..(n + 1) : IsFiniteSet(DOMAIN new[t]) BY <2>4, <2>5, <2>6, <2>7
  <2> QED BY <1>5, <2>1, <2>4, <2>8 DEF Finite
<1>6. \/ entries' = entries \/ (\E key, entry : entries' = Inserted(key, entry))
      \/ entries' = FinishedEntries \/ entries' = Append(FinishedEntries, <<>>)
  <2>1. ASSUME NEW type, OpenContext(type) PROVE entries' = entries BY <2>1 DEF OpenContext
  <2>2. CASE EmitNew BY <2>2 DEF EmitNew, CallListNew
  <2>3. CASE EmitTransact BY <2>3 DEF EmitTransact, Transact
  <2>4. CASE EmitRecordTransaction BY <2>4 DEF EmitRecordTransaction, RecordTransaction
  <2>5. CASE Unpaid BY <2>5 DEF Unpaid, EvmExit, listenerVars
  <2>6. CASE Refused BY <2>6 DEF Refused, listenerVars
  <2>7. CASE EmitRoot BY <2>1, <2>7 DEF EmitRoot, EvmCall, EvmCreate
  <2>8. CASE EmitRecordCost BY <2>8 DEF EmitRecordCost, RecordCost
  <2>9. CASE EmitTrap BY <2>9 DEF EmitTrap, StepResultTrap
  <2>10. CASE EmitPrecompileSubcall BY <2>10 DEF EmitPrecompileSubcall, PrecompileSubcall
  <2>11. CASE EmitSubframe BY <2>1, <2>11 DEF EmitSubframe, EvmCall, EvmCreate
  <2>12. CASE EmitSuicide BY <2>12 DEF EmitSuicide, EvmSuicide
  <2>13. CASE EmitStepResultExit BY <2>13 DEF EmitStepResultExit, StepResultExit
  <2>14. CASE EndFrame BY <2>14 DEF EndFrame, EvmExit, listenerVars
  <2>15. CASE EndReplay BY <2>15 DEF EndReplay, FinishTransaction, listenerVars
  <2>16. CASE UNCHANGED vars BY <2>16 DEF vars, listenerVars
  <2> QED
    BY <2>2, <2>3, <2>4, <2>5, <2>6, <2>7, <2>8, <2>9, <2>10, <2>11, <2>12, <2>13, <2>14, <2>15,
       <2>16 DEF Next
<1> QED BY <1>2, <1>3, <1>4, <1>5, <1>6

LEMMA FiniteInit == Init => Finite(entries)
  BY DEF Init, ListenerInit, Finite

-----------------------------------------------------------------------------
\* blockscout.

\* A map whose keys are in the order of a walk is listed in that order.
LEMMA ListWalks ==
    ASSUME NEW map, Typed(map), IsFiniteSet(DOMAIN map), Walks(PairsOf(map)), HasRoot(map),
           Unique(map), NEW list, list = InOrder(map)
    PROVE  /\ Len(list) \in Nat /\ Len(list) # 0 /\ list # <<>>
           /\ list[1].trace_address = <<>>
           /\ \A i \in 1..(Len(list) - 1) :
                 WalkedBefore(list[i].trace_address, list[i + 1].trace_address)
<1>1. PICK K, n : K = DOMAIN map /\ n = Cardinality(K) OBVIOUS
<1>2. K \in SUBSET Nat /\ IsFiniteSet(K) /\ n \in Nat BY <1>1, FS_CardinalityType DEF Typed
<1>3. list = [i \in 1..n |-> map[Nth(K, i)]] BY <1>1 DEF InOrder
<1>4. Len(list) = n BY <1>2, <1>3
<1>5. \A i \in 1..n : Nth(K, i) \in K /\ list[i] = map[Nth(K, i)]
  <2> SUFFICES ASSUME NEW i \in 1..n PROVE Nth(K, i) \in K /\ list[i] = map[Nth(K, i)] OBVIOUS
  <2>1. Nth(K, i) \in K BY <1>1, <1>2, NthOf
  <2> QED BY <1>3, <2>1
<1>6. \A x, y \in K : x < y => WalkedBefore(map[x].trace_address, map[y].trace_address)
  <2> SUFFICES ASSUME NEW x \in K, NEW y \in K, x < y
               PROVE  WalkedBefore(map[x].trace_address, map[y].trace_address)
    OBVIOUS
  <2>1. PICK v, w : v = <<x, map[x].trace_address>> /\ w = <<y, map[y].trace_address>> OBVIOUS
  <2>2. v \in PairsOf(map) /\ w \in PairsOf(map) BY <1>1, <2>1 DEF PairsOf
  <2>3. v[1] = x /\ v[2] = map[x].trace_address /\ w[1] = y /\ w[2] = map[y].trace_address BY <2>1
  <2> QED BY <2>2, <2>3 DEF Walks
<1>7. ASSUME NEW i \in 1..(n - 1)
      PROVE  WalkedBefore(list[i].trace_address, list[i + 1].trace_address)
  <2>1. i \in 1..n /\ i + 1 \in 1..n /\ i < i + 1 BY <1>2
  <2>2. Nth(K, i) < Nth(K, i + 1) BY <1>1, <1>2, <2>1, NthGrows
  <2> QED BY <1>5, <1>6, <2>1, <2>2
<1>8. PICK k \in K : map[k].trace_address = <<>> BY <1>1 DEF HasRoot, PathsOf
<1>9. PICK i \in 1..n : Nth(K, i) = k BY <1>1, <1>2, PlaceOf
<1>10. n # 0 /\ 1 \in 1..n BY <1>2
<1>11. list # <<>> BY <1>3, <1>10
<1>12. list[1].trace_address = <<>>
  <2>1. CASE i = 1 BY <1>5, <1>8, <1>9, <1>10, <2>1
  <2>2. CASE i # 1
    <3>1. 1 < i BY <1>2, <2>2
    <3>2. Nth(K, 1) < Nth(K, i) BY <1>1, <1>2, <1>10, <3>1, NthGrows
    <3>3. WalkedBefore(map[Nth(K, 1)].trace_address, <<>>) BY <1>5, <1>6, <1>8, <1>9, <1>10, <3>2
    <3>4. Len(<<>>) = 0 /\ 1..0 = {} OBVIOUS
    <3> QED BY <3>3, <3>4 DEF WalkedBefore
  <2> QED BY <2>1, <2>2
<1> QED BY <1>4, <1>7, <1>10, <1>11, <1>12

\* debug_traceTransaction for Blockscout: for any block, on every runtime, the list
\* of the last transaction starts with its outermost call and walks its call tree.
THEOREM WalkCorrect == Spec => []BlockscoutWalksTheTree
<1>1. IInv /\ RootIInv /\ WalkInv /\ Finite(entries) => BlockscoutWalksTheTree
  <2> SUFFICES ASSUME IInv, RootIInv, WalkInv, Finite(entries), stage = "debug", tree[Tx] # <<>>
               PROVE  LET answer == BlockscoutFormat(entries)
                      IN  /\ answer # <<>>
                          /\ answer[1].trace_address = <<>>
                          /\ \A i \in 1..(Len(answer) - 1) :
                                WalkedBefore(answer[i].trace_address, answer[i + 1].trace_address)
    BY DEF BlockscoutWalksTheTree
  <2>1. /\ RootsUpTo(entries, Tx) /\ OneMapEach(entries) /\ MapsAre(entries)
        /\ Tx \in Nat
    BY RootParts, Parts, ListenerParts
  <2>2. Tx # 0 BY Parts DEF StagesInv
  <2>3. PICK x, n, map : x = Tx /\ n = Len(entries) /\ map = entries[n] OBVIOUS
  <2>4. x \in 1..x /\ n \in Nat /\ x - (x - n) = n /\ x \in Nat
    BY <2>1, <2>2, <2>3 DEF MapsAre, IsMaps
  <2>5. Shown(x) BY <2>3 DEF Shown
  <2>6. x > x - n /\ HasRoot(entries[x - (x - n)]) BY <2>1, <2>3, <2>4, <2>5 DEF RootsUpTo, RootOf
  <2>7. HasRoot(map) /\ n \in 1..n BY <2>3, <2>4, <2>6
  <2>8. entries # <<>> /\ LastOf(entries) = map /\ BlockscoutFormat(entries) = InOrder(map)
    <3>1. Len(<<>>) = 0 OBVIOUS
    <3> QED BY <2>3, <2>7, <3>1 DEF LastOf, BlockscoutFormat, Last
  <2>9. Typed(map) /\ Unique(map) /\ IsFiniteSet(DOMAIN map) BY <2>1, <2>3, <2>7 DEF MapsAre, Finite
  <2>10. Walks(PairsOf(map)) BY <2>8 DEF WalkInv, Walks, Known
  <2>11. PICK list : list = InOrder(map) OBVIOUS
  <2>12. /\ list # <<>> /\ list[1].trace_address = <<>>
         /\ \A i \in 1..(Len(list) - 1) :
               WalkedBefore(list[i].trace_address, list[i + 1].trace_address)
    BY <2>7, <2>9, <2>10, <2>11, ListWalks
  <2> QED BY <2>8, <2>11, <2>12
<1>2. Finite(entries)' <=> Finite(entries') BY DEF Finite
<1> QED BY <1>1, <1>2, InitKeeps, NextKeeps, RootInit, RootNext, UnmarkedInit, UnmarkedNext, WalkInit,
     WalkNext, FiniteInit, FiniteNext, PTL DEF Spec

-----------------------------------------------------------------------------
\* Flattening.

LEMMA FlatMore ==
    ASSUME NEW seqs, NEW n \in Nat, NEW f, FlatRounds(seqs, f, n)
    PROVE  \E g : FlatRounds(seqs, g, n + 1)
<1>1. PICK g : g = [i \in 1..(n + 1) |->
                      IF i = n + 1
                      THEN IF i = 1 THEN seqs[i] ELSE f[i - 1] \o seqs[i]
                      ELSE f[i]]
  OBVIOUS
<1>2. /\ \A i \in 1..(n + 1) : i = n + 1 \/ i \in 1..n
      /\ \A i \in 1..(n + 1) : i # 1 => i - 1 \in 1..n /\ i - 1 \in 1..(n + 1) /\ i - 1 # n + 1
      /\ \A i \in 1..n : i \in 1..(n + 1) /\ i # n + 1
  OBVIOUS
<1>3. \A i \in 1..n : g[i] = f[i] BY <1>1, <1>2
<1>4. \A i \in 1..n : f[i] = IF i = 1 THEN seqs[i] ELSE f[i - 1] \o seqs[i] BY DEF FlatRounds
<1>5. ASSUME NEW i \in 1..(n + 1)
      PROVE  g[i] = IF i = 1 THEN seqs[i] ELSE g[i - 1] \o seqs[i]
  <2>1. i # 1 => g[i - 1] = f[i - 1] BY <1>2, <1>3
  <2>2. CASE i = n + 1 BY <1>1, <2>1, <2>2
  <2>3. CASE i \in 1..n BY <1>3, <1>4, <2>1, <2>3
  <2> QED BY <1>2, <2>2, <2>3
<1>6. g = [i \in 1..(n + 1) |-> g[i]] BY <1>1
<1>7. FlatRounds(seqs, g, n + 1) BY <1>5, <1>6 DEF FlatRounds
<1> QED BY <1>7

LEMMA FlatExists ==
    ASSUME NEW seqs, NEW n \in Nat
    PROVE  \E f : FlatRounds(seqs, f, n)
<1> SUFFICES ASSUME ~\E f : FlatRounds(seqs, f, n) PROVE FALSE OBVIOUS
<1>1. PICK T : T = {m \in Nat : ~\E f : FlatRounds(seqs, f, m)} OBVIOUS
<1>2. PICK m \in T : \A y \in T : m <= y BY <1>1, LeastNumber
<1>3. m \in Nat /\ ~\E f : FlatRounds(seqs, f, m) BY <1>1
<1>4. CASE m = 0
  <2>1. PICK f : f = [i \in 1..0 |-> 0] OBVIOUS
  <2>2. FlatRounds(seqs, f, 0) BY <2>1 DEF FlatRounds
  <2> QED BY <1>3, <1>4, <2>2
<1>5. CASE m # 0
  <2>1. PICK l : l = m - 1 /\ l \in Nat /\ m = l + 1 /\ ~(m <= l) BY <1>3, <1>5
  <2>2. \E f : FlatRounds(seqs, f, l) BY <1>1, <1>2, <2>1
  <2> QED BY <1>3, <2>1, <2>2, FlatMore
<1> QED BY <1>4, <1>5

LEMMA FlatIs ==
    ASSUME NEW seqs, Len(seqs) \in Nat, Len(seqs) # 0
    PROVE  \E f : FlatRounds(seqs, f, Len(seqs)) /\ FlattenSeq(seqs) = f[Len(seqs)]
<1>1. PICK n : n = Len(seqs) OBVIOUS
<1>2. \E f : f = [i \in 1..n |-> IF i = 1 THEN seqs[i] ELSE f[i - 1] \o seqs[i]]
  <2>1. n \in Nat BY <1>1
  <2>2. \E f : FlatRounds(seqs, f, n) BY <2>1, FlatExists
  <2>3. PICK f : FlatRounds(seqs, f, n) BY <2>2
  <2>4. f = [i \in 1..n |-> IF i = 1 THEN seqs[i] ELSE f[i - 1] \o seqs[i]] BY <2>3 DEF FlatRounds
  <2> QED BY <2>4
<1>3. PICK f : f = CHOOSE g : g = [i \in 1..n |-> IF i = 1 THEN seqs[i] ELSE g[i - 1] \o seqs[i]]
  OBVIOUS
<1>4. f = [i \in 1..n |-> IF i = 1 THEN seqs[i] ELSE f[i - 1] \o seqs[i]] BY <1>2, <1>3
<1>5. FlattenSeq(seqs) = f[n] BY <1>1, <1>3 DEF FlattenSeq
<1> QED BY <1>1, <1>4, <1>5 DEF FlatRounds

LEMMA ConcatElements ==
    ASSUME NEW S, NEW a \in Seq(S), NEW b \in Seq(S)
    PROVE  a \o b \in Seq(S) /\ Elements(a \o b) = Elements(a) \cup Elements(b)
<1>1. PICK c, l, m : c = a \o b /\ l = Len(a) /\ m = Len(b) OBVIOUS
<1>2. l \in Nat /\ m \in Nat /\ c \in Seq(S) /\ Len(c) = l + m BY <1>1
<1>3. \A i \in 1..l : c[i] = a[i] BY <1>1
<1>4. \A i \in 1..m : c[l + i] = b[i] BY <1>1
<1>5. /\ \A i \in 1..(l + m) : i \in 1..l \/ (i - l \in 1..m /\ l + (i - l) = i)
      /\ \A i \in 1..l : i \in 1..(l + m)
      /\ \A i \in 1..m : l + i \in 1..(l + m)
  BY <1>2
<1>6. Elements(c) \subseteq Elements(a) \cup Elements(b)
  <2> SUFFICES ASSUME NEW i \in 1..(l + m) PROVE c[i] \in Elements(a) \cup Elements(b)
    BY <1>2 DEF Elements
  <2>1. CASE i \in 1..l BY <1>1, <1>3, <2>1 DEF Elements
  <2>2. CASE i - l \in 1..m /\ l + (i - l) = i
    <3>1. c[i] = b[i - l] BY <1>4, <2>2
    <3> QED BY <1>1, <2>2, <3>1 DEF Elements
  <2> QED BY <1>5, <2>1, <2>2
<1>7. Elements(a) \subseteq Elements(c) BY <1>1, <1>2, <1>3, <1>5 DEF Elements
<1>8. Elements(b) \subseteq Elements(c) BY <1>1, <1>2, <1>4, <1>5 DEF Elements
<1> QED BY <1>1, <1>2, <1>6, <1>7, <1>8

\* A flattened sequence has the elements of its parts.
LEMMA FlatElements ==
    ASSUME NEW S, NEW seqs, Len(seqs) \in Nat, DOMAIN seqs = 1..Len(seqs),
           \A t \in 1..Len(seqs) : seqs[t] \in Seq(S)
    PROVE  /\ FlattenSeq(seqs) \in Seq(S)
           /\ \A x : x \in Elements(FlattenSeq(seqs))
                       <=> \E t \in 1..Len(seqs) : x \in Elements(seqs[t])
<1>1. PICK n : n = Len(seqs) /\ n \in Nat OBVIOUS
<1>2. CASE n = 0
  <2>1. FlattenSeq(seqs) = seqs /\ 1..0 = {} BY <1>1, <1>2 DEF FlattenSeq
  <2>2. seqs \in Seq(S) BY <1>1, <1>2, <2>1
  <2> QED BY <1>1, <1>2, <2>1, <2>2 DEF Elements
<1>3. CASE n # 0
  <2>1. PICK f : FlatRounds(seqs, f, n) /\ FlattenSeq(seqs) = f[n] BY <1>1, <1>3, FlatIs
  <2>2. \A i \in 1..n : f[i] = IF i = 1 THEN seqs[i] ELSE f[i - 1] \o seqs[i] BY <2>1 DEF FlatRounds
  <2> DEFINE Good(m) == /\ f[m] \in Seq(S)
                        /\ \A x : x \in Elements(f[m]) <=> \E t \in 1..m : x \in Elements(seqs[t])
  <2>3. \A m \in 1..n : Good(m)
    <3> SUFFICES ASSUME ~\A m \in 1..n : Good(m) PROVE FALSE OBVIOUS
    <3>1. PICK T : T = {m \in Nat : m \in 1..n /\ ~Good(m)} OBVIOUS
    <3>2. T # {} /\ T \in SUBSET Nat BY <3>1
    <3>3. PICK m \in T : \A y \in T : m <= y BY <3>2, LeastNumber
    <3>4. m \in 1..n /\ ~Good(m) /\ m \in Nat BY <3>1, <3>3
    <3>5. CASE m = 1 BY <2>2, <3>4, <3>5, <1>1
    <3>6. CASE m # 1
      <4>1. PICK l : l = m - 1 OBVIOUS
      <4>2. /\ l \in 1..n /\ l \in Nat /\ ~(m <= l) /\ m = l + 1
            /\ \A t \in 1..m : t = m \/ t \in 1..l
            /\ \A t \in 1..l : t \in 1..m
            /\ m \in 1..m
        BY <1>1, <3>4, <3>6, <4>1
      <4>3. Good(l) BY <3>1, <3>3, <4>2
      <4>4. f[m] = f[l] \o seqs[m] /\ seqs[m] \in Seq(S) /\ f[l] \in Seq(S)
        BY <1>1, <2>2, <3>4, <3>6, <4>1, <4>3
      <4>5. f[m] \in Seq(S) /\ Elements(f[m]) = Elements(f[l]) \cup Elements(seqs[m])
        BY <4>4, ConcatElements
      <4>6. \A x : x \in Elements(f[l]) <=> \E t \in 1..l : x \in Elements(seqs[t]) BY <4>3
      <4>7. \A x : x \in Elements(f[m]) <=> \E t \in 1..m : x \in Elements(seqs[t])
        BY <4>2, <4>5, <4>6
      <4> QED BY <3>4, <4>5, <4>7
    <3> QED BY <3>5, <3>6
  <2>4. Good(n)
    <3>1. n \in 1..n BY <1>1, <1>3
    <3> HIDE DEF Good
    <3> QED BY <2>3, <3>1
  <2> QED BY <1>1, <2>1, <2>4
<1> QED BY <1>2, <1>3

\* A map is listed with all of its entries.
LEMMA ListElements ==
    ASSUME NEW map, Typed(map), IsFiniteSet(DOMAIN map)
    PROVE  /\ Len(InOrder(map)) \in Nat /\ DOMAIN InOrder(map) = 1..Len(InOrder(map))
           /\ Len(InOrder(map)) = Cardinality(DOMAIN map)
           /\ \A e : e \in Elements(InOrder(map)) <=> \E k \in DOMAIN map : e = map[k]
<1>1. PICK K, n, list : K = DOMAIN map /\ n = Cardinality(K) /\ list = InOrder(map) OBVIOUS
<1>2. K \in SUBSET Nat /\ IsFiniteSet(K) /\ n \in Nat BY <1>1, FS_CardinalityType DEF Typed
<1>3. list = [i \in 1..n |-> map[Nth(K, i)]] BY <1>1 DEF InOrder
<1>4. Len(list) = n /\ DOMAIN list = 1..n BY <1>2, <1>3
<1>5. ASSUME NEW i \in 1..n PROVE Nth(K, i) \in K /\ list[i] = map[Nth(K, i)]
  <2>1. Nth(K, i) \in K BY <1>1, <1>2, NthOf
  <2> QED BY <1>3, <2>1
<1>6. ASSUME NEW k \in K PROVE \E i \in 1..n : list[i] = map[k]
  <2>1. PICK i \in 1..n : Nth(K, i) = k BY <1>1, <1>2, PlaceOf
  <2> QED BY <1>5, <2>1
<1>7. \A e : e \in Elements(list) <=> \E k \in K : e = map[k] BY <1>4, <1>5, <1>6 DEF Elements
<1> QED BY <1>1, <1>2, <1>4, <1>7

-----------------------------------------------------------------------------
\* trace_filter.

LEMMA FilterTraceIs ==
    ASSUME NEW entry, NEW position
    PROVE  /\ FilterTraceOf(entry, position).trace_address = entry.trace_address
           /\ FilterTraceOf(entry, position).transaction_position = position
  BY DEF FilterTraceOf

LEMMA FilterPartsAre ==
    ASSUME NEW maps, RetainedOK(maps), NEW t \in 1..Len(maps)
    PROVE  FilteredFrom(FilterParts(maps)[t], maps[t], t - 1)
<1>1. PICK map, list, n, part :
         /\ map = maps[t] /\ list = InOrder(map) /\ n = Len(list)
         /\ part = [i \in 1..n |-> FilterTraceOf(list[i], t - 1)]
  OBVIOUS
<1>2. FilterParts(maps)[t] = part BY <1>1 DEF FilterParts
<1>3. /\ n \in Nat /\ \A e : e \in Elements(list) <=> \E k \in DOMAIN map : e = map[k]
  BY <1>1, ListElements DEF RetainedOK
<1>4. Len(part) = n /\ DOMAIN part = 1..n /\ \A i \in 1..n : part[i] = FilterTraceOf(list[i], t - 1)
  BY <1>1, <1>3
<1>5. \A x : x \in Elements(part) <=> \E i \in 1..n : x = FilterTraceOf(list[i], t - 1)
  BY <1>4 DEF Elements
<1>6. \A i \in 1..n : \E k \in DOMAIN map : list[i] = map[k] BY <1>1, <1>3, ZenonT(60) DEF Elements
<1>7. \A k \in DOMAIN map : \E i \in 1..n : list[i] = map[k] BY <1>1, <1>3, SMTT(30) DEF Elements
<1>8. \A x : x \in Elements(part) <=> \E k \in DOMAIN map : x = FilterTraceOf(map[k], t - 1)
  BY <1>5, <1>6, <1>7
<1> QED BY <1>1, <1>2, <1>3, <1>4, <1>8 DEF FilteredFrom

\* The traces of the answer are those of the maps that are retained.
LEMMA TracesAre ==
    ASSUME NEW maps, NEW retained, retained = RetainFilled(maps), RetainedOK(retained)
    PROVE  Shows(TraceFilterFormat(maps), retained)
<1>1. PICK parts, n, answer : /\ parts = FilterParts(retained) /\ n = Len(retained)
                              /\ answer = TraceFilterFormat(maps)
  OBVIOUS
<1>2. n \in Nat /\ answer = FlattenSeq(parts) BY <1>1 DEF TraceFilterFormat, FilterParts, RetainedOK
<1>3. Len(parts) = n /\ DOMAIN parts = 1..n BY <1>1, <1>2 DEF FilterParts
<1>4. PICK S : S = UNION {Elements(parts[t]) : t \in 1..n} OBVIOUS
<1>5. ASSUME NEW t \in 1..n PROVE parts[t] \in Seq(S)
  <2>1. PICK s : s = parts[t] /\ Len(s) \in Nat /\ DOMAIN s = 1..Len(s)
    BY <1>1, FilterPartsAre DEF FilteredFrom
  <2>2. \A i \in 1..Len(s) : s[i] \in S BY <1>4, <2>1 DEF Elements
  <2>3. s = [i \in 1..Len(s) |-> s[i]] BY <1>1, <2>1 DEF FilterParts
  <2> QED BY <2>1, <2>2, <2>3
<1>6. /\ answer \in Seq(S)
      /\ \A x : x \in Elements(answer) <=> \E t \in 1..n : x \in Elements(parts[t])
  BY <1>2, <1>3, <1>5, FlatElements
<1>7. Range(answer) = Elements(answer)
  <2>1. DOMAIN answer = 1..Len(answer) BY <1>6
  <2> QED BY <2>1 DEF Range, Elements
<1>8. \A t \in 1..n : \A x : x \in Elements(parts[t])
                               <=> \E k \in DOMAIN retained[t] : x = FilterTraceOf(retained[t][k], t - 1)
  <2> SUFFICES ASSUME NEW t \in 1..n
               PROVE  \A x : x \in Elements(parts[t])
                               <=> \E k \in DOMAIN retained[t] : x = FilterTraceOf(retained[t][k], t - 1)
    OBVIOUS
  <2>1. t \in 1..Len(retained) BY <1>1
  <2>2. FilteredFrom(FilterParts(retained)[t], retained[t], t - 1) BY <2>1, FilterPartsAre
  <2> QED BY <1>1, <2>2 DEF FilteredFrom
<1>9. ASSUME NEW x
      PROVE  x \in Range(answer)
               <=> \E i \in 1..n : \E k \in DOMAIN retained[i] : x = FilterTraceOf(retained[i][k], i - 1)
  <2>1. ASSUME x \in Range(answer)
        PROVE  \E i \in 1..n : \E k \in DOMAIN retained[i] : x = FilterTraceOf(retained[i][k], i - 1)
    <3>1. PICK i \in 1..n : x \in Elements(parts[i]) BY <1>6, <1>7, <2>1
    <3> QED BY <1>8, <3>1
  <2>2. ASSUME NEW i \in 1..n, NEW k \in DOMAIN retained[i], x = FilterTraceOf(retained[i][k], i - 1)
        PROVE  x \in Range(answer)
    <3>1. x \in Elements(parts[i]) BY <1>8, <2>2
    <3> QED BY <1>6, <1>7, <3>1
  <2> QED BY <2>1, <2>2
<1>10. Shows(answer, retained) BY <1>1, <1>9 DEF Shows
<1> QED BY <1>1, <1>10

\* The maps that trace_filter retains.
LEMMA RetainedAre ==
    ASSUME MapsAre(entries), Finite(entries), NEW K, K = Kept(entries), NEW R, R = Filled(entries)
    PROVE  /\ K \in SUBSET Nat /\ IsFiniteSet(K) /\ K = {k \in 1..Len(entries) : DOMAIN entries[k] # {}}
           /\ Cardinality(K) \in Nat /\ Len(R) = Cardinality(K)
           /\ \A i \in 1..Cardinality(K) : R[i] = entries[Nth(K, i)]
           /\ RetainedOK(R) /\ R = RetainFilled(entries)
<1>1. PICK E, n, c : E = entries /\ n = Len(E) /\ c = Cardinality(K) OBVIOUS
<1>2. n \in Nat /\ DOMAIN E = 1..n
  <2>1. MapsAre(E) /\ DOMAIN E = 1..Len(E) BY <1>1 DEF MapsAre, IsMaps
  <2> QED BY <1>1, <2>1 DEF MapsAre, IsMaps
<1>3. K = {k \in 1..n : DOMAIN E[k] # {}} BY <1>1, <1>2 DEF Kept
<1>4. IsFiniteSet(K) /\ c \in Nat /\ K \in SUBSET Nat
  <2>1. IsFiniteSet(1..n) /\ K \in SUBSET (1..n) BY <1>2, <1>3, FS_Interval
  <2>2. \A k \in 1..n : k \in Nat BY <1>2
  <2> QED BY <1>1, <2>1, <2>2, FS_Subset, FS_CardinalityType
<1>5. R = [i \in 1..c |-> E[Nth(K, i)]] BY <1>1 DEF Filled
<1>6. Len(R) = c /\ DOMAIN R = 1..c /\ \A i \in 1..c : R[i] = E[Nth(K, i)] BY <1>4, <1>5
<1>7. ASSUME NEW i \in 1..c PROVE Typed(R[i]) /\ IsFiniteSet(DOMAIN R[i])
  <2>1. Nth(K, i) \in K BY <1>1, <1>4, NthOf
  <2>2. Nth(K, i) \in 1..Len(entries) BY <1>1, <1>3, <2>1
  <2> QED BY <1>1, <1>6, <2>2 DEF MapsAre, Finite
<1>8. RetainedOK(R) BY <1>4, <1>6, <1>7 DEF RetainedOK
<1> QED BY <1>1, <1>3, <1>4, <1>6, <1>8 DEF RetainFilled

\* The traces at the place of a transaction are the entries of its map, when the maps
\* up to it are filled for the transactions that were executed, and for no other.
LEMMA TracesAt ==
    ASSUME MapsAre(entries), Finite(entries), Tx \in Nat, NEW t \in EthTransactions,
           NEW o \in Int, o + Len(entries) = Tx, o >= 0, FilledUpTo(t, o)
    PROVE  HasTraces(TracesOf(TraceFilterFormat(entries), t), entries[t - o], Place(t))
<1>1. PICK E, n, X, K, R, a, A, B :
         /\ E = entries /\ n = Len(E) /\ X = Tx /\ K = Kept(entries) /\ R = Filled(entries)
         /\ a = t - o /\ A = {u \in K : u < a} /\ B = {v \in EthTransactions : v < t}
  OBVIOUS
<1>2. /\ K \in SUBSET Nat /\ IsFiniteSet(K) /\ K = {k \in 1..n : DOMAIN E[k] # {}}
      /\ Cardinality(K) \in Nat /\ Len(R) = Cardinality(K)
      /\ \A i \in 1..Cardinality(K) : R[i] = E[Nth(K, i)]
      /\ RetainedOK(R) /\ R = RetainFilled(entries)
  BY <1>1, RetainedAre
<1>3. n \in Nat /\ X \in Nat /\ o + n = X /\ t \in 1..X
  BY <1>1 DEF EthTransactions, MapsAre, IsMaps
<1>f. \A u \in 1..t : u \in EthTransactions <=> u > o /\ DOMAIN E[u - o] # {}
  BY <1>1 DEF FilledUpTo
<1>4. a \in K
  <2>1. t \in 1..t BY <1>3
  <2>2. t > o /\ DOMAIN E[a] # {} BY <1>1, <1>f, <2>1
  <2>3. a \in 1..n BY <1>1, <1>3, <2>2
  <2> QED BY <1>2, <2>2, <2>3
<1>5. PICK i \in 1..Cardinality(K) : Nth(K, i) = a BY <1>2, <1>4, PlaceOf
<1>6. Cardinality(A) = i - 1 BY <1>1, <1>2, <1>5, NthOf
<1>7. B = {u + o : u \in A}
  <2>1. ASSUME NEW v \in B PROVE \E u \in A : v = u + o
    BY <1>1, <1>3, <1>f, <1>2, SMTT(30) DEF EthTransactions
  <2>2. ASSUME NEW u \in A PROVE u + o \in B
    <3>1. u \in 1..n /\ u < a /\ DOMAIN E[u] # {} BY <1>1, <1>2
    <3>2. PICK v : v = u + o /\ v \in 1..t /\ v < t /\ v > o /\ v - o = u BY <1>1, <1>3, <3>1
    <3>3. v \in EthTransactions BY <1>f, <3>1, <3>2
    <3> QED BY <1>1, <3>2, <3>3
  <2> QED BY <2>1, <2>2
<1>8. Place(t) = i - 1
  <2>1. A \in SUBSET Int /\ IsFiniteSet(A) BY <1>1, <1>2, FS_Subset
  <2>2. Cardinality(B) = Cardinality(A) BY <1>7, <2>1, ShiftedSize
  <2> QED BY <1>1, <1>6, <2>2 DEF Place
<1>9. R[i] = E[a] BY <1>2, <1>5
<1>10. Shows(TraceFilterFormat(entries), R) BY <1>2, TracesAre
<1>11. ASSUME NEW x, x \in TracesOf(TraceFilterFormat(entries), t)
       PROVE  \E k \in DOMAIN E[a] : x = FilterTraceOf(E[a][k], i - 1)
  <2>1. x \in Range(TraceFilterFormat(entries)) /\ x.transaction_position = i - 1
    BY <1>8, <1>11 DEF TracesOf
  <2>2. PICK j \in 1..Len(R) : \E k \in DOMAIN R[j] : x = FilterTraceOf(R[j][k], j - 1)
    BY <1>10, <2>1 DEF Shows
  <2>3. PICK k \in DOMAIN R[j] : x = FilterTraceOf(R[j][k], j - 1) BY <2>2
  <2>4. j - 1 = i - 1 BY <2>1, <2>3, FilterTraceIs
  <2>5. j = i BY <1>2, <2>4
  <2> QED BY <1>9, <2>3, <2>5
<1>12. ASSUME NEW k \in DOMAIN E[a]
       PROVE  FilterTraceOf(E[a][k], i - 1) \in TracesOf(TraceFilterFormat(entries), t)
  <2>1. PICK x : x = FilterTraceOf(R[i][k], i - 1) OBVIOUS
  <2>2. k \in DOMAIN R[i] /\ i \in 1..Len(R) BY <1>2, <1>9, <1>12
  <2>3. x \in Range(TraceFilterFormat(entries)) BY <1>10, <2>1, <2>2 DEF Shows
  <2>4. x.transaction_position = Place(t) BY <1>8, <2>1, FilterTraceIs
  <2> QED BY <1>9, <2>1, <2>3, <2>4 DEF TracesOf
<1>13. HasTraces(TracesOf(TraceFilterFormat(entries), t), E[a], i - 1) BY <1>11, <1>12 DEF HasTraces
<1> QED BY <1>1, <1>8, <1>13

\* A trace and that of the node its entry is the same as.
LEMMA UnpricedSame ==
    ASSUME NEW entry, NEW node, NEW position, Same(entry, node)
    PROVE  Unpriced(FilterTraceOf(entry, position)) = Unpriced(FilterTraceOf(node, position))
<1>1. PICK x, y : x = FilterTraceOf(entry, position) /\ y = FilterTraceOf(node, position) OBVIOUS
<1>2. /\ x.action = y.action /\ x.subtraces = y.subtraces
      /\ x.trace_address = y.trace_address /\ x.trace_address = entry.trace_address
      /\ x.transaction_position = y.transaction_position
  BY <1>1 DEF FilterTraceOf, Same
<1>3. CASE entry.trace_address # <<>>
  <2>1. x = y BY <1>1, <1>3 DEF FilterTraceOf, Same
  <2> QED BY <1>1, <2>1
<1>4. CASE entry.trace_address = <<>>
  <2>1. CASE entry.type = "SelfDestruct" \/ entry.res = "Output"
    BY <1>1, <2>1, <1>2, <1>4 DEF FilterTraceOf, Same, Unpriced
  <2>2. CASE ~(entry.type = "SelfDestruct" \/ entry.res = "Output")
    <3>1. x = y BY <1>1, <2>2 DEF FilterTraceOf, Same
    <3> QED BY <1>1, <3>1
  <2> QED BY <2>1, <2>2
<1> QED BY <1>3, <1>4

LEMMA TakenNext == IInv /\ RootIInv /\ TakenInv /\ [Next]_vars => TakenInv'
<1> SUFFICES ASSUME IInv, RootIInv, TakenInv, [Next]_vars PROVE TakenInv' OBVIOUS
<1>1. CASE stage \in Callers
  <2>1. UNCHANGED vars BY <1>1, Over
  <2> QED BY <2>1 DEF TakenInv, Nodes, Tx, Blank, LastMap, vars, listenerVars, evmVars
<1>2. CASE EndReplay
  <2>1. stage = "idle" /\ Tx > 0 /\ tree' = tree BY <1>2 DEF EndReplay
  <2>2. Nodes = <<>> => Blank BY <2>1, RootParts DEF CurrentInv
  <2>3. stage' # "debug" => UNCHANGED listenerVars BY <1>2 DEF EndReplay
  <2> QED BY <2>1, <2>2, <2>3 DEF TakenInv, Nodes, Tx, Blank, LastMap, listenerVars
<1>3. CASE stage \notin Callers /\ ~EndReplay
  <2>1. stage' \notin Callers BY <1>3, CallersAssumption
    DEF Next, EmitNew, EmitTransact, EmitRecordTransaction, Unpaid, Refused, EmitRoot,
        EmitRecordCost, EmitTrap, EmitPrecompileSubcall, EmitSubframe, EmitSuicide,
        EmitStepResultExit, EndFrame, CloseFrame, vars, evmVars
  <2> QED BY <2>1 DEF TakenInv
<1> QED BY <1>1, <1>2, <1>3

\* Every map with entries is that of a transaction that is over and has something to
\* show, except perhaps the last one.
LEMMA KeptCount ==
    ASSUME IInv, RootIInv
    PROVE  /\ Cardinality(Kept(entries)) \in Nat /\ Cardinality(Finished) \in Nat
           /\ IsFiniteSet(Kept(entries)) /\ IsFiniteSet(Finished)
           /\ Kept(entries) \in SUBSET (1..Len(entries))
           /\ \/ Cardinality(Kept(entries)) <= Cardinality(Finished)
              \/ /\ Cardinality(Kept(entries)) <= Cardinality(Finished) + 1
                 /\ entries # <<>> /\ DOMAIN LastMap # {}
<1>1. PICK n, x, o, K, L, M :
         /\ n = Len(entries) /\ x = Tx /\ o = x - n /\ K = Kept(entries)
         /\ L = DoneKept /\ M = L \cup {n}
  OBVIOUS
<1>2. /\ K = {t \in 1..n : DOMAIN entries[t] # {}} /\ L \in SUBSET K
      /\ IsFiniteSet(K) /\ IsFiniteSet(L) /\ IsFiniteSet(Finished)
      /\ Cardinality(K) \in Nat /\ Cardinality(L) \in Nat
      /\ Cardinality(Finished) = Cardinality(L)
  BY <1>1, FinishedMaps
<1>3. n \in Nat /\ x \in Nat /\ (Done = x \/ Done = x - 1)
  BY <1>1, Parts, RootParts DEF MapsAre, IsMaps, Done
<1>4. ASSUME NEW k \in K, k # n PROVE k \in L
  <2>1. k \in 1..n BY <1>2
  <2>2. k + o <= Done BY <1>1, <1>3, <1>4, <2>1
  <2> QED BY <1>1, <2>2 DEF DoneKept
<1>5. CASE n \in K /\ n \notin L
  <2>1. Cardinality(M) = Cardinality(L) + 1 BY <1>1, <1>2, <1>5, FS_AddElement
  <2>2. K = M BY <1>1, <1>2, <1>4, <1>5
  <2>3. n \in 1..n /\ DOMAIN entries[n] # {} BY <1>2, <1>5
  <2>4. entries # <<>> BY <1>1, <2>3
  <2>5. DOMAIN LastMap # {} BY <1>1, <2>3, <2>4 DEF LastMap
  <2>6. Cardinality(K) <= Cardinality(L) + 1 BY <1>2, <2>1, <2>2
  <2> QED BY <1>1, <1>2, <2>4, <2>5, <2>6
<1>6. CASE ~(n \in K /\ n \notin L)
  <2>1. K = L BY <1>2, <1>4, <1>6
  <2>2. Cardinality(K) <= Cardinality(L) BY <1>2, <2>1
  <2> QED BY <1>1, <1>2, <2>2
<1> QED BY <1>5, <1>6

\* With Exit, the traces at the place of a transaction are the nodes of its tree.
LEMMA EarlyPositions ==
    ASSUME IInv, RootIInv, TreeIInv, Finite(entries), Early, stage \in Callers,
           NEW t \in EthTransactions
    PROVE  {Unpriced(x) : x \in TracesOf(TraceFilterFormat(entries), t)} =
             {Unpriced(FilterTraceOf(tree[t][k], Place(t))) : k \in 1..Len(tree[t])}
<1>1. PICK E, n, X, o, p, traces :
         /\ E = entries /\ n = Len(E) /\ X = Tx /\ o = X - n /\ p = Place(t)
         /\ traces = TracesOf(TraceFilterFormat(entries), t)
  OBVIOUS
<1>2. MapsAre(E) /\ n \in Nat /\ X \in Nat /\ n <= X /\ X = Len(tree) /\ tree \in Seq(Seq(Node))
  BY <1>1, Parts, RootParts DEF OneMapEach, MapsAre, IsMaps, TreeOK, Tx
<1>3. o \in Int /\ o + n = X /\ o >= 0 /\ t \in 1..X BY <1>1, <1>2 DEF EthTransactions
<1>4. \A u \in 1..X : tree[u] \in Seq(Node)
  <2>1. PICK S : S = Seq(Node) OBVIOUS
  <2>2. tree \in Seq(S) BY <1>2, <2>1
  <2>3. \A u \in 1..X : tree[u] \in S BY <1>2, <2>2
  <2> QED BY <2>1, <2>3
<1>5. ASSUME NEW u \in 1..X
      PROVE  IF u > o THEN Matches(E[u - o], tree[u], entries_next_index) ELSE tree[u] = <<>>
  <2>1. TreesUpTo(entries, Tx, entries_next_index) BY TreesOver
  <2> QED BY <1>1, <2>1 DEF TreesUpTo
<1>6. ASSUME NEW u \in 1..t PROVE u \in EthTransactions <=> u > o /\ DOMAIN E[u - o] # {}
  <2>1. u \in 1..X BY <1>2, <1>3
  <2>2. tree[u] # <<>> <=> DOMAIN tree[u] # {}
    <3>1. PICK s : s = tree[u] /\ s \in Seq(Node) BY <1>4, <2>1
    <3>2. PICK n0 : n0 = Len(s) /\ n0 \in Nat /\ DOMAIN s = 1..n0 BY <3>1
    <3>3. s = <<>> <=> n0 = 0 BY <3>1, <3>2, EmptySeq
    <3>4. 1..n0 = {} <=> n0 = 0
      <4>1. n0 # 0 => 1 \in 1..n0 BY <3>2
      <4>2. n0 = 0 => 1..n0 = {} BY <3>2
      <4> QED BY <4>1, <4>2
    <3> QED BY <3>1, <3>2, <3>3, <3>4
  <2>3. u > o => (DOMAIN tree[u] # {} <=> DOMAIN E[u - o] # {}) BY <1>4, <1>5, <2>1, MatchesFilled
  <2> QED BY <1>1, <1>5, <2>1, <2>2, <2>3 DEF EthTransactions
<1>7. HasTraces(traces, E[t - o], p)
  <2>1. FilledUpTo(t, o) BY <1>1, <1>6 DEF FilledUpTo
  <2> QED BY <1>1, <1>2, <1>3, <2>1, TracesAt
<1>8. PICK m, s, l : m = E[t - o] /\ s = tree[t] /\ l = Len(s) OBVIOUS
<1>9. l \in Nat /\ Matches(m, s, entries_next_index)
  <2>1. s \in Seq(Node) BY <1>3, <1>4, <1>8
  <2>2. t \in 1..t BY <1>3
  <2>3. t > o BY <1>6, <2>2
  <2> QED BY <1>3, <1>5, <1>8, <2>1, <2>3
<1>10. PICK base \in 0..entries_next_index :
         /\ DOMAIN m = base..(base + l - 1)
         /\ \A k \in 1..l : Same(m[base + k - 1], s[k])
  BY <1>8, <1>9 DEF Matches
<1>11. /\ \A k \in 1..l : base + k - 1 \in DOMAIN m
       /\ \A j \in DOMAIN m : j - base + 1 \in 1..l /\ j = base + (j - base + 1) - 1
  BY <1>9, <1>10
<1>12. ASSUME NEW k \in 1..l, NEW j, j = base + k - 1
       PROVE  Unpriced(FilterTraceOf(m[j], p)) = Unpriced(FilterTraceOf(s[k], p))
  BY <1>10, <1>12, UnpricedSame
<1>13. ASSUME NEW x \in traces PROVE \E k \in 1..l : Unpriced(x) = Unpriced(FilterTraceOf(s[k], p))
  <2>1. PICK j \in DOMAIN m : x = FilterTraceOf(m[j], p) BY <1>7, <1>8 DEF HasTraces
  <2>2. PICK k : k = j - base + 1 /\ k \in 1..l /\ j = base + k - 1 BY <1>11
  <2> QED BY <1>12, <2>1, <2>2
<1>14. ASSUME NEW k \in 1..l PROVE \E x \in traces : Unpriced(x) = Unpriced(FilterTraceOf(s[k], p))
  <2>1. PICK j : j = base + k - 1 /\ j \in DOMAIN m BY <1>11
  <2>2. FilterTraceOf(m[j], p) \in traces BY <1>7, <1>8, <2>1 DEF HasTraces
  <2> QED BY <1>12, <2>1, <2>2
<1> QED BY <1>1, <1>8, <1>13, <1>14

\* Without it, they have the outermost call of the transaction.
LEMMA LegacyPositions ==
    ASSUME IInv, RootIInv, Finite(entries), NEW t \in EthTransactions, t < Tx \/ stage = "debug",
           \A u \in 1..t : ~Invented(u), NEW traces, traces = TracesOf(TraceFilterFormat(entries), t)
    PROVE  \E root \in traces :
              /\ \A x \in traces : (x = root) <=> (x.trace_address = <<>>)
              /\ (root.output = <<"Error", "Unpaid">>) <=> (tree[t][1].res = "Unpaid")
<1>1. PICK E, n, X, o, p, last :
         /\ E = entries /\ n = Len(E) /\ X = Tx /\ o = X - n /\ p = Place(t)
         /\ last = (IF stage = "debug" THEN X ELSE X - 1)
  OBVIOUS
<1>2. MapsAre(E) /\ n \in Nat /\ X \in Nat /\ n <= X
  BY <1>1, Parts, RootParts DEF OneMapEach, MapsAre, IsMaps
<1>3. o \in Int /\ o + n = X /\ o >= 0 /\ t \in 1..X /\ t \in 1..t /\ \A u \in 1..t : u \in 1..last
  <2>1. t \in 1..X /\ (t < X \/ last = X) BY <1>1 DEF EthTransactions
  <2>2. last = X \/ last = X - 1 BY <1>1
  <2> QED BY <1>1, <1>2, <2>1, <2>2
<1>4. ASSUME NEW u \in 1..t
      PROVE  IF u \in EthTransactions THEN u > o /\ RootOf(E[u - o], tree[u])
             ELSE u > o => DOMAIN E[u - o] = {}
  BY <1>2, <1>3, <1>1 DEF RootIInv, RootsInv, RootsUpTo, Shown, EthTransactions
<1>5. \A u \in 1..t : u \in EthTransactions <=> u > o /\ DOMAIN E[u - o] # {}
  BY <1>4 DEF RootOf, HasRoot, PathsOf
<1>6. PICK m : m = E[t - o] OBVIOUS
<1>7. HasTraces(traces, m, p)
  <2>1. FilledUpTo(t, o) BY <1>1, <1>5 DEF FilledUpTo
  <2> QED BY <1>1, <1>2, <1>3, <1>6, <2>1, TracesAt
<1>8. t > o /\ RootOf(m, tree[t]) BY <1>3, <1>4, <1>6
<1>9. Unique(m)
  <2>1. t - o \in 1..n BY <1>2, <1>3, <1>8
  <2> QED BY <1>1, <1>2, <1>6, <2>1 DEF MapsAre
<1>10. PICK k \in DOMAIN m : m[k].trace_address = <<>> BY <1>8 DEF RootOf, HasRoot, PathsOf
<1>11. PICK root : root = FilterTraceOf(m[k], p) OBVIOUS
<1>12. root \in traces /\ root.trace_address = <<>> BY <1>7, <1>10, <1>11, FilterTraceIs DEF HasTraces
<1>13. ASSUME NEW x \in traces, x.trace_address = <<>> PROVE x = root
  <2>1. PICK j \in DOMAIN m : x = FilterTraceOf(m[j], p) BY <1>7 DEF HasTraces
  <2>2. m[j].trace_address = <<>> BY <1>13, <2>1, FilterTraceIs
  <2>3. j = k BY <1>9, <1>10, <2>2 DEF Unique
  <2> QED BY <1>11, <2>1, <2>3
<1>14. tree[t] # <<>> BY DEF EthTransactions
<1>15. CASE tree[t][1].res = "Unpaid"
  <2>1. m[k] = UnpaidEntry BY <1>8, <1>10, <1>15 DEF RootOf, Marked, Executed
  <2>2. root.output = <<"Error", "Unpaid">> BY <1>11, <2>1 DEF FilterTraceOf, UnpaidEntry
  <2> QED BY <1>12, <1>13, <1>15, <2>2
<1>16. CASE tree[t][1].res # "Unpaid"
  <2>1. m[k].res # "Unpaid" BY <1>8, <1>10, <1>14, <1>16 DEF RootOf, Marked, Executed
  <2>2. root.output # <<"Error", "Unpaid">> BY <1>11, <2>1 DEF FilterTraceOf
  <2> QED BY <1>12, <1>13, <1>16, <2>2
<1> QED BY <1>15, <1>16

\* Without invented entries, as many maps are retained as there are transactions.
LEMMA AllPlaced ==
    ASSUME IInv, RootIInv, Finite(entries), TakenInv, stage \in Callers,
           \A u \in 1..Tx : ~Invented(u)
    PROVE  Unplaced(TraceFilterFormat(entries)) = {}
<1>1. PICK K, c, l, R, X, A, q :
         /\ K = Kept(entries) /\ c = Cardinality(K) /\ l = Cardinality(Finished)
         /\ R = Filled(entries) /\ X = Tx /\ A = EthTransactions /\ q = Cardinality(A)
  OBVIOUS
<1>2. MapsAre(entries) /\ X \in Nat BY <1>1, Parts, RootParts
<1>3. c \in Nat /\ Len(R) = c /\ RetainedOK(R) /\ R = RetainFilled(entries)
  BY <1>1, <1>2, RetainedAre
<1>4. /\ l \in Nat /\ IsFiniteSet(Finished)
      /\ c <= l \/ (c <= l + 1 /\ DOMAIN LastMap # {})
  BY <1>1, KeptCount
<1>5. stage = "debug" => c = l BY <1>1, <1>3, RootsSuffice DEF OneRootPerTransaction
<1>6. A \in SUBSET (1..X) /\ IsFiniteSet(A) /\ q \in Nat
  <2>1. IsFiniteSet(1..X) BY <1>2, FS_Interval
  <2>2. A \in SUBSET (1..X) BY <1>1 DEF EthTransactions
  <2> QED BY <1>1, <2>1, <2>2, FS_Subset, FS_CardinalityType
<1>7. Finished \in SUBSET A BY <1>1 DEF Finished, EthTransactions
<1>8. l <= q BY <1>1, <1>6, <1>7, FS_Subset
<1>9. c <= q
  <2>1. CASE c <= l BY <1>3, <1>4, <1>6, <1>8, <2>1
  <2>2. CASE ~(c <= l)
    <3>1. c <= l + 1 /\ DOMAIN LastMap # {} /\ stage # "debug" BY <1>3, <1>4, <1>5, <2>2
    <3>2. Nodes # <<>> BY <3>1 DEF TakenInv, Blank
    <3>3. X # 0 BY <1>1, <1>2, Parts DEF StagesInv
    <3>4. X \in A /\ X \notin Finished
      <4>1. X \in 1..X /\ ~(X < X) BY <1>2, <3>3
      <4> QED BY <1>1, <3>1, <3>2, <4>1 DEF Finished, EthTransactions, Nodes
    <3>5. PICK B : B = Finished \cup {X} OBVIOUS
    <3>6. Cardinality(B) = l + 1 BY <1>1, <1>4, <3>4, <3>5, FS_AddElement
    <3>7. B \in SUBSET A BY <1>7, <3>4, <3>5
    <3>8. Cardinality(B) <= q BY <1>1, <1>6, <3>7, FS_Subset
    <3> QED BY <1>3, <1>4, <1>6, <3>1, <3>6, <3>8
  <2> QED BY <2>1, <2>2
<1>10. Shows(TraceFilterFormat(entries), R) BY <1>3, TracesAre
<1>11. ASSUME NEW x \in Range(TraceFilterFormat(entries)) PROVE ~(x.transaction_position >= q)
  <2>1. PICK i \in 1..c : \E k \in DOMAIN R[i] : x = FilterTraceOf(R[i][k], i - 1)
    BY <1>3, <1>10 DEF Shows
  <2>2. x.transaction_position = i - 1 BY <2>1, FilterTraceIs
  <2>3. ~(i - 1 >= q) BY <1>3, <1>6, <1>9
  <2> QED BY <2>2, <2>3
<1> QED BY <1>1, <1>11 DEF Unplaced

\* trace_filter: for any block, the traces at the position of a transaction that is over
\* are its own: all nodes of its call tree where frames end with Exit, and elsewhere one
\* outermost call, the one for unpaid transactions if and only if it was not paid. No
\* position is beyond the transactions of the Ethereum block. On a runtime without Exit
\* this holds up to the first invented entry.
THEOREM PositionsCorrect == Spec => []PositionsAreTransactions
<1>1. Init => TakenInv BY CallersAssumption DEF Init, TakenInv
<1>2. Finite(entries)' <=> Finite(entries') BY DEF Finite
<1>3. IInv /\ RootIInv /\ TreeIInv /\ Finite(entries) /\ TakenInv => PositionsAreTransactions
  <2> SUFFICES ASSUME IInv, RootIInv, TreeIInv, Finite(entries), TakenInv, stage \in Callers
               PROVE  PositionsAreTransactions
    BY DEF PositionsAreTransactions
  <2>1. ASSUME NEW t \in EthTransactions, \A u \in 1..t : ~Invented(u)
        PROVE  LET traces == TracesOf(TraceFilterFormat(entries), t)
               IN  IF Early
                   THEN {Unpriced(x) : x \in traces} =
                          {Unpriced(FilterTraceOf(tree[t][k], Place(t))) : k \in 1..Len(tree[t])}
                   ELSE t < Tx \/ stage = "debug" =>
                          \E root \in traces :
                             /\ \A x \in traces : (x = root) <=> (x.trace_address = <<>>)
                             /\ (root.output = <<"Error", "Unpaid">>) <=> (tree[t][1].res = "Unpaid")
    BY <2>1, EarlyPositions, LegacyPositions
  <2>2. (\A u \in 1..Tx : ~Invented(u)) => Unplaced(TraceFilterFormat(entries)) = {} BY AllPlaced
  <2> QED BY <2>1, <2>2 DEF PositionsAreTransactions
<1>4. Init => IInv /\ RootIInv /\ Unmarked /\ TreeIInv BY InitKeeps, RootInit, UnmarkedInit, TreeInit
<1>5. (IInv /\ RootIInv /\ Unmarked /\ TreeIInv) /\ [Next]_vars
        => (IInv /\ RootIInv /\ Unmarked /\ TreeIInv)'
  BY NextKeeps, RootNext, UnmarkedNext, TreeNext
<1> QED BY <1>1, <1>2, <1>3, <1>4, <1>5, FiniteInit, FiniteNext, TakenNext, PTL DEF Spec

-----------------------------------------------------------------------------
\* Call trees.

LEMMA AppendSame ==
    ASSUME NEW a \in Seq(Nat), NEW b \in Seq(Nat), NEW x \in Nat, NEW y \in Nat,
           Append(a, x) = Append(b, y)
    PROVE  a = b /\ x = y
<1>1. PICK p, l, m : p = Append(a, x) /\ l = Len(a) /\ m = Len(b) OBVIOUS
<1>2. Longer(p, a, l, x) /\ Longer(p, b, m, y) BY <1>1, PathAppend
<1>3. l = m /\ l \in Nat BY <1>2 DEF Longer
<1>4. x = y /\ \A i \in 1..l : a[i] = b[i] BY <1>2, <1>3 DEF Longer
<1>5. \A t \in Seq(Nat) : t = [i \in 1..Len(t) |-> t[i]] OBVIOUS
<1>6. a = [i \in 1..l |-> a[i]] /\ b = [i \in 1..l |-> b[i]] BY <1>1, <1>3, <1>5
<1>7. a = b BY <1>4, <1>6
<1> QED BY <1>4, <1>7

LEMMA AppendFront ==
    ASSUME NEW a \in Seq(Nat), NEW x \in Nat
    PROVE  /\ Append(a, x) \in Seq(Nat) /\ Append(a, x) # <<>> /\ Front(Append(a, x)) = a
           /\ Len(Append(a, x)) = Len(a) + 1 /\ Len(a) \in Nat
<1>1. PICK p, l : p = Append(a, x) /\ l = Len(a) OBVIOUS
<1>2. Longer(p, a, l, x) BY <1>1, PathAppend
<1>3. p # <<>> BY <1>2 DEF Longer
<1>4. Front(p) = SubSeq(p, 1, l) BY <1>2 DEF Longer, Front
<1>5. SubSeq(p, 1, l) = a BY <1>1
<1> QED BY <1>1, <1>2, <1>3, <1>4, <1>5 DEF Longer

LEMMA NodePaths ==
    ASSUME NEW nodes \in Seq(Node)
    PROVE  /\ Len(nodes) \in Nat
           /\ \A m \in 1..Len(nodes) :
                 nodes[m].trace_address \in Seq(Nat) /\ nodes[m].subtraces \in Nat
  BY NodeFields

\* A new child.
LEMMA GrowBranches ==
    ASSUME NEW nodes \in Seq(Node), NEW d \in 1..Len(nodes), NEW new, NEW type, NEW res,
           GrewTo(new, nodes, d, type, res), Branched(nodes)
    PROVE  Branched(new)
<1>1. PICK par, num : Branching(nodes, par, num) BY DEF Branched
<1>2. PICK n, q, s, p : /\ n = Len(nodes) /\ q = nodes[d].trace_address /\ s = nodes[d].subtraces
                        /\ p = Append(q, s)
  OBVIOUS
<1>3. /\ n \in Nat /\ q \in Seq(Nat) /\ s \in Nat /\ d \in 1..n
      /\ \A m \in 1..n : nodes[m].trace_address \in Seq(Nat) /\ nodes[m].subtraces \in Nat
  BY <1>2, NodePaths
<1>4. PICK par2, num2 : /\ par2 = [m \in 1..(n + 1) |-> IF m = n + 1 THEN d ELSE par[m]]
                        /\ num2 = [m \in 1..(n + 1) |-> IF m = n + 1 THEN s ELSE num[m]]
  OBVIOUS
<1>5. /\ \A m \in 1..(n + 1) : m = n + 1 \/ m \in 1..n
      /\ \A m \in 1..n : m \in 1..(n + 1) /\ m # n + 1 /\ m < n + 1 /\ ~(n + 1 < m)
      /\ n + 1 \in 1..(n + 1) /\ ~(n + 1 < n + 1)
      /\ \A m \in 1..n : (1..(m - 1)) \subseteq 1..n
  BY <1>3
<1>6. par2[n + 1] = d /\ num2[n + 1] = s /\ \A m \in 1..n : par2[m] = par[m] /\ num2[m] = num[m]
  BY <1>4, <1>5
<1>7. /\ Len(new) = n + 1 /\ new[n + 1].trace_address = p
      /\ \A m \in 1..n : /\ new[m].trace_address = nodes[m].trace_address
                         /\ nodes[m].subtraces <= new[m].subtraces
      /\ new[d].subtraces = s + 1
  <2>1. \A m \in 1..n : m # d => new[m] = nodes[m] BY <1>2 DEF GrewTo
  <2>2. new[d].trace_address = nodes[d].trace_address /\ new[d].subtraces = s + 1 BY <1>2 DEF GrewTo
  <2>3. s <= s + 1 /\ \A v \in Nat : v <= v BY <1>3
  <2>4. \A m \in 1..n : /\ new[m].trace_address = nodes[m].trace_address
                        /\ nodes[m].subtraces <= new[m].subtraces
    BY <1>2, <1>3, <2>1, <2>2, <2>3
  <2>5. Len(new) = n + 1 /\ new[n + 1].trace_address = p BY <1>2 DEF GrewTo
  <2> QED BY <2>2, <2>4, <2>5
<1>8. \A m \in 1..n : m # 1 =>
         /\ par[m] \in 1..(m - 1) /\ num[m] \in Nat /\ par[m] \in 1..n
         /\ nodes[m].trace_address = Append(nodes[par[m]].trace_address, num[m])
         /\ num[m] < nodes[par[m]].subtraces
  BY <1>1, <1>2, <1>5 DEF Branching
<1>9. \A m \in 1..n : nodes[m].trace_address # p
  <2> SUFFICES ASSUME NEW m \in 1..n, nodes[m].trace_address = p PROVE FALSE OBVIOUS
  <2>1. m # 1
    <3>1. p # <<>> BY <1>2, <1>3, AppendFront
    <3>2. nodes[1].trace_address = <<>> BY <1>1, <1>2, <1>3 DEF Branching
    <3> QED BY <3>1, <3>2
  <2>2. PICK c, b, k : c = par[m] /\ b = nodes[c].trace_address /\ k = num[m] OBVIOUS
  <2>3. /\ c \in 1..n /\ k \in Nat /\ b \in Seq(Nat) /\ p = Append(b, k)
        /\ k < nodes[c].subtraces
    BY <1>3, <1>8, <2>1, <2>2
  <2>4. q = b /\ s = k
    <3>1. Append(q, s) = Append(b, k) BY <1>2, <2>3
    <3>2. q \in Seq(Nat) /\ s \in Nat /\ b \in Seq(Nat) /\ k \in Nat BY <1>3, <2>3
    <3> QED BY <3>1, <3>2, AppendSame
  <2>5. c = d BY <1>1, <1>2, <1>3, <2>2, <2>3, <2>4 DEF Branching
  <2>6. s < s BY <1>2, <2>3, <2>4, <2>5
  <2>7. \A v \in Nat : ~(v < v) OBVIOUS
  <2> QED BY <1>3, <2>6, <2>7
<1>10. new[1].trace_address = <<>>
  <2>1. 1 \in 1..n /\ n > 0 BY <1>3
  <2> QED BY <1>1, <1>2, <1>7, <2>1 DEF Branching
<1>11. ASSUME NEW m \in 1..(n + 1), m # 1
       PROVE  /\ par2[m] \in 1..(m - 1) /\ num2[m] \in Nat
              /\ new[m].trace_address = Append(new[par2[m]].trace_address, num2[m])
              /\ num2[m] < new[par2[m]].subtraces
  <2>1. CASE m = n + 1
    <3>1. d \in 1..(m - 1) /\ s < s + 1 BY <1>3, <2>1
    <3> QED BY <1>2, <1>3, <1>6, <1>7, <2>1, <3>1
  <2>2. CASE m \in 1..n
    <3>1. PICK c, k : c = par[m] /\ k = num[m] OBVIOUS
    <3>2. /\ c \in 1..(m - 1) /\ c \in 1..n /\ k \in Nat
          /\ nodes[m].trace_address = Append(nodes[c].trace_address, k)
          /\ k < nodes[c].subtraces
      BY <1>8, <1>11, <2>2, <3>1
    <3>3. new[c].trace_address = nodes[c].trace_address /\ nodes[c].subtraces <= new[c].subtraces
      BY <1>7, <3>2
    <3>4. k < new[c].subtraces
      <4>1. PICK v, w : v = nodes[c].subtraces /\ w = new[c].subtraces OBVIOUS
      <4>2. v \in Nat /\ w \in Nat
        <5>1. c = d => w = s + 1 BY <1>7, <4>1
        <5>2. c # d => w = v BY <1>2, <3>2, <4>1 DEF GrewTo
        <5>3. v \in Nat BY <1>3, <3>2, <4>1
        <5>4. s + 1 \in Nat BY <1>3
        <5> QED BY <5>1, <5>2, <5>3, <5>4
      <4>3. k < v /\ v <= w BY <3>2, <3>3, <4>1
      <4> QED BY <3>2, <4>1, <4>2, <4>3
    <3> QED BY <1>6, <1>7, <2>2, <3>1, <3>2, <3>3, <3>4
  <2> QED BY <1>5, <2>1, <2>2
<1>12. \A j, m \in 1..n : nodes[j].trace_address = nodes[m].trace_address => j = m
  BY <1>1, <1>2 DEF Branching
<1>13. \A j, m \in 1..(n + 1) : new[j].trace_address = new[m].trace_address => j = m
  BY <1>5, <1>7, <1>9, <1>12
<1>14. \A j, m \in 1..n : j # 1 /\ j < m /\ par[j] = par[m] => num[j] < num[m]
  BY <1>1, <1>2 DEF Branching
<1>15. \A j \in 1..n : j # 1 /\ par[j] = d => num[j] < s BY <1>2, <1>8
<1>16. \A j, m \in 1..(n + 1) : j # 1 /\ j < m /\ par2[j] = par2[m] => num2[j] < num2[m]
  <2> SUFFICES ASSUME NEW j \in 1..(n + 1), NEW m \in 1..(n + 1), j # 1, j < m, par2[j] = par2[m]
               PROVE  num2[j] < num2[m]
    OBVIOUS
  <2>1. CASE m = n + 1
    <3>1. j \in 1..n BY <1>5, <2>1
    <3> QED BY <1>6, <1>15, <2>1, <3>1
  <2>2. CASE m \in 1..n
    <3>1. j \in 1..n BY <1>5, <2>2
    <3> QED BY <1>6, <1>14, <2>2, <3>1
  <2> QED BY <1>5, <2>1, <2>2
<1>17. Branching(new, par2, num2) BY <1>7, <1>10, <1>11, <1>13, <1>16 DEF Branching
<1> QED BY <1>17 DEF Branched

LEMMA CloseBranches ==
    ASSUME NEW nodes, NEW d, NEW new, NEW res, NEW used,
           ClosedTo(new, nodes, d, res, used), Branched(nodes)
    PROVE  Branched(new)
<1>1. PICK par, num : Branching(nodes, par, num) BY DEF Branched
<1>2. PICK n : n = Len(nodes) /\ Len(new) = n BY DEF ClosedTo
<1>3. \A m \in 1..n : /\ new[m].trace_address = nodes[m].trace_address
                      /\ new[m].subtraces = nodes[m].subtraces
  BY <1>2 DEF ClosedTo
<1>4. n > 0 => new[1].trace_address = <<>>
  <2>1. CASE 1 = d BY <1>1, <1>2, <2>1 DEF Branching, ClosedTo
  <2>2. CASE 1 # d
    <3>1. n > 0 => nodes[1].trace_address = <<>> BY <1>1, <1>2 DEF Branching
    <3> QED BY <1>2, <1>3, <3>1
  <2> QED BY <2>1, <2>2
<1>5. \A m \in 1..n : m # 1 => par[m] \in 1..n BY <1>1, <1>2 DEF Branching
<1>6. ASSUME NEW m \in 1..n, m # 1
      PROVE  /\ par[m] \in 1..(m - 1) /\ num[m] \in Nat
             /\ new[m].trace_address = Append(new[par[m]].trace_address, num[m])
             /\ num[m] < new[par[m]].subtraces
  <2>1. PICK c, k : c = par[m] /\ k = num[m] OBVIOUS
  <2>2. /\ c \in 1..(m - 1) /\ k \in Nat /\ k < nodes[c].subtraces
        /\ nodes[m].trace_address = Append(nodes[c].trace_address, k)
    BY <1>1, <1>2, <1>6, <2>1 DEF Branching
  <2>3. c \in 1..n BY <1>5, <1>6, <2>1
  <2> QED BY <1>3, <2>1, <2>2, <2>3
<1>7. \A j, m \in 1..n : new[j].trace_address = new[m].trace_address => j = m
  BY <1>1, <1>2, <1>3 DEF Branching
<1>8. \A j, m \in 1..n : j # 1 /\ j < m /\ par[j] = par[m] => num[j] < num[m]
  BY <1>1, <1>2 DEF Branching
<1>9. Branching(new, par, num) BY <1>2, <1>4, <1>6, <1>7, <1>8 DEF Branching
<1> QED BY <1>9 DEF Branched

\* The nodes of a transaction that begins, and its root.
LEMMA FirstBranches ==
    ASSUME NEW root, root.trace_address = <<>>
    PROVE  Branched(<<>>) /\ Branched(<<root>>)
<1>1. PICK par, num : par = <<>> /\ num = <<>> OBVIOUS
<1>2. Len(<<>>) = 0 /\ 1..0 = {} /\ ~(0 > 0) OBVIOUS
<1>3. Branching(<<>>, par, num) BY <1>2 DEF Branching
<1>4. PICK s : s = <<root>> OBVIOUS
<1>5. Len(s) = 1 /\ s[1] = root /\ (\A m \in 1..1 : m = 1) /\ ~(1 < 1) BY <1>4
<1>6. Branching(s, par, num) BY <1>5 DEF Branching
<1> QED BY <1>3, <1>4, <1>6 DEF Branched

LEMMA CurrentBranches ==
    ASSUME IInv, BranchesInv, Early, runtime' = runtime, Tx' = Tx,
           \A t \in 1..Tx : t # Tx => tree'[t] = tree[t], Branched(Nodes')
    PROVE  BranchesInv'
  BY DEF Nodes, BranchesInv

LEMMA OpenBranches ==
    ASSUME IInv, RootIInv, BranchesInv, Early, runtime' = runtime, Tx > 0,
           NEW type \in ContextType \cup {"SelfDestruct"}, NEW res \in {"open", "None"},
           res = "open" => type \in ContextType,
           tree' = [tree EXCEPT ![Tx] = Grown(type, res)],
           frames = <<>> => Nodes = <<>>
    PROVE  BranchesInv'
<1>1. TreeOK /\ FramesOK /\ FramesInv BY Parts
<1>2. PICK g : g = Grown(type, res) /\ g \in Seq(Node) BY <1>1, GrownIs
<1>3. Tx' = Tx /\ Nodes' = g /\ \A t \in 1..Tx : t # Tx => tree'[t] = tree[t]
  BY <1>1, <1>2, TreeWith
<1>4. Branched(g)
  <2>1. CASE frames = <<>>
    <3>1. PICK root : root = [type |-> type, trace_address |-> <<>>, subtraces |-> 0,
                              gas_used |-> 0, res |-> res]
      OBVIOUS
    <3>2. root.trace_address = <<>> /\ Append(<<>>, root) = <<root>> BY <3>1
    <3>3. g = <<root>> BY <1>2, <2>1, <3>1, <3>2 DEF Grown
    <3> QED BY <3>2, <3>3, FirstBranches
  <2>2. CASE frames # <<>>
    <3>1. PICK nodes, d : nodes = Nodes /\ d = Current.node OBVIOUS
    <3>2. GrewTo(g, nodes, d, type, res) BY <1>1, <1>2, <2>2, <3>1, GrownTo
    <3>3. nodes \in Seq(Node) /\ d \in 1..Len(nodes)
      BY <1>1, <2>2, <3>1, NodesAre, CurrentIs DEF FramesInv, Current
    <3>4. Branched(nodes) BY <1>1, <3>1, NodesAre DEF BranchesInv, Nodes
    <3> QED BY <3>2, <3>3, <3>4, GrowBranches
  <2> QED BY <2>1, <2>2
<1>5. Branched(Nodes') BY <1>3, <1>4
<1> QED BY <1>3, <1>5, CurrentBranches

LEMMA ClosedBranches ==
    ASSUME IInv, BranchesInv, Early, runtime' = runtime, Tx > 0, frames # <<>>,
           NEW reason \in ExitReason, CloseFrame(reason)
    PROVE  BranchesInv'
<1>1. TreeOK /\ FramesOK /\ FramesInv BY Parts
<1>2. PICK nodes, d, new, res, used :
         /\ nodes = Nodes /\ d = Current.node /\ new = Nodes' /\ res = CallResult(reason)
         /\ used = UsedBy(Current) + (IF Current.node = 1 THEN TxCost ELSE 0)
  OBVIOUS
<1>3. /\ Tx' = Tx /\ \A t \in 1..Tx : t # Tx => tree'[t] = tree[t]
      /\ ClosedTo(new, nodes, d, res, used)
  BY <1>1, <1>2, CloseFrameTo
<1>4. Branched(nodes) BY <1>1, <1>2, NodesAre DEF BranchesInv, Nodes
<1>5. Branched(new) BY <1>3, <1>4, CloseBranches
<1>6. Branched(Nodes') BY <1>2, <1>5
<1> QED BY <1>3, <1>6, CurrentBranches

LEMMA BranchesNext == IInv /\ RootIInv /\ BranchesInv /\ [Next]_vars => BranchesInv'
<1> SUFFICES ASSUME IInv, RootIInv, BranchesInv, [Next]_vars, Early' PROVE BranchesInv'
  BY DEF BranchesInv
<1>1. runtime' = runtime
  BY DEF Next, EmitNew, EmitTransact, EmitRecordTransaction, Unpaid, Refused, EmitRoot,
         EmitRecordCost, EmitTrap, EmitPrecompileSubcall, EmitSubframe, EmitSuicide,
         EmitStepResultExit, EndFrame, EndReplay, vars, evmVars
<1>2. Early BY <1>1 DEF Early
<1>3. CASE tree' = tree BY <1>1, <1>3 DEF BranchesInv, Tx, Early
<1>4. CASE EmitNew
  <2>1. tree' = Append(tree, <<>>) BY <1>4 DEF EmitNew
  <2>2. PICK s, n, u : s = tree /\ n = Len(s) /\ u = Append(s, <<>>) OBVIOUS
  <2>3. n \in Nat /\ s = [i \in 1..n |-> s[i]]
    <3>1. PICK S : S = Seq(Node) OBVIOUS
    <3>2. s \in Seq(S) BY <2>2, <3>1, Parts DEF TreeOK
    <3> QED BY <2>2, <3>2
  <2>4. Len(u) = n + 1 /\ u[n + 1] = <<>> /\ \A t \in 1..n : u[t] = s[t] BY <2>2, <2>3, AppendAny
  <2>5. \A t \in 1..(n + 1) : t \in 1..n \/ t = n + 1 BY <2>3
  <2>6. Branched(<<>>)
    <3>1. PICK root : root = UnpaidEntry /\ root.trace_address = <<>> BY UnpaidIsCall
    <3> QED BY <3>1, FirstBranches
  <2>7. \A t \in 1..n : Branched(s[t]) BY <1>2, <2>2 DEF BranchesInv, Tx
  <2>8. \A t \in 1..(n + 1) : Branched(u[t]) BY <2>4, <2>5, <2>6, <2>7
  <2> QED BY <2>1, <2>2, <2>4, <2>8 DEF BranchesInv, Tx
<1>5. CASE EmitTransact
  <2>1. stage = "begun" /\ \E type \in {"Call", "Create"} : OpenFrame(type) BY <1>5 DEF EmitTransact
  <2>2. PICK type \in {"Call", "Create"} : OpenFrame(type) BY <2>1
  <2>3. type \in ContextType BY DEF ContextType, CallType
  <2>4. tree' = [tree EXCEPT ![Tx] = Grown(type, "open")] BY <2>2 DEF OpenFrame
  <2>5. Nodes = <<>> /\ Tx > 0 BY <2>1, RootParts, Parts DEF CurrentInv, StagesInv
  <2> QED BY <1>1, <1>2, <2>3, <2>4, <2>5, OpenBranches
<1>6. CASE EmitSubframe
  BY <1>6, Parts, RunningIs, <1>1, <1>2, OpenBranches DEF EmitSubframe, OpenFrame
<1>7. CASE EmitSuicide BY <1>7, RunningIs, <1>1, <1>2, OpenBranches DEF EmitSuicide, Executing
<1>8. CASE Unpaid BY <1>2, <1>8, Parts, <1>1, ClosedBranches DEF Unpaid, ExitReason, StagesInv
<1>9. CASE EndFrame
  <2>1. stage = "running" /\ \E reason \in Reasons : CloseFrame(reason) BY <1>9 DEF EndFrame
  <2>2. PICK reason \in Reasons : CloseFrame(reason) BY <2>1
  <2>3. reason \in ExitReason BY ReasonsAssumption
  <2>4. frames # <<>> /\ Tx > 0 BY <2>1, RunningIs
  <2> QED BY <1>1, <1>2, <2>2, <2>3, <2>4, ClosedBranches
<1>10. \/ tree' = tree \/ EmitNew \/ EmitTransact \/ EmitSubframe \/ EmitSuicide \/ Unpaid \/ EndFrame
  BY <1>2 DEF Next, EmitRecordTransaction, Refused, EmitRoot, EmitRecordCost, EmitTrap,
              EmitPrecompileSubcall, EmitStepResultExit, EndReplay, vars, evmVars
<1> QED BY <1>3, <1>4, <1>5, <1>6, <1>7, <1>8, <1>9, <1>10

LEMMA BranchesInit == Init => BranchesInv
  BY DEF Init, BranchesInv, Tx

-----------------------------------------------------------------------------
\* The order of the sort.

LEMMA GreaterIsStrict ==
    ASSUME NEW a \in Seq(Nat), NEW b \in Seq(Nat), NEW c \in Seq(Nat)
    PROVE  /\ ~SiblingGreaterThan(a, a)
           /\ Len(a) = Len(b) => a = b \/ SiblingGreaterThan(a, b) \/ SiblingGreaterThan(b, a)
           /\ Len(a) = Len(b) /\ Len(b) = Len(c) /\ SiblingGreaterThan(a, b) /\ SiblingGreaterThan(b, c)
                => SiblingGreaterThan(a, c)
<1>0. \A t \in Seq(Nat) : Len(t) \in Nat /\ \A i \in 1..Len(t) : t[i] \in Nat OBVIOUS
<1>1. PICK l : l = Len(a) /\ l \in Nat /\ \A i \in 1..l : a[i] \in Nat BY <1>0
<1>2. ~SiblingGreaterThan(a, a) BY <1>1 DEF SiblingGreaterThan
<1>3. ASSUME Len(b) = l, a # b PROVE SiblingGreaterThan(a, b) \/ SiblingGreaterThan(b, a)
  <2>1. \A i \in 1..l : b[i] \in Nat BY <1>0, <1>3
  <2>2. PICK T : T = {i \in Nat : i \in 1..l /\ a[i] # b[i]} OBVIOUS
  <2>3. T # {}
    <3>0. \A i \in 1..l : i \in Nat BY <1>1
    <3> SUFFICES ASSUME \A i \in 1..l : a[i] = b[i] PROVE FALSE BY <2>2, <3>0
    <3>1. \A t \in Seq(Nat) : t = [i \in 1..Len(t) |-> t[i]] OBVIOUS
    <3>2. a = [i \in 1..l |-> a[i]] /\ b = [i \in 1..l |-> b[i]] BY <1>1, <1>3, <3>1
    <3> QED BY <1>3, <3>2
  <2>4. PICK i \in T : \A y \in T : i <= y BY <2>2, <2>3, LeastNumber
  <2>5. i \in 1..l /\ a[i] # b[i] BY <2>2, <2>4
  <2>6. \A j \in 1..(i - 1) : j \in 1..l /\ j \in Nat /\ ~(i <= j) BY <1>1, <2>5
  <2>7. \A j \in 1..(i - 1) : a[j] = b[j] BY <2>2, <2>4, <2>6
  <2>8. a[i] > b[i] \/ b[i] > a[i] BY <1>1, <2>1, <2>5
  <2> QED BY <1>1, <1>3, <2>5, <2>7, <2>8 DEF SiblingGreaterThan
<1>4. ASSUME Len(b) = l, Len(c) = l, SiblingGreaterThan(a, b), SiblingGreaterThan(b, c)
      PROVE  SiblingGreaterThan(a, c)
  <2>1. PICK i \in 1..l : a[i] > b[i] /\ \A j \in 1..(i - 1) : a[j] = b[j]
    BY <1>1, <1>4 DEF SiblingGreaterThan
  <2>2. PICK k \in 1..l : b[k] > c[k] /\ \A j \in 1..(k - 1) : b[j] = c[j]
    BY <1>4 DEF SiblingGreaterThan
  <2>3. \A j \in 1..l : a[j] \in Nat /\ b[j] \in Nat /\ c[j] \in Nat BY <1>0, <1>1, <1>4
  <2>4. CASE i < k
    <3>1. i \in 1..(k - 1) /\ \A j \in 1..(i - 1) : j \in 1..(k - 1) BY <1>1, <2>4
    <3>2. a[i] > c[i] /\ \A j \in 1..(i - 1) : a[j] = c[j] BY <2>1, <2>2, <3>1
    <3> QED BY <1>1, <3>2 DEF SiblingGreaterThan
  <2>5. CASE k < i
    <3>1. k \in 1..(i - 1) /\ \A j \in 1..(k - 1) : j \in 1..(i - 1) BY <1>1, <2>5
    <3>2. a[k] > c[k] /\ \A j \in 1..(k - 1) : a[j] = c[j] BY <2>1, <2>2, <3>1
    <3> QED BY <1>1, <3>2 DEF SiblingGreaterThan
  <2>6. CASE i = k
    <3>1. a[i] > c[i]
      <4>1. a[i] > b[i] /\ b[i] > c[i] /\ a[i] \in Nat /\ b[i] \in Nat /\ c[i] \in Nat
        BY <2>1, <2>2, <2>3, <2>6
      <4> QED BY <4>1
    <3>2. \A j \in 1..(i - 1) : a[j] = c[j] BY <2>1, <2>2, <2>6
    <3> QED BY <1>1, <3>1, <3>2 DEF SiblingGreaterThan
  <2> QED BY <1>1, <2>4, <2>5, <2>6
<1> QED BY <1>1, <1>2, <1>3, <1>4

LEMMA PathLessIsStrict ==
    ASSUME NEW a \in Seq(Nat), NEW b \in Seq(Nat), NEW c \in Seq(Nat)
    PROVE  /\ ~PathLess(a, a)
           /\ a = b \/ PathLess(a, b) \/ PathLess(b, a)
           /\ PathLess(a, b) /\ PathLess(b, c) => PathLess(a, c)
<1>1. Len(a) \in Nat /\ Len(b) \in Nat /\ Len(c) \in Nat OBVIOUS
<1>2. ~PathLess(a, a) BY <1>1, GreaterIsStrict DEF PathLess
<1>3. a = b \/ PathLess(a, b) \/ PathLess(b, a) BY <1>1, GreaterIsStrict DEF PathLess
<1>4. ASSUME PathLess(a, b), PathLess(b, c) PROVE PathLess(a, c)
  <2>1. CASE Len(c) > Len(a) BY <2>1 DEF PathLess
  <2>2. CASE ~(Len(c) > Len(a))
    <3>1. Len(b) > Len(a) \/ (Len(a) = Len(b) /\ SiblingGreaterThan(a, b)) BY <1>4 DEF PathLess
    <3>2. Len(c) > Len(b) \/ (Len(b) = Len(c) /\ SiblingGreaterThan(b, c)) BY <1>4 DEF PathLess
    <3>3. Len(a) = Len(b) /\ Len(b) = Len(c) BY <1>1, <2>2, <3>1, <3>2
    <3>4. SiblingGreaterThan(a, b) /\ SiblingGreaterThan(b, c) BY <1>1, <3>1, <3>2, <3>3
    <3>5. SiblingGreaterThan(a, c) BY <3>3, <3>4, GreaterIsStrict
    <3> QED BY <3>3, <3>5 DEF PathLess
  <2> QED BY <2>1, <2>2
<1> QED BY <1>2, <1>3, <1>4

LEMMA SortedPlaces ==
    ASSUME NEW calls, CallsOK(calls)
    PROVE  \E pos : Placed(calls, Sorted(calls), pos)
<1>1. PICK n, all : n = Len(calls) /\ all = Range(calls) OBVIOUS
<1>2. /\ n \in Nat /\ DOMAIN calls = 1..n
      /\ \A m \in 1..n : calls[m].trace_address \in Seq(Nat)
      /\ \A j, m \in 1..n : calls[j].trace_address = calls[m].trace_address => j = m
  BY <1>1 DEF CallsOK
<1>3. all = {calls[m] : m \in 1..n} BY <1>1, <1>2 DEF Range
<1>4. PICK R : R = {p \in all \X all : Less(p[1], p[2])} OBVIOUS
<1>5. \A x, y \in all : <<x, y>> \in R <=> PathLess(x.trace_address, y.trace_address)
  BY <1>4 DEF Less, PathLess
<1>6. /\ \A x \in all : x.trace_address \in Seq(Nat)
      /\ \A x, y \in all : x.trace_address = y.trace_address => x = y
  BY <1>2, <1>3
<1>7. Strict(R, all) BY <1>5, <1>6, PathLessIsStrict DEF Strict
<1>8. IsFiniteSet(all) /\ Cardinality(all) = n
  <2>1. PICK f : f = [m \in 1..n |-> calls[m]] OBVIOUS
  <2>2. f \in Bijection(1..n, all)
    BY <1>3, <2>1, <1>2 DEF Bijection, Injection, IsInjective, Surjection
  <2>3. IsFiniteSet(1..n) /\ Cardinality(1..n) = n BY <1>2, FS_Interval
  <2>4. ExistsBijection(1..n, all) BY <2>2 DEF ExistsBijection
  <2>5. PICK D : D = 1..n OBVIOUS
  <2>6. IsFiniteSet(all) /\ Cardinality(all) = Cardinality(D) BY <2>3, <2>4, <2>5, FS_Bijection
  <2> QED BY <2>3, <2>5, <2>6
<1>9. PICK s : s = Sorted(calls) OBVIOUS
<1>10. /\ s = [r \in 1..n |-> CHOOSE c \in all : Cardinality({d \in all : Less(d, c)}) = r - 1]
       /\ \A c \in all : {d \in all : Less(d, c)} = Earlier(R, all, c)
  BY <1>1, <1>9, <1>4 DEF Sorted, Earlier
<1>11. PICK pos : pos = [m \in 1..n |-> Cardinality(Earlier(R, all, calls[m])) + 1] OBVIOUS
<1>12. ASSUME NEW m \in 1..n
       PROVE  /\ pos[m] = Cardinality(Earlier(R, all, calls[m])) + 1 /\ pos[m] \in 1..n
              /\ Cardinality(Earlier(R, all, calls[m])) = pos[m] - 1 /\ calls[m] \in all
  <2>1. calls[m] \in all BY <1>3
  <2>2. PICK k : k = Cardinality(Earlier(R, all, calls[m])) OBVIOUS
  <2>3. k \in 0..(n - 1) /\ k + 1 \in 1..n BY <1>7, <1>8, <2>1, <2>2, RankIn
  <2>4. k = (k + 1) - 1 BY <1>2, <2>3
  <2>5. pos[m] = k + 1 BY <1>11, <2>2
  <2> QED BY <2>1, <2>2, <2>3, <2>4, <2>5
<1>13. ASSUME NEW r \in 1..n
       PROVE  /\ s[r] \in all /\ Cardinality(Earlier(R, all, s[r])) = r - 1
              /\ \A d \in all : Cardinality(Earlier(R, all, d)) = r - 1 => d = s[r]
  <2>1. Ranked(R, all, r) BY <1>7, <1>8, RankHit
  <2>2. s[r] = CHOOSE c \in all : Cardinality({d \in all : Less(d, c)}) = r - 1 BY <1>10
  <2>3. \E c \in all : Cardinality({d \in all : Less(d, c)}) = r - 1 BY <1>10, <2>1 DEF Ranked
  <2>5. s[r] \in all /\ Cardinality({d \in all : Less(d, s[r])}) = r - 1 BY <2>2, <2>3
  <2>4. s[r] \in all /\ Cardinality(Earlier(R, all, s[r])) = r - 1 BY <1>10, <2>5
  <2> QED BY <2>1, <2>4 DEF Ranked
<1>14. \A m \in 1..n : s[pos[m]] = calls[m] BY <1>12, <1>13
<1>15. ASSUME NEW r \in 1..n PROVE \E m \in 1..n : pos[m] = r
  <2>1. PICK m \in 1..n : s[r] = calls[m] BY <1>3, <1>13
  <2>2. pos[m] = (r - 1) + 1 BY <1>12, <1>13, <2>1
  <2>3. (r - 1) + 1 = r BY <1>2
  <2> QED BY <2>2, <2>3
<1>16. ASSUME NEW j \in 1..n, NEW m \in 1..n, PathLess(calls[j].trace_address, calls[m].trace_address)
       PROVE  pos[j] < pos[m]
  <2>1. calls[j] \in all /\ calls[m] \in all /\ <<calls[j], calls[m]>> \in R BY <1>5, <1>12, <1>16
  <2>2. PICK a, b : a = Cardinality(Earlier(R, all, calls[j])) /\ b = Cardinality(Earlier(R, all, calls[m]))
    OBVIOUS
  <2>3. a < b BY <1>7, <1>8, <2>1, <2>2, RankGrows
  <2>4. pos[j] = a + 1 /\ pos[m] = b + 1 /\ pos[j] \in 1..n /\ pos[m] \in 1..n
        /\ a = pos[j] - 1 /\ b = pos[m] - 1
    BY <1>12, <2>2
  <2> QED BY <1>2, <2>3, <2>4
<1>17. \A j, m \in 1..n : pos[j] = pos[m] => j = m BY <1>2, <1>14
<1>18. Len(s) = n /\ s = [r \in 1..n |-> s[r]]
  <2>1. DOMAIN s = 1..n BY <1>10
  <2>2. s \in [1..n -> all] BY <1>10, <1>13
  <2>3. s = [r \in 1..n |-> s[r]] BY <2>2
  <2> QED BY <1>2, <2>3
<1>19. Placed(calls, s, pos) BY <1>1, <1>12, <1>14, <1>15, <1>16, <1>17, <1>18 DEF Placed
<1> QED BY <1>9, <1>19

-----------------------------------------------------------------------------
\* The rounds of the loop, and the calls below a node.

LEMMA NestMore ==
    ASSUME NEW calls, NEW n \in Nat, NEW f, NestRounds(calls, f, n)
    PROVE  \E g : NestRounds(calls, g, n + 1)
<1>1. PICK g : g = [i \in 1..(n + 1) |->
                      IF i = n + 1
                      THEN IF i = 1 THEN Sorted(calls) ELSE PopAndPush(f[i - 1])
                      ELSE f[i]]
  OBVIOUS
<1>2. /\ \A i \in 1..(n + 1) : i = n + 1 \/ i \in 1..n
      /\ \A i \in 1..(n + 1) : i # 1 => i - 1 \in 1..n /\ i - 1 \in 1..(n + 1) /\ i - 1 # n + 1
      /\ \A i \in 1..n : i \in 1..(n + 1) /\ i # n + 1
  OBVIOUS
<1>3. \A i \in 1..n : g[i] = f[i] BY <1>1, <1>2
<1>4. \A i \in 1..n : f[i] = IF i = 1 THEN Sorted(calls) ELSE PopAndPush(f[i - 1]) BY DEF NestRounds
<1>5. ASSUME NEW i \in 1..(n + 1)
      PROVE  g[i] = IF i = 1 THEN Sorted(calls) ELSE PopAndPush(g[i - 1])
  <2>1. i # 1 => g[i - 1] = f[i - 1] BY <1>2, <1>3
  <2>2. CASE i = n + 1 BY <1>1, <2>1, <2>2
  <2>3. CASE i \in 1..n BY <1>3, <1>4, <2>1, <2>3
  <2> QED BY <1>2, <2>2, <2>3
<1>6. g = [i \in 1..(n + 1) |-> g[i]] BY <1>1
<1>7. NestRounds(calls, g, n + 1) BY <1>5, <1>6 DEF NestRounds
<1> QED BY <1>7

LEMMA NestExists ==
    ASSUME NEW calls, NEW n \in Nat
    PROVE  \E f : NestRounds(calls, f, n)
<1> SUFFICES ASSUME ~\E f : NestRounds(calls, f, n) PROVE FALSE OBVIOUS
<1>1. PICK T : T = {m \in Nat : ~\E f : NestRounds(calls, f, m)} OBVIOUS
<1>2. PICK m \in T : \A y \in T : m <= y BY <1>1, LeastNumber
<1>3. m \in Nat /\ ~\E f : NestRounds(calls, f, m) BY <1>1
<1>4. CASE m = 0
  <2>1. PICK f : f = [i \in 1..0 |-> 0] OBVIOUS
  <2>2. NestRounds(calls, f, 0) BY <2>1 DEF NestRounds
  <2> QED BY <1>3, <1>4, <2>2
<1>5. CASE m # 0
  <2>1. PICK l : l = m - 1 /\ l \in Nat /\ m = l + 1 /\ ~(m <= l) BY <1>3, <1>5
  <2>2. \E f : NestRounds(calls, f, l) BY <1>1, <1>2, <2>1
  <2> QED BY <1>3, <2>1, <2>2, NestMore
<1> QED BY <1>4, <1>5

LEMMA NestIs ==
    ASSUME NEW calls, Len(calls) \in Nat
    PROVE  \E f : /\ \A i \in 1..Len(calls) : f[i] = IF i = 1 THEN Sorted(calls) ELSE PopAndPush(f[i - 1])
                  /\ Nest(calls) = [f[Len(calls)][1] EXCEPT !.trace_address = <<>>]
<1>1. PICK n : n = Len(calls) OBVIOUS
<1>2. \E f : f = [i \in 1..n |-> IF i = 1 THEN Sorted(calls) ELSE PopAndPush(f[i - 1])]
  <2>1. n \in Nat BY <1>1
  <2>2. \E f : NestRounds(calls, f, n) BY <2>1, NestExists
  <2>3. PICK f : NestRounds(calls, f, n) BY <2>2
  <2>4. f = [i \in 1..n |-> IF i = 1 THEN Sorted(calls) ELSE PopAndPush(f[i - 1])]
    BY <2>3 DEF NestRounds
  <2> QED BY <2>4
<1>3. PICK f : f = CHOOSE g : g = [i \in 1..n |-> IF i = 1 THEN Sorted(calls) ELSE PopAndPush(g[i - 1])]
  OBVIOUS
<1>4. f = [i \in 1..n |-> IF i = 1 THEN Sorted(calls) ELSE PopAndPush(f[i - 1])] BY <1>2, <1>3
<1>5. Nest(calls) = [f[n][1] EXCEPT !.trace_address = <<>>] BY <1>1, <1>3 DEF Nest
<1>6. \A i \in 1..n : f[i] = IF i = 1 THEN Sorted(calls) ELSE PopAndPush(f[i - 1]) BY <1>4
<1> QED BY <1>1, <1>5, <1>6

LEMMA ListingSame ==
    ASSUME NEW K \in SUBSET Nat, IsFiniteSet(K), NEW f, NEW g, \A c \in K : f[c] = g[c]
    PROVE  Listing(f, K) = Listing(g, K)
<1>1. \A i \in 1..Cardinality(K) : Nth(K, i) \in K BY NthOf
<1>2. \A i \in 1..Cardinality(K) : f[Nth(K, i)] = g[Nth(K, i)] BY <1>1
<1> QED BY <1>2 DEF Listing

LEMMA ChildrenFinite ==
    ASSUME NEW nodes, Ordered(nodes), NEW n \in 1..Len(nodes)
    PROVE  Children(nodes, n) \in SUBSET Nat /\ IsFiniteSet(Children(nodes, n))
<1>1. PICK K, l : K = Children(nodes, n) /\ l = Len(nodes) /\ l \in Nat /\ K \in SUBSET ((n + 1)..l)
  BY DEF Ordered
<1>2. IsFiniteSet((n + 1)..l) BY <1>1, FS_Interval
<1>3. IsFiniteSet(K) BY <1>1, <1>2, FS_Subset
<1>4. \A k \in (n + 1)..l : k \in Nat BY <1>1
<1>5. K \in SUBSET Nat BY <1>1, <1>4
<1> QED BY <1>1, <1>3, <1>5

LEMMA BelowMore ==
    ASSUME NEW nodes, Ordered(nodes), NEW k \in 1..Len(nodes), NEW f, BelowFrom(nodes, f, k + 1)
    PROVE  \E g : BelowFrom(nodes, g, k)
<1>1. PICK l : l = Len(nodes) /\ l \in Nat BY DEF Ordered
<1>2. PICK g : g = [n \in k..l |-> IF n = k THEN BelowOf(nodes, f, k) ELSE f[n]] OBVIOUS
<1>3. /\ \A n \in k..l : n = k \/ n \in (k + 1)..l
      /\ \A n \in (k + 1)..l : n \in k..l /\ n # k
      /\ \A n \in k..l : n \in 1..l /\ ((n + 1)..l) \subseteq (k + 1)..l
  BY <1>1
<1>4. \A n \in (k + 1)..l : g[n] = f[n] BY <1>2, <1>3
<1>5. ASSUME NEW n \in k..l PROVE g[n] = BelowOf(nodes, g, n)
  <2>1. PICK K : K = Children(nodes, n) OBVIOUS
  <2>2. K \in SUBSET Nat /\ IsFiniteSet(K) BY <1>1, <1>3, <2>1, ChildrenFinite
  <2>3. \A c \in K : f[c] = g[c] BY <1>1, <1>3, <1>4, <2>1 DEF Ordered
  <2>4. Listing(f, K) = Listing(g, K) BY <2>2, <2>3, ListingSame
  <2>5. BelowOf(nodes, f, n) = BelowOf(nodes, g, n) BY <2>1, <2>4 DEF BelowOf
  <2>6. CASE n = k BY <1>2, <2>5, <2>6
  <2>7. CASE n \in (k + 1)..l
    <3>1. f[n] = BelowOf(nodes, f, n) BY <1>1, <2>7 DEF BelowFrom
    <3> QED BY <1>4, <2>5, <2>7, <3>1
  <2> QED BY <1>3, <2>6, <2>7
<1>6. g = [n \in k..l |-> g[n]] BY <1>2
<1>7. BelowFrom(nodes, g, k) BY <1>1, <1>5, <1>6 DEF BelowFrom
<1> QED BY <1>7

LEMMA BelowExists ==
    ASSUME NEW nodes, Ordered(nodes)
    PROVE  \E f : BelowFrom(nodes, f, 1)
<1>1. PICK l : l = Len(nodes) /\ l \in Nat BY DEF Ordered
<1>2. PICK T : T = {m \in Nat : m \in 0..l /\ ~\E f : BelowFrom(nodes, f, l + 1 - m)} OBVIOUS
<1>3. T = {}
  <2> SUFFICES ASSUME T # {} PROVE FALSE OBVIOUS
  <2>1. PICK m \in T : \A y \in T : m <= y BY <1>2, LeastNumber
  <2>2. m \in Nat /\ m \in 0..l /\ ~\E f : BelowFrom(nodes, f, l + 1 - m) BY <1>2, <2>1
  <2>3. CASE m = 0
    <3>1. l + 1 - m = l + 1 /\ (l + 1)..l = {} BY <1>1, <2>3
    <3>2. PICK f : f = [n \in (l + 1)..l |-> 0] OBVIOUS
    <3>3. BelowFrom(nodes, f, l + 1) BY <1>1, <3>1, <3>2 DEF BelowFrom
    <3> QED BY <2>2, <3>1, <3>3
  <2>4. CASE m # 0
    <3>1. PICK j, k : j = m - 1 /\ k = l + 1 - m OBVIOUS
    <3>2. j \in Nat /\ j \in 0..l /\ ~(m <= j) /\ k \in 1..l /\ k + 1 = l + 1 - j
      BY <1>1, <2>2, <2>4, <3>1
    <3>3. \E f : BelowFrom(nodes, f, l + 1 - j) BY <1>2, <2>1, <3>2
    <3>4. PICK f : BelowFrom(nodes, f, k + 1) BY <3>2, <3>3
    <3>5. \E g : BelowFrom(nodes, g, k) BY <1>1, <3>2, <3>4, BelowMore
    <3> QED BY <2>2, <3>1, <3>5
  <2> QED BY <2>3, <2>4
<1>4. l \in Nat /\ l \in 0..l /\ l + 1 - l = 1 BY <1>1
<1>5. \E f : BelowFrom(nodes, f, l + 1 - l) BY <1>2, <1>3, <1>4
<1> QED BY <1>4, <1>5

LEMMA TreeBelowIs ==
    ASSUME NEW nodes, Ordered(nodes)
    PROVE  \E f : /\ \A n \in 1..Len(nodes) : f[n] = BelowOf(nodes, f, n)
                  /\ TreeBelow(nodes) = f[1]
<1>1. PICK g : BelowFrom(nodes, g, 1) BY BelowExists
<1>2. g = [n \in 1..Len(nodes) |->
             [TracerCall(nodes[n]) EXCEPT !.trace_address = <<>>,
                !.calls = [i \in 1..Cardinality(Children(nodes, n)) |-> g[Nth(Children(nodes, n), i)]]]]
  BY <1>1 DEF BelowFrom, BelowOf, Listing
<1>3. PICK f : f = CHOOSE b :
            b = [n \in 1..Len(nodes) |->
                   [TracerCall(nodes[n]) EXCEPT !.trace_address = <<>>,
                      !.calls = [i \in 1..Cardinality(Children(nodes, n)) |-> b[Nth(Children(nodes, n), i)]]]]
  OBVIOUS
<1>4. f = [n \in 1..Len(nodes) |->
             [TracerCall(nodes[n]) EXCEPT !.trace_address = <<>>,
                !.calls = [i \in 1..Cardinality(Children(nodes, n)) |-> f[Nth(Children(nodes, n), i)]]]]
  BY <1>2, <1>3
<1>5. TreeBelow(nodes) = f[1] BY <1>3 DEF TreeBelow
<1>6. \A n \in 1..Len(nodes) : f[n] = BelowOf(nodes, f, n) BY <1>4 DEF BelowOf, Listing
<1> QED BY <1>5, <1>6

-----------------------------------------------------------------------------
\* The loop of the call tracer.

LEMMA ChildrenAre ==
    ASSUME NEW nodes, NEW par, NEW num, Rooted(nodes, par, num), NEW n \in 1..Len(nodes)
    PROVE  Children(nodes, n) = {m \in 1..Len(nodes) : m # 1 /\ par[m] = n}
<1>1. PICK l : l = Len(nodes) OBVIOUS
<1>2. /\ l \in Nat /\ n \in 1..l
      /\ \A m \in 1..l : nodes[m].trace_address \in Seq(Nat)
      /\ nodes[1].trace_address = <<>>
      /\ \A m \in 1..l : m # 1 => /\ par[m] \in 1..(m - 1) /\ num[m] \in Nat
                                  /\ nodes[m].trace_address = Append(nodes[par[m]].trace_address, num[m])
      /\ \A j, m \in 1..l : nodes[j].trace_address = nodes[m].trace_address => j = m
  BY <1>1 DEF Rooted, Branching
<1>3. \A m \in 1..l : \A k \in 1..(m - 1) : k \in 1..l BY <1>2
<1>4. ASSUME NEW m \in 1..l
      PROVE  /\ nodes[m].trace_address # <<>>
             /\ Front(nodes[m].trace_address) = nodes[n].trace_address
             <=> m # 1 /\ par[m] = n
  <2>1. CASE m = 1 BY <1>2, <2>1
  <2>2. CASE m # 1
    <3>1. PICK c, a, x, p : c = par[m] /\ a = nodes[c].trace_address /\ x = num[m] /\ p = nodes[m].trace_address
      OBVIOUS
    <3>2. c \in 1..l /\ x \in Nat /\ p = Append(a, x) BY <1>2, <1>3, <2>2, <3>1
    <3>3. a \in Seq(Nat) BY <1>2, <3>1, <3>2
    <3>4. p # <<>> /\ Front(p) = a BY <3>2, <3>3, AppendFront
    <3>5. a = nodes[n].trace_address <=> c = n BY <1>2, <3>1, <3>2
    <3> QED BY <2>2, <3>1, <3>4, <3>5
  <2> QED BY <2>1, <2>2
<1> QED BY <1>1, <1>4 DEF Children

LEMMA RootedOrdered ==
    ASSUME NEW nodes, NEW par, NEW num, Rooted(nodes, par, num)
    PROVE  Ordered(nodes)
<1>1. PICK l : l = Len(nodes) /\ l \in Nat /\ \A m \in 1..l : m # 1 => par[m] \in 1..(m - 1)
  BY DEF Rooted, Branching
<1>2. ASSUME NEW n \in 1..l PROVE Children(nodes, n) \in SUBSET ((n + 1)..l) BY <1>1, ChildrenAre
<1> QED BY <1>1, <1>2 DEF Ordered

\* One more node after the others of the set.
LEMMA ListingMore ==
    ASSUME NEW K \in SUBSET Nat, IsFiniteSet(K), NEW m \in Nat, \A k \in K : k < m, NEW f
    PROVE  Listing(f, K \cup {m}) = Append(Listing(f, K), f[m])
<1>1. PICK J, c : J = K \cup {m} /\ c = Cardinality(K) OBVIOUS
<1>2. m \notin K
  <2>1. ~(m < m) OBVIOUS
  <2> QED BY <2>1
<1>3. /\ c \in Nat /\ J \in SUBSET Nat /\ IsFiniteSet(J) /\ Cardinality(J) = c + 1
  BY <1>1, <1>2, FS_CardinalityType, FS_AddElement
<1>4. /\ c + 1 \in 1..(c + 1) /\ (c + 1) - 1 = c /\ \A i \in 1..c : i \in 1..(c + 1) /\ i # c + 1
      /\ \A i \in 1..(c + 1) : i = c + 1 \/ i \in 1..c
  BY <1>3
<1>5. Nth(J, c + 1) = m
  <2>0. ~(m < m) /\ \A u : u \in J <=> u \in K \/ u = m BY <1>1
  <2>1. {u \in J : u < m} = K BY <2>0
  <2>2. Cardinality({u \in J : u < m}) = (c + 1) - 1 BY <1>1, <1>4, <2>1
  <2>3. m \in J /\ c + 1 \in 1..Cardinality(J) BY <1>1, <1>3, <1>4
  <2>4. \A k \in J : Cardinality({u \in J : u < k}) = (c + 1) - 1 => k = Nth(J, c + 1)
    BY <1>3, <2>3, NthOf
  <2> QED BY <2>2, <2>3, <2>4
<1>6. ASSUME NEW i \in 1..c PROVE Nth(J, i) = Nth(K, i)
  <2>1. PICK k : k = Nth(K, i) OBVIOUS
  <2>2. Nth(K, i) \in K /\ Cardinality({u \in K : u < Nth(K, i)}) = i - 1 BY <1>1, NthOf
  <2>3. k \in K /\ k < m /\ k \in Nat /\ k \in J BY <1>1, <2>1, <2>2
  <2>4. ~(m < k) BY <2>3
  <2>5. {u \in J : u < k} = {u \in K : u < k} BY <1>1, <2>4
  <2>6. Cardinality({u \in J : u < k}) = i - 1 BY <2>1, <2>2, <2>5
  <2>7. i \in 1..Cardinality(J) BY <1>3, <1>4
  <2>8. \A v \in J : Cardinality({u \in J : u < v}) = i - 1 => v = Nth(J, i) BY <1>3, <2>7, NthOf
  <2> QED BY <2>1, <2>3, <2>6, <2>8
<1>7. PICK a, b : a = Listing(f, K) /\ b = Listing(f, J) OBVIOUS
<1>8. a = [i \in 1..c |-> f[Nth(K, i)]] /\ b = [i \in 1..(c + 1) |-> f[Nth(J, i)]]
  BY <1>1, <1>3, <1>7 DEF Listing
<1>9. Append(a, f[m]) = [i \in 1..(c + 1) |-> IF i = c + 1 THEN f[m] ELSE a[i]] BY <1>3, <1>8
<1>10. \A i \in 1..(c + 1) : f[Nth(J, i)] = IF i = c + 1 THEN f[m] ELSE a[i]
  BY <1>4, <1>5, <1>6, <1>8
<1>11. b = Append(a, f[m]) BY <1>8, <1>9, <1>10
<1> QED BY <1>1, <1>7, <1>11

LEMMA CallFields ==
    ASSUME NEW t, NEW r, NEW g, NEW p, NEW c, NEW w, w = CallWith(t, r, g, p, c), NEW v
    PROVE  /\ w.trace_address = p /\ w.calls = c
           /\ [w EXCEPT !.trace_address = v] = CallWith(t, r, g, v, c)
           /\ [w EXCEPT !.calls = v] = CallWith(t, r, g, p, v)
           /\ [w EXCEPT !.gas_used = v] = CallWith(t, r, v, p, c)
BY DEF CallWith

LEMMA PlacesAre ==
    ASSUME NEW nodes, NEW par, NEW num, Rooted(nodes, par, num), Len(nodes) > 0,
           NEW calls, NEW gas, CallsOf(calls, nodes, gas), NEW sorted, NEW pos, Placed(calls, sorted, pos)
    PROVE  PlaceOK(nodes, par, pos)
<1>1. PICK l : l = Len(nodes) OBVIOUS
<1>2. PICK P : P = [m \in 1..l |-> nodes[m].trace_address] OBVIOUS
<1>3. /\ l \in Nat /\ l > 0 /\ \A m \in 1..l : P[m] \in Seq(Nat) /\ P[m] = nodes[m].trace_address
      /\ P[1] = <<>>
      /\ \A m \in 1..l : m # 1 => /\ par[m] \in 1..(m - 1) /\ num[m] \in Nat /\ par[m] \in 1..l
                                  /\ P[m] = Append(P[par[m]], num[m])
      /\ \A j, m \in 1..l : j # 1 /\ j < m /\ par[j] = par[m] => num[j] < num[m]
  <2>1. l \in Nat /\ l > 0 BY <1>1 DEF Rooted
  <2>2. 1 \in 1..l /\ \A m \in 1..l : \A k \in 1..(m - 1) : k \in 1..l BY <2>1
  <2>3. \A m \in 1..l : P[m] \in Seq(Nat) /\ P[m] = nodes[m].trace_address BY <1>1, <1>2 DEF Rooted
  <2>4. P[1] = <<>> BY <1>1, <2>1, <2>2, <2>3 DEF Rooted, Branching
  <2>5. \A m \in 1..l : m # 1 => /\ par[m] \in 1..(m - 1) /\ num[m] \in Nat
                                 /\ nodes[m].trace_address = Append(nodes[par[m]].trace_address, num[m])
    BY <1>1 DEF Rooted, Branching
  <2>6. \A m \in 1..l : m # 1 => par[m] \in 1..l BY <2>2, <2>5
  <2>7. \A m \in 1..l : m # 1 => P[m] = Append(P[par[m]], num[m]) BY <2>3, <2>5, <2>6
  <2>8. \A j, m \in 1..l : j # 1 /\ j < m /\ par[j] = par[m] => num[j] < num[m]
    BY <1>1 DEF Rooted, Branching
  <2> QED BY <2>1, <2>3, <2>4, <2>5, <2>6, <2>7, <2>8
<1>4. /\ \A m \in 1..l : pos[m] \in 1..l
      /\ \A r \in 1..l : \E m \in 1..l : pos[m] = r
      /\ \A j, m \in 1..l : pos[j] = pos[m] => j = m
      /\ \A j, m \in 1..l : PathLess(P[j], P[m]) => pos[j] < pos[m]
  <2>1. Len(calls) = l /\ \A m \in 1..l : calls[m].trace_address = P[m]
    <3>1. Len(calls) = l BY <1>1 DEF CallsOf
    <3>2. ASSUME NEW m \in 1..l PROVE calls[m].trace_address = P[m]
      BY <1>1, CallFields, <1>3 DEF CallsOf
    <3> QED BY <3>1, <3>2
  <2> QED BY <2>1 DEF Placed
<1>5. ASSUME NEW m \in 1..l, m # 1
      PROVE  /\ Len(P[m]) = Len(P[par[m]]) + 1 /\ Len(P[par[m]]) \in Nat
             /\ \A i \in 1..Len(P[par[m]]) : P[m][i] = P[par[m]][i]
             /\ P[m][Len(P[par[m]]) + 1] = num[m]
  <2>1. PICK p, a, k, x : p = P[m] /\ a = P[par[m]] /\ k = Len(a) /\ x = num[m] OBVIOUS
  <2>2. a \in Seq(Nat) /\ x \in Nat /\ p = Append(a, x) BY <1>3, <1>5, <2>1
  <2>3. Longer(p, a, k, x) BY <2>1, <2>2, PathAppend
  <2> QED BY <2>1, <2>3 DEF Longer
<1>6. ASSUME NEW m \in 1..l, m # 1 PROVE pos[par[m]] < pos[m]
  <2>1. Len(P[m]) > Len(P[par[m]]) BY <1>5, <1>6
  <2>2. PathLess(P[par[m]], P[m]) BY <2>1 DEF PathLess
  <2> QED BY <1>3, <1>4, <1>6, <2>2
<1>7. pos[1] = 1
  <2>1. \A m \in 1..l : m # 1 => pos[1] < pos[m]
    <3> SUFFICES ASSUME NEW m \in 1..l, m # 1 PROVE pos[1] < pos[m] OBVIOUS
    <3>1. Len(P[1]) = 0 BY <1>3
    <3>2. Len(P[m]) > Len(P[1]) BY <1>5, <3>1
    <3>3. PathLess(P[1], P[m]) /\ 1 \in 1..l BY <1>3, <3>2 DEF PathLess
    <3> QED BY <1>4, <3>3
  <2>2. 1 \in 1..l BY <1>3
  <2>3. PICK m \in 1..l : pos[m] = 1 BY <1>4, <2>2
  <2>4. pos[1] \in 1..l BY <1>4, <2>2
  <2>5. ~(pos[1] < 1) BY <1>3, <2>4
  <2> QED BY <2>1, <2>3, <2>5
<1>8. ASSUME NEW j \in 1..l, NEW m \in 1..l, j # 1, m # 1, par[j] = par[m], j < m
      PROVE  pos[m] < pos[j]
  <2>1. PICK a, p, q, k : a = P[par[m]] /\ p = P[m] /\ q = P[j] /\ k = Len(P[par[m]]) OBVIOUS
  <2>2. /\ k \in Nat /\ Len(p) = k + 1 /\ Len(q) = k + 1
        /\ p[k + 1] = num[m] /\ q[k + 1] = num[j]
        /\ \A i \in 1..k : p[i] = a[i] /\ q[i] = a[i]
    BY <1>5, <1>8, <2>1, SMTT(30)
  <2>3. num[j] < num[m] /\ num[j] \in Nat /\ num[m] \in Nat BY <1>3, <1>8
  <2>4. num[m] > num[j] BY <2>3
  <2>5. k + 1 \in 1..(k + 1) /\ (k + 1) - 1 = k BY <2>2
  <2>6. SiblingGreaterThan(p, q)
    <3>1. p[k + 1] > q[k + 1] BY <2>2, <2>4
    <3>2. \A i \in 1..((k + 1) - 1) : p[i] = q[i] BY <2>2, <2>5
    <3> QED BY <2>2, <2>5, <3>1, <3>2 DEF SiblingGreaterThan
  <2>7. PathLess(p, q) BY <2>2, <2>6 DEF PathLess
  <2> QED BY <1>4, <2>1, <2>7
<1> QED BY <1>1, <1>4, <1>6, <1>7, <1>8 DEF PlaceOK

LEMMA BelowIs ==
    ASSUME NEW nodes, NEW f, NEW n
    PROVE  BelowOf(nodes, f, n) = CallWith(nodes[n].type, nodes[n].res, nodes[n].gas_used, <<>>,
                                           Listing(f, Children(nodes, n)))
<1>1. PICK k, t, r, g, p, w : /\ k = Listing(f, Children(nodes, n)) /\ t = nodes[n].type
                              /\ r = nodes[n].res /\ g = nodes[n].gas_used
                              /\ p = nodes[n].trace_address /\ w = TracerCall(nodes[n])
  OBVIOUS
<1>2. w = CallWith(t, r, g, p, <<>>) BY <1>1 DEF TracerCall, CallWith
<1>3. [w EXCEPT !.trace_address = <<>>, !.calls = k] = CallWith(t, r, g, <<>>, k)
  <2>1. PICK u : u = [w EXCEPT !.trace_address = <<>>] OBVIOUS
  <2>2. u = CallWith(t, r, g, <<>>, <<>>) BY <1>2, <2>1, CallFields
  <2>3. [u EXCEPT !.calls = k] = CallWith(t, r, g, <<>>, k) BY <2>2, CallFields
  <2>4. [w EXCEPT !.trace_address = <<>>, !.calls = k] = [u EXCEPT !.calls = k] BY <2>1
  <2> QED BY <2>3, <2>4
<1>4. BelowOf(nodes, f, n) = [w EXCEPT !.trace_address = <<>>, !.calls = k] BY <1>1 DEF BelowOf
<1> QED BY <1>1, <1>3, <1>4

LEMMA LateAre ==
    ASSUME NEW nodes, NEW par, NEW num, Rooted(nodes, par, num), NEW pos, PlaceOK(nodes, par, pos),
           NEW m \in 1..Len(nodes)
    PROVE  Late(nodes, pos, m, pos[m]) = Children(nodes, m)
<1>1. PICK l : l = Len(nodes) OBVIOUS
<1>2. Children(nodes, m) = {c \in 1..l : c # 1 /\ par[c] = m} BY <1>1, ChildrenAre
<1>3. /\ l \in Nat /\ \A c \in 1..l : pos[c] \in 1..l
      /\ \A c \in 1..l : c # 1 => pos[par[c]] < pos[c]
  BY <1>1 DEF PlaceOK, Rooted
<1>4. \A c \in 1..l : c # 1 /\ par[c] = m => pos[m] < pos[c] BY <1>3
<1>5. \A c \in 1..l : pos[m] < pos[c] => pos[c] > pos[m] BY <1>1, <1>3
<1> QED BY <1>2, <1>4, <1>5 DEF Late

LEMMA LateFinite ==
    ASSUME NEW nodes, Ordered(nodes), NEW m \in 1..Len(nodes), NEW pos, NEW L
    PROVE  Late(nodes, pos, m, L) \in SUBSET Nat /\ IsFiniteSet(Late(nodes, pos, m, L))
<1>1. PICK K, T : K = Children(nodes, m) /\ T = Late(nodes, pos, m, L) OBVIOUS
<1>2. K \in SUBSET Nat /\ IsFiniteSet(K) BY <1>1, ChildrenFinite
<1>3. T \in SUBSET K BY <1>1 DEF Late
<1>4. IsFiniteSet(T) BY <1>2, <1>3, FS_Subset
<1> QED BY <1>1, <1>2, <1>3, <1>4

LEMMA LateMore ==
    ASSUME NEW nodes, NEW par, NEW num, Rooted(nodes, par, num), NEW pos, PlaceOK(nodes, par, pos),
           NEW L \in 2..Len(nodes), NEW m \in 1..Len(nodes), pos[m] = L
    PROVE  LateGrows(nodes, par, pos, L, m)
<1>1. PICK l, d, K : l = Len(nodes) /\ d = par[m] /\ K = L - 1 OBVIOUS
<1>2. /\ l \in Nat /\ L \in 2..l /\ \A c \in 1..l : pos[c] \in 1..l
      /\ \A i, j \in 1..l : pos[i] = pos[j] => i = j
      /\ \A c \in 1..l : c # 1 => pos[par[c]] < pos[c] /\ par[c] \in 1..(c - 1)
      /\ \A i, j \in 1..l : i # 1 /\ j # 1 /\ par[i] = par[j] /\ i < j => pos[j] < pos[i]
      /\ pos[1] = 1
  BY <1>1 DEF PlaceOK, Rooted, Branching
<1>3. m # 1 BY <1>2
<1>4. d \in 1..(m - 1) /\ pos[d] < pos[m] BY <1>1, <1>2, <1>3
<1>5. d \in 1..l /\ m \in 1..l BY <1>1, <1>2, <1>4
<1>6. pos[d] \in 1..K /\ K \in Nat /\ L = K + 1 BY <1>1, <1>2, <1>4, <1>5
<1>7. \A c \in 1..l : pos[c] > K <=> pos[c] > L \/ pos[c] = L BY <1>2, <1>6
<1>8. \A c \in 1..l : pos[c] > K <=> pos[c] > L \/ c = m BY <1>2, <1>5, <1>7
<1>9. \A j \in 1..l : Children(nodes, j) = {c \in 1..l : c # 1 /\ par[c] = j} BY <1>1, ChildrenAre
<1>10. Late(nodes, pos, d, K) = Late(nodes, pos, d, L) \cup {m}
  BY <1>1, <1>3, <1>5, <1>8, <1>9 DEF Late
<1>11. \A j \in 1..l : j # d => Late(nodes, pos, j, K) = Late(nodes, pos, j, L)
  BY <1>1, <1>8, <1>9 DEF Late
<1>12. ASSUME NEW c \in Late(nodes, pos, d, L) PROVE c < m
  <2>1. c \in 1..l /\ c # 1 /\ par[c] = d /\ pos[c] > L BY <1>5, <1>9 DEF Late
  <2>2. c # m /\ ~(pos[c] < pos[m]) BY <1>2, <2>1
  <2>3. ~(m < c) BY <1>1, <1>2, <1>3, <1>5, <2>1, <2>2
  <2> QED BY <1>2, <1>5, <2>1, <2>2, <2>3
<1> QED BY <1>1, <1>3, <1>5, <1>6, <1>10, <1>11, <1>12 DEF LateGrows

LEMMA PoppedList ==
    ASSUME NEW seq, NEW L \in Nat, L > 0, Len(seq) = L, seq = [r \in 1..L |-> seq[r]]
    PROVE  Last(seq) = seq[L] /\ Front(seq) = [r \in 1..(L - 1) |-> seq[r]]
<1>1. PICK S : S = {seq[r] : r \in 1..L} OBVIOUS
<1>2. seq \in Seq(S) BY <1>1
<1>3. Front(seq) = SubSeq(seq, 1, L - 1) BY DEF Front
<1>4. SubSeq(seq, 1, L - 1) = [r \in 1..(L - 1) |-> seq[r]]
  <2>1. PICK K : K = L - 1 /\ K \in Nat /\ K <= L OBVIOUS
  <2> QED BY <1>2
<1> QED BY <1>3, <1>4 DEF Last

\* The popped call, and the only one that has its parent's path.
LEMMA LastIsBelow ==
    ASSUME NEW nodes, NEW par, NEW num, NEW gas, NEW pos, NEW B,
           Looping(nodes, par, num, gas, pos, B), NEW L \in 2..Len(nodes), NEW seq,
           Round(nodes, gas, pos, B, seq, L), NEW m \in 1..Len(nodes), pos[m] = L, m # 1
    PROVE  /\ Last(seq).trace_address = nodes[m].trace_address
           /\ [Last(seq) EXCEPT !.trace_address = <<>>] = B[m]
<1>1. L \in Nat /\ L > 0 /\ L \in 1..L BY DEF Looping, Rooted
<1>2. Len(seq) = L /\ seq = [r \in 1..L |-> seq[r]] BY DEF Round
<1>3. Last(seq) = seq[L] BY <1>1, <1>2, PoppedList
<1>4. PICK k, t, r, g, p, w : /\ k = Listing(B, Children(nodes, m)) /\ t = nodes[m].type
                              /\ r = nodes[m].res /\ g = nodes[m].gas_used
                              /\ p = nodes[m].trace_address /\ w = Last(seq)
  OBVIOUS
<1>5. seq[pos[m]] = CallWith(nodes[m].type, nodes[m].res, gas[m], nodes[m].trace_address,
                             Listing(B, Late(nodes, pos, m, L)))
  BY <1>1 DEF Round
<1>6. Late(nodes, pos, m, L) = Children(nodes, m) BY LateAre DEF Looping
<1>7. gas[m] = g BY <1>4 DEF Looping, GasOf
<1>8. w = CallWith(t, r, g, p, k) BY <1>3, <1>4, <1>5, <1>6, <1>7
<1>9. w.trace_address = p /\ [w EXCEPT !.trace_address = <<>>] = CallWith(t, r, g, <<>>, k)
  BY <1>8, CallFields
<1>10. B[m] = CallWith(t, r, g, <<>>, k)
  <2>1. B[m] = BelowOf(nodes, B, m) BY DEF Looping, BelowAll
  <2>2. BelowOf(nodes, B, m) = CallWith(t, r, g, <<>>, k) BY <1>4, BelowIs
  <2> QED BY <2>1, <2>2
<1> QED BY <1>4, <1>9, <1>10

LEMMA OneParent ==
    ASSUME NEW nodes, NEW par, NEW num, NEW gas, NEW pos, NEW B,
           Looping(nodes, par, num, gas, pos, B), NEW L \in 2..Len(nodes), NEW seq,
           Round(nodes, gas, pos, B, seq, L), NEW m \in 1..Len(nodes), m # 1,
           par[m] \in 1..Len(nodes), pos[par[m]] \in 1..(L - 1)
    PROVE  {i \in 1..(L - 1) : seq[i].trace_address = Front(nodes[m].trace_address)} = {pos[par[m]]}
<1>1. PICK l, d, K : l = Len(nodes) /\ d = par[m] /\ K = L - 1 OBVIOUS
<1>2. l \in Nat /\ d \in 1..l /\ pos[d] \in 1..K BY <1>1 DEF Looping, Rooted
<1>3. \A i \in 1..K : i \in 1..L /\ i \in 1..l BY <1>1, <1>2
<1>4. Front(nodes[m].trace_address) = nodes[d].trace_address
  <2>1. m \in Children(nodes, d)
    <3>1. Children(nodes, d) = {c \in 1..l : c # 1 /\ par[c] = d}
      BY <1>1, <1>2, ChildrenAre DEF Looping
    <3> QED BY <1>1, <3>1
  <2> QED BY <2>1 DEF Children
<1>5. ASSUME NEW i \in 1..K
      PROVE  seq[i].trace_address = nodes[d].trace_address <=> i = pos[d]
  <2>1. PICK j \in 1..l : pos[j] = i BY <1>1, <1>3 DEF Looping, PlaceOK
  <2>2. PICK t, r, g, p, k : /\ t = nodes[j].type /\ r = nodes[j].res /\ g = gas[j]
                             /\ p = nodes[j].trace_address /\ k = Listing(B, Late(nodes, pos, j, L))
    OBVIOUS
  <2>3. seq[i] = CallWith(t, r, g, p, k) BY <1>1, <1>3, <2>1, <2>2 DEF Round
  <2>4. seq[i].trace_address = p BY <2>3, CallFields
  <2>5. p = nodes[d].trace_address <=> j = d BY <1>1, <1>2, <2>2 DEF Looping, Rooted, Branching
  <2>6. i = pos[d] <=> j = d BY <1>1, <1>2, <2>1 DEF Looping, PlaceOK
  <2> QED BY <2>4, <2>5, <2>6
<1> QED BY <1>1, <1>2, <1>4, <1>5

LEMMA RoundStep ==
    ASSUME NEW nodes, NEW par, NEW num, NEW gas, NEW pos, NEW B,
           Looping(nodes, par, num, gas, pos, B), NEW L \in 2..Len(nodes), NEW seq,
           Round(nodes, gas, pos, B, seq, L)
    PROVE  Round(nodes, gas, pos, B, PopAndPush(seq), L - 1)
<1>1. PICK l, K, rest : l = Len(nodes) /\ K = L - 1 /\ rest = Front(seq) OBVIOUS
<1>2. /\ l \in Nat /\ L \in 2..l /\ K \in Nat /\ L \in Nat /\ L > 0 /\ L \in 1..l
      /\ \A i \in 1..K : i \in 1..L /\ i \in 1..l
  BY <1>1 DEF Looping, Rooted
<1>3. PICK m \in 1..l : pos[m] = L BY <1>1, <1>2 DEF Looping, PlaceOK
<1>4. PICK d : d = par[m] OBVIOUS
<1>5. /\ m # 1 /\ d \in 1..l /\ pos[d] \in 1..K
      /\ Late(nodes, pos, d, K) = Late(nodes, pos, d, L) \cup {m}
      /\ \A c \in Late(nodes, pos, d, L) : c < m
      /\ \A j \in 1..l : j # d => Late(nodes, pos, j, K) = Late(nodes, pos, j, L)
  <2>1. Rooted(nodes, par, num) /\ PlaceOK(nodes, par, pos) BY DEF Looping
  <2>2. m \in 1..Len(nodes) BY <1>1
  <2>3. LateGrows(nodes, par, pos, L, m) BY <1>3, <2>1, <2>2, LateMore
  <2> QED BY <1>1, <1>4, <2>3 DEF LateGrows
<1>6. Len(seq) = L /\ seq = [r \in 1..L |-> seq[r]] BY DEF Round
<1>7. rest = [r \in 1..K |-> seq[r]] /\ Len(rest) = K
  <2>1. Front(seq) = [r \in 1..(L - 1) |-> seq[r]] BY <1>2, <1>6, PoppedList
  <2>2. rest = [r \in 1..K |-> seq[r]] BY <1>1, <2>1
  <2> QED BY <1>2, <2>2
<1>8. PICK last, P, b : /\ last = Last(seq)
                        /\ P = {i \in 1..K : rest[i].trace_address = Front(Last(seq).trace_address)}
                        /\ b = B[m]
  OBVIOUS
<1>9. last.trace_address = nodes[m].trace_address /\ [last EXCEPT !.trace_address = <<>>] = b
  BY <1>1, <1>3, <1>5, <1>8, LastIsBelow
<1>10. P = {pos[d]}
  <2>1. {i \in 1..K : seq[i].trace_address = Front(nodes[m].trace_address)} = {pos[d]}
    BY <1>1, <1>3, <1>4, <1>5, OneParent
  <2>2. P = {i \in 1..K : seq[i].trace_address = Front(nodes[m].trace_address)} BY <1>7, <1>8, <1>9
  <2> QED BY <2>1, <2>2
<1>11. Min(P) = pos[d]
  <2>1. pos[d] \in Nat BY <1>2, <1>5
  <2>2. \E x \in P : \A y \in P : x <= y BY <1>10, <2>1
  <2> QED BY <1>10, <2>2 DEF Min
<1>12. PICK new : new = PopAndPush(seq) OBVIOUS
<1>13. new = [rest EXCEPT ![pos[d]].calls = Append(@, b)]
  BY <1>10, <1>1, <1>7, <1>8, <1>12, <1>9, <1>11, ZenonT(60) DEF PopAndPush
<1>14. /\ new = [r \in 1..K |-> new[r]] /\ Len(new) = K
       /\ new[pos[d]] = [rest[pos[d]] EXCEPT !.calls = Append(rest[pos[d]].calls, b)]
       /\ \A r \in 1..K : r # pos[d] => new[r] = rest[r]
  <2>1. PICK x, w, u : /\ x = pos[d] /\ w = rest[pos[d]]
                       /\ u = [rest[pos[d]] EXCEPT !.calls = Append(rest[pos[d]].calls, b)]
    OBVIOUS
  <2>2. new = [rest EXCEPT ![x] = u] BY <1>13, <2>1
  <2>3. DOMAIN rest = 1..K /\ x \in 1..K BY <1>5, <1>7, <2>1
  <2>4. new = [r \in 1..K |-> IF r = x THEN u ELSE rest[r]] BY <2>2, <2>3
  <2>5. Len(new) = K BY <1>2, <2>4
  <2> QED BY <2>1, <2>3, <2>4, <2>5
<1>15. ASSUME NEW j \in 1..l, pos[j] \in 1..K
       PROVE  new[pos[j]] = CallWith(nodes[j].type, nodes[j].res, gas[j], nodes[j].trace_address,
                                     Listing(B, Late(nodes, pos, j, K)))
  <2>1. PICK t, r, g, p, k : /\ t = nodes[j].type /\ r = nodes[j].res /\ g = gas[j]
                             /\ p = nodes[j].trace_address /\ k = Listing(B, Late(nodes, pos, j, L))
    OBVIOUS
  <2>2. rest[pos[j]] = CallWith(t, r, g, p, k)
    <3>1. pos[j] \in 1..L BY <1>2, <1>15
    <3>2. seq[pos[j]] = CallWith(t, r, g, p, k) BY <1>1, <2>1, <3>1 DEF Round
    <3> QED BY <1>7, <1>15, <3>2
  <2>3. CASE j = d
    <3>1. PICK w, v : w = rest[pos[d]] /\ v = Append(k, b) OBVIOUS
    <3>2. w = CallWith(t, r, g, p, k) BY <2>2, <2>3, <3>1
    <3>3. w.calls = k /\ [w EXCEPT !.calls = v] = CallWith(t, r, g, p, v) BY <3>2, CallFields
    <3>4. new[pos[d]] = CallWith(t, r, g, p, v) BY <1>14, <3>1, <3>3
    <3>5. v = Listing(B, Late(nodes, pos, d, K))
      <4>1. PICK M : M = Late(nodes, pos, d, L) OBVIOUS
      <4>2. M \in SUBSET Nat /\ IsFiniteSet(M)
        <5>1. Ordered(nodes) BY RootedOrdered DEF Looping
        <5> QED BY <1>1, <1>5, <4>1, <5>1, LateFinite
      <4>3. m \in Nat /\ \A c \in M : c < m BY <1>2, <1>5, <4>1
      <4>4. Listing(B, M \cup {m}) = Append(Listing(B, M), B[m]) BY <4>2, <4>3, ListingMore
      <4> QED BY <1>5, <1>8, <2>1, <2>3, <3>1, <4>1, <4>4
    <3> QED BY <2>1, <2>3, <3>4, <3>5
  <2>4. CASE j # d
    <3>1. pos[j] # pos[d] BY <1>1, <1>5, <2>4 DEF Looping, PlaceOK
    <3>2. new[pos[j]] = rest[pos[j]] BY <1>14, <1>15, <3>1
    <3>3. Late(nodes, pos, j, K) = Late(nodes, pos, j, L) BY <1>5, <2>4
    <3> QED BY <2>1, <2>2, <3>2, <3>3
  <2> QED BY <2>3, <2>4
<1>16. Round(nodes, gas, pos, B, new, K) BY <1>1, <1>14, <1>15 DEF Round
<1> QED BY <1>1, <1>12, <1>16

\* The loop returns the tree of the nodes, whatever the gas of the outermost call.
LEMMA NestsTheTree ==
    ASSUME NEW nodes, NEW par, NEW num, Rooted(nodes, par, num), Len(nodes) > 0,
           NEW calls, NEW gas, CallsOf(calls, nodes, gas)
    PROVE  Shape(Nest(calls)) = Shape(TreeBelow(nodes))
<1>1. PICK l : l = Len(nodes) OBVIOUS
<1>2. l \in Nat /\ l > 0 /\ l \in 1..l /\ 1 \in 1..l /\ Len(calls) = l /\ DOMAIN calls = 1..l
  BY <1>1 DEF Rooted, CallsOf
<1>3. ASSUME NEW m \in 1..l
      PROVE  /\ calls[m] = CallWith(nodes[m].type, nodes[m].res, gas[m], nodes[m].trace_address, <<>>)
             /\ calls[m].trace_address = nodes[m].trace_address
  BY <1>1, CallFields DEF CallsOf
<1>4. CallsOK(calls) BY <1>1, <1>2, <1>3 DEF CallsOK, Rooted, Branching
<1>5. PICK pos : Placed(calls, Sorted(calls), pos) BY <1>4, SortedPlaces
<1>6. PlaceOK(nodes, par, pos) BY <1>5, PlacesAre
<1>7. PICK B : BelowAll(nodes, B) /\ TreeBelow(nodes) = B[1]
  BY RootedOrdered, TreeBelowIs DEF BelowAll
<1>8. Looping(nodes, par, num, gas, pos, B) BY <1>6, <1>7 DEF Looping, GasOf, CallsOf
<1>9. PICK f : /\ \A i \in 1..l : f[i] = IF i = 1 THEN Sorted(calls) ELSE PopAndPush(f[i - 1])
               /\ Nest(calls) = [f[l][1] EXCEPT !.trace_address = <<>>]
  BY <1>2, NestIs
<1>10. Round(nodes, gas, pos, B, f[1], l)
  <2>1. PICK s : s = f[1] /\ s = Sorted(calls) BY <1>2, <1>9
  <2>2. /\ Len(s) = l /\ s = [r \in 1..l |-> s[r]]
        /\ \A m \in 1..l : pos[m] \in 1..l /\ s[pos[m]] = calls[m]
    BY <1>2, <1>5, <2>1 DEF Placed
  <2>3. ASSUME NEW m \in 1..l PROVE Listing(B, Late(nodes, pos, m, l)) = <<>>
    <3>0. \A x \in 1..l : ~(x > l) BY <1>2
    <3>1. \A c \in 1..l : ~(pos[c] > l) BY <2>2, <3>0
    <3>2. Late(nodes, pos, m, l) = {} BY <1>1, <3>1 DEF Late, Children
    <3>3. Cardinality({}) = 0 /\ 1..0 = {} BY FS_EmptySet
    <3>4. Listing(B, {}) = [i \in {} |-> B[Nth({}, i)]] BY <3>3 DEF Listing
    <3>5. [i \in {} |-> B[Nth({}, i)]] = <<>> OBVIOUS
    <3> QED BY <3>2, <3>4, <3>5
  <2>4. \A m \in 1..l : s[pos[m]] = CallWith(nodes[m].type, nodes[m].res, gas[m], nodes[m].trace_address,
                                             Listing(B, Late(nodes, pos, m, l)))
    BY <1>3, <2>2, <2>3
  <2> QED BY <1>1, <2>1, <2>2, <2>4 DEF Round
<1>11. PICK T : T = {n \in Nat : n \in 1..l /\ ~Round(nodes, gas, pos, B, f[n], l - n + 1)} OBVIOUS
<1>12. T = {}
  <2> SUFFICES ASSUME T # {} PROVE FALSE OBVIOUS
  <2>1. PICK n \in T : \A y \in T : n <= y BY <1>11, LeastNumber
  <2>2. n \in Nat /\ n \in 1..l /\ ~Round(nodes, gas, pos, B, f[n], l - n + 1) BY <1>11, <2>1
  <2>3. n # 1 BY <1>2, <1>10, <2>2
  <2>4. PICK k, L : k = n - 1 /\ L = l - k + 1 OBVIOUS
  <2>5. k \in Nat /\ k \in 1..l /\ ~(n <= k) /\ L \in 2..l /\ L - 1 = l - n + 1
    BY <1>2, <2>2, <2>3, <2>4
  <2>6. Round(nodes, gas, pos, B, f[k], L) BY <1>11, <2>1, <2>4, <2>5
  <2>7. Round(nodes, gas, pos, B, PopAndPush(f[k]), L - 1) BY <1>1, <1>8, <2>5, <2>6, RoundStep
  <2>8. f[n] = PopAndPush(f[k]) BY <1>9, <2>2, <2>3, <2>4
  <2> QED BY <2>2, <2>5, <2>7, <2>8
<1>13. Round(nodes, gas, pos, B, f[l], 1) BY <1>2, <1>11, <1>12
<1>14. PICK t, r, p, k, w : /\ t = nodes[1].type /\ r = nodes[1].res /\ p = nodes[1].trace_address
                            /\ k = Listing(B, Children(nodes, 1)) /\ w = f[l][1]
  OBVIOUS
<1>15. w = CallWith(t, r, gas[1], p, k)
  <2>1. pos[1] = 1 /\ 1 \in 1..1 BY <1>6 DEF PlaceOK
  <2>2. Late(nodes, pos, 1, 1) = Children(nodes, 1) BY <1>1, <1>2, <1>6, <2>1, LateAre
  <2>3. f[l][pos[1]] = CallWith(nodes[1].type, nodes[1].res, gas[1], nodes[1].trace_address,
                                Listing(B, Late(nodes, pos, 1, 1)))
    BY <1>1, <1>2, <1>13, <2>1 DEF Round
  <2> QED BY <1>14, <2>1, <2>2, <2>3
<1>16. Nest(calls) = CallWith(t, r, gas[1], <<>>, k) BY <1>9, <1>14, <1>15, CallFields
<1>17. Shape(Nest(calls)) = CallWith(t, r, 0, <<>>, k)
  <2>1. PICK v, z : v = Nest(calls) /\ z = 0 OBVIOUS
  <2>2. [v EXCEPT !.gas_used = z] = CallWith(t, r, z, <<>>, k) BY <1>16, <2>1 DEF CallWith
  <2> QED BY <2>1, <2>2 DEF Shape
<1>18. Shape(B[1]) = CallWith(t, r, 0, <<>>, k)
  <2>1. PICK v, g, z : v = B[1] /\ g = nodes[1].gas_used /\ z = 0 OBVIOUS
  <2>2. v = BelowOf(nodes, B, 1) BY <1>1, <1>2, <1>7, <2>1 DEF BelowAll
  <2>3. v = CallWith(t, r, g, <<>>, k) BY <1>14, <2>1, <2>2, BelowIs
  <2>4. [v EXCEPT !.gas_used = z] = CallWith(t, r, z, <<>>, k) BY <2>3 DEF CallWith
  <2> QED BY <2>1, <2>4 DEF Shape
<1> QED BY <1>7, <1>17, <1>18

LEMMA UntaxedSame ==
    ASSUME NEW entry \in Call, NEW node \in Node, Untaxed(entry) = Untaxed(node)
    PROVE  Same(entry, node)
<1>1. PICK ty, q, c, g, r :
        entry = [type |-> ty, trace_address |-> q, subtraces |-> c, gas_used |-> g, res |-> r]
  BY DEF Call
<1>2. PICK ty2, q2, c2, g2, r2 :
        node = [type |-> ty2, trace_address |-> q2, subtraces |-> c2, gas_used |-> g2, res |-> r2]
  BY NodeFields
<1>3. PICK h, h2 : h = (IF q = <<>> THEN 0 ELSE g) /\ h2 = (IF q2 = <<>> THEN 0 ELSE g2) OBVIOUS
<1>4. Untaxed(entry) = [type |-> ty, trace_address |-> q, subtraces |-> c, gas_used |-> h, res |-> r]
  BY <1>1, <1>3 DEF Untaxed
<1>5. Untaxed(node) = [type |-> ty2, trace_address |-> q2, subtraces |-> c2, gas_used |-> h2, res |-> r2]
  BY <1>2, <1>3 DEF Untaxed
<1>6. ty = ty2 /\ q = q2 /\ c = c2 /\ h = h2 /\ r = r2
  <2>1. PICK a : a = Untaxed(entry) OBVIOUS
  <2>2. a = [type |-> ty, trace_address |-> q, subtraces |-> c, gas_used |-> h, res |-> r]
    BY <1>4, <2>1
  <2>3. a = [type |-> ty2, trace_address |-> q2, subtraces |-> c2, gas_used |-> h2, res |-> r2]
    BY <1>5, <2>1
  <2>4. a.type = ty /\ a.trace_address = q /\ a.subtraces = c /\ a.gas_used = h /\ a.res = r BY <2>2
  <2>5. a.type = ty2 /\ a.trace_address = q2 /\ a.subtraces = c2 /\ a.gas_used = h2 /\ a.res = r2
    BY <2>3
  <2> QED BY <2>4, <2>5
<1>7. q # <<>> => g = g2 BY <1>3, <1>6
<1> QED BY <1>1, <1>2, <1>6, <1>7 DEF Same

LEMMA IntervalNth ==
    ASSUME NEW base \in Nat, NEW n \in Nat, NEW K, K = base..(base + n - 1)
    PROVE  Cardinality(K) = n /\ \A i \in 1..n : Nth(K, i) = base + i - 1
<1>1. IsFiniteSet(K) /\ Cardinality(K) = n /\ K \in SUBSET Nat BY FS_Interval
<1>2. ASSUME NEW i \in 1..n PROVE Nth(K, i) = base + i - 1
  <2>1. PICK k, e : k = base + i - 1 /\ e = base + i - 2 OBVIOUS
  <2>2. k \in K /\ base \in Int /\ e \in Int /\ (IF base > e THEN 0 ELSE e - base + 1) = i - 1
    BY <2>1
  <2>3. \A u : u \in K /\ u < k <=> u \in base..e BY <2>1
  <2>4. {u \in K : u < k} = base..e BY <2>3
  <2>5. Cardinality(base..e) = IF base > e THEN 0 ELSE e - base + 1 BY <2>2, FS_Interval
  <2>6. Cardinality({u \in K : u < k}) = i - 1 BY <2>2, <2>4, <2>5
  <2>7. i \in 1..Cardinality(K) BY <1>1
  <2>8. \A v \in K : Cardinality({u \in K : u < v}) = i - 1 => v = Nth(K, i) BY <1>1, <2>7, NthOf
  <2> QED BY <2>1, <2>2, <2>6, <2>8
<1> QED BY <1>1, <1>2

\* The calls before the loop are those of the nodes a map holds.
LEMMA CallsAreNodes ==
    ASSUME NEW map, Typed(map), NEW base \in Nat, NEW nodes, NEW par, NEW num,
           Rooted(nodes, par, num), DOMAIN map = base..(base + Len(nodes) - 1),
           \A k \in 1..Len(nodes) : Same(map[base + k - 1], nodes[k]),
           NEW list, list = InOrder(map), NEW calls,
           calls = [i \in 1..Len(list) |-> TracerCall(list[i])]
    PROVE  \E gas : CallsOf(calls, nodes, gas)
<1>1. PICK l, K : l = Len(nodes) /\ K = DOMAIN map OBVIOUS
<1>2. l \in Nat /\ K = base..(base + l - 1) BY <1>1 DEF Rooted
<1>3. Cardinality(K) = l /\ \A i \in 1..l : Nth(K, i) = base + i - 1 BY <1>2, IntervalNth
<1>4. list = [i \in 1..l |-> map[Nth(K, i)]] BY <1>1, <1>3 DEF InOrder
<1>5. Len(list) = l /\ \A i \in 1..l : list[i] = map[base + i - 1] BY <1>2, <1>3, <1>4
<1>6. /\ DOMAIN calls = 1..l /\ Len(calls) = l
      /\ \A i \in 1..l : calls[i] = TracerCall(map[base + i - 1])
  BY <1>2, <1>5
<1>7. PICK gas : gas = [m \in 1..l |-> map[base + m - 1].gas_used] OBVIOUS
<1>8. ASSUME NEW m \in 1..l
      PROVE  /\ calls[m] = CallWith(nodes[m].type, nodes[m].res, gas[m], nodes[m].trace_address, <<>>)
             /\ m # 1 => gas[m] = nodes[m].gas_used
  <2>1. PICK e, n : e = map[base + m - 1] /\ n = nodes[m] OBVIOUS
  <2>2. Same(e, n) BY <1>1, <2>1
  <2>3. gas[m] = e.gas_used /\ calls[m] = TracerCall(e) BY <1>6, <1>7, <2>1
  <2>4. TracerCall(e) = CallWith(e.type, e.res, e.gas_used, e.trace_address, <<>>)
    BY DEF TracerCall, CallWith
  <2>5. e.type = n.type /\ e.res = n.res /\ e.trace_address = n.trace_address BY <2>2 DEF Same
  <2>6. calls[m] = CallWith(n.type, n.res, gas[m], n.trace_address, <<>>) BY <2>3, <2>4, <2>5
  <2>7. ASSUME m # 1 PROVE gas[m] = n.gas_used
    <3>1. PICK c, x, a : c = par[m] /\ x = num[m] /\ a = nodes[par[m]].trace_address OBVIOUS
    <3>2. c \in 1..(m - 1) /\ x \in Nat /\ n.trace_address = Append(a, x)
      BY <1>1, <2>1, <2>7, <3>1 DEF Rooted, Branching
    <3>3. c \in 1..l BY <1>2, <3>2
    <3>4. a \in Seq(Nat) BY <1>1, <3>1, <3>3 DEF Rooted
    <3>5. n.trace_address # <<>> BY <3>2, <3>4, AppendFront
    <3> QED BY <2>2, <2>3, <2>5, <3>5 DEF Same
  <2> QED BY <2>1, <2>6, <2>7
<1>9. CallsOf(calls, nodes, gas) BY <1>1, <1>6, <1>8 DEF CallsOf
<1> QED BY <1>9

\* The trees that are left: not empty, typed and branching.
LEMMA FilledTrees ==
    ASSUME IInv, BranchesInv, Early, NEW trees, trees = Filled(tree)
    PROVE  /\ Len(trees) \in Nat
           /\ \A t \in 1..Len(trees) :
                 trees[t] \in Seq(Node) /\ Len(trees[t]) > 0 /\ Branched(trees[t])
<1>1. PICK T, x, L, c : T = tree /\ x = Tx /\ L = Kept(tree) /\ c = Cardinality(Kept(tree)) OBVIOUS
<1>2. x \in Nat /\ T \in Seq(Seq(Node)) /\ x = Len(T) BY <1>1, Parts DEF TreeOK, Tx
<1>3. DOMAIN T = 1..x /\ \A t \in 1..x : T[t] \in Seq(Node)
  <2>1. PICK S : S = Seq(Node) OBVIOUS
  <2>2. T \in Seq(S) BY <1>2, <2>1
  <2>3. DOMAIN T = 1..x /\ \A t \in 1..x : T[t] \in S BY <1>2, <2>2
  <2> QED BY <2>1, <2>3
<1>4. \A t \in 1..x : Branched(T[t]) BY <1>1 DEF BranchesInv
<1>5. L = {t \in 1..x : DOMAIN T[t] # {}} BY <1>1, <1>3 DEF Kept
<1>6. L \in SUBSET Nat /\ IsFiniteSet(L) /\ c \in Nat
  <2>1. 1 \in Int /\ x \in Int BY <1>2
  <2>2. IsFiniteSet(1..x) /\ L \in SUBSET (1..x) /\ \A t \in 1..x : t \in Nat
    <3>1. IsFiniteSet(1..x) BY <2>1, FS_Interval
    <3>2. \A t \in 1..x : t \in Nat BY <1>2
    <3> QED BY <1>5, <3>1, <3>2
  <2>3. IsFiniteSet(L) BY <2>2, FS_Subset
  <2>4. c \in Nat BY <1>1, <2>3, FS_CardinalityType
  <2> QED BY <2>2, <2>3, <2>4
<1>7. trees = [i \in 1..c |-> T[Nth(L, i)]] BY <1>1 DEF Filled
<1>8. Len(trees) = c BY <1>6, <1>7
<1>9. ASSUME NEW t \in 1..c
      PROVE  trees[t] \in Seq(Node) /\ Len(trees[t]) > 0 /\ Branched(trees[t])
  <2>1. PICK u : u = Nth(L, t) OBVIOUS
  <2>2. u \in L BY <1>1, <1>6, <2>1, NthOf
  <2>3. u \in 1..x /\ DOMAIN T[u] # {} /\ trees[t] = T[u] BY <1>5, <1>7, <2>1, <2>2
  <2>4. PICK s : s = T[u] /\ s \in Seq(Node) /\ Branched(s) /\ DOMAIN s # {} BY <1>3, <1>4, <2>3
  <2>5. Len(s) \in Nat /\ DOMAIN s = 1..Len(s) BY <2>4
  <2>6. Len(s) > 0 BY <2>4, <2>5
  <2> QED BY <2>3, <2>4, <2>6
<1> QED BY <1>6, <1>8, <1>9

LEMMA NestSuffices ==
    IInv /\ RootIInv /\ TreeIInv /\ BranchesInv => NestedIsTheTree
<1> SUFFICES ASSUME IInv, RootIInv, TreeIInv, BranchesInv, Early, stage = "debug"
             PROVE  LET answer == CallTracerFormat(entries)
                        trees == RetainFilled(tree)
                    IN  /\ Len(answer) = Len(trees)
                        /\ \A t \in 1..Len(trees) : Shape(answer[t]) = Shape(TreeBelow(trees[t]))
  BY DEF NestedIsTheTree
<1>1. PICK maps, trees, K, answer :
         /\ maps = Filled(entries) /\ trees = Filled(tree) /\ K = Kept(entries)
         /\ answer = CallTracerFormat(entries)
  OBVIOUS
<1>2. PICK c : c = Len(trees) /\ c \in Nat BY <1>1, FilledTrees
<1>3. \A t \in 1..c : trees[t] \in Seq(Node) /\ Len(trees[t]) > 0 /\ Branched(trees[t])
  BY <1>1, <1>2, FilledTrees
<1>4. /\ Len(maps) = c
      /\ \A t \in 1..c :
           \E base \in 0..entries_next_index :
              /\ DOMAIN maps[t] = base .. base + Len(trees[t]) - 1
              /\ \A k \in 1..Len(trees[t]) :
                    Untaxed(maps[t][base + k - 1]) = Untaxed(trees[t][k])
  <2>1. stage \in {"idle"} \cup Callers BY TypeParts DEF IInv
  <2>2. EntriesAreTheTree BY TreesSuffice
  <2> QED BY <1>1, <1>2, <2>1, <2>2 DEF EntriesAreTheTree
<1>5. \A t \in 1..c : Typed(maps[t])
  <2>1. K \in SUBSET (1..Len(entries)) /\ IsFiniteSet(K) /\ Cardinality(K) \in Nat
    BY <1>1, KeptCount
  <2>2. MapsAre(entries) /\ Len(entries) \in Nat BY RootParts DEF MapsAre, IsMaps
  <2>3. \A u \in 1..Len(entries) : Typed(entries[u]) /\ u \in Nat BY <2>2 DEF MapsAre
  <2>4. maps = [i \in 1..Cardinality(K) |-> entries[Nth(K, i)]] BY <1>1 DEF Filled
  <2>5. Cardinality(K) = c BY <1>4, <2>1, <2>4
  <2>6. K \in SUBSET Nat BY <2>1, <2>3
  <2>7. \A t \in 1..c : Nth(K, t) \in K BY <2>1, <2>5, <2>6, NthOf
  <2> QED BY <2>1, <2>3, <2>4, <2>5, <2>7
<1>6. /\ Len(answer) = c
      /\ \A t \in 1..c :
           answer[t] = Nest([i \in 1..Len(InOrder(maps[t])) |-> TracerCall(InOrder(maps[t])[i])])
  BY <1>1, <1>4, <1>2 DEF CallTracerFormat, RetainFilled
<1>7. ASSUME NEW t \in 1..c PROVE Shape(answer[t]) = Shape(TreeBelow(trees[t]))
  <2>1. PICK nodes, map, list : nodes = trees[t] /\ map = maps[t] /\ list = InOrder(maps[t]) OBVIOUS
  <2>2. PICK calls : calls = [i \in 1..Len(list) |-> TracerCall(list[i])] OBVIOUS
  <2>3. nodes \in Seq(Node) /\ Len(nodes) > 0 /\ Branched(nodes) /\ Typed(map) BY <1>3, <1>5, <2>1
  <2>4. PICK base \in 0..entries_next_index :
          /\ DOMAIN map = base .. base + Len(nodes) - 1
          /\ \A k \in 1..Len(nodes) : Untaxed(map[base + k - 1]) = Untaxed(nodes[k])
    BY <1>4, <2>1
  <2>5. base \in Nat OBVIOUS
  <2>6. PICK par, num : Branching(nodes, par, num) BY <2>3 DEF Branched
  <2>7. Rooted(nodes, par, num) /\ Len(nodes) \in Nat BY <2>3, <2>6, NodePaths DEF Rooted
  <2>8. ASSUME NEW k \in 1..Len(nodes) PROVE Same(map[base + k - 1], nodes[k])
    <3>1. base + k - 1 \in base..(base + Len(nodes) - 1) BY <2>5, <2>7
    <3>2. PICK j : j = base + k - 1 /\ j \in DOMAIN map BY <2>4, <3>1
    <3>3. map[j] \in Call /\ nodes[k] \in Node BY <2>3, <3>2 DEF Typed
    <3>4. Untaxed(map[j]) = Untaxed(nodes[k]) BY <2>4, <3>2
    <3> QED BY <3>2, <3>3, <3>4, UntaxedSame
  <2>9. \E gas : CallsOf(calls, nodes, gas)
    BY <2>1, <2>2, <2>3, <2>4, <2>5, <2>7, <2>8, CallsAreNodes
  <2>10. Shape(Nest(calls)) = Shape(TreeBelow(nodes)) BY <2>3, <2>7, <2>9, NestsTheTree
  <2> QED BY <1>6, <2>1, <2>2, <2>10
<1>8. Len(answer) = Len(trees) /\ \A t \in 1..Len(trees) : Shape(answer[t]) = Shape(TreeBelow(trees[t]))
  BY <1>2, <1>6, <1>7
<1> QED BY <1>1, <1>8 DEF RetainFilled

\* With EvmEvent::Exit, for any bounds, opcodes, exit reasons and costs, the call tracer
\* answers with the call tree of every executed transaction: the loop that pops the last
\* call of the sorted list and pushes it to the first one with its parent's path loses no
\* call, puts none under a wrong parent and keeps siblings in the order of execution.
THEOREM NestCorrect == Spec => []NestedIsTheTree
<1>1. Init => IInv /\ RootIInv /\ Unmarked /\ TreeIInv /\ BranchesInv
  BY InitKeeps, RootInit, UnmarkedInit, TreeInit, BranchesInit
<1>2. (IInv /\ RootIInv /\ Unmarked /\ TreeIInv /\ BranchesInv) /\ [Next]_vars
        => (IInv /\ RootIInv /\ Unmarked /\ TreeIInv /\ BranchesInv)'
  BY NextKeeps, RootNext, UnmarkedNext, TreeNext, BranchesNext
<1> QED BY <1>1, <1>2, NestSuffices, PTL DEF Spec

=============================================================================
