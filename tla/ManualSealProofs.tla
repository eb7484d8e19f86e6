-------------------------- MODULE ManualSealProofs --------------------------
(***************************************************************************)
(* Proofs about ManualSeal, for any set-ups, extrinsics, slot duration and *)
(* clocks, and any numbers of calls, failures, restarts and blocks of      *)
(* other nodes.                                                            *)
(***************************************************************************)
EXTENDS ManualSeal, SequenceTheorems, FiniteSetTheorems, WellFoundedInduction, TLAPS

-----------------------------------------------------------------------------
(***************************************************************************)
(* The chain of a block. Ancestors is defined by recursion over the        *)
(* parents; what it computes is shown with the least number principle.     *)
(***************************************************************************)
Up(bs) ==
    CHOOSE up : up = [h \in 0..Len(bs) |-> IF h = 0 THEN {} ELSE {h} \cup up[bs[h].parent]]

\* Parents were imported before their children.
Rooted(bs) == Len(bs) \in Nat /\ \A h \in 1..Len(bs) : bs[h].parent \in 0..(h - 1)

\* A set of natural numbers has a least element.
LEMMA LeastNumber ==
    ASSUME NEW T \in SUBSET Nat, T # {}
    PROVE  \E x \in T : \A y \in T : x <= y
<1>1. PICK x \in T : \A y \in T : ~(<<y, x>> \in OpToRel(<, Nat))
  BY NatLessThanWellFounded, WFMin, Zenon
<1>2. \A y \in T : ~(y < x)
  BY <1>1 DEF OpToRel
<1> QED
  BY <1>2

\* The least set that contains a block and the parents of its members: it
\* satisfies the recursive equation, so that there is a function that does.
Closed(bs, S) == \A b \in S : b \in 1..Len(bs) => bs[b].parent \in S
Least(bs, h) ==
    {a \in 1..h : \A S \in SUBSET Nat : h \in S /\ Closed(bs, S) => a \in S}

LEMMA LeastIs ==
    ASSUME NEW bs, Rooted(bs), NEW h \in 1..Len(bs)
    PROVE  Least(bs, h) = {h} \cup Least(bs, bs[h].parent)
<1>1. PICK p : p = bs[h].parent
  OBVIOUS
<1>2. p \in 0..(h - 1) /\ h \in Nat /\ Len(bs) \in Nat
  BY <1>1 DEF Rooted
<1>3. h \in Least(bs, h)
  BY <1>2 DEF Least
<1>4. ASSUME NEW a \in Least(bs, p) PROVE a \in Least(bs, h)
  <2>1. a \in 1..p /\ \A S \in SUBSET Nat : p \in S /\ Closed(bs, S) => a \in S
    BY <1>4 DEF Least
  <2>2. ASSUME NEW S \in SUBSET Nat, h \in S, Closed(bs, S) PROVE a \in S
    <3>1. p \in S
      BY <1>1, <2>2 DEF Closed
    <3> QED
      BY <2>1, <2>2, <3>1
  <2>3. a \in 1..h
    BY <1>2, <2>1
  <2> QED
    BY <2>2, <2>3 DEF Least
<1>5. ASSUME NEW a \in Least(bs, h), a # h PROVE a \in Least(bs, p)
  <2>1. a \in 1..h /\ \A S \in SUBSET Nat : h \in S /\ Closed(bs, S) => a \in S
    BY <1>5 DEF Least
  <2>2. ASSUME NEW S \in SUBSET Nat, p \in S, Closed(bs, S) PROVE a \in S
    <3>1. Closed(bs, S \cup {h})
      BY <1>1, <2>2 DEF Closed
    <3>2. a \in S \cup {h}
      BY <1>2, <2>1, <3>1
    <3> QED
      BY <1>5, <3>2
  <2>3. a \in 1..p
    <3>1. PICK Low : Low = 0..p
      OBVIOUS
    <3>2. Low \in SUBSET Nat /\ p \in Low
      BY <1>2, <3>1
    <3>3. Closed(bs, Low)
      <4> SUFFICES ASSUME NEW b \in Low, b \in 1..Len(bs) PROVE bs[b].parent \in Low
        BY DEF Closed
      <4>1. bs[b].parent \in 0..(b - 1)
        BY DEF Rooted
      <4> QED
        BY <1>2, <3>1, <4>1
    <3>4. a \in Low
      BY <2>2, <3>2, <3>3
    <3> QED
      BY <1>2, <2>1, <3>1, <3>4
  <2> QED
    BY <2>2, <2>3 DEF Least
<1> QED
  BY <1>1, <1>3, <1>4, <1>5

LEMMA UpIs ==
    ASSUME NEW bs, Rooted(bs)
    PROVE  Up(bs) = [h \in 0..Len(bs) |-> IF h = 0 THEN {} ELSE {h} \cup Up(bs)[bs[h].parent]]
<1> DEFINE F(up) == [h \in 0..Len(bs) |-> IF h = 0 THEN {} ELSE {h} \cup up[bs[h].parent]]
           g == [h \in 0..Len(bs) |-> Least(bs, h)]
<1>1. \A h \in 1..Len(bs) : bs[h].parent \in 0..Len(bs)
  BY DEF Rooted
<1>2. \A h \in 1..Len(bs) : g[h] = {h} \cup g[bs[h].parent]
  BY <1>1, LeastIs
<1>3. Least(bs, 0) = {}
  BY DEF Least
<1>4. g = F(g)
  <2>1. PICK f : f = g
    OBVIOUS
  <2>2. \A h \in 1..Len(bs) : f[h] = {h} \cup f[bs[h].parent]
    BY <1>2, <2>1
  <2>3. Len(bs) \in Nat /\ f[0] = {}
    BY <1>3, <2>1 DEF Rooted
  <2>4. f = [h \in 0..Len(bs) |-> f[h]]
    BY <2>1
  <2>5. \A h \in 0..Len(bs) : f[h] = IF h = 0 THEN {} ELSE {h} \cup f[bs[h].parent]
    <3> TAKE h \in 0..Len(bs)
    <3>1. CASE h = 0
      BY <2>3, <3>1
    <3>2. CASE h # 0
      <4>1. h \in 1..Len(bs)
        BY <2>3, <3>2
      <4> QED
        BY <2>2, <3>2, <4>1
    <3> QED
      BY <3>1, <3>2
  <2>6. f = F(f)
    BY <2>4, <2>5
  <2> QED
    BY <2>1, <2>6
<1> HIDE DEF F, g
<1>5. Up(bs) = CHOOSE up : up = F(up)
  BY DEF Up, F
<1>6. Up(bs) = F(Up(bs))
  BY <1>4, <1>5, Zenon
<1> QED
  BY <1>6 DEF F

LEMMA AncestorsAreUp == \A h : Ancestors(h) = Up(blocks)[h]
  BY DEF Ancestors, Up

\* The recursive equation, and that a chain holds earlier blocks only.
LEMMA UpEquation ==
    ASSUME NEW bs, Rooted(bs)
    PROVE  /\ Up(bs)[0] = {}
           /\ \A h \in 1..Len(bs) : Up(bs)[h] = {h} \cup Up(bs)[bs[h].parent]
           /\ \A h \in 0..Len(bs) : Up(bs)[h] \subseteq 1..h
<1>1. PICK f, N : f = Up(bs) /\ N = Len(bs)
  OBVIOUS
<1>2. N \in Nat /\ \A h \in 1..N : bs[h].parent \in 0..(h - 1)
  BY <1>1 DEF Rooted
<1>3. f = [h \in 0..N |-> IF h = 0 THEN {} ELSE {h} \cup f[bs[h].parent]]
  BY <1>1, UpIs
<1>4. f[0] = {}
  BY <1>2, <1>3
<1>5. \A h \in 1..N : f[h] = {h} \cup f[bs[h].parent]
  <2> TAKE h \in 1..N
  <2>1. h \in 0..N /\ h # 0
    BY <1>2
  <2> QED
    BY <1>3, <2>1
<1>6. \A h \in 0..N : f[h] \subseteq 1..h
  <2>1. PICK T : T = {h \in 0..N : ~(f[h] \subseteq 1..h)}
    OBVIOUS
  <2>2. SUFFICES ASSUME T # {} PROVE FALSE
    BY <2>1
  <2>3. PICK x \in T : \A y \in T : x <= y
    <3>1. T \in SUBSET Nat
      BY <1>2, <2>1
    <3> QED
      BY <2>2, <3>1, LeastNumber
  <2>4. x \in 0..N /\ ~(f[x] \subseteq 1..x)
    BY <2>1
  <2>5. x # 0
    BY <1>4, <2>4
  <2>6. x \in 1..N
    BY <1>2, <2>4, <2>5
  <2>7. PICK p : p = bs[x].parent /\ p \in 0..(x - 1)
    BY <1>2, <2>6
  <2>8. p \in 0..N /\ ~(x <= p)
    BY <1>2, <2>6, <2>7
  <2>9. f[p] \subseteq 1..p
    BY <2>1, <2>3, <2>8
  <2>10. f[x] = {x} \cup f[p]
    BY <1>5, <2>6, <2>7
  <2>11. 1..p \subseteq 1..x /\ x \in 1..x
    BY <1>2, <2>6, <2>7
  <2> QED
    BY <2>4, <2>9, <2>10, <2>11
<1> QED
  BY <1>1, <1>4, <1>5, <1>6

\* An ancestor of an ancestor is one.
LEMMA UpTransitive ==
    ASSUME NEW bs, Rooted(bs), NEW c \in 0..Len(bs), NEW b \in Up(bs)[c]
    PROVE  Up(bs)[b] \subseteq Up(bs)[c]
<1>1. PICK f, N : f = Up(bs) /\ N = Len(bs)
  OBVIOUS
<1>2. N \in Nat /\ \A h \in 1..N : bs[h].parent \in 0..(h - 1)
  BY <1>1 DEF Rooted
<1>3. f[0] = {} /\ \A h \in 1..N : f[h] = {h} \cup f[bs[h].parent]
  BY <1>1, UpEquation
<1>4. PICK T : T = {x \in 0..N : \E y \in f[x] : ~(f[y] \subseteq f[x])}
  OBVIOUS
<1>5. SUFFICES ASSUME T # {} PROVE FALSE
  BY <1>1, <1>4
<1>6. PICK x \in T : \A y \in T : x <= y
  <2>1. T \in SUBSET Nat
    BY <1>2, <1>4
  <2> QED
    BY <1>5, <2>1, LeastNumber
<1>7. x \in 0..N /\ x # 0
  BY <1>3, <1>4, <1>6
<1>8. PICK y \in f[x] : ~(f[y] \subseteq f[x])
  BY <1>4, <1>6
<1>9. x \in 1..N
  BY <1>2, <1>7
<1>10. PICK p : p = bs[x].parent /\ p \in 0..(x - 1)
  BY <1>2, <1>9
<1>11. p \in 0..N /\ ~(x <= p)
  BY <1>2, <1>9, <1>10
<1>12. f[x] = {x} \cup f[p]
  BY <1>3, <1>9, <1>10
<1>13. \A z \in f[p] : f[z] \subseteq f[p]
  BY <1>4, <1>6, <1>11
<1> QED
  BY <1>8, <1>12, <1>13

\* More blocks do not change the chain of a block.
LEMMA UpStable ==
    ASSUME NEW bs, NEW cs, Rooted(bs), Rooted(cs), Len(bs) <= Len(cs),
           \A h \in 1..Len(bs) : cs[h].parent = bs[h].parent
    PROVE  \A h \in 0..Len(bs) : Up(cs)[h] = Up(bs)[h]
<1>1. PICK f, g, N : f = Up(bs) /\ g = Up(cs) /\ N = Len(bs)
  OBVIOUS
<1>2. N \in Nat /\ \A h \in 1..N : bs[h].parent \in 0..(h - 1)
  BY <1>1 DEF Rooted
<1>3. f[0] = {} /\ \A h \in 1..N : f[h] = {h} \cup f[bs[h].parent]
  BY <1>1, UpEquation
<1>4. g[0] = {} /\ \A h \in 1..N : g[h] = {h} \cup g[bs[h].parent]
  <2>1. PICK M : M = Len(cs) /\ M \in Nat /\ N <= M
    BY <1>1 DEF Rooted
  <2>2. g[0] = {} /\ \A h \in 1..M : g[h] = {h} \cup g[cs[h].parent]
    BY <1>1, <2>1, UpEquation
  <2>3. 1..N \subseteq 1..M
    BY <1>2, <2>1
  <2> QED
    BY <1>1, <2>2, <2>3
<1>5. PICK T : T = {x \in 0..N : g[x] # f[x]}
  OBVIOUS
<1>6. SUFFICES ASSUME T # {} PROVE FALSE
  BY <1>1, <1>5
<1>7. PICK x \in T : \A y \in T : x <= y
  <2>1. T \in SUBSET Nat
    BY <1>2, <1>5
  <2> QED
    BY <1>6, <2>1, LeastNumber
<1>8. x \in 0..N /\ x # 0 /\ g[x] # f[x]
  BY <1>3, <1>4, <1>5
<1>9. x \in 1..N
  BY <1>2, <1>8
<1>10. PICK p : p = bs[x].parent /\ p \in 0..(x - 1)
  BY <1>2, <1>9
<1>11. p \in 0..N /\ ~(x <= p)
  BY <1>2, <1>9, <1>10
<1>12. g[p] = f[p]
  BY <1>5, <1>7, <1>11
<1> QED
  BY <1>3, <1>4, <1>8, <1>9, <1>10, <1>12

-----------------------------------------------------------------------------
(***************************************************************************)
(* The invariant                                                           *)
(***************************************************************************)

\* The chain: parents and numbers, and finality on the best chain.
ChainInv ==
    /\ Len(blocks) \in Nat /\ blocks = [h \in 1..Len(blocks) |-> blocks[h]]
    /\ Rooted(blocks)
    /\ 1 \in Hashes /\ blocks[1] = GenesisBlock
    /\ \A h \in Hashes : h # 1 => blocks[h].parent # 0
    /\ best \in Hashes /\ finalized \in Hashes
    /\ finalized \in Up(blocks)[best]

\* A call has its three fields.
CallsAre(cs) ==
    /\ Len(cs) \in Nat /\ cs = [i \in 1..Len(cs) |-> cs[i]]
    /\ \A i \in 1..Len(cs) : cs[i] =
          [request |-> cs[i].request, phase |-> cs[i].phase, answer |-> cs[i].answer]

\* The task works for a sender, and may yet make a block for it.
Busy == task.at \in {"sealing", "proposed", "replying"}
Making == task.at \in {"sealing", "proposed"}

\* No call is behind two commands, and none that is answered behind one.
CommandsInv ==
    /\ CallsAre(calls)
    /\ commands \in Seq(Nat)
    /\ \A k \in DOMAIN commands : commands[k] # 0 =>
          /\ commands[k] \in DOMAIN calls
          /\ calls[commands[k]].phase # "answered"
          /\ Busy => task.sender # commands[k]
          /\ \A j \in DOMAIN commands : commands[j] = commands[k] => j = k

Made(i) == {h \in Hashes : blocks[h].by = i}

\* An answer is true of the chain.
TrueAnswer(i, answer) ==
    IF ~answer.ok
    THEN ToCode(answer.error) # 10000 => Made(i) = {}
    ELSE /\ calls[i].request.finalize => answer.hash \in Up(blocks)[finalized]
         /\ calls[i].request.command = "SealNewBlock" =>
               /\ Made(i) = {answer.hash}
               /\ calls[i].request.hash \in {None, blocks[answer.hash].parent}

\* Until its command is taken and a block is imported, a call has made none.
MadeInv ==
    /\ \A h \in Hashes : blocks[h].by \in {Foreign, 0} \cup DOMAIN calls
    /\ \A k \in DOMAIN commands : commands[k] # 0 => Made(commands[k]) = {}
    /\ Making /\ task.sender # 0 => Made(task.sender) = {}

TaskInv ==
    /\ task.at \in {"idle", "stopped", "sealing", "proposed", "replying"}
    /\ task.at = "stopped" => task = Stopped
    /\ Busy => /\ task.sender \in {0} \cup DOMAIN calls
               /\ task.sender # 0 => calls[task.sender].phase # "answered"
    /\ Making => Request(task.sender).command = "SealNewBlock"
    /\ task.at = "proposed" =>
          /\ task.block.by = task.sender
          /\ task.block.parent \in Hashes
          /\ Request(task.sender).hash \in {None, task.block.parent}
    /\ task.at = "replying" /\ task.sender # 0 => TrueAnswer(task.sender, task.answer)

AnswersInv ==
    \A i \in DOMAIN calls : calls[i].phase = "answered" => TrueAnswer(i, calls[i].answer)

\* A block without extrinsics was asked for by its sender.
AskedFor(block) ==
    block.body = {} => block.by # 0 /\ calls[block.by].request.create_empty

EmptyInv ==
    engine.inherents_len = engine.inherent_extrinsics =>
        /\ \A h \in Own : AskedFor(blocks[h])
        /\ task.at = "proposed" => AskedFor(task.block)

\* Time: what is above the last start is sealed one slot or more apart, and
\* everything on the chain that was best at the start is in earlier slots.
HeaderInv(block) ==
    /\ block.number \in Nat \ {0}
    /\ block.timestamp \in Nat /\ block.slot = Slot(block.timestamp)

HeadersInv ==
    /\ \A h \in Hashes \ {1} : HeaderInv(blocks[h])
    /\ task.at = "proposed" => HeaderInv(task.block)

ClockInv ==
    /\ time \in Nat /\ started.time \in Nat
    /\ time = started.time \/ started.time + SlotDuration <= time
    /\ started.len \in Hashes /\ started.best \in 1..started.len

ChainSlots == \A h \in Hashes \ {1} : blocks[blocks[h].parent].slot < blocks[h].slot

StartSlots == \A h \in Up(blocks)[started.best] : blocks[h].slot < Slot(started.time)

RecentSlots ==
    /\ \A h \in Recent : started.time <= blocks[h].timestamp
                         /\ blocks[h].timestamp + SlotDuration <= time
    /\ \A g, h \in Recent : g < h => blocks[g].timestamp + SlotDuration <= blocks[h].timestamp

ProposalSlots ==
    task.at = "proposed" =>
        /\ blocks[task.block.parent].slot < task.block.slot
        /\ started.time <= task.block.timestamp
        /\ task.block.timestamp + SlotDuration <= time
        /\ \A h \in Recent : blocks[h].timestamp + SlotDuration <= task.block.timestamp

SlotsInv == ChainSlots /\ StartSlots /\ RecentSlots /\ ProposalSlots
TimeInv == HeadersInv /\ ClockInv /\ (engine.provider # "none" => SlotsInv)

ServedInv == CommandsInv /\ MadeInv /\ TaskInv /\ AnswersInv
EngineInv == engine \in Engine
IInv == EngineInv /\ ChainInv /\ ServedInv /\ EmptyInv /\ TimeInv

-----------------------------------------------------------------------------
(***************************************************************************)
(* Steps of the chain                                                      *)
(***************************************************************************)

\* Append to a sequence of anything.
LEMMA AppendAny ==
    ASSUME NEW s, NEW x, Len(s) \in Nat, s = [i \in 1..Len(s) |-> s[i]]
    PROVE  /\ Len(Append(s, x)) = Len(s) + 1
           /\ \A i \in 1..Len(s) : Append(s, x)[i] = s[i]
           /\ Append(s, x)[Len(s) + 1] = x
           /\ Append(s, x) = [i \in 1..(Len(s) + 1) |-> Append(s, x)[i]]
<1>1. PICK S : S = {s[i] : i \in 1..Len(s)} \cup {x}
  OBVIOUS
<1>2. s \in Seq(S) /\ x \in S
  BY <1>1
<1>3. Append(s, x) \in Seq(S) /\ Len(Append(s, x)) = Len(s) + 1
  BY <1>2
<1>4. /\ \A i \in 1..Len(s) : Append(s, x)[i] = s[i]
      /\ Append(s, x)[Len(s) + 1] = x
  BY <1>2
<1>5. \A q \in Seq(S) : q = [i \in 1..Len(q) |-> q[i]]
  OBVIOUS
<1> QED
  BY <1>3, <1>4, <1>5

LEMMA ChainFacts ==
    ASSUME ChainInv
    PROVE  /\ Hashes = 1..Len(blocks) /\ Len(blocks) \in Nat
           /\ \A h \in Hashes : h \in Up(blocks)[h] /\ Up(blocks)[h] \subseteq Hashes
           /\ \A h \in Hashes : \A a \in Up(blocks)[h] : Up(blocks)[a] \subseteq Up(blocks)[h]
<1>1. PICK N : N = Len(blocks) /\ N \in Nat
  BY DEF ChainInv
<1>2. Hashes = 1..N /\ Rooted(blocks)
  BY <1>1 DEF ChainInv, Hashes
<1>3. \A h \in 1..N : h \in Up(blocks)[h]
  BY <1>1, <1>2, UpEquation
<1>4. \A h \in 1..N : Up(blocks)[h] \subseteq 1..N
  <2> TAKE h \in 1..N
  <2>1. h \in 0..N /\ 1..h \subseteq 1..N
    BY <1>1
  <2>2. Up(blocks)[h] \subseteq 1..h
    BY <1>1, <1>2, <2>1, UpEquation
  <2> QED
    BY <2>1, <2>2
<1>5. \A h \in 1..N : \A a \in Up(blocks)[h] : Up(blocks)[a] \subseteq Up(blocks)[h]
  <2> TAKE h \in 1..N
  <2>1. h \in 0..N
    BY <1>1
  <2> QED
    BY <1>1, <1>2, <2>1, UpTransitive
<1> QED
  BY <1>1, <1>2, <1>3, <1>4, <1>5

\* Blocks are kept, with their chains.
Grown ==
    /\ Rooted(blocks') /\ Len(blocks) <= Len(blocks')
    /\ \A h \in Hashes : h \in Hashes' /\ blocks'[h] = blocks[h]

LEMMA GrownKeeps ==
    ASSUME ChainInv, Grown
    PROVE  \A h \in Hashes : h \in Hashes' /\ Up(blocks')[h] = Up(blocks)[h]
<1>1. PICK N : N = Len(blocks) /\ N \in Nat /\ Hashes = 1..N
  BY ChainFacts
<1>2. Rooted(blocks) /\ \A h \in 1..N : blocks'[h].parent = blocks[h].parent
  BY <1>1 DEF ChainInv, Grown
<1>3. \A h \in 0..N : Up(blocks')[h] = Up(blocks)[h]
  BY <1>1, <1>2, UpStable DEF Grown
<1>4. \A h \in 1..N : h \in 0..N
  BY <1>1
<1> QED
  BY <1>1, <1>3, <1>4 DEF Grown

\* finalize_block: finality moves up, and the best chain follows it.
LEMMA FinalizeChain ==
    ASSUME ChainInv, NEW hash, MayFinalize(hash), blocks' = blocks,
           finalized' = hash, best' = BestAfterFinality(hash)
    PROVE  ChainInv' /\ Grown /\ finalized \in Up(blocks')[finalized']
<1>1. hash \in Hashes /\ finalized \in Up(blocks)[hash]
  BY AncestorsAreUp DEF MayFinalize
<1>2. best' = IF hash \in Up(blocks)[best] THEN best ELSE hash
  BY AncestorsAreUp DEF BestAfterFinality
<1>3. hash \in Up(blocks)[hash] /\ best \in Hashes
  BY <1>1, ChainFacts DEF ChainInv
<1>4. best' \in Hashes /\ hash \in Up(blocks)[best']
  BY <1>1, <1>2, <1>3
<1>5. Hashes' = Hashes
  BY DEF Hashes
<1>6. ChainInv'
  BY <1>1, <1>4, <1>5 DEF ChainInv
<1>7. Grown
  BY <1>5 DEF Grown, ChainInv
<1> QED
  BY <1>1, <1>6, <1>7

\* A block is imported on a parent that the chain has.
LEMMA ImportChain ==
    ASSUME ChainInv, NEW block, NEW finalize, Imported(block, finalize),
           ~ImportRefused(block, finalize), block.parent \in Hashes
    PROVE  /\ ChainInv' /\ Grown /\ finalized \in Up(blocks')[finalized']
           /\ Hashes' = Hashes \cup {Len(blocks) + 1} /\ Len(blocks) + 1 \notin Hashes
           /\ blocks'[Len(blocks) + 1] = block
           /\ Up(blocks')[Len(blocks) + 1] = {Len(blocks) + 1} \cup Up(blocks)[block.parent]
           /\ finalize => finalized' = Len(blocks) + 1
<1>1. PICK N : N = Len(blocks) /\ N \in Nat /\ Hashes = 1..N
  BY ChainFacts
<1>2. PICK new : new = N + 1
  OBVIOUS
<1>3. /\ Len(blocks') = new
      /\ \A h \in 1..N : blocks'[h] = blocks[h]
      /\ blocks'[new] = block
      /\ blocks' = [h \in 1..new |-> blocks'[h]]
  <2>1. blocks' = Append(blocks, block)
    BY DEF Imported
  <2>2. blocks = [h \in 1..Len(blocks) |-> blocks[h]]
    BY DEF ChainInv
  <2> QED
    BY <1>1, <1>2, <2>1, <2>2, AppendAny
<1>4. new \in Nat /\ new \notin 1..N /\ 1..new = 1..N \cup {new} /\ N <= new
  BY <1>1, <1>2
<1>5. Hashes' = 1..new
  BY <1>3 DEF Hashes
<1>6. PICK p : p = block.parent /\ p \in 1..N
  BY <1>1
<1>7. Rooted(blocks')
  <2>1. \A h \in 1..N : blocks[h].parent \in 0..(h - 1)
    BY <1>1 DEF ChainInv, Rooted
  <2>2. p \in 0..(new - 1)
    BY <1>1, <1>2, <1>6
  <2>3. \A h \in 1..new : blocks'[h].parent \in 0..(h - 1)
    BY <1>3, <1>4, <1>6, <2>1, <2>2
  <2> QED
    BY <1>3, <1>4, <2>3 DEF Rooted
<1>8. Grown
  BY <1>1, <1>3, <1>4, <1>5, <1>7 DEF Grown
<1>9. \A h \in Hashes : Up(blocks')[h] = Up(blocks)[h]
  BY <1>8, GrownKeeps
<1>10. Up(blocks')[new] = {new} \cup Up(blocks)[p]
  <2>1. new \in 1..Len(blocks') /\ blocks'[new].parent = p
    BY <1>3, <1>4, <1>6
  <2>2. Up(blocks')[new] = {new} \cup Up(blocks')[p]
    BY <1>7, <2>1, UpEquation
  <2> QED
    BY <1>1, <1>6, <1>9, <2>2
<1>11. /\ best' = IF finalize THEN new ELSE IF block.number > blocks[best].number THEN new ELSE best
       /\ finalized' = IF finalize THEN new ELSE finalized
  BY <1>1, <1>2 DEF Imported, BestAfterImport
<1>12. finalize \/ block.number > blocks[best].number => finalized \in Up(blocks)[p]
  BY <1>6, AncestorsAreUp DEF ImportRefused
<1>13. finalized \in Up(blocks)[best] /\ best \in Hashes /\ finalized \in Hashes
  BY DEF ChainInv
<1>14. best' \in Hashes' /\ finalized' \in Hashes'
  BY <1>1, <1>4, <1>5, <1>11, <1>13
<1>15. finalized' \in Up(blocks')[best']
  BY <1>9, <1>10, <1>11, <1>12, <1>13
<1>16. finalized \in Up(blocks')[finalized']
  <2>1. CASE finalize
    BY <1>10, <1>11, <1>12, <2>1
  <2>2. CASE ~finalize
    <3>1. finalized \in Up(blocks)[finalized]
      BY <1>13, ChainFacts
    <3> QED
      BY <1>9, <1>11, <1>13, <2>2, <3>1
  <2> QED
    BY <2>1, <2>2
<1>17. ChainInv'
  <2>1. 1 \in 1..N /\ blocks[1] = GenesisBlock /\ \A h \in 1..N : h # 1 => blocks[h].parent # 0
    BY <1>1 DEF ChainInv
  <2>2. 1 \in Hashes' /\ blocks'[1] = GenesisBlock
    BY <1>3, <1>4, <1>5, <2>1
  <2>3. p # 0
    BY <1>1, <1>6
  <2>4. \A h \in Hashes' : h # 1 => blocks'[h].parent # 0
    BY <1>3, <1>4, <1>5, <1>6, <2>1, <2>3
  <2>5. Len(blocks') \in Nat /\ blocks' = [h \in 1..Len(blocks') |-> blocks'[h]]
    BY <1>3, <1>4
  <2>6. GenesisBlock' = GenesisBlock
    BY DEF GenesisBlock
  <2> QED
    BY <1>7, <1>14, <1>15, <2>2, <2>4, <2>5, <2>6 DEF ChainInv
<1> QED
  BY <1>1, <1>2, <1>3, <1>4, <1>5, <1>6, <1>8, <1>10, <1>11, <1>16, <1>17

-----------------------------------------------------------------------------
(***************************************************************************)
(* Commands and answers                                                    *)
(***************************************************************************)

\* A true answer stays true as long as its call makes no other block.
LEMMA TrueKept ==
    ASSUME ChainInv, ChainInv', Grown, finalized \in Up(blocks')[finalized'],
           NEW i, NEW answer, calls'[i].request = calls[i].request, Made(i)' = Made(i),
           TrueAnswer(i, answer)
    PROVE  TrueAnswer(i, answer)'
<1>1. CASE ~answer.ok
  BY <1>1 DEF TrueAnswer
<1>2. CASE answer.ok
  <2>1. /\ calls[i].request.finalize => answer.hash \in Up(blocks)[finalized]
        /\ calls[i].request.command = "SealNewBlock" =>
               /\ Made(i) = {answer.hash}
               /\ calls[i].request.hash \in {None, blocks[answer.hash].parent}
    BY <1>2 DEF TrueAnswer
  <2>2. Up(blocks)[finalized] \subseteq Up(blocks')[finalized']
    <3>1. Up(blocks)[finalized] = Up(blocks')[finalized]
      BY GrownKeeps DEF ChainInv
    <3>2. finalized' \in 1..Len(blocks') /\ Len(blocks') \in Nat /\ Rooted(blocks')
      BY DEF ChainInv, Hashes
    <3>3. finalized' \in 0..Len(blocks')
      BY <3>2
    <3> QED
      BY <3>1, <3>2, <3>3, UpTransitive
  <2>3. Made(i) = {answer.hash} => blocks'[answer.hash] = blocks[answer.hash]
    BY DEF Made, Grown
  <2>4. /\ calls'[i].request.finalize => answer.hash \in Up(blocks')[finalized']
        /\ calls'[i].request.command = "SealNewBlock" =>
               /\ Made(i)' = {answer.hash}
               /\ calls'[i].request.hash \in {None, blocks'[answer.hash].parent}
    BY <2>1, <2>2, <2>3
  <2> QED
    BY <1>2, <2>4 DEF TrueAnswer
<1> QED
  BY <1>1, <1>2

\* The same when the chain does not change.
LEMMA SameChain ==
    ASSUME ChainInv, UNCHANGED chain
    PROVE  /\ ChainInv' /\ Grown /\ finalized \in Up(blocks')[finalized'] /\ Hashes' = Hashes
           /\ \A i : Made(i)' = Made(i)
<1>1. blocks' = blocks /\ best' = best /\ finalized' = finalized
  BY DEF chain
<1>2. Hashes' = Hashes /\ \A i : Made(i)' = Made(i)
  BY <1>1 DEF Hashes, Made
<1>3. ChainInv'
  BY <1>1, <1>2 DEF ChainInv, GenesisBlock
<1>4. Grown
  BY <1>1, <1>2 DEF Grown, ChainInv
<1>5. finalized \in Up(blocks)[finalized]
  BY ChainFacts DEF ChainInv
<1> QED
  BY <1>1, <1>2, <1>3, <1>4, <1>5

\* A call is never taken back, and keeps its request.
RequestsStay ==
    \A i \in DOMAIN calls : i \in DOMAIN calls' /\ calls'[i].request = calls[i].request

\* What every step keeps of the requests that the task and the chain refer to.
LEMMA RequestsKept ==
    ASSUME NEW N \in Nat, DOMAIN calls = 1..N,
           \A i \in 1..N : calls'[i].request = calls[i].request
    PROVE  \A s \in {0} \cup DOMAIN calls : Request(s)' = Request(s)
<1>1. InstantCommand' = InstantCommand
  BY DEF InstantCommand, SealNewBlock
<1> QED
  BY <1>1 DEF Request

\* A step of a client or of the pool that leaves the task and the chain alone.
LEMMA TaskKept ==
    ASSUME ChainInv, ServedInv, UNCHANGED chain, task' = task,
           DOMAIN calls \subseteq DOMAIN calls',
           \A i \in DOMAIN calls : /\ calls'[i].request = calls[i].request
                                   /\ calls'[i].phase = "answered" <=> calls[i].phase = "answered"
    PROVE  TaskInv' /\ ChainInv'
<1>1. /\ ChainInv' /\ Grown /\ finalized \in Up(blocks')[finalized'] /\ Hashes' = Hashes
      /\ \A i : Made(i)' = Made(i)
  BY SameChain
<1>2. PICK N : N \in Nat /\ DOMAIN calls = 1..N
  BY DEF ServedInv, CommandsInv, CallsAre
<1>3. \A s \in {0} \cup DOMAIN calls : Request(s)' = Request(s)
  BY <1>2, RequestsKept
<1>4. task.at \in {"sealing", "proposed", "replying"} => task.sender \in {0} \cup DOMAIN calls
  BY DEF ServedInv, TaskInv, Busy
<1>5. ASSUME task.at = "replying", task.sender # 0
      PROVE  TrueAnswer(task.sender, task.answer)'
  <2>1. TrueAnswer(task.sender, task.answer)
    BY <1>5 DEF ServedInv, TaskInv
  <2>2. PICK i, a : i = task.sender /\ a = task.answer
    OBVIOUS
  <2>3. i \in DOMAIN calls
    BY <1>4, <1>5, <2>2
  <2>4. TrueAnswer(i, a)'
    BY <1>1, <2>1, <2>2, <2>3, TrueKept
  <2> QED
    BY <2>2, <2>4 DEF TrueAnswer, Made
<1>6. TaskInv'
  BY <1>1, <1>3, <1>4, <1>5 DEF ServedInv, TaskInv, Busy, Making
<1> QED
  BY <1>1, <1>6

LEMMA CallServed ==
    ASSUME ChainInv, ServedInv, NEW request, Call(request)
    PROVE  ServedInv' /\ ChainInv' /\ RequestsStay
<1>1. PICK N, c :
          /\ N = Len(calls)
          /\ c = IF task = Stopped
                 THEN [request |-> request, phase |-> "answered", answer |-> Err("SendError")]
                 ELSE [request |-> request, phase |-> "waiting", answer |-> Ok(None)]
  OBVIOUS
<1>2. N \in Nat /\ DOMAIN calls = 1..N
  BY <1>1 DEF ServedInv, CommandsInv, CallsAre
<1>3. /\ calls' = Append(calls, c)
      /\ commands' = IF task = Stopped THEN commands ELSE Append(commands, N + 1)
      /\ UNCHANGED chain /\ task' = task
  BY <1>1 DEF Call
<1>4. /\ Len(calls') = N + 1 /\ calls' = [i \in 1..(N + 1) |-> calls'[i]]
      /\ \A i \in 1..N : calls'[i] = calls[i]
      /\ calls'[N + 1] = c
  BY <1>1, <1>3, AppendAny DEF ServedInv, CommandsInv, CallsAre
<1>5. DOMAIN calls' = 1..N \cup {N + 1} /\ N + 1 \in Nat /\ N + 1 # 0 /\ N + 1 \notin 1..N
  BY <1>2, <1>4
<1>6. c = [request |-> c.request, phase |-> c.phase, answer |-> c.answer]
      /\ (c.phase = "answered" <=> task = Stopped)
      /\ (c.phase = "answered" => c.answer = Err("SendError"))
  BY <1>1
<1>7. CallsAre(calls')
  <2>1. \A i \in 1..N : calls[i] = [request |-> calls[i].request, phase |-> calls[i].phase,
                                    answer |-> calls[i].answer]
    BY <1>1 DEF ServedInv, CommandsInv, CallsAre
  <2>2. \A i \in 1..(N + 1) : calls'[i] = [request |-> calls'[i].request, phase |-> calls'[i].phase,
                                          answer |-> calls'[i].answer]
    BY <1>4, <1>5, <1>6, <2>1
  <2> QED
    BY <1>4, <1>5, <2>2 DEF CallsAre
<1>8. /\ ChainInv' /\ Grown /\ finalized \in Up(blocks')[finalized'] /\ Hashes' = Hashes
      /\ \A i : Made(i)' = Made(i)
  BY <1>3, SameChain
<1>9. TaskInv'
  BY <1>2, <1>3, <1>4, <1>5, TaskKept
<1>10. commands \in Seq(Nat) /\ commands' \in Seq(Nat)
  BY <1>3, <1>5 DEF ServedInv, CommandsInv
<1>11. Made(N + 1) = {}
  <2>1. \A h \in Hashes : blocks[h].by \in {Foreign, 0} \cup 1..N
    BY <1>2 DEF ServedInv, MadeInv
  <2>2. N + 1 \notin {Foreign, 0} \cup 1..N
    BY <1>2, <1>5 DEF Foreign
  <2> QED
    BY <2>1, <2>2 DEF Made
<1>12. CommandsInv' /\ MadeInv'
  <2>1. /\ \A k \in DOMAIN commands : commands[k] # 0 =>
              /\ commands[k] \in 1..N
              /\ calls[commands[k]].phase # "answered"
              /\ Busy => task.sender # commands[k]
              /\ \A j \in DOMAIN commands : commands[j] = commands[k] => j = k
              /\ Made(commands[k]) = {}
    BY <1>2 DEF ServedInv, CommandsInv, MadeInv
  <2>2. Busy => task.sender \in {0} \cup 1..N
    BY <1>2 DEF ServedInv, TaskInv
  <2>3. (\A h \in Hashes' : blocks'[h].by \in {Foreign, 0} \cup DOMAIN calls')
        /\ (Making' /\ task'.sender # 0 => Made(task.sender)' = {})
    BY <1>2, <1>3, <1>5, <1>8 DEF ServedInv, MadeInv, chain, Making
  <2>4. CASE task = Stopped
    <3>1. commands' = commands
      BY <1>3, <2>4
    <3>2. /\ \A k \in DOMAIN commands' : commands'[k] # 0 =>
              /\ commands'[k] \in DOMAIN calls'
              /\ calls'[commands'[k]].phase # "answered"
              /\ Busy => task.sender # commands'[k]
              /\ \A j \in DOMAIN commands' : commands'[j] = commands'[k] => j = k
      BY <1>4, <1>5, <2>1, <3>1
    <3>3. \A k \in DOMAIN commands' : commands'[k] # 0 => Made(commands'[k]) = {}
      BY <2>1, <3>1
    <3> QED
      BY <1>3, <1>7, <1>8, <1>10, <2>3, <3>2, <3>3, ZenonT(40) DEF CommandsInv, MadeInv, Busy, Made
  <2>5. CASE task # Stopped
    <3>1. PICK K : K = Len(commands) /\ K \in Nat /\ DOMAIN commands = 1..K
      BY <1>10
    <3>2. /\ DOMAIN commands' = 1..K \cup {K + 1} /\ K + 1 \notin 1..K
          /\ \A k \in 1..K : commands'[k] = commands[k]
          /\ commands'[K + 1] = N + 1
      BY <1>3, <1>10, <2>5, <3>1
    <3>3. /\ \A k \in DOMAIN commands' : commands'[k] # 0 =>
              /\ commands'[k] \in DOMAIN calls'
              /\ calls'[commands'[k]].phase # "answered"
              /\ Busy => task.sender # commands'[k]
              /\ \A j \in DOMAIN commands' : commands'[j] = commands'[k] => j = k
      BY <1>4, <1>5, <1>6, <2>1, <2>2, <2>5, <3>1, <3>2
    <3>4. \A k \in DOMAIN commands' : commands'[k] # 0 => Made(commands'[k]) = {}
      BY <1>11, <2>1, <3>1, <3>2
    <3> QED
      BY <1>3, <1>7, <1>8, <1>10, <2>3, <3>3, <3>4, ZenonT(40) DEF CommandsInv, MadeInv, Busy, Made
  <2> QED
    BY <2>4, <2>5
<1>13. AnswersInv'
  <2> SUFFICES ASSUME NEW i \in DOMAIN calls', calls'[i].phase = "answered"
               PROVE  TrueAnswer(i, calls[i].answer)'
    BY DEF AnswersInv
  <2>1. PICK a : a = calls'[i].answer
    OBVIOUS
  <2>2. CASE i \in 1..N
    <3>1. TrueAnswer(i, a)
      BY <1>2, <1>4, <2>1, <2>2 DEF ServedInv, AnswersInv
    <3>2. TrueAnswer(i, a)'
      BY <1>4, <1>8, <2>2, <3>1, TrueKept
    <3> QED
      BY <2>1, <3>2 DEF TrueAnswer
  <2>3. CASE i = N + 1
    <3>1. a = Err("SendError")
      BY <1>4, <1>6, <2>1, <2>3
    <3>2. ~a.ok /\ a.error = "SendError"
      BY <3>1 DEF Err
    <3>3. ToCode("SendError") = 10000
      BY DEF ToCode
    <3>4. TrueAnswer(i, a)'
      BY <3>2, <3>3 DEF TrueAnswer, ToCode
    <3> QED
      BY <2>1, <3>4 DEF TrueAnswer
  <2> QED
    BY <1>5, <2>2, <2>3
<1> QED
  BY <1>8, <1>9, <1>12, <1>13, <1>2, <1>4, <1>5 DEF ServedInv, RequestsStay

\* One call changes its phase or its answer.
LEMMA CallChanged ==
    ASSUME CallsAre(calls), NEW i \in DOMAIN calls, NEW phase, NEW answer,
           calls' = [calls EXCEPT ![i] = [request |-> calls[i].request, phase |-> phase,
                                          answer |-> answer]]
    PROVE  /\ CallsAre(calls') /\ DOMAIN calls' = DOMAIN calls
           /\ \A j \in DOMAIN calls : calls'[j].request = calls[j].request
           /\ \A j \in DOMAIN calls : j # i => calls'[j] = calls[j]
           /\ calls'[i].phase = phase /\ calls'[i].answer = answer
<1>1. PICK N : N = Len(calls) /\ N \in Nat /\ calls = [j \in 1..N |-> calls[j]]
  BY DEF CallsAre
<1>2. PICK c : c = [request |-> calls[i].request, phase |-> phase, answer |-> answer]
  OBVIOUS
<1>3. /\ c.request = calls[i].request /\ c.phase = phase /\ c.answer = answer
      /\ c = [request |-> c.request, phase |-> c.phase, answer |-> c.answer]
  BY <1>2
<1>4. i \in 1..N /\ calls' = [j \in 1..N |-> IF j = i THEN c ELSE calls[j]]
  BY <1>1, <1>2
<1>5. Len(calls') = N /\ DOMAIN calls' = 1..N
  BY <1>1, <1>4
<1>6. /\ \A j \in 1..N : j # i => calls'[j] = calls[j]
      /\ calls'[i] = c
  BY <1>4
<1>7. \A j \in 1..N : calls'[j] =
          [request |-> calls'[j].request, phase |-> calls'[j].phase, answer |-> calls'[j].answer]
  <2>1. \A j \in 1..N : calls[j] = [request |-> calls[j].request, phase |-> calls[j].phase,
                                    answer |-> calls[j].answer]
    BY <1>1 DEF CallsAre
  <2> QED
    BY <1>3, <1>6, <2>1
<1>8. calls' = [j \in 1..N |-> calls'[j]]
  BY <1>4
<1>9. CallsAre(calls')
  BY <1>1, <1>5, <1>7, <1>8 DEF CallsAre
<1> QED
  BY <1>1, <1>3, <1>5, <1>6, <1>9

LEMMA AbandonServed ==
    ASSUME ChainInv, ServedInv, NEW i \in DOMAIN calls, Abandon(i)
    PROVE  ServedInv' /\ ChainInv' /\ RequestsStay
<1>1. calls[i].phase = "waiting" /\ UNCHANGED <<chain, task, commands>>
  BY DEF Abandon
<1>2. CallsAre(calls)
  BY DEF ServedInv, CommandsInv
<1>3. calls' = [calls EXCEPT ![i] = [request |-> calls[i].request, phase |-> "gone",
                                     answer |-> calls[i].answer]]
  <2>1. calls' = [calls EXCEPT ![i] = [calls[i] EXCEPT !.phase = "gone"]]
    BY DEF Abandon
  <2>2. PICK c : c = calls[i]
    OBVIOUS
  <2>3. c = [request |-> c.request, phase |-> c.phase, answer |-> c.answer]
    BY <1>2, <2>2 DEF CallsAre
  <2>4. [c EXCEPT !.phase = "gone"] = [request |-> c.request, phase |-> "gone", answer |-> c.answer]
    BY <2>3
  <2> QED
    BY <2>1, <2>2, <2>4
<1>4. /\ CallsAre(calls') /\ DOMAIN calls' = DOMAIN calls
      /\ \A j \in DOMAIN calls : calls'[j].request = calls[j].request
      /\ \A j \in DOMAIN calls : j # i => calls'[j] = calls[j]
      /\ calls'[i].phase = "gone"
  BY <1>2, <1>3, CallChanged
<1>5. \A j \in DOMAIN calls : /\ calls'[j].phase = "answered" <=> calls[j].phase = "answered"
                              /\ calls'[j].phase = "answered" => calls'[j] = calls[j]
  BY <1>1, <1>4
<1>6. /\ ChainInv' /\ Grown /\ finalized \in Up(blocks')[finalized'] /\ Hashes' = Hashes
      /\ \A j : Made(j)' = Made(j)
  BY <1>1, SameChain
<1>7. TaskInv'
  BY <1>1, <1>4, <1>5, TaskKept
<1>8. CommandsInv' /\ MadeInv'
  <2>1. \A k \in DOMAIN commands : commands[k] # 0 => commands[k] \in DOMAIN calls
    BY DEF ServedInv, CommandsInv
  <2> QED
    BY <1>1, <1>4, <1>5, <1>6, <2>1 DEF ServedInv, CommandsInv, MadeInv, Busy, Making, Made, chain
<1>9. AnswersInv'
  <2> SUFFICES ASSUME NEW j \in DOMAIN calls', calls'[j].phase = "answered"
               PROVE  TrueAnswer(j, calls[j].answer)'
    BY DEF AnswersInv
  <2>1. PICK a : a = calls'[j].answer
    OBVIOUS
  <2>2. j \in DOMAIN calls /\ TrueAnswer(j, a)
    BY <1>4, <1>5, <2>1 DEF ServedInv, AnswersInv
  <2>3. TrueAnswer(j, a)'
    BY <1>4, <1>6, <2>2, TrueKept
  <2> QED
    BY <2>1, <2>3 DEF TrueAnswer
<1> QED
  BY <1>6, <1>7, <1>8, <1>9, <1>4 DEF ServedInv, RequestsStay

\* Answers stay true when the calls do not change.
LEMMA AnswersKept ==
    ASSUME ChainInv, ChainInv', Grown, finalized \in Up(blocks')[finalized'], AnswersInv,
           calls' = calls,
           \A i \in DOMAIN calls : calls[i].phase = "answered" => Made(i)' = Made(i)
    PROVE  AnswersInv'
<1> SUFFICES ASSUME NEW i \in DOMAIN calls', calls'[i].phase = "answered"
             PROVE  TrueAnswer(i, calls[i].answer)'
  BY DEF AnswersInv
<1>1. PICK a : a = calls[i].answer
  OBVIOUS
<1>2. i \in DOMAIN calls /\ TrueAnswer(i, a)
  BY <1>1 DEF AnswersInv
<1>3. TrueAnswer(i, a)'
  BY <1>2, TrueKept
<1> QED
  BY <1>1, <1>3 DEF TrueAnswer

\* Commands that are kept, perhaps with a notification of the pool behind them.
LEMMA QuietServed ==
    ASSUME ChainInv, ServedInv, UNCHANGED <<chain, calls, task>>,
           commands' = commands \/ commands' = Append(commands, 0)
    PROVE  ServedInv' /\ ChainInv'
<1>1. /\ ChainInv' /\ Grown /\ finalized \in Up(blocks')[finalized'] /\ Hashes' = Hashes
      /\ \A j : Made(j)' = Made(j)
  BY SameChain
<1>2. TaskInv'
  BY TaskKept
<1>3. AnswersInv'
  BY <1>1, AnswersKept DEF ServedInv
<1>4. /\ commands' \in Seq(Nat)
      /\ \A k \in DOMAIN commands' : commands'[k] # 0 =>
            k \in DOMAIN commands /\ commands'[k] = commands[k]
  <2>1. commands \in Seq(Nat)
    BY DEF ServedInv, CommandsInv
  <2>2. PICK K : K = Len(commands) /\ K \in Nat /\ DOMAIN commands = 1..K
    BY <2>1
  <2>3. CASE commands' = commands
    BY <2>1, <2>3
  <2>4. CASE commands' = Append(commands, 0)
    <3>1. /\ DOMAIN commands' = 1..K \cup {K + 1} /\ commands' \in Seq(Nat)
          /\ \A k \in 1..K : commands'[k] = commands[k]
          /\ commands'[K + 1] = 0
      BY <2>1, <2>2, <2>4
    <3> QED
      BY <2>2, <3>1
  <2> QED
    BY <2>3, <2>4
<1>5. CommandsInv'
  BY <1>4 DEF ServedInv, CommandsInv, Busy
<1>6. MadeInv'
  <2>1. \A k \in DOMAIN commands' : commands'[k] # 0 => Made(commands'[k]) = {}
    BY <1>4 DEF ServedInv, MadeInv
  <2>2. Making' /\ task'.sender # 0 => Made(task.sender)' = {}
    BY <1>1 DEF ServedInv, MadeInv, Making
  <2>3. \A h \in Hashes' : blocks'[h].by \in {Foreign, 0} \cup DOMAIN calls'
    BY <1>1 DEF ServedInv, MadeInv, chain
  <2> QED
    BY <1>1, <2>1, <2>2, <2>3 DEF MadeInv, Made, chain
<1> QED
  BY <1>1, <1>2, <1>3, <1>5, <1>6 DEF ServedInv

\* A seal proceeds: it fails, or its block is proposed on the parent asked for.
LEMMA MakingServed ==
    ASSUME ChainInv, ServedInv, Making, UNCHANGED <<chain, calls, commands>>,
           task'.sender = task.sender,
           \/ task'.at = "replying" /\ ~task'.answer.ok
           \/ /\ task'.at = "proposed" /\ task'.block.by = task.sender
              /\ task'.block.parent \in Hashes
              /\ Request(task.sender).hash \in {None, task'.block.parent}
    PROVE  ServedInv' /\ ChainInv'
<1>1. /\ ChainInv' /\ Grown /\ finalized \in Up(blocks')[finalized'] /\ Hashes' = Hashes
      /\ \A j : Made(j)' = Made(j)
  BY SameChain
<1>2. AnswersInv'
  BY <1>1, AnswersKept DEF ServedInv
<1>3. Busy /\ Busy'
  BY DEF Making, Busy
<1>4. CommandsInv'
  BY <1>3 DEF ServedInv, CommandsInv
<1>5. MadeInv'
  <2>1. \A k \in DOMAIN commands' : commands'[k] # 0 => Made(commands'[k]) = {}
    BY DEF ServedInv, MadeInv
  <2>2. task'.sender # 0 => Made(task.sender)' = {}
    BY <1>1 DEF ServedInv, MadeInv
  <2>3. \A h \in Hashes' : blocks'[h].by \in {Foreign, 0} \cup DOMAIN calls'
    BY <1>1 DEF ServedInv, MadeInv, chain
  <2> QED
    BY <1>1, <2>1, <2>2, <2>3 DEF MadeInv, Made, chain
<1>6. TaskInv'
  <2>1. PICK s : s = task.sender
    OBVIOUS
  <2>2. /\ s \in {0} \cup DOMAIN calls /\ (s # 0 => calls[s].phase # "answered")
        /\ Request(s).command = "SealNewBlock"
    BY <1>3, <2>1 DEF ServedInv, TaskInv
  <2>3. Request(s)' = Request(s)
    <3>1. PICK N : N \in Nat /\ DOMAIN calls = 1..N
      BY DEF ServedInv, CommandsInv, CallsAre
    <3> QED
      BY <2>2, <3>1, RequestsKept
  <2>4. s # 0 => Made(s) = {}
    BY <2>1 DEF ServedInv, MadeInv
  <2>5. CASE task'.at = "replying" /\ ~task'.answer.ok
    <3>1. PICK a : a = task'.answer
      OBVIOUS
    <3>2. s # 0 => TrueAnswer(s, a)'
      BY <1>1, <2>4, <2>5, <3>1 DEF TrueAnswer
    <3>3. task'.sender # 0 => TrueAnswer(task.sender, task.answer)'
      BY <2>1, <3>1, <3>2 DEF TrueAnswer, Made
    <3> QED
      BY <2>1, <2>2, <2>5, <3>3 DEF TaskInv, Busy, Making
  <2>6. CASE /\ task'.at = "proposed" /\ task'.block.by = task.sender
             /\ task'.block.parent \in Hashes
             /\ Request(task.sender).hash \in {None, task'.block.parent}
    <3>1. Request(task.sender)' = Request(s)
      BY <2>1, <2>3 DEF Request, InstantCommand, SealNewBlock
    <3> QED
      BY <1>1, <2>1, <2>2, <2>6, <3>1 DEF TaskInv, Busy, Making
  <2> QED
    BY <2>5, <2>6
<1> QED
  BY <1>1, <1>2, <1>4, <1>5, <1>6 DEF ServedInv

\* The task takes the first command, and is not the sender of another one.
LEMMA CommandTaken ==
    ASSUME ServedInv, commands # <<>>, commands' = Tail(commands)
    PROVE  /\ Head(commands) \in {0} \cup DOMAIN calls
           /\ commands' \in Seq(Nat)
           /\ Head(commands) # 0 => /\ calls[Head(commands)].phase # "answered"
                                    /\ Made(Head(commands)) = {}
           /\ \A k \in DOMAIN commands' : commands'[k] # 0 =>
                 /\ commands'[k] \in DOMAIN calls
                 /\ calls[commands'[k]].phase # "answered"
                 /\ commands'[k] # Head(commands)
                 /\ \A j \in DOMAIN commands' : commands'[j] = commands'[k] => j = k
                 /\ Made(commands'[k]) = {}
<1>1. /\ commands \in Seq(Nat)
      /\ \A k \in DOMAIN commands : commands[k] # 0 =>
              /\ commands[k] \in DOMAIN calls
              /\ calls[commands[k]].phase # "answered"
              /\ \A j \in DOMAIN commands : commands[j] = commands[k] => j = k
              /\ Made(commands[k]) = {}
  BY DEF ServedInv, CommandsInv, MadeInv
<1>2. PICK K : K = Len(commands) /\ K \in Nat /\ DOMAIN commands = 1..K /\ K # 0
  BY <1>1
<1>3. /\ Head(commands) = commands[1] /\ 1 \in DOMAIN commands
      /\ commands' \in Seq(Nat) /\ DOMAIN commands' = 1..(K - 1)
      /\ \A k \in 1..(K - 1) : commands'[k] = commands[k + 1]
  BY <1>1, <1>2
<1>4. \A k \in 1..(K - 1) : k + 1 \in 1..K /\ k + 1 # 1
  BY <1>2
<1>5. \A j, k \in 1..(K - 1) : j + 1 = k + 1 => j = k
  BY <1>2
<1>6. Head(commands) \in {0} \cup DOMAIN calls
  BY <1>1, <1>3
<1>7. Head(commands) # 0 => calls[Head(commands)].phase # "answered" /\ Made(Head(commands)) = {}
  BY <1>1, <1>3
<1>8. \A k \in DOMAIN commands' : commands'[k] # 0 =>
         /\ commands'[k] \in DOMAIN calls
         /\ calls[commands'[k]].phase # "answered"
         /\ Made(commands'[k]) = {}
  <2> TAKE k \in DOMAIN commands'
  <2>1. PICK i : i = k + 1 /\ i \in DOMAIN commands /\ commands'[k] = commands[i]
    BY <1>2, <1>3, <1>4
  <2>2. PICK c : c = commands[i]
    OBVIOUS
  <2> QED
    BY <1>1, <2>1, <2>2
<1>9. \A k \in DOMAIN commands' : commands'[k] # 0 =>
         /\ commands'[k] # Head(commands)
         /\ \A j \in DOMAIN commands' : commands'[j] = commands'[k] => j = k
  <2> SUFFICES ASSUME NEW k \in DOMAIN commands', commands'[k] # 0,
                      NEW j \in DOMAIN commands'
               PROVE  /\ commands'[k] # Head(commands)
                      /\ commands'[j] = commands'[k] => j = k
    OBVIOUS
  <2>1. /\ k + 1 \in DOMAIN commands /\ commands'[k] = commands[k + 1] /\ k + 1 # 1
        /\ j + 1 \in DOMAIN commands /\ commands'[j] = commands[j + 1]
        /\ j + 1 = k + 1 => j = k
    BY <1>2, <1>3, <1>4, <1>5
  <2>2. PICK a, b : a = k + 1 /\ b = j + 1
    OBVIOUS
  <2>3. \A i \in DOMAIN commands : commands[i] = commands[a] => i = a
    BY <1>1, <2>1, <2>2
  <2> QED
    BY <1>3, <2>1, <2>2, <2>3
<1> QED
  BY <1>3, <1>6, <1>7, <1>8, <1>9

LEMMA TakeServed ==
    ASSUME ChainInv, ServedInv, TakeCommand
    PROVE  ServedInv' /\ ChainInv'
<1>1. PICK s, request : s = Head(commands) /\ request = Request(s)
  OBVIOUS
<1>2. /\ task = Idle /\ commands # <<>> /\ commands' = Tail(commands) /\ calls' = calls
  BY DEF TakeCommand
<1>3. /\ s \in {0} \cup DOMAIN calls
      /\ commands' \in Seq(Nat)
      /\ s # 0 => calls[s].phase # "answered" /\ Made(s) = {}
      /\ \A k \in DOMAIN commands' : commands'[k] # 0 =>
            /\ commands'[k] \in DOMAIN calls
            /\ calls[commands'[k]].phase # "answered"
            /\ commands'[k] # s
            /\ \A j \in DOMAIN commands' : commands'[j] = commands'[k] => j = k
            /\ Made(commands'[k]) = {}
  BY <1>1, <1>2, CommandTaken
<1>4. /\ task'.sender = s
      /\ \/ /\ UNCHANGED chain /\ request.command = "SealNewBlock"
            /\ task'.at = "sealing" \/ (task'.at = "replying" /\ ~task'.answer.ok)
         \/ /\ UNCHANGED chain /\ task'.at = "replying" /\ ~task'.answer.ok
         \/ /\ request.command # "SealNewBlock" /\ MayFinalize(request.hash)
            /\ task'.at = "replying" /\ task'.answer.hash = request.hash /\ task'.answer.ok
            /\ blocks' = blocks /\ finalized' = request.hash
            /\ best' = BestAfterFinality(request.hash)
  <2>1. CASE request.command = "SealNewBlock"
    <3>1. UNCHANGED chain
      BY <1>1, <2>1 DEF TakeCommand
    <3>2. task' = Replying(s, Err("EmptyTransactionPool")) \/ task' = [at |-> "sealing", sender |-> s]
      BY <1>1, <2>1 DEF TakeCommand
    <3> QED
      BY <2>1, <3>1, <3>2 DEF Replying, Err
  <2>2. CASE request.command # "SealNewBlock"
    <3>1. task' = Replying(s, FinalizeResult(request.hash))
      BY <1>1, <2>2 DEF TakeCommand
    <3>2. CASE MayFinalize(request.hash)
      <4>1. /\ finalized' = request.hash /\ best' = BestAfterFinality(request.hash)
            /\ blocks' = blocks
        BY <1>1, <2>2, <3>2 DEF TakeCommand
      <4>2. task' = Replying(s, Ok(request.hash))
        BY <3>1, <3>2 DEF FinalizeResult
      <4> QED
        BY <2>2, <3>2, <4>1, <4>2 DEF Replying, Ok
    <3>3. CASE ~MayFinalize(request.hash)
      <4>1. UNCHANGED chain
        BY <1>1, <2>2, <3>3 DEF TakeCommand
      <4>2. task' = Replying(s, Err("BlockchainError"))
        BY <3>1, <3>3 DEF FinalizeResult
      <4> QED
        BY <4>1, <4>2 DEF Replying, Err
    <3> QED
      BY <3>2, <3>3
  <2> QED
    BY <2>1, <2>2
<1>5. ChainInv' /\ Grown /\ finalized \in Up(blocks')[finalized'] /\ blocks' = blocks
  <2>1. CASE UNCHANGED chain
    BY <2>1, SameChain DEF chain
  <2>2. CASE ~UNCHANGED chain
    <3>1. PICK hash : hash = request.hash
      OBVIOUS
    <3> QED
      BY <1>4, <2>2, <3>1, FinalizeChain
  <2> QED
    BY <2>1, <2>2
<1>6. Hashes' = Hashes /\ \A i : Made(i)' = Made(i)
  BY <1>5 DEF Hashes, Made
<1>7. AnswersInv'
  BY <1>2, <1>5, <1>6, AnswersKept DEF ServedInv
<1>8. CommandsInv'
  BY <1>2, <1>3, <1>4 DEF ServedInv, CommandsInv, Busy
<1>9. MadeInv'
  <2>1. \A k \in DOMAIN commands' : commands'[k] # 0 => Made(commands'[k]) = {}
    BY <1>3
  <2>2. \A h \in Hashes' : blocks'[h].by \in {Foreign, 0} \cup DOMAIN calls'
    BY <1>2, <1>5, <1>6 DEF ServedInv, MadeInv
  <2>3. task'.sender # 0 => Made(task'.sender) = {}
    BY <1>3, <1>4
  <2> QED
    BY <1>5, <1>6, <2>1, <2>2, <2>3 DEF MadeInv, Made
<1>10. Request(task.sender)' = request
  <2>1. PICK N : N \in Nat /\ DOMAIN calls = 1..N
    BY DEF ServedInv, CommandsInv, CallsAre
  <2>2. Request(s)' = Request(s)
    BY <1>2, <1>3, <2>1, RequestsKept
  <2> QED
    BY <1>1, <1>4, <2>2 DEF Request, InstantCommand, SealNewBlock
<1>11. task'.at = "replying" /\ s # 0 => TrueAnswer(task.sender, task.answer)'
  <2>1. CASE task'.at = "replying" /\ ~task'.answer.ok /\ s # 0
    <3>1. PICK a : a = task'.answer
      OBVIOUS
    <3>2. TrueAnswer(s, a)'
      BY <1>3, <1>6, <2>1, <3>1 DEF TrueAnswer
    <3> QED
      BY <1>4, <3>1, <3>2 DEF TrueAnswer, Made
  <2>2. CASE task'.at = "replying" /\ task'.answer.ok /\ s # 0
    <3>1. PICK a : a = task'.answer
      OBVIOUS
    <3>2. /\ request.command # "SealNewBlock" /\ a.hash = request.hash /\ a.ok
          /\ finalized' = request.hash
      BY <1>4, <2>2, <3>1
    <3>3. request = calls'[s].request
      BY <1>1, <1>2, <2>2 DEF Request
    <3>4. a.hash \in Up(blocks')[finalized']
      <4>1. request.hash \in Hashes
        BY <1>4, <2>2 DEF MayFinalize
      <4>2. request.hash \in Up(blocks)[request.hash]
        BY <4>1, ChainFacts
      <4> QED
        BY <1>5, <3>2, <4>2
    <3>5. TrueAnswer(s, a)'
      BY <3>2, <3>3, <3>4 DEF TrueAnswer
    <3> QED
      BY <1>4, <3>1, <3>5 DEF TrueAnswer, Made
  <2> QED
    BY <2>1, <2>2
<1>12. TaskInv'
  <2>1. task'.at = "sealing" \/ task'.at = "replying"
    BY <1>4
  <2>2. task'.at = "sealing" => request.command = "SealNewBlock"
    BY <1>4
  <2>3. s # 0 => calls'[s].phase # "answered"
    BY <1>2, <1>3
  <2> QED
    BY <1>2, <1>3, <1>4, <1>10, <1>11, <2>1, <2>2, <2>3 DEF TaskInv, Busy, Making
<1> QED
  BY <1>5, <1>7, <1>8, <1>9, <1>12 DEF ServedInv

\* What a call becomes when it is answered.
LEMMA RecordAnswered ==
    ASSUME NEW c, c = [request |-> c.request, phase |-> c.phase, answer |-> c.answer], NEW a
    PROVE  [c EXCEPT !.phase = "answered", !.answer = a]
              = [request |-> c.request, phase |-> "answered", answer |-> a]
<1>1. PICK d : d = [c EXCEPT !.phase = "answered"]
  OBVIOUS
<1>2. d = [request |-> c.request, phase |-> "answered", answer |-> c.answer]
  BY <1>1
<1>3. PICK q, x : q = c.request /\ x = c.answer
  OBVIOUS
<1>4. d = [request |-> q, phase |-> "answered", answer |-> x]
  BY <1>2, <1>3
<1>5. [d EXCEPT !.answer = a] = [request |-> q, phase |-> "answered", answer |-> a]
  BY <1>4
<1>6. [c EXCEPT !.phase = "answered", !.answer = a] = [d EXCEPT !.answer = a]
  BY <1>1
<1> QED
  BY <1>3, <1>5, <1>6

\* send_result: the answer of the task becomes the answer of its call.
LEMMA ReplyServed ==
    ASSUME ChainInv, ServedInv, Reply
    PROVE  ServedInv' /\ ChainInv' /\ RequestsStay
<1>1. PICK s, a : s = task.sender /\ a = task.answer
  OBVIOUS
<1>2. task.at = "replying" /\ calls' = Answered(s, a) /\ task' = Idle /\ UNCHANGED <<chain, commands>>
  BY <1>1 DEF Reply
<1>3. /\ ChainInv' /\ Grown /\ finalized \in Up(blocks')[finalized'] /\ Hashes' = Hashes
      /\ \A j : Made(j)' = Made(j)
  BY <1>2, SameChain
<1>4. ~Busy' /\ ~Making' /\ TaskInv'
  BY <1>2 DEF TaskInv, Busy, Making, Idle
<1>5. CallsAre(calls) /\ s \in {0} \cup DOMAIN calls
  BY <1>1, <1>2 DEF ServedInv, CommandsInv, TaskInv, Busy
<1>6. /\ CallsAre(calls') /\ DOMAIN calls' = DOMAIN calls
      /\ \A j \in DOMAIN calls : calls'[j].request = calls[j].request
      /\ \A j \in DOMAIN calls : j # s => calls'[j] = calls[j]
      /\ calls' = calls \/ (s # 0 /\ s \in DOMAIN calls /\ calls'[s].answer = a)
  <2>1. CASE s # 0 /\ calls[s].phase = "waiting"
    <3>1. calls' = [calls EXCEPT ![s].phase = "answered", ![s].answer = a]
      BY <1>2, <2>1 DEF Answered
    <3>2. calls' = [calls EXCEPT ![s] = [request |-> calls[s].request, phase |-> "answered",
                                         answer |-> a]]
      <4>1. PICK c : c = calls[s]
        OBVIOUS
      <4>2. c = [request |-> c.request, phase |-> c.phase, answer |-> c.answer]
        BY <1>5, <2>1, <4>1 DEF CallsAre
      <4>3. calls' = [calls EXCEPT ![s] = [c EXCEPT !.phase = "answered", !.answer = a]]
        BY <1>5, <2>1, <3>1, <4>1 DEF CallsAre
      <4>4. [c EXCEPT !.phase = "answered", !.answer = a]
              = [request |-> c.request, phase |-> "answered", answer |-> a]
        BY <4>2, RecordAnswered
      <4> QED
        BY <4>1, <4>3, <4>4
    <3>3. /\ CallsAre(calls') /\ DOMAIN calls' = DOMAIN calls
          /\ \A j \in DOMAIN calls : calls'[j].request = calls[j].request
          /\ \A j \in DOMAIN calls : j # s => calls'[j] = calls[j]
          /\ calls'[s].answer = a
      BY <1>5, <2>1, <3>2, CallChanged
    <3> QED
      BY <1>5, <2>1, <3>3
  <2>2. CASE ~(s # 0 /\ calls[s].phase = "waiting")
    <3>1. calls' = calls
      BY <1>2, <2>2 DEF Answered
    <3> QED
      BY <1>5, <3>1
  <2> QED
    BY <2>1, <2>2
<1>7. CommandsInv'
  <2>1. \A k \in DOMAIN commands : commands[k] # 0 => commands[k] # s
    BY <1>1, <1>2 DEF ServedInv, CommandsInv, Busy
  <2> QED
    BY <1>2, <1>4, <1>6, <2>1 DEF ServedInv, CommandsInv
<1>8. MadeInv'
  <2>1. \A k \in DOMAIN commands' : commands'[k] # 0 => Made(commands'[k]) = {}
    BY <1>2 DEF ServedInv, MadeInv
  <2>2. \A h \in Hashes' : blocks'[h].by \in {Foreign, 0} \cup DOMAIN calls'
    BY <1>2, <1>3, <1>6 DEF ServedInv, MadeInv, chain
  <2> QED
    BY <1>2, <1>3, <1>4, <2>1, <2>2 DEF MadeInv, Made, chain
<1>9. AnswersInv'
  <2> SUFFICES ASSUME NEW j \in DOMAIN calls', calls'[j].phase = "answered"
               PROVE  TrueAnswer(j, calls[j].answer)'
    BY DEF AnswersInv
  <2>1. PICK b : b = calls'[j].answer
    OBVIOUS
  <2>2. TrueAnswer(j, b)
    <3>1. CASE calls'[j] = calls[j]
      BY <1>6, <2>1, <3>1 DEF ServedInv, AnswersInv
    <3>2. CASE calls'[j] # calls[j]
      <4>1. j = s /\ s # 0 /\ b = a
        BY <1>6, <2>1, <3>2
      <4> QED
        BY <1>1, <1>2, <4>1 DEF ServedInv, TaskInv
    <3> QED
      BY <3>1, <3>2
  <2>3. TrueAnswer(j, b)'
    BY <1>3, <1>6, <2>2, TrueKept
  <2> QED
    BY <2>1, <2>3 DEF TrueAnswer
<1> QED
  BY <1>3, <1>4, <1>7, <1>8, <1>9, <1>6 DEF ServedInv, RequestsStay

\* The task ends: the error of the calls that still wait says nothing of blocks.
LEMMA DropServed ==
    ASSUME ChainInv, ServedInv, Drop
    PROVE  ServedInv' /\ ChainInv' /\ RequestsStay
<1>1. /\ task' = Stopped /\ commands' = <<>> /\ UNCHANGED chain
      /\ calls' = [i \in DOMAIN calls |->
                   IF calls[i].phase = "waiting"
                   THEN [calls[i] EXCEPT !.phase = "answered", !.answer = Err("Canceled")]
                   ELSE calls[i]]
  BY DEF Drop
<1>2. /\ ChainInv' /\ Grown /\ finalized \in Up(blocks')[finalized'] /\ Hashes' = Hashes
      /\ \A j : Made(j)' = Made(j)
  BY <1>1, SameChain
<1>3. ~Busy' /\ ~Making' /\ TaskInv'
  BY <1>1 DEF TaskInv, Busy, Making, Stopped
<1>4. PICK N : N = Len(calls) /\ N \in Nat /\ DOMAIN calls = 1..N
  BY DEF ServedInv, CommandsInv, CallsAre
<1>5. Len(calls') = N /\ DOMAIN calls' = 1..N /\ calls' = [i \in 1..N |-> calls'[i]]
  <2> DEFINE g(i) == IF calls[i].phase = "waiting"
                     THEN [calls[i] EXCEPT !.phase = "answered", !.answer = Err("Canceled")]
                     ELSE calls[i]
  <2>1. calls' = [i \in 1..N |-> g(i)]
    BY <1>1, <1>4
  <2> HIDE DEF g
  <2> QED
    BY <1>4, <2>1
<1>6. ASSUME NEW i \in 1..N
      PROVE  /\ calls'[i] = [request |-> calls'[i].request, phase |-> calls'[i].phase,
                             answer |-> calls'[i].answer]
             /\ calls'[i].request = calls[i].request
             /\ calls'[i] = calls[i] \/ calls'[i].answer = Err("Canceled")
  <2>1. PICK c, d : c = calls[i] /\ d = Err("Canceled")
    OBVIOUS
  <2>2. c = [request |-> c.request, phase |-> c.phase, answer |-> c.answer]
    BY <1>4, <2>1 DEF ServedInv, CommandsInv, CallsAre
  <2>3. calls'[i] = c \/ calls'[i] = [c EXCEPT !.phase = "answered", !.answer = d]
    BY <1>1, <1>4, <2>1
  <2>4. [c EXCEPT !.phase = "answered", !.answer = d]
          = [request |-> c.request, phase |-> "answered", answer |-> d]
    BY <2>2, RecordAnswered
  <2>5. CASE calls'[i] = c
    BY <2>1, <2>2, <2>5
  <2>6. CASE calls'[i] = [request |-> c.request, phase |-> "answered", answer |-> d]
    BY <2>1, <2>6
  <2> QED
    BY <2>3, <2>4, <2>5, <2>6
<1>7. CallsAre(calls')
  BY <1>4, <1>5, <1>6 DEF CallsAre
<1>8. CommandsInv'
  <2>1. <<>> \in Seq(Nat) /\ DOMAIN <<>> = {}
    OBVIOUS
  <2> QED
    BY <1>1, <1>7, <2>1 DEF CommandsInv
<1>9. MadeInv'
  <2>1. \A h \in Hashes' : blocks'[h].by \in {Foreign, 0} \cup DOMAIN calls'
    BY <1>1, <1>2, <1>4, <1>5 DEF ServedInv, MadeInv, chain
  <2>2. DOMAIN commands' = {}
    <3>1. DOMAIN <<>> = {}
      OBVIOUS
    <3> QED
      BY <1>1, <3>1
  <2> QED
    BY <1>3, <2>1, <2>2 DEF MadeInv
<1>10. AnswersInv'
  <2> SUFFICES ASSUME NEW j \in DOMAIN calls', calls'[j].phase = "answered"
               PROVE  TrueAnswer(j, calls[j].answer)'
    BY DEF AnswersInv
  <2>1. PICK b : b = calls'[j].answer
    OBVIOUS
  <2>2. CASE calls'[j] = calls[j]
    <3>1. TrueAnswer(j, b)
      BY <1>4, <1>5, <2>1, <2>2 DEF ServedInv, AnswersInv
    <3>2. TrueAnswer(j, b)'
      BY <1>2, <2>2, <3>1, TrueKept
    <3> QED
      BY <2>1, <3>2 DEF TrueAnswer
  <2>3. CASE b = Err("Canceled")
    <3>1. ~b.ok /\ b.error = "Canceled"
      BY <2>3 DEF Err
    <3>2. ToCode("Canceled") = 10000
      BY DEF ToCode
    <3>3. TrueAnswer(j, b)'
      BY <3>1, <3>2 DEF TrueAnswer, ToCode
    <3> QED
      BY <2>1, <3>3 DEF TrueAnswer
  <2> QED
    BY <1>5, <1>6, <2>1, <2>2, <2>3
<1> QED
  BY <1>2, <1>3, <1>8, <1>9, <1>10, <1>4, <1>5, <1>6 DEF ServedInv, RequestsStay

\* The calls and the chain are not touched by a restart.
LEMMA RestartServed ==
    ASSUME ChainInv, ServedInv, NEW now, Restart(now)
    PROVE  ServedInv' /\ ChainInv'
<1>1. task' = Idle /\ UNCHANGED <<chain, calls, commands>>
  BY DEF Restart
<1>2. /\ ChainInv' /\ Grown /\ finalized \in Up(blocks')[finalized'] /\ Hashes' = Hashes
      /\ \A j : Made(j)' = Made(j)
  BY <1>1, SameChain
<1>3. ~Busy' /\ ~Making' /\ TaskInv'
  BY <1>1 DEF TaskInv, Busy, Making, Idle
<1>4. AnswersInv'
  BY <1>1, <1>2, AnswersKept DEF ServedInv
<1>5. CommandsInv'
  BY <1>1, <1>3 DEF ServedInv, CommandsInv
<1>6. MadeInv'
  <2>1. \A k \in DOMAIN commands' : commands'[k] # 0 => Made(commands'[k]) = {}
    BY <1>1 DEF ServedInv, MadeInv
  <2>2. \A h \in Hashes' : blocks'[h].by \in {Foreign, 0} \cup DOMAIN calls'
    BY <1>1, <1>2 DEF ServedInv, MadeInv, chain
  <2> QED
    BY <1>1, <1>2, <1>3, <2>1, <2>2 DEF MadeInv, Made, chain
<1> QED
  BY <1>2, <1>3, <1>4, <1>5, <1>6 DEF ServedInv

\* What an import adds to the blocks of a sender.
LEMMA MadeByImport ==
    ASSUME ChainInv, NEW block, Grown, Hashes' = Hashes \cup {Len(blocks) + 1},
           Len(blocks) + 1 \notin Hashes, blocks'[Len(blocks) + 1] = block
    PROVE  /\ \A i : i # block.by => Made(i)' = Made(i)
           /\ Made(block.by)' = Made(block.by) \cup {Len(blocks) + 1}
<1>1. PICK new : new = Len(blocks) + 1
  OBVIOUS
<1>2. \A h \in Hashes : blocks'[h].by = blocks[h].by
  BY DEF Grown
<1> QED
  BY <1>1, <1>2 DEF Made

LEMMA ImportServed ==
    ASSUME ChainInv, ServedInv, Import
    PROVE  ServedInv' /\ ChainInv'
<1>1. PICK s, block, finalize, new :
          /\ s = task.sender /\ block = task.block /\ finalize = Request(s).finalize
          /\ new = Len(blocks) + 1
  OBVIOUS
<1>2. task.at = "proposed" /\ Making /\ Busy /\ UNCHANGED <<calls, commands>>
  BY DEF Import, Making, Busy
<1>3. CASE ImportRefused(block, finalize)
  <2>1. UNCHANGED chain /\ task' = Replying(s, Err("ConsensusError"))
    BY <1>1, <1>3 DEF Import
  <2>2. task'.at = "replying" /\ ~task'.answer.ok /\ task'.sender = s
    BY <2>1 DEF Replying, Err
  <2> QED
    BY <1>1, <1>2, <2>1, <2>2, MakingServed
<1>4. CASE ~ImportRefused(block, finalize)
  <2>1. Imported(block, finalize) /\ task' = Replying(s, Ok(new))
    BY <1>1, <1>4 DEF Import
  <2>2. /\ block.by = s /\ block.parent \in Hashes
        /\ Request(s).hash \in {None, block.parent}
        /\ s \in {0} \cup DOMAIN calls /\ (s # 0 => calls[s].phase # "answered")
        /\ s # 0 => Made(s) = {}
    BY <1>1, <1>2 DEF ServedInv, TaskInv, MadeInv
  <2>3. /\ ChainInv' /\ Grown /\ finalized \in Up(blocks')[finalized']
        /\ Hashes' = Hashes \cup {new} /\ new \notin Hashes
        /\ blocks'[new] = block
        /\ Up(blocks')[new] = {new} \cup Up(blocks)[block.parent]
        /\ finalize => finalized' = new
    BY <1>1, <1>4, <2>1, <2>2, ImportChain
  <2>4. /\ \A i : i # s => Made(i)' = Made(i)
        /\ s # 0 => Made(s)' = {new}
    BY <1>1, <2>2, <2>3, MadeByImport
  <2>5. \A i \in DOMAIN calls : calls[i].phase = "answered" => i # s
    <3>1. PICK N : N \in Nat /\ DOMAIN calls = 1..N
      BY DEF ServedInv, CommandsInv, CallsAre
    <3>2. \A i \in 1..N : i # 0
      BY <3>1
    <3> QED
      BY <2>2, <3>1, <3>2
  <2>6. AnswersInv'
    BY <1>2, <2>3, <2>4, <2>5, AnswersKept DEF ServedInv
  <2>7. /\ task'.at = "replying" /\ task'.sender = s /\ task'.answer.ok
        /\ task'.answer.hash = new
    BY <2>1 DEF Replying, Ok
  <2>8. CommandsInv'
    BY <1>1, <1>2, <2>7 DEF ServedInv, CommandsInv, Busy
  <2>9. MadeInv'
    <3>1. \A k \in DOMAIN commands : commands[k] # 0 => commands[k] # s /\ Made(commands[k]) = {}
      BY <1>1, <1>2 DEF ServedInv, CommandsInv, MadeInv
    <3>2. \A h \in Hashes' : blocks'[h].by \in {Foreign, 0} \cup DOMAIN calls'
      <4>1. \A h \in Hashes : blocks[h].by \in {Foreign, 0} \cup DOMAIN calls
        BY DEF ServedInv, MadeInv
      <4>2. \A h \in Hashes : blocks'[h] = blocks[h]
        BY <2>3 DEF Grown
      <4> QED
        BY <1>2, <2>2, <2>3, <4>1, <4>2
    <3>3. \A k \in DOMAIN commands : commands[k] # 0 => Made(commands[k])' = {}
      <4> SUFFICES ASSUME NEW k \in DOMAIN commands, commands[k] # 0 PROVE Made(commands[k])' = {}
        OBVIOUS
      <4>1. PICK i : i = commands[k]
        OBVIOUS
      <4>2. Made(i)' = {}
        BY <2>4, <3>1, <4>1
      <4> QED
        BY <1>2, <4>1, <4>2 DEF Made
    <3>4. ~Making'
      BY <2>7 DEF Making
    <3> QED
      BY <1>2, <3>2, <3>3, <3>4 DEF MadeInv
  <2>10. s # 0 => TrueAnswer(task.sender, task.answer)'
    <3> SUFFICES ASSUME s # 0 PROVE TrueAnswer(task.sender, task.answer)'
      OBVIOUS
    <3>1. PICK a : a = task'.answer
      OBVIOUS
    <3>2. a.ok /\ a.hash = new /\ calls'[s].request = Request(s)
      BY <1>2, <2>7, <3>1 DEF Request
    <3>3. new \in Up(blocks')[new]
      BY <2>3
    <3>4. TrueAnswer(s, a)'
      BY <1>1, <2>2, <2>3, <2>4, <3>2, <3>3 DEF TrueAnswer
    <3> QED
      BY <2>7, <3>1, <3>4 DEF TrueAnswer, Made
  <2>11. TaskInv'
    BY <1>2, <2>2, <2>7, <2>10 DEF TaskInv, Busy, Making
  <2> QED
    BY <2>3, <2>6, <2>8, <2>9, <2>11 DEF ServedInv
<1> QED
  BY <1>3, <1>4

\* A block of another node belongs to no call.
LEMMA ForeignServed ==
    ASSUME ChainInv, ServedInv, NEW block, Imported(block, FALSE), ~ImportRefused(block, FALSE),
           block.parent \in Hashes, block.by = Foreign, UNCHANGED <<calls, commands, task>>
    PROVE  ServedInv' /\ ChainInv'
<1>1. PICK new : new = Len(blocks) + 1
  OBVIOUS
<1>2. /\ ChainInv' /\ Grown /\ finalized \in Up(blocks')[finalized']
      /\ Hashes' = Hashes \cup {new} /\ new \notin Hashes
      /\ blocks'[new] = block
  BY <1>1, ImportChain
<1>3. PICK N : N \in Nat /\ DOMAIN calls = 1..N
  BY DEF ServedInv, CommandsInv, CallsAre
<1>4. \A i \in DOMAIN calls : Made(i)' = Made(i)
  <2>1. \A i \in 1..N : i # Foreign
    BY <1>3 DEF Foreign
  <2> QED
    BY <1>1, <1>2, <1>3, <2>1, MadeByImport
<1>5. AnswersInv'
  BY <1>2, <1>4, AnswersKept DEF ServedInv
<1>6. CommandsInv'
  BY DEF ServedInv, CommandsInv, Busy
<1>7. \A k \in DOMAIN commands : commands[k] # 0 => Made(commands[k])' = {}
  <2> SUFFICES ASSUME NEW k \in DOMAIN commands, commands[k] # 0 PROVE Made(commands[k])' = {}
    OBVIOUS
  <2>1. PICK i : i = commands[k]
    OBVIOUS
  <2>2. i \in DOMAIN calls /\ Made(i) = {}
    BY <2>1 DEF ServedInv, CommandsInv, MadeInv
  <2> QED
    BY <1>4, <2>1, <2>2 DEF Made
<1>8. PICK s : s = task.sender
  OBVIOUS
<1>9. Busy => s \in {0} \cup DOMAIN calls
  BY <1>8 DEF ServedInv, TaskInv
<1>10. MadeInv'
  <2>1. \A h \in Hashes : blocks[h].by \in {Foreign, 0} \cup DOMAIN calls /\ blocks'[h] = blocks[h]
    BY <1>2 DEF ServedInv, MadeInv, Grown
  <2>2. \A h \in Hashes' : blocks'[h].by \in {Foreign, 0} \cup DOMAIN calls'
    BY <1>2, <2>1
  <2>3. Making' /\ task'.sender # 0 => Made(task.sender)' = {}
    <3>1. Making /\ s # 0 => s \in DOMAIN calls /\ Made(s) = {}
      BY <1>8, <1>9 DEF ServedInv, MadeInv, Making, Busy
    <3>2. Making /\ s # 0 => Made(s)' = {}
      BY <1>4, <3>1
    <3> QED
      BY <1>8, <3>2 DEF Making, Made
  <2> QED
    BY <1>7, <2>2, <2>3 DEF MadeInv
<1>11. TaskInv'
  <2>1. task.at = "replying" /\ s # 0 => TrueAnswer(task.sender, task.answer)'
    <3> SUFFICES ASSUME task.at = "replying", s # 0 PROVE TrueAnswer(task.sender, task.answer)'
      OBVIOUS
    <3>1. PICK a : a = task.answer
      OBVIOUS
    <3>2. TrueAnswer(s, a) /\ s \in DOMAIN calls
      BY <1>8, <1>9, <3>1 DEF ServedInv, TaskInv, Busy
    <3>3. TrueAnswer(s, a)'
      BY <1>2, <1>4, <3>2, TrueKept
    <3> QED
      BY <1>8, <3>1, <3>3 DEF TrueAnswer, Made
  <2>2. \A r \in {0} \cup DOMAIN calls : Request(r)' = Request(r)
    BY <1>3, RequestsKept
  <2>3. Busy => Request(task.sender)' = Request(s)
    BY <1>8, <1>9, <2>2 DEF Request, InstantCommand, SealNewBlock
  <2>4. Hashes \subseteq Hashes'
    BY <1>2
  <2> QED
    BY <1>8, <2>1, <2>3, <2>4 DEF ServedInv, TaskInv, Busy, Making
<1> QED
  BY <1>2, <1>5, <1>6, <1>10, <1>11 DEF ServedInv

\* What a proposal is made of.
\* The state of a block is one its extrinsics can leave, finalized.
Leaves(block, before) ==
    \E dispatched \in Dispatched(before, block.body) :
        block.storage = on_finalize(dispatched, block.number)

LEMMA NewBlockIs ==
    ASSUME NEW sender, NEW parent, NEW timestamp, NEW digest, NEW body, NEW dispatched,
           NEW block, block = NewBlock(sender, parent, timestamp, digest, body, dispatched)
    PROVE  /\ block.parent = parent /\ block.by = sender /\ block.body = body
           /\ block.number = blocks[parent].number + 1
           /\ block.timestamp = timestamp /\ block.slot = Slot(timestamp)
           /\ block.storage = on_finalize(dispatched, block.number)
<1>1. PICK storage : storage = on_finalize(dispatched, blocks[parent].number + 1)
  OBVIOUS
<1>2. block = [parent |-> parent, number |-> blocks[parent].number + 1, slot |-> Slot(timestamp),
               timestamp |-> timestamp, digest |-> digest, body |-> body, by |-> sender,
               storage |-> storage]
  BY <1>1 DEF NewBlock
<1>3. block.number = blocks[parent].number + 1 /\ block.storage = storage
  BY <1>2
<1> QED
  BY <1>1, <1>2, <1>3

Proposed(parent, block) ==
    /\ Request(task.sender).hash \in {None, parent}
    /\ Fits(blocks[parent], time)
    /\ OnlyInherents(Body(parent)) => Request(task.sender).create_empty
    /\ time' = TimeAfterInherents
    /\ block.parent = parent /\ block.by = task.sender /\ block.body = Body(parent)
    /\ block.number = blocks[parent].number + 1
    /\ block.timestamp = time /\ block.slot = Slot(time)
    /\ Leaves(block, blocks[parent].storage)
    /\ task' = [at |-> "proposed", sender |-> task.sender, block |-> block]

\* The cases of a proposal.
LEMMA ProposeCases ==
    ASSUME Propose
    PROVE  /\ task.at = "sealing" /\ UNCHANGED <<engine, calls, commands, chain, started>>
           /\ \/ /\ \E error : task' = Replying(task.sender, Err(error))
                 /\ time' \in {time, TimeAfterInherents}
              \/ \E parent \in Hashes : \E block : Proposed(parent, block)
<1>1. PICK request : request = Request(task.sender)
  OBVIOUS
<1>2. PICK parent : parent = ParentHash
  OBVIOUS
<1>3. PICK body : body = Body(parent)
  OBVIOUS
<1>4. task.at = "sealing" /\ UNCHANGED <<engine, calls, commands, chain, started>>
  BY DEF Propose
<1>5. request.hash \in {None, parent}
  BY <1>1, <1>2 DEF ParentHash
<1>6. CASE parent \notin Hashes
  BY <1>1, <1>2, <1>4, <1>6 DEF Propose
<1>7. CASE parent \in Hashes
  <2>1. PICK digest : digest = CreateDigest(parent)
    OBVIOUS
  <2>2. time' = TimeAfterInherents
    BY <1>2, <1>7 DEF Propose
  <2>3. PICK dispatched \in Dispatched(blocks[parent].storage, body) :
          \/ task' = Replying(task.sender, Err("StringError"))
          \/ task' = Replying(task.sender, Err("EmptyTransactionPool"))
          \/ /\ Executes(parent, time, dispatched) /\ (OnlyInherents(body) => request.create_empty)
             /\ task' = [at |-> "proposed", sender |-> task.sender,
                         block |-> NewBlock(task.sender, parent, time, digest, body, dispatched)]
    BY <1>1, <1>2, <1>3, <1>7, <2>1 DEF Propose
  <2>4. CASE \E error : task' = Replying(task.sender, Err(error))
    BY <1>4, <2>2, <2>4
  <2>5. CASE ~\E error : task' = Replying(task.sender, Err(error))
    <3>1. PICK block : block = NewBlock(task.sender, parent, time, digest, body, dispatched)
      OBVIOUS
    <3>2. /\ Executes(parent, time, dispatched) /\ (OnlyInherents(body) => request.create_empty)
          /\ task' = [at |-> "proposed", sender |-> task.sender, block |-> block]
      BY <2>3, <2>5, <3>1
    <3>3. /\ block.parent = parent /\ block.by = task.sender /\ block.body = body
          /\ block.number = blocks[parent].number + 1
          /\ block.timestamp = time /\ block.slot = Slot(time)
          /\ block.storage = on_finalize(dispatched, block.number)
      BY <3>1, NewBlockIs
    <3>4. Leaves(block, blocks[parent].storage)
      BY <2>3, <3>3 DEF Leaves
    <3>5. Fits(blocks[parent], time)
      BY <3>2 DEF Executes
    <3>6. Proposed(parent, block)
      BY <1>1, <1>3, <1>5, <2>2, <3>2, <3>3, <3>4, <3>5 DEF Proposed
    <3> QED
      BY <1>4, <1>7, <3>6
  <2> QED
    BY <2>4, <2>5
<1> QED
  BY <1>6, <1>7

\* The block of another node.
LEMMA ForeignCases ==
    ASSUME NEW parent \in Hashes, NEW slots, ForeignBlock(parent, slots)
    PROVE  \E block :
              /\ block.parent = parent /\ block.by = Foreign /\ block.body = {}
              /\ block.storage = on_finalize(blocks[parent].storage, block.number)
              /\ block.number = blocks[parent].number + 1
              /\ block.timestamp = blocks[parent].timestamp + slots * SlotDuration
              /\ block.slot = Slot(block.timestamp)
              /\ Imported(block, FALSE) /\ ~ImportRefused(block, FALSE)
              /\ UNCHANGED <<engine, calls, commands, task, time, started>>
<1>1. PICK b : b = NewBlock(Foreign, parent, blocks[parent].timestamp + slots * SlotDuration,
                            "foreign", {}, blocks[parent].storage)
  OBVIOUS
<1>2. PICK block : block = [b EXCEPT !.by = Foreign]
  OBVIOUS
<1>3. /\ Imported(block, FALSE) /\ ~ImportRefused(block, FALSE)
      /\ UNCHANGED <<engine, calls, commands, task, time, started>>
  <2>1. Verify.finalized = FALSE
    BY DEF Verify
  <2> QED
    BY <1>1, <1>2, <2>1 DEF ForeignBlock
<1>4. /\ b.parent = parent /\ b.by = Foreign /\ b.body = {}
      /\ b.storage = on_finalize(blocks[parent].storage, b.number)
      /\ b.number = blocks[parent].number + 1
      /\ b.timestamp = blocks[parent].timestamp + slots * SlotDuration
      /\ b.slot = Slot(b.timestamp)
  BY <1>1, NewBlockIs
<1>5. block = b
  <2>1. PICK storage, number, slot, timestamp :
            b = [parent |-> parent, number |-> number, slot |-> slot,
                 timestamp |-> timestamp, digest |-> "foreign", body |-> {}, by |-> Foreign,
                 storage |-> storage]
    BY <1>1 DEF NewBlock
  <2> QED
    BY <1>2, <2>1
<1> QED
  BY <1>3, <1>4, <1>5

LEMMA ServedStep ==
    ASSUME ChainInv, ServedInv, [Next]_vars
    PROVE  ServedInv' /\ ChainInv' /\ RequestsStay
<1>0. calls' = calls => RequestsStay
  BY DEF RequestsStay
<1>1. CASE UNCHANGED vars
  <2>1. UNCHANGED <<chain, calls, task, commands>>
    BY <1>1 DEF vars, chain
  <2> QED
    BY <2>1, <1>0, QuietServed
<1>2. CASE \E request \in Requests : Call(request)
  BY <1>2, CallServed
<1>3. CASE \E i \in DOMAIN calls : Abandon(i)
  BY <1>3, AbandonServed
<1>4. CASE \E xt \in engine.extrinsics : Submit(xt)
  <2>1. UNCHANGED <<chain, calls, task>> /\ commands' = Notified
    BY <1>4 DEF Submit
  <2>2. commands' = commands \/ commands' = Append(commands, 0)
    BY <2>1 DEF Notified
  <2> QED
    BY <2>1, <2>2, <1>0, QuietServed
<1>5. CASE Maintain
  <2>1. UNCHANGED <<chain, calls, task, commands>>
    BY <1>5 DEF Maintain
  <2> QED
    BY <2>1, <1>0, QuietServed
<1>6. CASE TakeCommand
  <2>1. calls' = calls
    BY <1>6 DEF TakeCommand
  <2> QED
    BY <1>0, <1>6, <2>1, TakeServed
<1>7. CASE Propose
  <2>1. /\ task.at = "sealing" /\ UNCHANGED <<chain, calls, commands>>
    BY <1>7, ProposeCases
  <2>2. Making
    BY <2>1 DEF Making
  <2>3. CASE \E error : task' = Replying(task.sender, Err(error))
    <3>1. task'.at = "replying" /\ ~task'.answer.ok /\ task'.sender = task.sender
      BY <2>3 DEF Replying, Err
    <3> QED
      BY <2>1, <2>2, <3>1, <1>0, MakingServed
  <2>4. CASE ~\E error : task' = Replying(task.sender, Err(error))
    <3>1. PICK parent, block : parent \in Hashes /\ Proposed(parent, block)
      BY <1>7, <2>4, ProposeCases
    <3>2. /\ block.parent = parent /\ block.by = task.sender
          /\ Request(task.sender).hash = None \/ Request(task.sender).hash = parent
          /\ task' = [at |-> "proposed", sender |-> task.sender, block |-> block]
      BY <3>1 DEF Proposed
    <3>3. task'.at = "proposed" /\ task'.sender = task.sender /\ task'.block = block
      BY <3>2
    <3> QED
      BY <2>1, <2>2, <3>1, <3>2, <3>3, <1>0, MakingServed
  <2> QED
    BY <2>3, <2>4
<1>8. CASE ProposeFails \/ ImportFails
  <2>1. Making /\ UNCHANGED <<chain, calls, commands>>
    BY <1>8 DEF ProposeFails, ImportFails, Making
  <2>2. PICK error : task' = Replying(task.sender, Err(error))
    BY <1>8 DEF ProposeFails, ImportFails
  <2>3. task'.at = "replying" /\ ~task'.answer.ok /\ task'.sender = task.sender
    BY <2>2 DEF Replying, Err
  <2> QED
    BY <2>1, <2>3, <1>0, MakingServed
<1>9. CASE Import
  <2>1. calls' = calls
    BY <1>9 DEF Import
  <2> QED
    BY <1>0, <1>9, <2>1, ImportServed
<1>10. CASE Reply
  BY <1>10, ReplyServed
<1>11. CASE Stop \/ Panic
  <2>1. Drop
    BY <1>11 DEF Stop, Panic
  <2> QED
    BY <2>1, DropServed
<1>12. CASE \E now \in Now : Restart(now)
  <2>1. calls' = calls
    BY <1>12 DEF Restart
  <2> QED
    BY <1>0, <1>12, <2>1, RestartServed
<1>13. CASE \E parent \in Hashes, slots \in {1, 3} : ForeignBlock(parent, slots)
  <2>1. PICK parent \in Hashes, slots \in {1, 3} : ForeignBlock(parent, slots)
    BY <1>13
  <2>2. PICK block :
              /\ block.parent = parent /\ block.by = Foreign
              /\ Imported(block, FALSE) /\ ~ImportRefused(block, FALSE)
              /\ UNCHANGED <<calls, commands, task>>
    BY <2>1, ForeignCases
  <2> QED
    BY <2>2, <1>0, ForeignServed
<1> QED
  BY <1>1, <1>2, <1>3, <1>4, <1>5, <1>6, <1>7, <1>8, <1>9, <1>10, <1>11, <1>12, <1>13 DEF Next

-----------------------------------------------------------------------------
(***************************************************************************)
(* Empty blocks                                                            *)
(***************************************************************************)

\* What was asked for stays so.
LEMMA AskedStays ==
    ASSUME RequestsStay, NEW block, AskedFor(block), block.by \in {0} \cup DOMAIN calls
    PROVE  block.body = {} => block.by # 0 /\ calls'[block.by].request.create_empty
  BY DEF AskedFor, RequestsStay

\* A step without a new block or proposal.
LEMMA EmptyKept ==
    ASSUME ChainInv, ServedInv, EmptyInv, RequestsStay, engine' = engine, blocks' = blocks,
           task'.at = "proposed" => task' = task
    PROVE  EmptyInv'
<1> SUFFICES ASSUME engine.inherents_len = engine.inherent_extrinsics
             PROVE  /\ \A h \in Own' : AskedFor(blocks[h])'
                    /\ task'.at = "proposed" => AskedFor(task.block)'
  BY DEF EmptyInv
<1>1. Own' = Own /\ Hashes' = Hashes
  BY DEF Own, Hashes, Foreign
<1>2. ASSUME NEW h \in Own PROVE AskedFor(blocks[h])'
  <2>1. PICK b : b = blocks[h]
    OBVIOUS
  <2>2. AskedFor(b) /\ b.by \in {0} \cup DOMAIN calls
    BY <2>1 DEF EmptyInv, Own, ServedInv, MadeInv
  <2> QED
    BY <2>1, <2>2, AskedStays DEF AskedFor
<1>3. ASSUME task'.at = "proposed" PROVE AskedFor(task.block)'
  <2>1. PICK b : b = task.block
    OBVIOUS
  <2>2. task' = task /\ AskedFor(b) /\ b.by \in {0} \cup DOMAIN calls
    BY <1>3, <2>1 DEF EmptyInv, ServedInv, TaskInv, Busy
  <2> QED
    BY <2>1, <2>2, AskedStays DEF AskedFor
<1> QED
  BY <1>1, <1>2, <1>3

\* A step with a new block that was asked for or is not the node's own.
LEMMA EmptyImport ==
    ASSUME ChainInv, ServedInv, EmptyInv, RequestsStay, engine' = engine,
           NEW block, Grown, Hashes' = Hashes \cup {Len(blocks) + 1},
           blocks'[Len(blocks) + 1] = block,
           engine.inherents_len = engine.inherent_extrinsics /\ block.by # Foreign =>
              AskedFor(block) /\ block.by \in {0} \cup DOMAIN calls,
           task'.at = "proposed" => task' = task
    PROVE  EmptyInv'
<1> SUFFICES ASSUME engine.inherents_len = engine.inherent_extrinsics
             PROVE  /\ \A h \in Own' : AskedFor(blocks[h])'
                    /\ task'.at = "proposed" => AskedFor(task.block)'
  BY DEF EmptyInv
<1>1. ASSUME NEW h \in Own' PROVE AskedFor(blocks[h])'
  <2>1. PICK b : b = blocks'[h]
    OBVIOUS
  <2>2. h # 1 /\ b.by # Foreign /\ h \in Hashes'
    BY <1>1, <2>1 DEF Own, Foreign
  <2>3. AskedFor(b) /\ b.by \in {0} \cup DOMAIN calls
    <3>1. CASE h \in Hashes
      <4>1. b = blocks[h] /\ h \in Own
        BY <2>1, <2>2, <3>1 DEF Grown, Own
      <4> QED
        BY <3>1, <4>1 DEF EmptyInv, Own, ServedInv, MadeInv
    <3>2. CASE h \notin Hashes
      BY <2>1, <2>2, <3>2
    <3> QED
      BY <3>1, <3>2
  <2> QED
    BY <2>1, <2>3, AskedStays DEF AskedFor
<1>2. ASSUME task'.at = "proposed" PROVE AskedFor(task.block)'
  <2>1. PICK b : b = task.block
    OBVIOUS
  <2>2. task' = task /\ AskedFor(b) /\ b.by \in {0} \cup DOMAIN calls
    BY <1>2, <2>1 DEF EmptyInv, ServedInv, TaskInv, Busy
  <2> QED
    BY <2>1, <2>2, AskedStays DEF AskedFor
<1> QED
  BY <1>1, <1>2

-----------------------------------------------------------------------------
(***************************************************************************)
(* The steps as far as blocks and time go                                  *)
(***************************************************************************)
QuietStep ==
    /\ UNCHANGED <<blocks, started>> /\ time' \in {time, TimeAfterInherents}
    /\ task'.at = "proposed" => task' = task

ProposalStep(parent, block) ==
    /\ UNCHANGED <<blocks, started>> /\ time' = TimeAfterInherents
    /\ task.at = "sealing" /\ task'.at = "proposed" /\ task'.block = block
    /\ block.parent = parent /\ block.by = task.sender
    /\ block.number = blocks[parent].number + 1
    /\ block.timestamp = time /\ block.slot = Slot(time)
    /\ Fits(blocks[parent], time) /\ block.body = Body(parent)
    /\ Leaves(block, blocks[parent].storage)
    /\ OnlyInherents(Body(parent)) => Request(task.sender).create_empty

ImportStep(block) ==
    /\ UNCHANGED <<time, started>> /\ Grown
    /\ Hashes' = Hashes \cup {Len(blocks) + 1} /\ Len(blocks) + 1 \notin Hashes
    /\ blocks'[Len(blocks) + 1] = block /\ block.parent \in Hashes

OwnStep(block) ==
    task.at = "proposed" /\ block = task.block /\ task'.at # "proposed" /\ ImportStep(block)

ForeignStep(parent, slots, block) ==
    /\ task' = task /\ block.parent = parent /\ block.by = Foreign /\ block.body = {}
    /\ block.storage = on_finalize(blocks[parent].storage, block.number)
    /\ block.number = blocks[parent].number + 1
    /\ block.timestamp = blocks[parent].timestamp + slots * SlotDuration
    /\ block.slot = Slot(block.timestamp)
    /\ ImportStep(block)

RestartStep(now) ==
    /\ UNCHANGED <<blocks, best>> /\ task' = Idle
    /\ time' = WithHeader(blocks[best], now)
    /\ started' = [time |-> time', best |-> best, len |-> Len(blocks)]

LEMMA StepKinds ==
    ASSUME ChainInv, ServedInv, [Next]_vars
    PROVE  /\ engine' = engine
           /\ \/ QuietStep
              \/ \E parent \in Hashes : \E block : ProposalStep(parent, block)
              \/ \E block : OwnStep(block)
              \/ \E parent \in Hashes, slots \in {1, 3} : \E block : ForeignStep(parent, slots, block)
              \/ \E now \in Now : RestartStep(now)
<1>1. CASE UNCHANGED vars
  BY <1>1 DEF vars, QuietStep
<1>2. CASE \E request \in Requests : Call(request)
  BY <1>2 DEF Call, QuietStep, chain
<1>3. CASE \E i \in DOMAIN calls : Abandon(i)
  BY <1>3 DEF Abandon, QuietStep, chain
<1>4. CASE \E xt \in engine.extrinsics : Submit(xt)
  BY <1>4 DEF Submit, QuietStep, chain
<1>5. CASE Maintain
  BY <1>5 DEF Maintain, QuietStep, chain
<1>6. CASE TakeCommand
  <2>1. engine' = engine /\ time' = time /\ started' = started
    BY <1>6 DEF TakeCommand
  <2>2. PICK s, request : s = Head(commands) /\ request = Request(s)
    OBVIOUS
  <2>3. blocks' = blocks
    BY <1>6, <2>2 DEF TakeCommand, chain
  <2>4. \/ task' = Replying(s, Err("EmptyTransactionPool")) \/ task' = [at |-> "sealing", sender |-> s]
        \/ task' = Replying(s, FinalizeResult(request.hash))
    BY <1>6, <2>2 DEF TakeCommand
  <2>5. task'.at # "proposed"
    BY <2>4 DEF Replying
  <2> QED
    BY <2>1, <2>3, <2>5 DEF QuietStep
<1>7. CASE Propose
  <2>1. task.at = "sealing" /\ engine' = engine /\ blocks' = blocks /\ started' = started
    BY <1>7, ProposeCases DEF chain
  <2>2. CASE (\E error : task' = Replying(task.sender, Err(error))) /\ time' \in {time, TimeAfterInherents}
    <3>1. task'.at = "replying"
      BY <2>2 DEF Replying
    <3> QED
      BY <2>1, <2>2, <3>1 DEF QuietStep
  <2>3. CASE ~((\E error : task' = Replying(task.sender, Err(error))) /\ time' \in {time, TimeAfterInherents})
    <3>1. PICK parent, block : parent \in Hashes /\ Proposed(parent, block)
      BY <1>7, <2>3, ProposeCases
    <3>2. task' = [at |-> "proposed", sender |-> task.sender, block |-> block]
      BY <3>1 DEF Proposed
    <3>3. task'.at = "proposed" /\ task'.block = block
      BY <3>2
    <3>4. ProposalStep(parent, block)
      BY <2>1, <3>1, <3>3 DEF ProposalStep, Proposed
    <3> QED
      BY <2>1, <3>1, <3>4
  <2> QED
    BY <2>2, <2>3
<1>8. CASE ProposeFails \/ ImportFails
  <2>1. /\ engine' = engine /\ blocks' = blocks /\ started' = started
        /\ time' \in {time, TimeAfterInherents}
    BY <1>8 DEF ProposeFails, ImportFails, chain
  <2>2. PICK error : task' = Replying(task.sender, Err(error))
    BY <1>8 DEF ProposeFails, ImportFails
  <2>3. task'.at = "replying"
    BY <2>2 DEF Replying
  <2> QED
    BY <2>1, <2>3 DEF QuietStep
<1>9. CASE Import
  <2>1. PICK block, finalize : block = task.block /\ finalize = Request(task.sender).finalize
    OBVIOUS
  <2>2. task.at = "proposed" /\ engine' = engine /\ time' = time /\ started' = started
    BY <1>9 DEF Import
  <2>3. CASE ImportRefused(block, finalize)
    <3>1. blocks' = blocks /\ task' = Replying(task.sender, Err("ConsensusError"))
      BY <1>9, <2>1, <2>3 DEF Import, chain
    <3>2. task'.at = "replying"
      BY <3>1 DEF Replying
    <3> QED
      BY <2>2, <3>1, <3>2 DEF QuietStep
  <2>4. CASE ~ImportRefused(block, finalize)
    <3>1. Imported(block, finalize) /\ task' = Replying(task.sender, Ok(Len(blocks) + 1))
      BY <1>9, <2>1, <2>4 DEF Import
    <3>2. task'.at = "replying"
      BY <3>1 DEF Replying
    <3>3. block.parent \in Hashes
      BY <2>1, <2>2 DEF ServedInv, TaskInv
    <3>4. /\ Grown
          /\ Hashes' = Hashes \cup {Len(blocks) + 1} /\ Len(blocks) + 1 \notin Hashes
          /\ blocks'[Len(blocks) + 1] = block
      BY <2>4, <3>1, <3>3, ImportChain
    <3>5. OwnStep(block)
      BY <2>1, <2>2, <3>2, <3>3, <3>4 DEF OwnStep, ImportStep
    <3> QED
      BY <2>2, <3>5
  <2> QED
    BY <2>3, <2>4
<1>10. CASE Reply
  BY <1>10 DEF Reply, QuietStep, chain, Idle
<1>11. CASE Stop \/ Panic
  <2>1. Drop
    BY <1>11 DEF Stop, Panic
  <2> QED
    BY <2>1 DEF Drop, QuietStep, chain, Stopped
<1>12. CASE \E now \in Now : Restart(now)
  <2>1. PICK now \in Now : Restart(now)
    BY <1>12
  <2>2. RestartStep(now) /\ engine' = engine
    BY <2>1 DEF Restart, RestartStep, chain
  <2> QED
    BY <2>2
<1>13. CASE \E parent \in Hashes, slots \in {1, 3} : ForeignBlock(parent, slots)
  <2>1. PICK parent \in Hashes, slots \in {1, 3} : ForeignBlock(parent, slots)
    BY <1>13
  <2>2. PICK block :
              /\ block.parent = parent /\ block.by = Foreign /\ block.body = {}
              /\ block.storage = on_finalize(blocks[parent].storage, block.number)
              /\ block.number = blocks[parent].number + 1
              /\ block.timestamp = blocks[parent].timestamp + slots * SlotDuration
              /\ block.slot = Slot(block.timestamp)
              /\ Imported(block, FALSE) /\ ~ImportRefused(block, FALSE)
              /\ UNCHANGED <<engine, calls, commands, task, time, started>>
    BY <2>1, ForeignCases
  <2>3. /\ Grown
        /\ Hashes' = Hashes \cup {Len(blocks) + 1} /\ Len(blocks) + 1 \notin Hashes
        /\ blocks'[Len(blocks) + 1] = block
    BY <2>1, <2>2, ImportChain
  <2>4. ForeignStep(parent, slots, block)
    BY <2>1, <2>2, <2>3 DEF ForeignStep, ImportStep
  <2> QED
    BY <2>1, <2>2, <2>4
<1> QED
  BY <1>1, <1>2, <1>3, <1>4, <1>5, <1>6, <1>7, <1>8, <1>9, <1>10, <1>11, <1>12, <1>13 DEF Next

LEMMA EmptyStep ==
    ASSUME EngineInv, ChainInv, ServedInv, EmptyInv, [Next]_vars
    PROVE  EmptyInv'
<1>1. RequestsStay
  BY ServedStep
<1>2. engine' = engine
  BY StepKinds
<1>3. CASE QuietStep
  BY <1>1, <1>2, <1>3, EmptyKept DEF QuietStep
<1>4. CASE \E parent \in Hashes : \E block : ProposalStep(parent, block)
  <2>1. PICK parent, block : parent \in Hashes /\ ProposalStep(parent, block)
    BY <1>4
  <2>2. PICK s : s = task.sender
    OBVIOUS
  <2>3. s \in {0} \cup DOMAIN calls /\ blocks' = blocks /\ task'.block = block /\ block.by = s
    BY <2>1, <2>2 DEF ProposalStep, ServedInv, TaskInv, Busy
  <2>4. engine.inherents_len = engine.inherent_extrinsics => AskedFor(block)
    <3> SUFFICES ASSUME engine.inherents_len = engine.inherent_extrinsics, block.body = {}
                 PROVE  s # 0 /\ calls[s].request.create_empty
      BY <2>3 DEF AskedFor
    <3>1. OnlyInherents({})
      <4>1. Cardinality({}) = 0
        BY FS_EmptySet
      <4>2. engine.inherent_extrinsics \in Nat
        BY DEF EngineInv, Engine
      <4> QED
        BY <4>1, <4>2 DEF OnlyInherents
    <3>2. Request(s).create_empty
      BY <2>1, <2>2, <3>1 DEF ProposalStep
    <3>3. s # 0
      BY <3>2 DEF Request, InstantCommand, SealNewBlock
    <3> QED
      BY <3>2, <3>3 DEF Request
  <2>5. Own' = Own
    BY <2>3 DEF Own, Hashes, Foreign
  <2>6. engine.inherents_len = engine.inherent_extrinsics => \A h \in Own : AskedFor(blocks[h])'
    <3> SUFFICES ASSUME engine.inherents_len = engine.inherent_extrinsics, NEW h \in Own PROVE AskedFor(blocks[h])'
      OBVIOUS
    <3>1. PICK b : b = blocks[h]
      OBVIOUS
    <3>2. AskedFor(b) /\ b.by \in {0} \cup DOMAIN calls
      BY <3>1 DEF EmptyInv, Own, ServedInv, MadeInv
    <3> QED
      BY <1>1, <2>3, <3>1, <3>2, AskedStays DEF AskedFor
  <2>7. engine.inherents_len = engine.inherent_extrinsics => AskedFor(task.block)'
    BY <1>1, <2>3, <2>4, AskedStays DEF AskedFor
  <2> QED
    BY <1>2, <2>5, <2>6, <2>7 DEF EmptyInv
<1>5. CASE \E block : OwnStep(block)
  <2>1. PICK block : OwnStep(block)
    BY <1>5
  <2>2. engine.inherents_len = engine.inherent_extrinsics => AskedFor(block) /\ block.by \in {0} \cup DOMAIN calls
    BY <2>1 DEF OwnStep, EmptyInv, ServedInv, TaskInv, Busy
  <2> QED
    BY <1>1, <1>2, <2>1, <2>2, EmptyImport DEF OwnStep, ImportStep
<1>6. CASE \E parent \in Hashes, slots \in {1, 3} : \E block : ForeignStep(parent, slots, block)
  BY <1>1, <1>2, <1>6, EmptyImport DEF ForeignStep, ImportStep
<1>7. CASE \E now \in Now : RestartStep(now)
  BY <1>1, <1>2, <1>7, EmptyKept DEF RestartStep, Idle
<1> QED
  BY <1>3, <1>4, <1>5, <1>6, <1>7, StepKinds

-----------------------------------------------------------------------------
(***************************************************************************)
(* Slots and times                                                         *)
(***************************************************************************)
LEMMA TimesMonotone == \A a, b, d \in Nat : a <= b => a * d <= b * d
  OBVIOUS

LEMMA DivBounds ==
    ASSUME NEW d \in Nat \ {0}, NEW t \in Nat
    PROVE  /\ t \div d \in Nat
           /\ (t \div d) * d <= t /\ t < (t \div d) * d + d
  BY SMT

\* The slot of a time is the only number with this property.
LEMMA DivIs ==
    ASSUME NEW d \in Nat \ {0}, NEW t \in Nat, NEW q \in Nat, q * d <= t, t < q * d + d
    PROVE  t \div d = q
<1>1. PICK p : p = t \div d /\ p \in Nat /\ p * d <= t /\ t < p * d + d
  BY DivBounds
<1>2. q < p + 1 /\ p < q + 1
  <2>1. ASSUME NEW a \in Nat, NEW b \in Nat, a * d <= t, t < b * d + d PROVE a < b + 1
    <3>1. SUFFICES ASSUME b + 1 <= a PROVE FALSE
      OBVIOUS
    <3>2. (b + 1) * d <= a * d
      BY <3>1, TimesMonotone
    <3>3. (b + 1) * d = b * d + d
      OBVIOUS
    <3>4. PICK x, y : x = a * d /\ y = b * d /\ x \in Nat /\ y \in Nat
      OBVIOUS
    <3> QED
      BY <2>1, <3>2, <3>3, <3>4
  <2> QED
    BY <1>1, <2>1
<1> QED
  BY <1>1, <1>2

LEMMA SlotAdd ==
    ASSUME NEW t \in Nat, NEW k \in Nat
    PROVE  Slot(t) \in Nat /\ Slot(t + k * SlotDuration) = Slot(t) + k
<1>1. PICK d : d = SlotDuration /\ d \in Nat \ {0}
  BY DurationAssumption
<1>2. PICK q : q = t \div d /\ q \in Nat /\ q * d <= t /\ t < q * d + d
  BY <1>1, DivBounds
<1>3. (q + k) * d = q * d + k * d
  BY <1>1, <1>2
<1>4. PICK x, y : x = q * d /\ y = k * d /\ x \in Nat /\ y \in Nat
  BY <1>1, <1>2
<1>5. (q + k) * d <= t + y /\ t + y < (q + k) * d + d
  BY <1>1, <1>2, <1>3, <1>4
<1>6. t + y \in Nat /\ q + k \in Nat
  BY <1>2, <1>4
<1>7. (t + y) \div d = q + k
  BY <1>1, <1>5, <1>6, DivIs
<1> QED
  BY <1>1, <1>2, <1>4, <1>7 DEF Slot

LEMMA SlotMonotone ==
    ASSUME NEW a \in Nat, NEW b \in Nat, a <= b
    PROVE  Slot(a) <= Slot(b)
<1>1. PICK d : d = SlotDuration /\ d \in Nat \ {0}
  BY DurationAssumption
<1>2. PICK p : p = a \div d /\ p \in Nat /\ p * d <= a /\ a < p * d + d
  BY <1>1, DivBounds
<1>3. PICK q : q = b \div d /\ q \in Nat /\ q * d <= b /\ b < q * d + d
  BY <1>1, DivBounds
<1>4. SUFFICES ASSUME q + 1 <= p PROVE FALSE
  BY <1>1, <1>2, <1>3 DEF Slot
<1>5. (q + 1) * d <= p * d
  BY <1>1, <1>2, <1>3, <1>4, TimesMonotone
<1>6. (q + 1) * d = q * d + d
  BY <1>1, <1>3
<1>7. PICK x, y : x = p * d /\ y = q * d /\ x \in Nat /\ y \in Nat
  BY <1>1, <1>2, <1>3
<1> QED
  BY <1>1, <1>2, <1>3, <1>5, <1>6, <1>7

\* Times a slot apart are in different slots.
LEMMA SlotApart ==
    ASSUME NEW a \in Nat, NEW b \in Nat, a + SlotDuration <= b
    PROVE  Slot(a) < Slot(b)
<1>1. PICK d : d = SlotDuration /\ d \in Nat
  BY DurationAssumption
<1>2. Slot(a) \in Nat /\ Slot(b) \in Nat /\ Slot(a + 1 * d) = Slot(a) + 1
  BY <1>1, SlotAdd
<1>3. a + 1 * d = a + d /\ a + d \in Nat /\ a + d <= b
  BY <1>1
<1>4. Slot(a + d) <= Slot(b)
  BY <1>3, SlotMonotone
<1> QED
  BY <1>2, <1>3, <1>4

\* The first time of a slot.
LEMMA SlotStart ==
    ASSUME NEW s \in Nat
    PROVE  s * SlotDuration + SlotDuration \in Nat
           /\ Slot(s * SlotDuration + SlotDuration) = s + 1
<1>1. PICK d : d = SlotDuration /\ d \in Nat \ {0}
  BY DurationAssumption
<1>2. (s + 1) * d = s * d + d /\ s + 1 \in Nat
  BY <1>1
<1>3. PICK x : x = s * d /\ x \in Nat
  BY <1>1
<1>4. (s + 1) * d <= x + d /\ x + d < (s + 1) * d + d /\ x + d \in Nat
  BY <1>1, <1>2, <1>3
<1>5. (x + d) \div d = s + 1
  BY <1>1, <1>2, <1>4, DivIs
<1> QED
  BY <1>1, <1>3, <1>4, <1>5 DEF Slot

\* What is known of the time of every block, the first one included.
LEMMA BlockTimes ==
    ASSUME ChainInv, HeadersInv
    PROVE  \A h \in Hashes : /\ blocks[h].timestamp \in Nat /\ blocks[h].slot \in Nat
                             /\ blocks[h].slot = Slot(blocks[h].timestamp)
                             /\ blocks[h].number \in Nat
<1> TAKE h \in Hashes
<1>1. CASE h = 1
  <2>1. /\ blocks[1].timestamp = 0 /\ blocks[1].slot = 0 /\ blocks[1].number = 0
    BY DEF ChainInv, GenesisBlock
  <2>2. PICK d : d = SlotDuration /\ d \in Nat \ {0}
    BY DurationAssumption
  <2>3. 0 \div d = 0
    BY <2>2, DivIs
  <2> QED
    BY <1>1, <2>1, <2>2, <2>3 DEF Slot
<1>2. CASE h # 1
  <2>1. HeaderInv(blocks[h])
    BY <1>2 DEF HeadersInv
  <2>2. blocks[h].timestamp \in Nat /\ blocks[h].slot = Slot(blocks[h].timestamp)
        /\ blocks[h].number \in Nat
    BY <2>1 DEF HeaderInv
  <2> QED
    BY <2>2, SlotAdd
<1> QED
  BY <1>1, <1>2

\* Slots grow along a chain.
LEMMA SlotsAlong ==
    ASSUME ChainInv, HeadersInv, ChainSlots
    PROVE  \A h \in Hashes : \A a \in Up(blocks)[h] : blocks[a].slot <= blocks[h].slot
<1>1. PICK f, N : f = Up(blocks) /\ N = Len(blocks) /\ N \in Nat /\ Hashes = 1..N
  BY ChainFacts
<1>2. /\ \A h \in 1..N : blocks[h].parent \in 0..(h - 1)
      /\ \A h \in 1..N : h # 1 => blocks[h].parent # 0
      /\ blocks[1].parent = 0
  BY <1>1 DEF ChainInv, Rooted, GenesisBlock, None
<1>3. f[0] = {} /\ \A h \in 1..N : f[h] = {h} \cup f[blocks[h].parent]
  BY <1>1, UpEquation DEF ChainInv
<1>4. \A h \in 1..N : f[h] \subseteq 1..N
  BY <1>1, ChainFacts
<1>5. \A h \in 1..N : blocks[h].slot \in Nat
  BY <1>1, BlockTimes
<1>6. PICK T : T = {x \in 1..N : \E a \in f[x] : ~(blocks[a].slot <= blocks[x].slot)}
  OBVIOUS
<1>7. SUFFICES ASSUME T # {} PROVE FALSE
  BY <1>1, <1>6
<1>8. PICK x \in T : \A y \in T : x <= y
  <2>1. T \in SUBSET Nat
    BY <1>1, <1>6
  <2> QED
    BY <1>7, <2>1, LeastNumber
<1>9. x \in 1..N
  BY <1>6
<1>10. PICK a \in f[x] : ~(blocks[a].slot <= blocks[x].slot)
  BY <1>6
<1>11. PICK p : p = blocks[x].parent /\ p \in 0..(x - 1) /\ f[x] = {x} \cup f[p]
  BY <1>2, <1>3, <1>9
<1>12. a \in f[p]
  <2>1. a # x
    BY <1>5, <1>9, <1>10
  <2> QED
    BY <1>10, <1>11, <2>1
<1>13. x # 1
  BY <1>2, <1>3, <1>11, <1>12
<1>14. p \in 1..N /\ ~(x <= p)
  BY <1>1, <1>2, <1>9, <1>11, <1>13
<1>15. blocks[a].slot <= blocks[p].slot
  BY <1>6, <1>8, <1>12, <1>14
<1>16. blocks[p].slot < blocks[x].slot
  BY <1>1, <1>9, <1>11, <1>13 DEF ChainSlots
<1>17. a \in 1..N
  BY <1>4, <1>12, <1>14
<1> QED
  BY <1>5, <1>9, <1>10, <1>14, <1>15, <1>16, <1>17

\* provide_inherent_data never turns the time back.
LEMMA TimeGrows ==
    ASSUME ClockInv, time' \in {time, TimeAfterInherents}
    PROVE  /\ time' \in Nat /\ time <= time'
           /\ time' = started.time \/ started.time + SlotDuration <= time'
  BY DurationAssumption DEF ClockInv, TimeAfterInherents

LEMMA RecentKept ==
    ASSUME blocks' = blocks, started' = started
    PROVE  Recent' = Recent /\ Hashes' = Hashes
  BY DEF Recent, Own, Hashes, Foreign

\* A step without a new block, proposal or start.
LEMMA QuietTime ==
    ASSUME ChainInv, ServedInv, TimeInv, engine' = engine, QuietStep
    PROVE  TimeInv'
<1>1. /\ blocks' = blocks /\ started' = started /\ Recent' = Recent /\ Hashes' = Hashes
      /\ task'.at = "proposed" => task' = task
  BY RecentKept DEF QuietStep
<1>2. ClockInv'
  <2>1. time' \in Nat /\ (time' = started.time \/ started.time + SlotDuration <= time')
    BY TimeGrows DEF TimeInv, QuietStep
  <2> QED
    BY <1>1, <2>1 DEF ClockInv, TimeInv
<1>3. HeadersInv'
  BY <1>1 DEF HeadersInv, TimeInv, HeaderInv
<1>4. ASSUME engine'.provider # "none" PROVE SlotsInv'
  <2>1. SlotsInv
    BY <1>4 DEF TimeInv
  <2>2. ChainSlots' /\ StartSlots'
    BY <1>1, <2>1 DEF SlotsInv, ChainSlots, StartSlots
  <2>3. PICK t, u, d : t = time /\ u = time' /\ d = SlotDuration
                       /\ t \in Nat /\ u \in Nat /\ d \in Nat /\ t <= u
    BY TimeGrows, DurationAssumption DEF TimeInv, ClockInv, QuietStep
  <2>4. \A h \in Recent : blocks[h].timestamp \in Nat
    <3>1. Recent \subseteq Hashes
      BY DEF Recent, Own
    <3> QED
      BY <3>1, BlockTimes DEF TimeInv
  <2>5. RecentSlots'
    <3>1. \A h \in Recent : blocks[h].timestamp + d <= t
      BY <2>1, <2>3 DEF SlotsInv, RecentSlots
    <3>2. \A h \in Recent : blocks[h].timestamp + d <= u
      BY <2>3, <2>4, <3>1
    <3> QED
      BY <1>1, <2>1, <2>3, <3>2 DEF SlotsInv, RecentSlots
  <2>6. ProposalSlots'
    <3> SUFFICES ASSUME task'.at = "proposed" PROVE ProposalSlots'
      BY DEF ProposalSlots
    <3>1. task' = task /\ task.at = "proposed"
      BY <1>1
    <3>2. PICK x : x = task.block.timestamp /\ x \in Nat
      BY <3>1 DEF TimeInv, HeadersInv, HeaderInv
    <3>3. x + d <= t
      BY <2>1, <2>3, <3>1, <3>2 DEF SlotsInv, ProposalSlots
    <3>4. x + d <= u
      BY <2>3, <3>2, <3>3
    <3> QED
      BY <1>1, <2>1, <2>3, <3>1, <3>2, <3>4 DEF SlotsInv, ProposalSlots
  <2> QED
    BY <2>2, <2>5, <2>6 DEF SlotsInv
<1> QED
  BY <1>2, <1>3, <1>4 DEF TimeInv

\* A proposal has the time before it was advanced, and the runtime found its slot
\* above its parent's.
LEMMA ProposalTime ==
    ASSUME ChainInv, ServedInv, TimeInv, engine' = engine, NEW parent \in Hashes, NEW block,
           ProposalStep(parent, block)
    PROVE  TimeInv'
<1>1. /\ blocks' = blocks /\ started' = started /\ Recent' = Recent /\ Hashes' = Hashes
      /\ task'.block = block /\ block.parent = parent
      /\ block.timestamp = time /\ block.slot = Slot(time)
      /\ block.number = blocks[parent].number + 1
      /\ time' = TimeAfterInherents
  BY RecentKept DEF ProposalStep
<1>2. time \in Nat /\ started.time \in Nat /\ SlotDuration \in Nat /\ started.time <= time
  BY DurationAssumption DEF TimeInv, ClockInv
<1>3. ClockInv'
  <2>1. time' \in Nat /\ (time' = started.time \/ started.time + SlotDuration <= time')
    BY <1>1, TimeGrows DEF TimeInv
  <2> QED
    BY <1>1, <2>1 DEF ClockInv, TimeInv
<1>4. HeadersInv'
  <2>1. HeaderInv(block)
    <3>1. blocks[parent].number \in Nat
      BY BlockTimes DEF TimeInv
    <3> QED
      BY <1>1, <1>2, <3>1 DEF HeaderInv
  <2> QED
    BY <1>1, <2>1 DEF HeadersInv, TimeInv, HeaderInv
<1>5. ASSUME engine'.provider # "none" PROVE SlotsInv'
  <2>1. SlotsInv
    BY <1>5 DEF TimeInv
  <2>2. ChainSlots' /\ StartSlots'
    BY <1>1, <2>1 DEF SlotsInv, ChainSlots, StartSlots
  <2>3. PICK t, u, d : t = time /\ u = time' /\ d = SlotDuration
                       /\ t \in Nat /\ u \in Nat /\ d \in Nat /\ u = t + d
    BY <1>1, <1>2, <1>5 DEF TimeAfterInherents
  <2>4. \A h \in Recent : blocks[h].timestamp \in Nat
    <3>1. Recent \subseteq Hashes
      BY DEF Recent, Own
    <3> QED
      BY <3>1, BlockTimes DEF TimeInv
  <2>5. \A h \in Recent : blocks[h].timestamp + d <= t
    BY <2>1, <2>3 DEF SlotsInv, RecentSlots
  <2>6. RecentSlots'
    <3>1. \A h \in Recent : blocks[h].timestamp + d <= u
      BY <2>3, <2>4, <2>5
    <3> QED
      BY <1>1, <2>1, <2>3, <3>1 DEF SlotsInv, RecentSlots
  <2>7. blocks[parent].slot < block.slot
    <3>1. Fits(blocks[parent], time)
      BY DEF ProposalStep
    <3>2. Slot(time) > blocks[parent].slot
      BY <1>5, <3>1 DEF Fits
    <3>3. blocks[parent].slot \in Nat /\ Slot(time) \in Nat
      BY <1>2, BlockTimes, SlotAdd DEF TimeInv
    <3> QED
      BY <1>1, <3>2, <3>3
  <2>8. ProposalSlots'
    BY <1>1, <1>2, <2>3, <2>5, <2>7 DEF ProposalSlots
  <2> QED
    BY <2>2, <2>6, <2>8 DEF SlotsInv
<1> QED
  BY <1>3, <1>4, <1>5 DEF TimeInv

\* A new block, the node's own or another's, on a parent of an earlier slot.
LEMMA ImportedTime ==
    ASSUME ChainInv, ServedInv, TimeInv, engine' = engine, NEW block, ImportStep(block),
           HeaderInv(block),
           engine.provider # "none" => blocks[block.parent].slot < block.slot
    PROVE  /\ ClockInv' /\ \A h \in Hashes' \ {1} : HeaderInv(blocks'[h])
           /\ engine'.provider # "none" => ChainSlots' /\ StartSlots'
           /\ Recent' \subseteq Recent \cup {Len(blocks) + 1}
           /\ Recent' \subseteq Own' /\ Recent \subseteq Hashes
           /\ \A h \in Hashes : blocks'[h] = blocks[h]
<1>1. PICK N : N = Len(blocks) /\ N \in Nat /\ Hashes = 1..N
  BY ChainFacts
<1>2. PICK new : new = N + 1 /\ new \notin Hashes /\ new # 1
  BY <1>1 DEF ImportStep, ChainInv
<1>3. /\ Hashes' = Hashes \cup {new} /\ blocks'[new] = block /\ block.parent \in Hashes
      /\ \A h \in Hashes : blocks'[h] = blocks[h]
      /\ time' = time /\ started' = started
  BY <1>1, <1>2 DEF ImportStep, Grown
<1>4. ClockInv'
  <2>1. started.len \in Hashes'
    BY <1>3 DEF TimeInv, ClockInv
  <2> QED
    BY <1>3, <2>1 DEF TimeInv, ClockInv
<1>5. \A h \in Hashes' \ {1} : HeaderInv(blocks'[h])
  BY <1>2, <1>3 DEF TimeInv, HeadersInv
<1>6. \A h \in Hashes \ {1} : blocks[h].parent \in Hashes
  <2> TAKE h \in Hashes \ {1}
  <2>1. blocks[h].parent \in 0..(h - 1) /\ blocks[h].parent # 0 /\ h \in 1..N
    BY <1>1 DEF ChainInv, Rooted
  <2> QED
    BY <1>1, <2>1
<1>7. engine'.provider # "none" => ChainSlots' /\ StartSlots'
  <2> SUFFICES ASSUME engine.provider # "none" PROVE ChainSlots' /\ StartSlots'
    OBVIOUS
  <2>1. ASSUME NEW h \in Hashes' \ {1} PROVE blocks'[blocks'[h].parent].slot < blocks'[h].slot
    <3>1. CASE h = new
      BY <1>3, <3>1
    <3>2. CASE h # new
      BY <1>3, <1>6, <2>1, <3>2 DEF TimeInv, SlotsInv, ChainSlots
    <3> QED
      BY <3>1, <3>2
  <2>2. StartSlots'
    <3>1. PICK b : b = started.best /\ b \in Hashes
      <4>1. started.len \in 1..N /\ started.best \in 1..started.len
        BY <1>1 DEF TimeInv, ClockInv
      <4> QED
        BY <1>1, <4>1
    <3>2. Up(blocks')[b] = Up(blocks)[b] /\ Up(blocks)[b] \subseteq Hashes
      BY <3>1, GrownKeeps, ChainFacts DEF ImportStep
    <3>3. \A h \in Up(blocks)[b] : blocks[h].slot < Slot(started.time)
      BY <3>1 DEF TimeInv, SlotsInv, StartSlots
    <3> QED
      BY <1>3, <3>1, <3>2, <3>3 DEF StartSlots
  <2> QED
    BY <2>1, <2>2 DEF ChainSlots
<1>8. Recent' \subseteq Recent \cup {new} /\ Recent' \subseteq Own' /\ Recent \subseteq Hashes
  BY <1>3 DEF Recent, Own, Foreign
<1> QED
  BY <1>1, <1>2, <1>3, <1>4, <1>5, <1>7, <1>8

LEMMA OwnTime ==
    ASSUME ChainInv, ServedInv, TimeInv, engine' = engine, NEW block, OwnStep(block)
    PROVE  TimeInv'
<1>1. /\ task.at = "proposed" /\ block = task.block /\ task'.at # "proposed" /\ ImportStep(block)
      /\ HeaderInv(block)
      /\ engine.provider # "none" => SlotsInv
  BY DEF OwnStep, TimeInv, HeadersInv
<1>2. engine.provider # "none" => blocks[block.parent].slot < block.slot
  BY <1>1 DEF SlotsInv, ProposalSlots
<1>3. /\ ClockInv' /\ \A h \in Hashes' \ {1} : HeaderInv(blocks'[h])
      /\ engine'.provider # "none" => ChainSlots' /\ StartSlots'
      /\ Recent' \subseteq Recent \cup {Len(blocks) + 1}
      /\ Recent \subseteq Hashes
      /\ \A h \in Hashes : blocks'[h] = blocks[h]
  BY <1>1, <1>2, ImportedTime
<1>4. HeadersInv'
  BY <1>1, <1>3 DEF HeadersInv, HeaderInv
<1>5. ASSUME engine'.provider # "none" PROVE SlotsInv'
  <2>1. RecentSlots /\ ProposalSlots
    BY <1>1, <1>5 DEF SlotsInv
  <2>2. PICK N, new : N = Len(blocks) /\ N \in Nat /\ Hashes = 1..N /\ new = N + 1
    BY ChainFacts
  <2>3. blocks'[new] = block /\ time' = time /\ started' = started
    BY <1>1, <2>2 DEF ImportStep
  <2>4. /\ started.time <= block.timestamp /\ block.timestamp + SlotDuration <= time
        /\ \A h \in Recent : blocks[h].timestamp + SlotDuration <= block.timestamp
    BY <1>1, <2>1 DEF ProposalSlots
  <2>5. \A h \in Recent' : h = new \/ h \in Recent
    BY <1>3, <2>2
  <2>6. \A h \in Recent : h \in 1..N /\ blocks'[h] = blocks[h]
    BY <1>3, <2>2
  <2>7. \A h \in Recent' : /\ started.time <= blocks'[h].timestamp
                           /\ blocks'[h].timestamp + SlotDuration <= time
    BY <2>1, <2>3, <2>4, <2>5, <2>6 DEF RecentSlots
  <2>8. ASSUME NEW g \in Recent', NEW h \in Recent', g < h
        PROVE  blocks'[g].timestamp + SlotDuration <= blocks'[h].timestamp
    <3>1. g \in Recent
      BY <2>2, <2>5, <2>6, <2>8
    <3>2. CASE h = new
      BY <2>3, <2>4, <2>6, <3>1, <3>2
    <3>3. CASE h \in Recent
      BY <2>1, <2>6, <2>8, <3>1, <3>3 DEF RecentSlots
    <3> QED
      BY <2>5, <3>2, <3>3
  <2>9. RecentSlots'
    BY <2>3, <2>7, <2>8 DEF RecentSlots
  <2>10. ProposalSlots'
    BY <1>1 DEF ProposalSlots
  <2> QED
    BY <1>3, <1>5, <2>9, <2>10 DEF SlotsInv
<1> QED
  BY <1>3, <1>4, <1>5 DEF TimeInv

LEMMA ForeignTime ==
    ASSUME ChainInv, ServedInv, TimeInv, engine' = engine, NEW parent \in Hashes,
           NEW slots \in {1, 3}, NEW block, ForeignStep(parent, slots, block)
    PROVE  TimeInv'
<1>1. /\ task' = task /\ block.parent = parent /\ block.by = Foreign
      /\ block.number = blocks[parent].number + 1
      /\ block.timestamp = blocks[parent].timestamp + slots * SlotDuration
      /\ block.slot = Slot(block.timestamp)
      /\ ImportStep(block)
  BY DEF ForeignStep
<1>2. /\ blocks[parent].timestamp \in Nat /\ blocks[parent].slot = Slot(blocks[parent].timestamp)
      /\ blocks[parent].number \in Nat
  BY BlockTimes DEF TimeInv
<1>3. slots \in Nat /\ slots > 0 /\ slots * SlotDuration \in Nat
  BY DurationAssumption
<1>4. HeaderInv(block)
  BY <1>1, <1>2, <1>3 DEF HeaderInv
<1>5. blocks[parent].slot < block.slot
  <2>1. PICK t : t = blocks[parent].timestamp /\ t \in Nat
    BY <1>2
  <2>2. Slot(t) \in Nat /\ Slot(t + slots * SlotDuration) = Slot(t) + slots
    BY <1>3, <2>1, SlotAdd
  <2>3. PICK s : s = Slot(t) /\ s \in Nat /\ block.slot = s + slots /\ blocks[parent].slot = s
    BY <1>1, <1>2, <2>1, <2>2
  <2> QED
    BY <1>3, <2>3
<1>6. /\ ClockInv' /\ \A h \in Hashes' \ {1} : HeaderInv(blocks'[h])
      /\ engine'.provider # "none" => ChainSlots' /\ StartSlots'
      /\ Recent' \subseteq Recent \cup {Len(blocks) + 1}
      /\ Recent' \subseteq Own' /\ Recent \subseteq Hashes
      /\ \A h \in Hashes : blocks'[h] = blocks[h]
  BY <1>1, <1>4, <1>5, ImportedTime
<1>7. Recent' \subseteq Recent
  <2>1. blocks'[Len(blocks) + 1] = block
    BY <1>1 DEF ImportStep
  <2>2. Len(blocks) + 1 \notin Own'
    BY <1>1, <2>1 DEF Own, Foreign
  <2> QED
    BY <1>6, <2>2
<1>8. task.at = "proposed" => task.block.parent \in Hashes
  BY DEF ServedInv, TaskInv
<1>9. HeadersInv'
  BY <1>1, <1>6 DEF HeadersInv, HeaderInv, TimeInv
<1>10. ASSUME engine'.provider # "none" PROVE SlotsInv'
  <2>1. RecentSlots /\ ProposalSlots
    BY <1>10 DEF TimeInv, SlotsInv
  <2>2. time' = time /\ started' = started
    BY <1>1 DEF ImportStep
  <2>3. \A h \in Recent' : h \in Recent /\ blocks'[h] = blocks[h]
    BY <1>6, <1>7
  <2>4. RecentSlots'
    BY <2>1, <2>2, <2>3 DEF RecentSlots
  <2>5. ProposalSlots'
    BY <1>1, <1>6, <1>8, <2>1, <2>2, <2>3 DEF ProposalSlots
  <2> QED
    BY <1>6, <1>10, <2>4, <2>5 DEF SlotsInv
<1> QED
  BY <1>6, <1>9, <1>10 DEF TimeInv

\* with_header: the time starts in the slot after the one of the best block.
LEMMA RestartTime ==
    ASSUME ChainInv, ServedInv, TimeInv, engine' = engine, NEW now \in Now, RestartStep(now)
    PROVE  TimeInv'
<1>1. /\ blocks' = blocks /\ Hashes' = Hashes /\ task' = Idle
      /\ time' = WithHeader(blocks[best], now)
      /\ started' = [time |-> time', best |-> best, len |-> Len(blocks)]
  BY DEF RestartStep, Hashes
<1>2. PICK N : N = Len(blocks) /\ N \in Nat /\ Hashes = 1..N
  BY ChainFacts
<1>3. started'.time = time' /\ started'.best = best /\ started'.len = N
  BY <1>1, <1>2
<1>4. best \in 1..N
  BY <1>2 DEF ChainInv
<1>5. PICK s, n : /\ s = blocks[best].slot /\ n = blocks[best].number
                  /\ s \in Nat /\ n \in Nat
  BY <1>2, <1>4, BlockTimes DEF TimeInv
<1>6. now \in Nat /\ SlotDuration <= now
  BY NowAssumption
<1>7. time' \in Nat /\ s < Slot(time') /\ Slot(time') \in Nat
  <2>1. CASE n # 0
    <3>1. time' = s * SlotDuration + SlotDuration
      BY <1>1, <1>5, <2>1 DEF WithHeader
    <3>2. time' \in Nat /\ Slot(time') = s + 1
      BY <1>5, <3>1, SlotStart
    <3> QED
      BY <1>5, <3>2
  <2>2. CASE n = 0
    <3>1. time' = now
      BY <1>1, <1>5, <2>2 DEF WithHeader
    <3>2. best = 1
      <4>1. SUFFICES ASSUME best # 1 PROVE FALSE
        OBVIOUS
      <4>2. HeaderInv(blocks[best])
        BY <1>2, <1>4, <4>1 DEF TimeInv, HeadersInv
      <4> QED
        BY <1>5, <2>2, <4>2 DEF HeaderInv
    <3>3. s = 0
      BY <1>5, <3>2 DEF ChainInv, GenesisBlock
    <3>4. 0 + SlotDuration <= now
      BY <1>6, DurationAssumption
    <3>5. Slot(0) < Slot(now) /\ Slot(0) \in Nat /\ Slot(now) \in Nat
      BY <1>6, <3>4, SlotApart, SlotAdd
    <3> QED
      BY <1>6, <3>1, <3>3, <3>5
  <2> QED
    BY <2>1, <2>2
<1>8. ClockInv'
  BY <1>1, <1>2, <1>3, <1>4, <1>7 DEF ClockInv
<1>9. task'.at # "proposed"
  BY <1>1 DEF Idle
<1>10. HeadersInv'
  BY <1>1, <1>9 DEF HeadersInv, HeaderInv, TimeInv
<1>11. Recent' = {}
  <2>1. ASSUME NEW h \in Recent' PROVE FALSE
    <3>1. h \in 1..N /\ h > N
      BY <1>1, <1>2, <1>3, <2>1 DEF Recent, Own
    <3> QED
      BY <1>2, <3>1
  <2> QED
    BY <2>1
<1>12. ASSUME engine'.provider # "none" PROVE SlotsInv'
  <2>1. ChainSlots
    BY <1>12 DEF TimeInv, SlotsInv
  <2>2. ASSUME NEW h \in Up(blocks)[best] PROVE blocks[h].slot < Slot(time')
    <3>1. blocks[h].slot <= s
      BY <1>2, <1>4, <1>5, <2>1, SlotsAlong DEF TimeInv
    <3>2. h \in Hashes
      BY <1>2, <1>4, ChainFacts
    <3>3. blocks[h].slot \in Nat
      BY <3>2, BlockTimes DEF TimeInv
    <3> QED
      BY <1>5, <1>7, <3>1, <3>3
  <2>3. StartSlots'
    BY <1>1, <1>3, <2>2 DEF StartSlots
  <2>4. ChainSlots'
    BY <1>1, <2>1 DEF ChainSlots
  <2>5. RecentSlots' /\ ProposalSlots'
    BY <1>9, <1>11 DEF RecentSlots, ProposalSlots
  <2> QED
    BY <2>3, <2>4, <2>5 DEF SlotsInv
<1> QED
  BY <1>8, <1>10, <1>12 DEF TimeInv

LEMMA TimeStep ==
    ASSUME ChainInv, ServedInv, TimeInv, [Next]_vars
    PROVE  TimeInv'
<1>1. engine' = engine
  BY StepKinds
<1> QED
  BY <1>1, StepKinds, QuietTime, ProposalTime, OwnTime, ForeignTime, RestartTime

-----------------------------------------------------------------------------
(***************************************************************************)
(* Folds over finite sets. A fold is defined by recursion over the subsets *)
(* of its set; G is its step and V has its values.                         *)
(***************************************************************************)
Pick(s) == CHOOSE x \in s : TRUE

Folding(it, D, G, base) ==
    \A s \in D : it[s] = IF s = {} THEN base ELSE G[<<Pick(s), it[s \ {Pick(s)}]>>]

Small(S, n) == {s \in SUBSET S : Cardinality(s) <= n}

LEMMA PickIn ==
    ASSUME NEW s, s # {}
    PROVE  Pick(s) \in s
BY DEF Pick

LEMMA SmallLess ==
    ASSUME NEW S, IsFiniteSet(S), NEW s \in SUBSET S, NEW x \in s
    PROVE  /\ IsFiniteSet(s) /\ Cardinality(s) \in Nat
           /\ s \ {x} \in SUBSET S /\ Cardinality(s \ {x}) = Cardinality(s) - 1
           /\ Cardinality(s) - 1 \in Nat
<1>1. IsFiniteSet(s)
  BY FS_Subset
<1>2. Cardinality(s) \in Nat
  BY <1>1, FS_CardinalityType
<1>3. IsFiniteSet(s \ {x}) /\ Cardinality(s \ {x}) = Cardinality(s) - 1
  BY <1>1, FS_RemoveElement
<1>4. Cardinality(s) - 1 \in Nat
  BY <1>3, FS_CardinalityType
<1> QED
  BY <1>1, <1>2, <1>3, <1>4

FoldsUpTo(S, V, G, base, n) ==
    \E it : it \in [Small(S, n) -> V] /\ Folding(it, Small(S, n), G, base)

LEMMA FoldMore ==
    ASSUME NEW S, IsFiniteSet(S), NEW V, NEW G \in [S \X V -> V], NEW base \in V, NEW n \in Nat,
           FoldsUpTo(S, V, G, base, n)
    PROVE  FoldsUpTo(S, V, G, base, n + 1)
<1>1. PICK it : it \in [Small(S, n) -> V] /\ Folding(it, Small(S, n), G, base)
  BY DEF FoldsUpTo
<1>2. PICK D, C : D = Small(S, n) /\ C = Small(S, n + 1)
  OBVIOUS
<1>3. D \in SUBSET C
  <2>1. \A s \in SUBSET S : Cardinality(s) \in Nat
    BY FS_Subset, FS_CardinalityType
  <2>2. \A k \in Nat : k <= n => k <= n + 1
    OBVIOUS
  <2> QED
    BY <1>2, <2>1, <2>2 DEF Small
<1>4. ASSUME NEW s \in C, s # {} PROVE s \in SUBSET S /\ Pick(s) \in S /\ s \ {Pick(s)} \in D
  <2>1. s \in SUBSET S /\ Cardinality(s) <= n + 1
    BY <1>2 DEF Small
  <2>2. PICK x : x = Pick(s) /\ x \in s
    BY <1>4, PickIn
  <2>3. /\ Cardinality(s) \in Nat /\ s \ {x} \in SUBSET S
        /\ Cardinality(s \ {x}) = Cardinality(s) - 1
    BY <2>1, <2>2, SmallLess
  <2>4. Cardinality(s \ {x}) <= n
    BY <2>1, <2>3
  <2> QED
    BY <1>2, <2>1, <2>2, <2>3, <2>4 DEF Small
<1>5. PICK new : new = [s \in C |-> IF s = {} THEN base ELSE G[<<Pick(s), it[s \ {Pick(s)}]>>]]
  OBVIOUS
<1>6. \A s \in D : new[s] = it[s]
  BY <1>1, <1>2, <1>3, <1>5 DEF Folding
<1>7. ASSUME NEW s \in C PROVE new[s] \in V
  <2>1. CASE s = {}
    BY <1>5, <2>1
  <2>2. CASE s # {}
    <3>1. PICK x, v : x = Pick(s) /\ v = it[s \ {Pick(s)}]
      OBVIOUS
    <3>2. x \in S /\ v \in V
      BY <1>1, <1>2, <1>4, <2>2, <3>1
    <3>3. G[<<x, v>>] \in V
      BY <3>2
    <3> QED
      BY <1>5, <2>2, <3>1, <3>3
  <2> QED
    BY <2>1, <2>2
<1>8. new \in [C -> V]
  BY <1>5, <1>7
<1>9. ASSUME NEW s \in C PROVE new[s] = IF s = {} THEN base ELSE G[<<Pick(s), new[s \ {Pick(s)}]>>]
  <2>1. s # {} => new[s \ {Pick(s)}] = it[s \ {Pick(s)}]
    BY <1>4, <1>6
  <2> QED
    BY <1>5, <2>1
<1> QED
  BY <1>2, <1>8, <1>9 DEF FoldsUpTo, Folding

LEMMA FoldExists ==
    ASSUME NEW S, IsFiniteSet(S), NEW V, NEW G \in [S \X V -> V], NEW base \in V
    PROVE  \E it \in [SUBSET S -> V] : Folding(it, SUBSET S, G, base)
<1>1. PICK T : T = {n \in Nat : ~FoldsUpTo(S, V, G, base, n)}
  OBVIOUS
<1>2. T = {}
  <2> SUFFICES ASSUME T # {} PROVE FALSE
    OBVIOUS
  <2>1. PICK n \in T : \A y \in T : n <= y
    BY <1>1, LeastNumber
  <2>2. n \in Nat /\ ~FoldsUpTo(S, V, G, base, n)
    BY <1>1, <2>1
  <2>3. CASE n = 0
    <3>1. PICK D, it : D = Small(S, 0) /\ it = [s \in Small(S, 0) |-> base]
      OBVIOUS
    <3>2. \A s \in D : s = {}
      <4> SUFFICES ASSUME NEW s \in D PROVE s = {}
        OBVIOUS
      <4>1. s \in SUBSET S /\ Cardinality(s) <= 0
        BY <3>1 DEF Small
      <4>2. IsFiniteSet(s)
        BY <4>1, FS_Subset
      <4>3. Cardinality(s) \in Nat
        BY <4>2, FS_CardinalityType
      <4>4. Cardinality(s) = 0
        BY <4>1, <4>3
      <4> QED
        BY <4>2, <4>4, FS_EmptySet
    <3>3. it \in [D -> V] /\ \A s \in D : it[s] = base
      BY <3>1
    <3>4. Folding(it, D, G, base)
      BY <3>2, <3>3 DEF Folding
    <3> QED
      BY <2>2, <2>3, <3>1, <3>3, <3>4 DEF FoldsUpTo
  <2>4. CASE n # 0
    <3>1. PICK k : k = n - 1
      OBVIOUS
    <3>2. k \in Nat /\ n = k + 1 /\ ~(n <= k)
      BY <2>2, <2>4, <3>1
    <3>3. FoldsUpTo(S, V, G, base, k)
      BY <1>1, <2>1, <3>2
    <3> QED
      BY <2>2, <3>2, <3>3, FoldMore
  <2> QED
    BY <2>3, <2>4
<1>3. PICK n : n = Cardinality(S) /\ n \in Nat
  BY FS_CardinalityType
<1>4. Small(S, n) = SUBSET S
  <2>1. \A s \in SUBSET S : Cardinality(s) <= n
    BY <1>3, FS_Subset
  <2> QED
    BY <2>1 DEF Small
<1>5. FoldsUpTo(S, V, G, base, n)
  BY <1>1, <1>2, <1>3
<1> QED
  BY <1>4, <1>5 DEF FoldsUpTo


-----------------------------------------------------------------------------
(***************************************************************************)
(* Sums. Summing defines the sum of the values f over the subsets of D.    *)
(***************************************************************************)
Summing(it, f, D) ==
    \A s \in D : it[s] = IF s = {} THEN 0 ELSE f[Pick(s)] + it[s \ {Pick(s)}]

\* There is one such function.
LEMMA SummingOne ==
    ASSUME NEW S, IsFiniteSet(S), NEW f, NEW g, \A x \in S : f[x] = g[x],
           NEW it, Summing(it, f, SUBSET S), NEW jt, Summing(jt, g, SUBSET S)
    PROVE  \A s \in SUBSET S : it[s] = jt[s]
<1>1. PICK T : T = {n \in Nat : \E s \in SUBSET S : Cardinality(s) = n /\ it[s] # jt[s]}
  OBVIOUS
<1>2. T = {}
  <2> SUFFICES ASSUME T # {} PROVE FALSE
    OBVIOUS
  <2>1. PICK n \in T : \A y \in T : n <= y
    BY <1>1, LeastNumber
  <2>2. PICK s \in SUBSET S : Cardinality(s) = n /\ it[s] # jt[s]
    BY <1>1, <2>1
  <2>3. s # {}
    BY <2>2 DEF Summing
  <2>4. PICK x : x = Pick(s) /\ x \in s
    BY <2>3, PickIn
  <2>5. /\ s \ {x} \in SUBSET S /\ Cardinality(s \ {x}) = n - 1 /\ n - 1 \in Nat /\ n \in Nat
    BY <2>2, <2>4, SmallLess
  <2>6. it[s \ {x}] = jt[s \ {x}]
    <3>1. ~(n <= n - 1)
      BY <2>5
    <3>2. n - 1 \notin T
      BY <2>1, <3>1
    <3> QED
      BY <1>1, <2>5, <3>2
  <2>7. it[s] = f[x] + it[s \ {x}] /\ jt[s] = g[x] + jt[s \ {x}]
    BY <2>3, <2>4 DEF Summing
  <2>8. f[x] = g[x]
    BY <2>4
  <2> QED
    BY <2>2, <2>6, <2>7, <2>8
<1>3. \A s \in SUBSET S : Cardinality(s) \in Nat
  BY FS_Subset, FS_CardinalityType
<1> QED
  BY <1>1, <1>2, <1>3

LEMMA SummingExists ==
    ASSUME NEW S, IsFiniteSet(S), NEW f, \A x \in S : f[x] \in Int
    PROVE  \E it \in [SUBSET S -> Int] : Summing(it, f, SUBSET S)
<1>1. PICK G : G = [p \in S \X Int |-> f[p[1]] + p[2]]
  OBVIOUS
<1>2. ASSUME NEW p \in S \X Int PROVE f[p[1]] + p[2] \in Int
  <2>1. p[1] \in S /\ p[2] \in Int
    OBVIOUS
  <2>2. f[p[1]] \in Int
    BY <2>1
  <2> QED
    BY <2>1, <2>2
<1>3. G \in [S \X Int -> Int]
  BY <1>1, <1>2
<1>4. 0 \in Int
  OBVIOUS
<1>5. \E it \in [SUBSET S -> Int] : Folding(it, SUBSET S, G, 0)
  BY <1>3, <1>4, FoldExists
<1>6. PICK it \in [SUBSET S -> Int] : Folding(it, SUBSET S, G, 0)
  BY <1>5
<1>7. ASSUME NEW s \in SUBSET S, s # {} PROVE it[s] = f[Pick(s)] + it[s \ {Pick(s)}]
  <2>1. PICK x, v : x = Pick(s) /\ v = it[s \ {Pick(s)}]
    OBVIOUS
  <2>2. x \in S /\ s \ {x} \in SUBSET S
    BY <1>7, <2>1, PickIn
  <2>3. v \in Int
    BY <2>1, <2>2
  <2>4. <<x, v>> \in S \X Int
    BY <2>2, <2>3
  <2>5. G[<<x, v>>] = f[x] + v
    BY <1>1, <2>4
  <2>6. it[s] = G[<<x, v>>]
    BY <1>6, <1>7, <2>1 DEF Folding
  <2> QED
    BY <2>1, <2>5, <2>6
<1>8. it[{}] = 0
  BY <1>6 DEF Folding
<1>9. Summing(it, f, SUBSET S)
  BY <1>7, <1>8 DEF Summing
<1> QED
  BY <1>9

LEMMA SumIs ==
    ASSUME NEW S, IsFiniteSet(S), NEW f, \A x \in S : f[x] \in Int
    PROVE  \E it \in [SUBSET S -> Int] : Summing(it, f, SUBSET S) /\ SumFunctionOnSet(f, S) = it[S]
<1>1. \E it : it = [s \in SUBSET S |-> IF s = {} THEN 0 ELSE f[Pick(s)] + it[s \ {Pick(s)}]]
  <2>1. PICK it \in [SUBSET S -> Int] : Summing(it, f, SUBSET S)
    BY SummingExists
  <2>2. it = [s \in SUBSET S |-> it[s]]
    BY <2>1
  <2>3. it = [s \in SUBSET S |-> IF s = {} THEN 0 ELSE f[Pick(s)] + it[s \ {Pick(s)}]]
    BY <2>1, <2>2 DEF Summing
  <2> QED
    BY <2>3
<1>2. PICK it : it = CHOOSE g : g = [s \in SUBSET S |-> IF s = {} THEN 0 ELSE f[Pick(s)] + g[s \ {Pick(s)}]]
  OBVIOUS
<1>3. it = [s \in SUBSET S |-> IF s = {} THEN 0 ELSE f[Pick(s)] + it[s \ {Pick(s)}]]
  BY <1>1, <1>2
<1>4. SumFunctionOnSet(f, S) = it[S]
  BY <1>2 DEF SumFunctionOnSet, FoldFunctionOnSet, MapThenFoldSet, Pick
<1>5. Summing(it, f, SUBSET S) /\ DOMAIN it = SUBSET S
  <2>1. \A s \in SUBSET S : it[s] = IF s = {} THEN 0 ELSE f[Pick(s)] + it[s \ {Pick(s)}]
    BY <1>3
  <2>2. DOMAIN it = SUBSET S
    BY <1>3
  <2> QED
    BY <2>1, <2>2 DEF Summing
<1>6. \A s \in SUBSET S : it[s] \in Int
  <2>1. PICK g \in [SUBSET S -> Int] : Summing(g, f, SUBSET S)
    BY SummingExists
  <2>2. \A s \in SUBSET S : it[s] = g[s]
    BY <1>5, <2>1, SummingOne
  <2> QED
    BY <2>1, <2>2
<1>7. it \in [SUBSET S -> Int]
  <2>1. it = [s \in SUBSET S |-> it[s]]
    BY <1>3
  <2> QED
    BY <1>6, <2>1
<1> QED
  BY <1>4, <1>5, <1>7

\* The order of the summands does not matter.
SumOver(it, f, S) ==
    /\ IsFiniteSet(S) /\ \A x \in S : f[x] \in Int
    /\ it \in [SUBSET S -> Int] /\ Summing(it, f, SUBSET S)

LEMMA SumPick ==
    ASSUME NEW S, NEW f, NEW it, SumOver(it, f, S), NEW part \in SUBSET S, NEW z \in part
    PROVE  it[part] = f[z] + it[part \ {z}]
<1>0. /\ IsFiniteSet(S) /\ \A x \in S : f[x] \in Int
      /\ it \in [SUBSET S -> Int] /\ Summing(it, f, SUBSET S)
  BY DEF SumOver
<1>1. PICK T : T = {n \in Nat : \E s \in SUBSET S : \E x \in s :
                                    Cardinality(s) = n /\ it[s] # f[x] + it[s \ {x}]}
  OBVIOUS
<1>2. T = {}
  <2> SUFFICES ASSUME T # {} PROVE FALSE
    OBVIOUS
  <2>1. PICK n \in T : \A y \in T : n <= y
    BY <1>1, LeastNumber
  <2>2. PICK s, x : /\ s \in SUBSET S /\ x \in s
                    /\ Cardinality(s) = n /\ it[s] # f[x] + it[s \ {x}]
    BY <1>1, <2>1
  <2>3. PICK y : y = Pick(s) /\ y \in s
    BY <2>2, PickIn
  <2>4. it[s] = f[y] + it[s \ {y}]
    BY <1>0, <2>2, <2>3 DEF Summing
  <2>5. x # y
    BY <2>2, <2>4
  <2>6. PICK sx, sy, r : sx = s \ {x} /\ sy = s \ {y} /\ r = (s \ {x}) \ {y}
    OBVIOUS
  <2>7. r = sy \ {x} /\ r = sx \ {y} /\ x \in sy /\ y \in sx /\ r \in SUBSET S
    BY <2>2, <2>3, <2>5, <2>6
  <2>8. /\ sx \in SUBSET S /\ Cardinality(sx) = n - 1 /\ n - 1 \in Nat /\ n \in Nat
    BY <1>0, <2>2, <2>6, SmallLess
  <2>9. /\ sy \in SUBSET S /\ Cardinality(sy) = n - 1
    BY <1>0, <2>2, <2>3, <2>6, SmallLess
  <2>10. n - 1 \notin T
    <3>1. ~(n <= n - 1)
      BY <2>8
    <3> QED
      BY <2>1, <3>1
  <2>11. it[sy] = f[x] + it[sy \ {x}]
    BY <1>1, <2>7, <2>8, <2>9, <2>10
  <2>12. it[sx] = f[y] + it[sx \ {y}]
    BY <1>1, <2>7, <2>8, <2>10
  <2>13. it[r] \in Int /\ f[x] \in Int /\ f[y] \in Int
    BY <1>0, <2>2, <2>3, <2>7
  <2>14. \A a, b, c \in Int : a + (b + c) = b + (a + c)
    OBVIOUS
  <2>15. it[s] = f[y] + (f[x] + it[r])
    BY <2>4, <2>6, <2>7, <2>11
  <2>16. f[x] + it[sx] = f[x] + (f[y] + it[r])
    BY <2>7, <2>12
  <2> QED
    BY <2>2, <2>6, <2>13, <2>14, <2>15, <2>16
<1>3. \A s \in SUBSET S : Cardinality(s) \in Nat
  BY <1>0, FS_Subset, FS_CardinalityType
<1> QED
  BY <1>1, <1>2, <1>3

LEMMA SumEmpty ==
    ASSUME NEW f
    PROVE  SumFunctionOnSet(f, {}) = 0
<1>1. IsFiniteSet({}) /\ \A x \in {} : f[x] \in Int
  BY FS_EmptySet
<1>2. PICK it \in [SUBSET {} -> Int] : Summing(it, f, SUBSET {}) /\ SumFunctionOnSet(f, {}) = it[{}]
  BY <1>1, SumIs
<1>3. {} \in SUBSET {}
  OBVIOUS
<1> QED
  BY <1>2, <1>3 DEF Summing

\* One more summand.
LEMMA SumMore ==
    ASSUME NEW S, IsFiniteSet(S), NEW x, x \notin S, NEW f, NEW g,
           \A y \in S : f[y] \in Int, \A y \in S : g[y] = f[y], g[x] \in Int
    PROVE  /\ SumFunctionOnSet(f, S) \in Int
           /\ SumFunctionOnSet(g, S \cup {x}) = g[x] + SumFunctionOnSet(f, S)
<1>1. PICK R : R = S \cup {x}
  OBVIOUS
<1>2. IsFiniteSet(R) /\ R \ {x} = S /\ S \in SUBSET R /\ x \in R /\ R \in SUBSET R
  BY <1>1, FS_AddElement
<1>3. \A y \in R : g[y] \in Int
  BY <1>1
<1>4. \E it \in [SUBSET S -> Int] : Summing(it, f, SUBSET S) /\ SumFunctionOnSet(f, S) = it[S]
  BY SumIs
<1>5. PICK it \in [SUBSET S -> Int] : Summing(it, f, SUBSET S) /\ SumFunctionOnSet(f, S) = it[S]
  BY <1>4
<1>6. \E jt \in [SUBSET R -> Int] : Summing(jt, g, SUBSET R) /\ SumFunctionOnSet(g, R) = jt[R]
  BY <1>2, <1>3, SumIs
<1>7. PICK jt \in [SUBSET R -> Int] : Summing(jt, g, SUBSET R) /\ SumFunctionOnSet(g, R) = jt[R]
  BY <1>6
<1>8. jt[R] = g[x] + jt[R \ {x}]
  <2>1. SumOver(jt, g, R)
    BY <1>2, <1>3, <1>7 DEF SumOver
  <2> QED
    BY <1>2, <2>1, SumPick
<1>9. Summing(jt, g, SUBSET S)
  <2>1. SUBSET S \subseteq SUBSET R
    BY <1>2
  <2> QED
    BY <1>7, <2>1 DEF Summing
<1>10. \A s \in SUBSET S : it[s] = jt[s]
  BY <1>5, <1>9, SummingOne
<1>11. S \in SUBSET S
  OBVIOUS
<1>12. it[S] = jt[S] /\ it[S] \in Int
  BY <1>5, <1>10, <1>11
<1> QED
  BY <1>1, <1>2, <1>5, <1>7, <1>8, <1>12

\* The sum of a function over its domain.
LEMMA SumOfFunction ==
    ASSUME NEW S, NEW f, DOMAIN f = S
    PROVE  SumFunction(f) = SumFunctionOnSet(f, S)
BY DEF SumFunction

-----------------------------------------------------------------------------
(***************************************************************************)
(* The calls of the pallet and its hook                                    *)
(***************************************************************************)
Store == [minting_interval : Nat, current_payout : Nat, treasury : Nat, authors : Nat,
          event : Seq(Nat)]

\* What an extrinsic does to the state.
Dispatching(state, xt, new) ==
    /\ new \in Store
    /\ new.treasury + new.authors = state.treasury + state.authors + Paid(xt)
    /\ 5 * state.authors + Paid(xt) <= 5 * new.authors
    /\ 5 * new.authors <= 5 * state.authors + Paid(xt) + 8
    /\ new.minting_interval = IF xt.call = "set_minting_interval" /\ xt.origin = "root"
                              THEN xt.value ELSE state.minting_interval
    /\ new.current_payout = IF xt.call = "set_current_payout" /\ xt.origin = "root"
                            THEN xt.value ELSE state.current_payout

LEMMA RationIs ==
    ASSUME NEW amount \in Nat
    PROVE  \E first, rest \in Nat :
              /\ Ration(amount)[1] = first /\ Ration(amount)[2] = rest
              /\ first + rest = amount /\ amount <= 5 * rest /\ 5 * rest <= amount + 4
<1>1. PICK first : first = (amount * 80) \div 100
  OBVIOUS
<1>2. amount * 80 \in Nat /\ 100 \in Nat \ {0}
  OBVIOUS
<1>3. first \in Nat /\ first * 100 <= amount * 80 /\ amount * 80 < first * 100 + 100
  BY <1>1, <1>2, DivBounds
<1>4. PICK rest : rest = amount - first
  OBVIOUS
<1>5. rest \in Nat /\ first + rest = amount /\ amount <= 5 * rest /\ 5 * rest <= amount + 4
  BY <1>3, <1>4
<1>6. Ration(amount) = <<first, rest>>
  BY <1>1, <1>4 DEF Ration
<1>7. Ration(amount)[1] = first /\ Ration(amount)[2] = rest
  BY <1>6
<1> QED
  BY <1>3, <1>5, <1>7

LEMMA InStore ==
    ASSUME NEW state \in Store
    PROVE  /\ state.minting_interval \in Nat /\ state.current_payout \in Nat
           /\ state.treasury \in Nat /\ state.authors \in Nat /\ state.event \in Seq(Nat)
           /\ state = [minting_interval |-> state.minting_interval,
                       current_payout |-> state.current_payout, treasury |-> state.treasury,
                       authors |-> state.authors, event |-> state.event]
BY DEF Store

LEMMA DispatchIs ==
    ASSUME NEW state \in Store, NEW xt \in Extrinsic, NEW new, new = Dispatch(state, xt)
    PROVE  Dispatching(state, xt, new)
<1>1. PICK a, b, c, d, e :
          /\ a = state.minting_interval /\ b = state.current_payout /\ c = state.treasury
          /\ d = state.authors /\ e = state.event
  OBVIOUS
<1>0. a \in Nat /\ b \in Nat /\ c \in Nat /\ d \in Nat /\ e \in Seq(Nat)
  BY <1>1, InStore
<1>2. /\ a \in Nat /\ b \in Nat /\ c \in Nat /\ d \in Nat /\ e \in Seq(Nat)
      /\ state = [minting_interval |-> a, current_payout |-> b, treasury |-> c, authors |-> d, event |-> e]
  BY <1>1, InStore
<1>3. /\ xt.call \in {"set_current_payout", "set_minting_interval"} /\ xt.value \in Nat
      /\ xt.fee \in Nat /\ xt.tip \in Nat
  BY DEF Extrinsic
<1>4. PICK mid : mid =
          CASE xt.call = "set_current_payout" -> set_current_payout(state, xt.origin, xt.value)
            [] xt.call = "set_minting_interval" -> set_minting_interval(state, xt.origin, xt.value)
  OBVIOUS
<1>5. PICK p, q :
          /\ p = IF xt.call = "set_minting_interval" /\ xt.origin = "root" THEN xt.value ELSE a
          /\ q = IF xt.call = "set_current_payout" /\ xt.origin = "root" THEN xt.value ELSE b
  OBVIOUS
<1>6. p \in Nat /\ q \in Nat
  BY <1>2, <1>3, <1>5
<1>7. mid = [minting_interval |-> p, current_payout |-> q, treasury |-> c, authors |-> d, event |-> e]
  <2>1. CASE xt.call = "set_current_payout"
    <3>1. mid = set_current_payout(state, xt.origin, xt.value) /\ p = a
      BY <1>4, <1>5, <2>1
    <3>2. CASE xt.origin = "root"
      BY <1>2, <1>5, <2>1, <3>1, <3>2 DEF set_current_payout
    <3>3. CASE xt.origin # "root"
      BY <1>2, <1>5, <2>1, <3>1, <3>3 DEF set_current_payout
    <3> QED
      BY <3>2, <3>3
  <2>2. CASE xt.call = "set_minting_interval"
    <3>1. mid = set_minting_interval(state, xt.origin, xt.value) /\ q = b
      BY <1>4, <1>5, <2>2
    <3>2. CASE xt.origin = "root"
      BY <1>2, <1>5, <2>2, <3>1, <3>2 DEF set_minting_interval
    <3>3. CASE xt.origin # "root"
      BY <1>2, <1>5, <2>2, <3>1, <3>3 DEF set_minting_interval
    <3> QED
      BY <3>2, <3>3
  <2> QED
    BY <1>3, <2>1, <2>2
<1>8. PICK fee, tip, paid : fee = xt.fee /\ tip = xt.tip /\ paid = xt.fee + xt.tip
  OBVIOUS
<1>9. PICK ft, fa \in Nat : /\ Ration(fee)[1] = ft /\ Ration(fee)[2] = fa
                            /\ ft + fa = fee /\ fee <= 5 * fa /\ 5 * fa <= fee + 4
  BY <1>3, <1>8, RationIs
<1>10. PICK tt, ta \in Nat : /\ Ration(tip)[1] = tt /\ Ration(tip)[2] = ta
                             /\ tt + ta = tip /\ tip <= 5 * ta /\ 5 * ta <= tip + 4
  BY <1>3, <1>8, RationIs
<1>11. PICK ts, as : ts = ft + tt /\ as = fa + ta
  OBVIOUS
<1>12. PICK t, u : t = c + ts /\ u = d + as
  OBVIOUS
<1>13. new = [minting_interval |-> p, current_payout |-> q, treasury |-> t, authors |-> u, event |-> e]
  <2>1. new = DealWithFees(mid, fee, tip)
    BY <1>4, <1>8 DEF Dispatch
  <2>2. new = Author([mid EXCEPT !.treasury = @ + ts], as)
    BY <1>9, <1>10, <1>11, <2>1 DEF DealWithFees
  <2>3. PICK paidout : paidout = [mid EXCEPT !.treasury = @ + ts]
    OBVIOUS
  <2>4. paidout = [minting_interval |-> p, current_payout |-> q, treasury |-> t, authors |-> d, event |-> e]
    BY <1>7, <1>12, <2>3
  <2>5. new = [paidout EXCEPT !.authors = @ + as]
    BY <2>2, <2>3 DEF Author
  <2> QED
    BY <1>12, <2>4, <2>5
<1>14. /\ t \in Nat /\ u \in Nat /\ t + u = c + d + Paid(xt)
       /\ 5 * d + Paid(xt) <= 5 * u /\ 5 * u <= 5 * d + Paid(xt) + 8
  <2>1. Paid(xt) = paid /\ paid = fee + tip
    BY <1>8 DEF Paid
  <2>2. /\ c \in Nat /\ d \in Nat /\ fee \in Nat /\ tip \in Nat
        /\ ft \in Nat /\ fa \in Nat /\ tt \in Nat /\ ta \in Nat
        /\ ft + fa = fee /\ fee <= 5 * fa /\ 5 * fa <= fee + 4
        /\ tt + ta = tip /\ tip <= 5 * ta /\ 5 * ta <= tip + 4
    BY <1>0, <1>3, <1>8, <1>9, <1>10
  <2>3. t = c + (ft + tt) /\ u = d + (fa + ta)
    BY <1>11, <1>12
  <2>4. t \in Nat /\ u \in Nat /\ t + u = c + d + (fee + tip)
    BY <2>2, <2>3
  <2>5. 5 * d + (fee + tip) <= 5 * u /\ 5 * u <= 5 * d + (fee + tip) + 8
    BY <2>2, <2>3
  <2> QED
    BY <2>1, <2>4, <2>5
<1>15. /\ new \in Store /\ new.minting_interval = p /\ new.current_payout = q /\ new.treasury = t
       /\ new.authors = u
  BY <1>2, <1>6, <1>13, <1>14 DEF Store
<1> QED
  BY <1>1, <1>5, <1>14, <1>15 DEF Dispatching

\* on_finalize mints the payout in force if the interval in force says so.
MintedIn(state, number) ==
    IF number % state.minting_interval = 0 THEN state.current_payout ELSE 0

Finalizing(state, number, new) ==
    /\ new \in Store
    /\ new.minting_interval = state.minting_interval /\ new.current_payout = state.current_payout
    /\ new.authors = state.authors
    /\ new.treasury = state.treasury + MintedIn(new, number)
    /\ new.event = IF MintedIn(new, number) = 0 THEN <<>> ELSE <<new.treasury, number>>

LEMMA FinalizeIs ==
    ASSUME NEW state \in Store, NEW number \in Nat, NEW new, new = on_finalize(state, number)
    PROVE  Finalizing(state, number, new)
<1>1. PICK a, b, c, d, e :
          /\ a = state.minting_interval /\ b = state.current_payout /\ c = state.treasury
          /\ d = state.authors /\ e = state.event
  OBVIOUS
<1>0. a \in Nat /\ b \in Nat /\ c \in Nat /\ d \in Nat /\ e \in Seq(Nat)
  BY <1>1, InStore
<1>2. /\ a \in Nat /\ b \in Nat /\ c \in Nat /\ d \in Nat /\ e \in Seq(Nat)
      /\ state = [minting_interval |-> a, current_payout |-> b, treasury |-> c, authors |-> d, event |-> e]
  BY <1>1, InStore
<1>3. PICK m : m = number % a
  OBVIOUS
<1>4. CASE m # 0 \/ b = 0
  <2>1. new = [state EXCEPT !.event = <<>>]
    BY <1>1, <1>3, <1>4 DEF on_finalize
  <2>2. new = [minting_interval |-> a, current_payout |-> b, treasury |-> c, authors |-> d, event |-> <<>>]
    BY <1>2, <2>1
  <2>3. <<>> \in Seq(Nat)
    OBVIOUS
  <2>4. /\ new \in Store /\ new.minting_interval = a /\ new.current_payout = b /\ new.treasury = c
        /\ new.authors = d /\ new.event = <<>>
    <3>1. /\ new.minting_interval = a /\ new.current_payout = b /\ new.treasury = c
          /\ new.authors = d /\ new.event = <<>>
      BY <2>2
    <3>2. new \in Store
      BY <1>0, <2>2, <2>3 DEF Store
    <3> QED
      BY <3>1, <3>2
  <2>5. MintedIn(new, number) = 0
    BY <1>3, <1>4, <2>4 DEF MintedIn
  <2>6. c + 0 = c
    BY <1>2
  <2> QED
    BY <1>1, <2>4, <2>5, <2>6 DEF Finalizing
<1>5. CASE ~(m # 0 \/ b = 0)
  <2>1. new = [state EXCEPT !.treasury = @ + b, !.event = <<c + b, number>>]
    BY <1>1, <1>3, <1>5 DEF on_finalize
  <2>2. PICK t, v : t = c + b /\ v = <<c + b, number>>
    OBVIOUS
  <2>3. new = [minting_interval |-> a, current_payout |-> b, treasury |-> t, authors |-> d, event |-> v]
    BY <1>2, <2>1, <2>2
  <2>4. t \in Nat /\ v = <<t, number>>
    BY <1>2, <2>2
  <2>5. v \in Seq(Nat)
    BY <2>4
  <2>6. /\ new \in Store /\ new.minting_interval = a /\ new.current_payout = b /\ new.treasury = t
        /\ new.authors = d /\ new.event = v
    <3>1. /\ new.minting_interval = a /\ new.current_payout = b /\ new.treasury = t
          /\ new.authors = d /\ new.event = v
      BY <2>3
    <3>2. new \in Store
      BY <1>0, <2>3, <2>4, <2>5 DEF Store
    <3> QED
      BY <3>1, <3>2
  <2>7. MintedIn(new, number) = b /\ b # 0
    BY <1>3, <1>5, <2>6 DEF MintedIn
  <2> QED
    BY <1>1, <2>2, <2>4, <2>6, <2>7 DEF Finalizing
<1> QED
  BY <1>4, <1>5

\* The states after some of the extrinsics of a block.
Ran(it, state, s) ==
    IF s = {} THEN {state} ELSE UNION {{Dispatch(mid, xt) : mid \in it[s \ {xt}]} : xt \in s}
Running(it, state, D) == \A s \in D : it[s] = Ran(it, state, s)

RunsUpTo(body, state, n) ==
    \E it : it = [s \in Small(body, n) |-> it[s]] /\ Running(it, state, Small(body, n))

\* Only the smaller sets matter.
LEMMA RanSame ==
    ASSUME NEW it, NEW jt, NEW state, NEW s, \A xt \in s : it[s \ {xt}] = jt[s \ {xt}]
    PROVE  Ran(it, state, s) = Ran(jt, state, s)
<1>1. {{Dispatch(mid, xt) : mid \in it[s \ {xt}]} : xt \in s}
        = {{Dispatch(mid, xt) : mid \in jt[s \ {xt}]} : xt \in s}
  OBVIOUS
<1> QED
  BY <1>1 DEF Ran

LEMMA RunMore ==
    ASSUME NEW body, IsFiniteSet(body), NEW state, NEW n \in Nat, RunsUpTo(body, state, n)
    PROVE  RunsUpTo(body, state, n + 1)
<1>1. PICK it : it = [s \in Small(body, n) |-> it[s]] /\ Running(it, state, Small(body, n))
  BY DEF RunsUpTo
<1>2. PICK D, C : D = Small(body, n) /\ C = Small(body, n + 1)
  OBVIOUS
<1>3. D \in SUBSET C
  <2>1. \A s \in SUBSET body : Cardinality(s) \in Nat
    BY FS_Subset, FS_CardinalityType
  <2>2. \A k \in Nat : k <= n => k <= n + 1
    OBVIOUS
  <2> QED
    BY <1>2, <2>1, <2>2 DEF Small
<1>4. ASSUME NEW s \in C, NEW x \in s PROVE s \ {x} \in D
  <2>1. s \in SUBSET body /\ Cardinality(s) <= n + 1
    BY <1>2 DEF Small
  <2>2. /\ Cardinality(s) \in Nat /\ s \ {x} \in SUBSET body
        /\ Cardinality(s \ {x}) = Cardinality(s) - 1
    BY <2>1, SmallLess
  <2>3. Cardinality(s \ {x}) <= n
    BY <2>1, <2>2
  <2> QED
    BY <1>2, <2>2, <2>3 DEF Small
<1>5. PICK new : new = [s \in C |-> Ran(it, state, s)]
  OBVIOUS
<1>6. \A s \in D : new[s] = it[s]
  BY <1>1, <1>2, <1>3, <1>5 DEF Running
<1>7. ASSUME NEW s \in C PROVE new[s] = Ran(new, state, s)
  <2>1. \A x \in s : new[s \ {x}] = it[s \ {x}]
    BY <1>4, <1>6
  <2>2. Ran(new, state, s) = Ran(it, state, s)
    BY <2>1, RanSame
  <2> QED
    BY <1>5, <2>2
<1>8. new = [s \in C |-> new[s]]
  BY <1>5
<1> QED
  BY <1>2, <1>7, <1>8 DEF RunsUpTo, Running

LEMMA RunningExists ==
    ASSUME NEW body, IsFiniteSet(body), NEW state
    PROVE  \E it : it = [s \in SUBSET body |-> Ran(it, state, s)]
<1>1. PICK T : T = {n \in Nat : ~RunsUpTo(body, state, n)}
  OBVIOUS
<1>2. T = {}
  <2> SUFFICES ASSUME T # {} PROVE FALSE
    OBVIOUS
  <2>1. PICK n \in T : \A y \in T : n <= y
    BY <1>1, LeastNumber
  <2>2. n \in Nat /\ ~RunsUpTo(body, state, n)
    BY <1>1, <2>1
  <2>3. CASE n = 0
    <3>1. PICK D, it : D = Small(body, 0) /\ it = [s \in Small(body, 0) |-> {state}]
      OBVIOUS
    <3>2. \A s \in D : s = {}
      <4> SUFFICES ASSUME NEW s \in D PROVE s = {}
        OBVIOUS
      <4>1. s \in SUBSET body /\ Cardinality(s) <= 0
        BY <3>1 DEF Small
      <4>2. IsFiniteSet(s)
        BY <4>1, FS_Subset
      <4>3. Cardinality(s) \in Nat
        BY <4>2, FS_CardinalityType
      <4>4. Cardinality(s) = 0
        BY <4>1, <4>3
      <4> QED
        BY <4>2, <4>4, FS_EmptySet
    <3>3. it = [s \in D |-> it[s]] /\ \A s \in D : it[s] = {state}
      BY <3>1
    <3>4. Running(it, state, D)
      BY <3>2, <3>3 DEF Running, Ran
    <3> QED
      BY <2>2, <2>3, <3>1, <3>3, <3>4 DEF RunsUpTo
  <2>4. CASE n # 0
    <3>1. PICK k : k = n - 1
      OBVIOUS
    <3>2. k \in Nat /\ n = k + 1 /\ ~(n <= k)
      BY <2>2, <2>4, <3>1
    <3>3. RunsUpTo(body, state, k)
      BY <1>1, <2>1, <3>2
    <3> QED
      BY <2>2, <3>2, <3>3, RunMore
  <2> QED
    BY <2>3, <2>4
<1>3. PICK n : n = Cardinality(body) /\ n \in Nat
  BY FS_CardinalityType
<1>4. Small(body, n) = SUBSET body
  <2>1. \A s \in SUBSET body : Cardinality(s) <= n
    BY <1>3, FS_Subset
  <2> QED
    BY <2>1 DEF Small
<1>5. PICK it : it = [s \in SUBSET body |-> it[s]] /\ Running(it, state, SUBSET body)
  <2>1. RunsUpTo(body, state, n)
    BY <1>1, <1>2, <1>3
  <2>2. PICK it : it = [s \in Small(body, n) |-> it[s]] /\ Running(it, state, Small(body, n))
    BY <2>1 DEF RunsUpTo
  <2> QED
    BY <1>4, <2>2
<1>6. it = [s \in SUBSET body |-> Ran(it, state, s)]
  BY <1>5 DEF Running
<1> QED
  BY <1>6

LEMMA DispatchedIs ==
    ASSUME NEW body, IsFiniteSet(body), NEW state
    PROVE  \E it : Running(it, state, SUBSET body) /\ Dispatched(state, body) = it[body]
<1>1. PICK it : it = CHOOSE g : g = [s \in SUBSET body |-> Ran(g, state, s)]
  OBVIOUS
<1>2. it = [s \in SUBSET body |-> Ran(it, state, s)]
  BY <1>1, RunningExists
<1>3. Dispatched(state, body) = it[body]
  BY <1>1 DEF Dispatched, Ran
<1>4. Running(it, state, SUBSET body)
  BY <1>2 DEF Running
<1> QED
  BY <1>3, <1>4

\* A block without extrinsics leaves the state alone.
LEMMA DispatchedNone == \A state : Dispatched(state, {}) = {state}
<1> SUFFICES ASSUME NEW state PROVE Dispatched(state, {}) = {state}
  OBVIOUS
<1>1. IsFiniteSet({})
  BY FS_EmptySet
<1>2. PICK it : Running(it, state, SUBSET {}) /\ Dispatched(state, {}) = it[{}]
  BY <1>1, DispatchedIs
<1>3. {} \in SUBSET {}
  OBVIOUS
<1> QED
  BY <1>2, <1>3 DEF Running, Ran

\* What root sets with some extrinsics, or else what was in force before them.
SetIn(s, call, before) ==
    LET set == {xt \in s : xt.call = call /\ xt.origin = "root"}
    IN  IF set = {} THEN {before} ELSE {xt.value : xt \in set}

LEMMA SetInMore ==
    ASSUME NEW s, NEW x, x \in s, NEW call, NEW before, NEW old, NEW new,
           old \in SetIn(s \ {x}, call, before),
           new = IF x.call = call /\ x.origin = "root" THEN x.value ELSE old
    PROVE  new \in SetIn(s, call, before)
<1>1. PICK A : A = {xt \in s \ {x} : xt.call = call /\ xt.origin = "root"}
  OBVIOUS
<1>2. PICK B : B = {xt \in s : xt.call = call /\ xt.origin = "root"}
  OBVIOUS
<1>3. old \in IF A = {} THEN {before} ELSE {xt.value : xt \in A}
  BY <1>1 DEF SetIn
<1>4. SetIn(s, call, before) = IF B = {} THEN {before} ELSE {xt.value : xt \in B}
  BY <1>2 DEF SetIn
<1>5. CASE x.call = call /\ x.origin = "root"
  <2>1. x \in B /\ new = x.value
    BY <1>2, <1>5
  <2> QED
    BY <1>4, <2>1
<1>6. CASE ~(x.call = call /\ x.origin = "root")
  <2>1. A = B /\ new = old
    BY <1>1, <1>2, <1>6
  <2> QED
    BY <1>3, <1>4, <2>1
<1> QED
  BY <1>5, <1>6

\* The state after the extrinsics of s, for which paid was paid.
After(s, state, paid, new) ==
    /\ new \in Store
    /\ new.treasury + new.authors = state.treasury + state.authors + paid
    /\ 5 * state.authors + paid <= 5 * new.authors
    /\ 5 * new.authors <= 5 * state.authors + paid + 8 * Cardinality(s)
    /\ new.minting_interval \in SetIn(s, "set_minting_interval", state.minting_interval)
    /\ new.current_payout \in SetIn(s, "set_current_payout", state.current_payout)

LEMMA AfterNone ==
    ASSUME NEW state \in Store
    PROVE  After({}, state, 0, state)
<1>1. PICK c, d : c = state.treasury /\ d = state.authors
  OBVIOUS
<1>2. c \in Nat /\ d \in Nat
  BY <1>1, InStore
<1>3. c + d = c + d + 0 /\ 5 * d + 0 <= 5 * d /\ 5 * d <= 5 * d + 0 + 8 * 0
  BY <1>2
<1>4. Cardinality({}) = 0
  BY FS_EmptySet
<1>5. \A call, before : SetIn({}, call, before) = {before}
  BY DEF SetIn
<1> QED
  BY <1>1, <1>3, <1>4, <1>5 DEF After

LEMMA AfterMore ==
    ASSUME NEW s, IsFiniteSet(s), NEW x \in s, x \in Extrinsic, NEW state \in Store, NEW paid \in Int,
           NEW mid, After(s \ {x}, state, paid, mid), NEW new, Dispatching(mid, x, new)
    PROVE  After(s, state, Paid(x) + paid, new)
<1>1. PICK n, k : n = Cardinality(s) /\ k = Cardinality(s \ {x})
  OBVIOUS
<1>2. n \in Nat /\ k = n - 1
  BY <1>1, FS_CardinalityType, FS_RemoveElement
<1>3. PICK fees : fees = Paid(x) /\ fees \in Nat
  <2>1. x.fee \in Nat /\ x.tip \in Nat
    BY DEF Extrinsic
  <2>2. x.fee + x.tip \in Nat
    BY <2>1
  <2> QED
    BY <2>2 DEF Paid
<1>4. PICK c, d, cm, dm, cn, dn :
          /\ c = state.treasury /\ d = state.authors /\ cm = mid.treasury /\ dm = mid.authors
          /\ cn = new.treasury /\ dn = new.authors
  OBVIOUS
<1>5. mid \in Store /\ new \in Store
  BY DEF After, Dispatching
<1>6. c \in Nat /\ d \in Nat /\ cm \in Nat /\ dm \in Nat /\ cn \in Nat /\ dn \in Nat
  BY <1>4, <1>5, InStore
<1>7. cm + dm = c + d + paid /\ 5 * d + paid <= 5 * dm /\ 5 * dm <= 5 * d + paid + 8 * k
  BY <1>1, <1>4 DEF After
<1>8. cn + dn = cm + dm + fees /\ 5 * dm + fees <= 5 * dn /\ 5 * dn <= 5 * dm + fees + 8
  BY <1>3, <1>4 DEF Dispatching
<1>9. cn + dn = c + d + (fees + paid)
  BY <1>3, <1>6, <1>7, <1>8
<1>10. 5 * d + (fees + paid) <= 5 * dn /\ 5 * dn <= 5 * d + (fees + paid) + 8 * n
  BY <1>2, <1>3, <1>6, <1>7, <1>8
<1>11. new.minting_interval \in SetIn(s, "set_minting_interval", state.minting_interval)
  <2>1. PICK old, m : old = mid.minting_interval /\ m = new.minting_interval
    OBVIOUS
  <2>2. /\ old \in SetIn(s \ {x}, "set_minting_interval", state.minting_interval)
        /\ m = IF x.call = "set_minting_interval" /\ x.origin = "root" THEN x.value ELSE old
    BY <2>1 DEF After, Dispatching
  <2> QED
    BY <2>1, <2>2, SetInMore
<1>12. new.current_payout \in SetIn(s, "set_current_payout", state.current_payout)
  <2>1. PICK old, m : old = mid.current_payout /\ m = new.current_payout
    OBVIOUS
  <2>2. /\ old \in SetIn(s \ {x}, "set_current_payout", state.current_payout)
        /\ m = IF x.call = "set_current_payout" /\ x.origin = "root" THEN x.value ELSE old
    BY <2>1 DEF After, Dispatching
  <2> QED
    BY <2>1, <2>2, SetInMore
<1> QED
  BY <1>1, <1>3, <1>4, <1>5, <1>9, <1>10, <1>11, <1>12 DEF After

\* What was paid for the extrinsics of a block.
FeesOf(body) == SumFunctionOnSet([xt \in body |-> Paid(xt)], body)

LEMMA DispatchedAfter ==
    ASSUME NEW body \in SUBSET Extrinsic, IsFiniteSet(body), NEW state \in Store,
           NEW new \in Dispatched(state, body)
    PROVE  FeesOf(body) \in Int /\ After(body, state, FeesOf(body), new)
<1>1. PICK f : f = [xt \in body |-> Paid(xt)]
  OBVIOUS
<1>2. \A xt \in body : f[xt] = Paid(xt) /\ f[xt] \in Int
  <2> SUFFICES ASSUME NEW xt \in body PROVE f[xt] = Paid(xt) /\ f[xt] \in Int
    OBVIOUS
  <2>1. xt.fee \in Nat /\ xt.tip \in Nat
    BY DEF Extrinsic
  <2>2. xt.fee + xt.tip \in Int
    BY <2>1
  <2> QED
    BY <1>1, <2>2 DEF Paid
<1>3. \E jt \in [SUBSET body -> Int] : Summing(jt, f, SUBSET body) /\ SumFunctionOnSet(f, body) = jt[body]
  BY <1>2, SumIs
<1>4. PICK jt \in [SUBSET body -> Int] : Summing(jt, f, SUBSET body) /\ SumFunctionOnSet(f, body) = jt[body]
  BY <1>3
<1>5. ASSUME NEW part \in SUBSET body, NEW z \in part PROVE jt[part] = f[z] + jt[part \ {z}]
  <2>1. SumOver(jt, f, body)
    BY <1>2, <1>4 DEF SumOver
  <2> QED
    BY <2>1, SumPick
<1>6. PICK it : Running(it, state, SUBSET body) /\ new \in it[body]
  <2>1. PICK it : Running(it, state, SUBSET body) /\ Dispatched(state, body) = it[body]
    BY DispatchedIs
  <2> QED
    BY <2>1
<1>7. PICK T : T = {n \in Nat : \E s \in SUBSET body : \E end \in it[s] :
                                    Cardinality(s) = n /\ ~After(s, state, jt[s], end)}
  OBVIOUS
<1>8. T = {}
  <2> SUFFICES ASSUME T # {} PROVE FALSE
    OBVIOUS
  <2>0. T \in SUBSET Nat
    BY <1>7
  <2>1. PICK n \in T : \A y \in T : n <= y
    BY <2>0, LeastNumber
  <2>2. PICK s, end : s \in SUBSET body /\ end \in it[s] /\ Cardinality(s) = n /\ ~After(s, state, jt[s], end)
    BY <1>7, <2>1
  <2>3. s # {}
    <3>1. {} \in SUBSET body
      OBVIOUS
    <3>2. it[{}] = {state} /\ jt[{}] = 0
      BY <1>4, <1>6, <3>1 DEF Running, Ran, Summing
    <3>3. After({}, state, jt[{}], state)
      BY <3>2, AfterNone
    <3> QED
      BY <2>2, <3>2, <3>3
  <2>4. PICK x \in s : \E mid \in it[s \ {x}] : end = Dispatch(mid, x)
    <3>1. it[s] = Ran(it, state, s)
      BY <1>6, <2>2 DEF Running
    <3> QED
      BY <2>2, <2>3, <3>1 DEF Ran
  <2>5. /\ s \ {x} \in SUBSET body /\ Cardinality(s \ {x}) = n - 1 /\ n - 1 \in Nat /\ n \in Nat
        /\ IsFiniteSet(s)
    <3>1. s \in SUBSET body /\ x \in s /\ IsFiniteSet(body)
      BY <2>2, <2>4
    <3>2. /\ s \ {x} \in SUBSET body /\ Cardinality(s \ {x}) = Cardinality(s) - 1
          /\ Cardinality(s) - 1 \in Nat /\ Cardinality(s) \in Nat /\ IsFiniteSet(s)
      BY <3>1, SmallLess
    <3> QED
      BY <2>2, <3>2
  <2>6. PICK r, mid : r = s \ {x} /\ mid \in it[r] /\ end = Dispatch(mid, x)
    BY <2>4
  <2>7. After(r, state, jt[r], mid)
    <3>1. ~(n <= n - 1)
      BY <2>5
    <3>2. n - 1 \notin T
      BY <2>1, <3>1
    <3> QED
      BY <1>7, <2>5, <2>6, <3>2
  <2>8. jt[s] = f[x] + jt[r]
    <3>1. s \in SUBSET body /\ x \in s
      BY <2>2, <2>4
    <3>2. jt[s] = f[x] + jt[s \ {x}]
      BY <1>5, <3>1
    <3> QED
      BY <2>6, <3>2
  <2>9. x \in Extrinsic /\ f[x] = Paid(x) /\ jt[r] \in Int
    BY <1>2, <1>4, <2>2, <2>4, <2>5, <2>6
  <2>10. mid \in Store
    BY <2>7 DEF After
  <2>11. Dispatching(mid, x, end)
    BY <2>6, <2>9, <2>10, DispatchIs
  <2>12. After(s, state, Paid(x) + jt[r], end)
    <3>1. PICK paid : paid = jt[r]
      OBVIOUS
    <3>2. After(s \ {x}, state, paid, mid) /\ Dispatching(mid, x, end) /\ paid \in Int
      BY <2>6, <2>7, <2>9, <2>11, <3>1
    <3>3. After(s, state, Paid(x) + paid, end)
      BY <2>4, <2>5, <2>9, <3>2, AfterMore
    <3> QED
      BY <3>1, <3>3
  <2> QED
    BY <2>2, <2>8, <2>9, <2>12
<1>9. Cardinality(body) \in Nat /\ body \in SUBSET body
  BY FS_CardinalityType
<1>10. After(body, state, jt[body], new) /\ jt[body] \in Int
  BY <1>4, <1>6, <1>7, <1>8, <1>9
<1>11. FeesOf(body) = jt[body]
  BY <1>1, <1>4 DEF FeesOf
<1> QED
  BY <1>6, <1>10, <1>11

\* A block with respect to the state before it.
Follows(block, before) ==
    LET state == block.storage
        minted == MintedIn(state, block.number)
        paid == FeesOf(block.body)
    IN  /\ state \in Store /\ paid \in Int
        /\ state.treasury + state.authors = before.treasury + before.authors + minted + paid
        /\ 5 * before.authors + paid <= 5 * state.authors
        /\ 5 * state.authors <= 5 * before.authors + paid + 8 * Cardinality(block.body)
        /\ state.minting_interval
              \in SetIn(block.body, "set_minting_interval", before.minting_interval)
        /\ state.current_payout \in SetIn(block.body, "set_current_payout", before.current_payout)
        /\ state.event = IF minted = 0 THEN <<>> ELSE <<state.treasury, block.number>>

LEMMA BlockFollows ==
    ASSUME NEW block, NEW before \in Store, block.body \in SUBSET Extrinsic, IsFiniteSet(block.body),
           block.number \in Nat,
           Leaves(block, before)
    PROVE  Follows(block, before)
<1>1. PICK body, number, state : body = block.body /\ number = block.number /\ state = block.storage
  OBVIOUS
<1>2. PICK mid \in Dispatched(before, body) : state = on_finalize(mid, number)
  BY <1>1 DEF Leaves
<1>3. body \in SUBSET Extrinsic /\ IsFiniteSet(body) /\ number \in Nat /\ state = on_finalize(mid, number)
  BY <1>1, <1>2
<1>4. PICK paid : paid = FeesOf(body)
  OBVIOUS
<1>5. paid \in Int /\ After(body, before, paid, mid)
  BY <1>2, <1>3, <1>4, DispatchedAfter
<1>6. mid \in Store
  BY <1>5 DEF After
<1>7. Finalizing(mid, number, state)
  BY <1>3, <1>6, FinalizeIs
<1>8. PICK minted, n : minted = MintedIn(state, number) /\ n = Cardinality(body)
  OBVIOUS
<1>9. /\ state \in Store /\ state.authors = mid.authors /\ state.treasury = mid.treasury + minted
      /\ state.event = IF minted = 0 THEN <<>> ELSE <<state.treasury, number>>
      /\ state.minting_interval = mid.minting_interval /\ state.current_payout = mid.current_payout
  BY <1>7, <1>8 DEF Finalizing
<1>10. /\ mid.treasury + mid.authors = before.treasury + before.authors + paid
       /\ 5 * before.authors + paid <= 5 * mid.authors
       /\ 5 * mid.authors <= 5 * before.authors + paid + 8 * n
       /\ mid.minting_interval \in SetIn(body, "set_minting_interval", before.minting_interval)
       /\ mid.current_payout \in SetIn(body, "set_current_payout", before.current_payout)
  BY <1>5, <1>8 DEF After
<1>11. state.treasury + state.authors = before.treasury + before.authors + minted + paid
  <2>1. PICK c, d, cm, dm : /\ c = before.treasury /\ d = before.authors
                            /\ cm = mid.treasury /\ dm = mid.authors
    OBVIOUS
  <2>2. c \in Nat /\ d \in Nat /\ cm \in Nat /\ dm \in Nat
    BY <1>6, <2>1, InStore
  <2>3. minted \in Nat
    <3>1. state.current_payout \in Nat /\ 0 \in Nat
      BY <1>9, InStore
    <3> QED
      BY <1>8, <3>1 DEF MintedIn
  <2>4. cm + dm = c + d + paid
    BY <1>10, <2>1
  <2>5. (cm + minted) + dm = c + d + minted + paid
    BY <1>5, <2>2, <2>3, <2>4
  <2> QED
    BY <1>9, <2>1, <2>5
<1> QED
  BY <1>1, <1>4, <1>5, <1>8, <1>9, <1>10, <1>11 DEF Follows

-----------------------------------------------------------------------------
(***************************************************************************)
(* The state of the blocks                                                 *)
(***************************************************************************)
IncludedIn(bs, h) == UNION {bs[a].body : a \in Up(bs)[h]}

\* A block on its parent: its extrinsics are new there, and its state follows.
OnParent(bs, block) ==
    /\ block.body \in SUBSET Extrinsic /\ IsFiniteSet(block.body)
    /\ block.body \cap IncludedIn(bs, block.parent) = {}
    /\ Follows(block, bs[block.parent].storage)

ReadyInv == ready \in SUBSET Extrinsic /\ IsFiniteSet(ready)

MintInv ==
    /\ \A h \in Hashes \ {1} : OnParent(blocks, blocks[h])
    /\ task.at = "proposed" => OnParent(blocks, task.block)

LEMMA ReadyStep ==
    ASSUME EngineInv, ReadyInv, [Next]_vars
    PROVE  ReadyInv'
<1>1. CASE ready' = ready
  BY <1>1 DEF ReadyInv
<1>2. CASE \E xt \in engine.extrinsics : Submit(xt)
  <2>1. PICK xt \in engine.extrinsics : Submit(xt)
    BY <1>2
  <2>2. ready' = ready \cup {xt}
    BY <2>1 DEF Submit
  <2>3. engine.extrinsics \in SUBSET Extrinsics
    BY DEF EngineInv, Engine
  <2>4. xt \in Extrinsic
    BY <2>1, <2>3, ExtrinsicsAssumption
  <2>5. IsFiniteSet(ready \cup {xt})
    BY FS_AddElement DEF ReadyInv
  <2> QED
    BY <2>2, <2>4, <2>5 DEF ReadyInv
<1>3. CASE Maintain
  <2>1. PICK c : c = IncludedBy(best)
    OBVIOUS
  <2>2. ready' = ready \ c
    BY <1>3, <2>1 DEF Maintain
  <2>3. IsFiniteSet(ready \ c)
    BY FS_Subset DEF ReadyInv
  <2> QED
    BY <2>2, <2>3 DEF ReadyInv
<1>4. CASE \E now \in Now : Restart(now)
  <2>1. ready' = {}
    BY <1>4 DEF Restart
  <2> QED
    BY <2>1, FS_EmptySet DEF ReadyInv
<1>5. CASE UNCHANGED vars
  BY <1>1, <1>5 DEF vars
<1>6. CASE \/ \E request \in Requests : Call(request)
           \/ \E i \in DOMAIN calls : Abandon(i)
           \/ TakeCommand \/ Propose \/ ProposeFails \/ Import \/ ImportFails \/ Reply
           \/ Stop \/ Panic
           \/ \E parent \in Hashes, slots \in {1, 3} : ForeignBlock(parent, slots)
  <2>1. ready' = ready
    BY <1>6 DEF Call, Abandon, TakeCommand, Propose, ProposeFails, Import, ImportFails, Reply,
                Stop, Panic, Drop, ForeignBlock
  <2> QED
    BY <1>1, <2>1
<1> QED
  BY <1>2, <1>3, <1>4, <1>5, <1>6 DEF Next

\* Blocks that are kept stay what they are on their parents.
LEMMA OnParentKept ==
    ASSUME ChainInv, Grown, NEW block, block.parent \in Hashes, OnParent(blocks, block)
    PROVE  OnParent(blocks', block)
<1>1. PICK p : p = block.parent
  OBVIOUS
<1>2. Up(blocks')[p] = Up(blocks)[p] /\ Up(blocks)[p] \subseteq Hashes /\ p \in Hashes
  BY <1>1, GrownKeeps, ChainFacts
<1>3. \A a \in Hashes : blocks'[a] = blocks[a]
  BY DEF Grown
<1>4. IncludedIn(blocks', p) = IncludedIn(blocks, p)
  BY <1>2, <1>3 DEF IncludedIn
<1>5. blocks'[p] = blocks[p]
  BY <1>2, <1>3
<1> QED
  BY <1>1, <1>4, <1>5 DEF OnParent

LEMMA ParentsAre ==
    ASSUME ChainInv
    PROVE  \A h \in Hashes \ {1} : blocks[h].parent \in 1..(h - 1) /\ blocks[h].parent \in Hashes
<1> SUFFICES ASSUME NEW h \in Hashes \ {1}
             PROVE  blocks[h].parent \in 1..(h - 1) /\ blocks[h].parent \in Hashes
  OBVIOUS
<1>1. PICK N, p : N = Len(blocks) /\ p = blocks[h].parent
  OBVIOUS
<1>2. N \in Nat /\ Hashes = 1..N
  BY <1>1, ChainFacts
<1>3. p \in 0..(h - 1) /\ p # 0
  BY <1>1, <1>2 DEF ChainInv, Rooted
<1> QED
  BY <1>1, <1>2, <1>3

LEMMA StoresAre ==
    ASSUME ChainInv, MintInv
    PROVE  \A h \in Hashes : blocks[h].storage \in Store
<1>1. blocks[1].storage = GenesisBuild(GenesisConfig)
  BY DEF ChainInv, GenesisBlock
<1>2. GenesisConfig.minting_interval \in Nat /\ GenesisConfig.current_payout \in Nat
  BY ConfigAssumption
<1>3. blocks[1].storage \in Store
  <2>1. <<>> \in Seq(Nat) /\ 0 \in Nat
    OBVIOUS
  <2> QED
    BY <1>1, <1>2, <2>1 DEF Store, GenesisBuild, Storage
<1>4. \A h \in Hashes \ {1} : blocks[h].storage \in Store
  BY DEF MintInv, OnParent, Follows
<1> QED
  BY <1>3, <1>4

LEMMA NumbersAre ==
    ASSUME ChainInv, HeadersInv
    PROVE  \A h \in Hashes : blocks[h].number \in Nat
<1>1. blocks[1].number = 0
  BY DEF ChainInv, GenesisBlock
<1> QED
  BY <1>1 DEF HeadersInv, HeaderInv

\* A new block follows the state of its parent.
LEMMA NewFollows ==
    ASSUME ChainInv, MintInv, HeadersInv, NEW parent \in Hashes, NEW block,
           block.body \in SUBSET Extrinsic, IsFiniteSet(block.body),
           block.number = blocks[parent].number + 1,
           Leaves(block, blocks[parent].storage)
    PROVE  Follows(block, blocks[parent].storage)
<1>1. PICK before, n : before = blocks[parent].storage /\ n = blocks[parent].number
  OBVIOUS
<1>2. before \in Store /\ n \in Nat
  BY <1>1, StoresAre, NumbersAre
<1>3. block.number \in Nat
  <2>1. n + 1 \in Nat
    BY <1>2
  <2> QED
    BY <1>1, <2>1
<1> QED
  BY <1>1, <1>2, <1>3, BlockFollows

LEMMA ImportMint ==
    ASSUME ChainInv, MintInv, NEW block, ImportStep(block), OnParent(blocks, block)
    PROVE  \A h \in Hashes' \ {1} : OnParent(blocks', blocks'[h])
<1>1. /\ Grown /\ Hashes' = Hashes \cup {Len(blocks) + 1}
      /\ blocks'[Len(blocks) + 1] = block /\ block.parent \in Hashes
  BY DEF ImportStep
<1>2. OnParent(blocks', block)
  BY <1>1, OnParentKept
<1>3. ASSUME NEW h \in Hashes \ {1} PROVE OnParent(blocks', blocks'[h])
  <2>1. PICK b : b = blocks[h]
    OBVIOUS
  <2>2. b.parent \in Hashes /\ OnParent(blocks, b)
    BY <2>1, ParentsAre DEF MintInv
  <2>3. OnParent(blocks', b)
    BY <1>1, <2>2, OnParentKept
  <2>4. blocks'[h] = b
    BY <1>1, <2>1 DEF Grown
  <2> QED
    BY <2>3, <2>4
<1> QED
  BY <1>1, <1>2, <1>3

LEMMA MintStep ==
    ASSUME IInv, ReadyInv, MintInv, [Next]_vars
    PROVE  MintInv'
<1>0. ChainInv /\ ServedInv /\ HeadersInv
  BY DEF IInv, TimeInv
<1>1. ASSUME blocks' = blocks, task'.at = "proposed" => task' = task PROVE MintInv'
  <2>1. Hashes' = Hashes
    BY <1>1 DEF Hashes
  <2> QED
    BY <1>1, <2>1 DEF MintInv
<1>2. CASE QuietStep
  BY <1>1, <1>2 DEF QuietStep
<1>3. CASE \E parent \in Hashes : \E block : ProposalStep(parent, block)
  <2>1. PICK parent, block : parent \in Hashes /\ ProposalStep(parent, block)
    BY <1>3
  <2>2. /\ blocks' = blocks /\ task'.block = block /\ block.parent = parent
        /\ block.number = blocks[parent].number + 1
        /\ Leaves(block, blocks[parent].storage)
        /\ block.body = Body(parent)
    BY <2>1 DEF ProposalStep
  <2>3. IncludedBy(parent) = IncludedIn(blocks, parent)
    BY AncestorsAreUp DEF IncludedBy, IncludedIn
  <2>4. PICK c : c = IncludedIn(blocks, parent)
    OBVIOUS
  <2>5. block.body = ready \ c
    BY <2>2, <2>3, <2>4 DEF Body
  <2>6. block.body \in SUBSET Extrinsic /\ IsFiniteSet(block.body) /\ block.body \cap c = {}
    BY <2>5, FS_Subset DEF ReadyInv
  <2>7. Follows(block, blocks[parent].storage)
    BY <1>0, <2>1, <2>2, <2>6, NewFollows
  <2>8. OnParent(blocks, block)
    BY <2>2, <2>4, <2>6, <2>7 DEF OnParent
  <2>9. Hashes' = Hashes
    BY <2>2 DEF Hashes
  <2> QED
    BY <2>2, <2>8, <2>9 DEF MintInv
<1>4. CASE \E block : OwnStep(block)
  <2>1. PICK block : OwnStep(block)
    BY <1>4
  <2>2. ImportStep(block) /\ task'.at # "proposed" /\ task.at = "proposed" /\ block = task.block
    BY <2>1 DEF OwnStep
  <2>3. OnParent(blocks, block)
    BY <2>2 DEF MintInv
  <2>4. \A h \in Hashes' \ {1} : OnParent(blocks', blocks'[h])
    BY <1>0, <2>2, <2>3, ImportMint
  <2> QED
    BY <2>2, <2>4 DEF MintInv
<1>5. CASE \E parent \in Hashes, slots \in {1, 3} : \E block : ForeignStep(parent, slots, block)
  <2>1. PICK parent, slots, block : parent \in Hashes /\ ForeignStep(parent, slots, block)
    BY <1>5
  <2>2. /\ ImportStep(block) /\ task' = task /\ block.parent = parent /\ block.body = {}
        /\ block.number = blocks[parent].number + 1
        /\ block.storage = on_finalize(blocks[parent].storage, block.number)
    BY <2>1 DEF ForeignStep
  <2>3. block.body \in SUBSET Extrinsic /\ IsFiniteSet(block.body)
    BY <2>2, FS_EmptySet
  <2>4. Follows(block, blocks[parent].storage)
    <3>1. blocks[parent].storage \in Dispatched(blocks[parent].storage, block.body)
      BY <2>2, DispatchedNone
    <3>2. Leaves(block, blocks[parent].storage)
      BY <2>2, <3>1 DEF Leaves
    <3> QED
      BY <1>0, <2>1, <2>2, <2>3, <3>2, NewFollows
  <2>5. OnParent(blocks, block)
    BY <2>2, <2>3, <2>4 DEF OnParent
  <2>6. \A h \in Hashes' \ {1} : OnParent(blocks', blocks'[h])
    BY <1>0, <2>2, <2>5, ImportMint
  <2>7. task.at = "proposed" => OnParent(blocks', task.block)
    <3> SUFFICES ASSUME task.at = "proposed" PROVE OnParent(blocks', task.block)
      OBVIOUS
    <3>1. task.block.parent \in Hashes /\ OnParent(blocks, task.block)
      BY <1>0 DEF ServedInv, TaskInv, MintInv
    <3> QED
      BY <1>0, <2>2, <3>1, OnParentKept DEF ImportStep
  <2> QED
    BY <2>2, <2>6, <2>7 DEF MintInv
<1>6. CASE \E now \in Now : RestartStep(now)
  BY <1>1, <1>6 DEF RestartStep, Idle
<1> QED
  BY <1>0, <1>2, <1>3, <1>4, <1>5, <1>6, StepKinds

-----------------------------------------------------------------------------
(***************************************************************************)
(* What a chain minted and was paid                                        *)
(***************************************************************************)
MintedUp(h) == SumFunction([a \in Ancestors(h) |-> Minted(a)])
FeesUp(h) == SumFunction([a \in Ancestors(h) |-> Fees(a)])

Totals(h) ==
    LET state == blocks[h].storage
    IN  /\ IsFiniteSet(IncludedBy(h)) /\ MintedUp(h) \in Int /\ FeesUp(h) \in Int
        /\ state.treasury + state.authors = MintedUp(h) + FeesUp(h)
        /\ FeesUp(h) <= 5 * state.authors
        /\ 5 * state.authors <= FeesUp(h) + 8 * Cardinality(IncludedBy(h))

LEMMA BlockSums ==
    ASSUME ChainInv, MintInv, HeadersInv
    PROVE  /\ \A h \in Hashes : Minted(h) \in Int /\ Fees(h) \in Int
           /\ \A h \in Hashes \ {1} : /\ Minted(h) = MintedIn(blocks[h].storage, blocks[h].number)
                                      /\ Fees(h) = FeesOf(blocks[h].body)
           /\ Minted(1) = 0 /\ Fees(1) = 0 /\ blocks[1].body = {}
<1>1. ASSUME NEW h \in Hashes PROVE Fees(h) = FeesOf(blocks[h].body)
  <2>1. PICK body, f : body = blocks[h].body /\ f = [xt \in blocks[h].body |-> Paid(xt)]
    OBVIOUS
  <2>2. DOMAIN f = body
    BY <2>1
  <2>3. SumFunction(f) = SumFunctionOnSet(f, body)
    BY <2>2, SumOfFunction
  <2> QED
    BY <2>1, <2>3 DEF Fees, FeesOf
<1>2. 1 \in Hashes /\ blocks[1].body = {} /\ blocks[1].number = 0
  BY DEF ChainInv, GenesisBlock
<1>3. Fees(1) = 0
  <2>1. FeesOf({}) = 0
    BY SumEmpty DEF FeesOf
  <2> QED
    BY <1>1, <1>2, <2>1
<1>4. Minted(1) = 0
  BY <1>2 DEF Minted
<1>5. ASSUME NEW h \in Hashes \ {1}
      PROVE  /\ Minted(h) = MintedIn(blocks[h].storage, blocks[h].number)
             /\ Minted(h) \in Int /\ Fees(h) \in Int
  <2>1. blocks[h].number # 0
    BY DEF HeadersInv, HeaderInv
  <2>2. Minted(h) = MintedIn(blocks[h].storage, blocks[h].number)
    BY <2>1 DEF Minted, MintedIn
  <2>3. PICK state : state = blocks[h].storage /\ state \in Store
    BY StoresAre
  <2>4. state.current_payout \in Nat
    BY <2>3, InStore
  <2>5. Minted(h) = 0 \/ Minted(h) = state.current_payout
    BY <2>2, <2>3 DEF MintedIn
  <2>6. FeesOf(blocks[h].body) \in Int
    BY DEF MintInv, OnParent, Follows
  <2> QED
    BY <1>1, <2>2, <2>4, <2>5, <2>6
<1>6. 0 \in Int
  OBVIOUS
<1> QED
  BY <1>1, <1>2, <1>3, <1>4, <1>5, <1>6

\* One more block on a chain adds its own part to a sum.
LEMMA SumUp ==
    ASSUME NEW A, IsFiniteSet(A), NEW h, h \notin A, NEW part,
           \A a \in A \cup {h} : part[a] \in Int
    PROVE  /\ SumFunction([a \in A |-> part[a]]) \in Int
           /\ SumFunction([a \in A \cup {h} |-> part[a]])
                 = part[h] + SumFunction([a \in A |-> part[a]])
<1>1. PICK f, g, B : f = [a \in A |-> part[a]] /\ g = [a \in A \cup {h} |-> part[a]] /\ B = A \cup {h}
  OBVIOUS
<1>2. /\ \A y \in A : f[y] \in Int /\ g[y] = f[y]
      /\ g[h] = part[h] /\ g[h] \in Int /\ DOMAIN f = A /\ DOMAIN g = B
  BY <1>1
<1>3. SumFunction(f) = SumFunctionOnSet(f, A) /\ SumFunction(g) = SumFunctionOnSet(g, B)
  BY <1>2, SumOfFunction
<1>4. /\ SumFunctionOnSet(f, A) \in Int
      /\ SumFunctionOnSet(g, A \cup {h}) = g[h] + SumFunctionOnSet(f, A)
  BY <1>2, SumMore
<1> QED
  BY <1>1, <1>2, <1>3, <1>4

LEMMA AncestorsGrow ==
    ASSUME ChainInv, NEW h \in Hashes \ {1}, NEW p, p = blocks[h].parent
    PROVE  /\ p \in Hashes /\ p < h
           /\ Ancestors(h) = Ancestors(p) \cup {h} /\ h \notin Ancestors(p)
           /\ Ancestors(p) \subseteq Hashes /\ IsFiniteSet(Ancestors(p))
<1>1. PICK N : N = Len(blocks) /\ N \in Nat /\ Hashes = 1..N
  BY ChainFacts
<1>2. p \in 1..(h - 1) /\ p \in Hashes /\ h \in 1..N
  BY <1>1, ParentsAre
<1>3. p \in 0..N /\ h \in 1..N /\ p < h /\ ~(h \in 1..p) /\ 1..p \subseteq 1..N
  BY <1>1, <1>2
<1>4. Rooted(blocks)
  BY DEF ChainInv
<1>5. Up(blocks)[h] = {h} \cup Up(blocks)[p]
  BY <1>1, <1>3, <1>4, UpEquation
<1>6. Up(blocks)[p] \subseteq 1..p
  BY <1>1, <1>3, <1>4, UpEquation
<1>7. IsFiniteSet(1..p)
  <2>1. 1 \in Int /\ p \in Int
    BY <1>2
  <2> QED
    BY <2>1, FS_Interval
<1>8. IsFiniteSet(Up(blocks)[p])
  BY <1>6, <1>7, FS_Subset
<1> QED
  BY <1>1, <1>2, <1>3, <1>5, <1>6, <1>8, AncestorsAreUp

LEMMA SumsGrow ==
    ASSUME ChainInv, MintInv, HeadersInv, NEW h \in Hashes \ {1}, NEW p, p = blocks[h].parent
    PROVE  /\ MintedUp(p) \in Int /\ MintedUp(h) = Minted(h) + MintedUp(p)
           /\ FeesUp(p) \in Int /\ FeesUp(h) = Fees(h) + FeesUp(p)
<1>1. PICK A : A = Ancestors(p)
  OBVIOUS
<1>2. /\ Ancestors(h) = A \cup {h} /\ h \notin A /\ A \cup {h} \subseteq Hashes /\ IsFiniteSet(A)
  BY <1>1, AncestorsGrow
<1>3. MintedUp(p) \in Int /\ MintedUp(h) = Minted(h) + MintedUp(p)
  <2>1. PICK v : v = [a \in Hashes |-> Minted(a)]
    OBVIOUS
  <2>2. \A a \in A \cup {h} : v[a] = Minted(a) /\ v[a] \in Int
    BY <1>2, <2>1, BlockSums
  <2>3. /\ SumFunction([a \in A |-> v[a]]) \in Int
        /\ SumFunction([a \in A \cup {h} |-> v[a]]) = v[h] + SumFunction([a \in A |-> v[a]])
    BY <1>2, <2>2, SumUp
  <2>4. [a \in A |-> v[a]] = [a \in A |-> Minted(a)]
    BY <2>2
  <2>5. [a \in A \cup {h} |-> v[a]] = [a \in A \cup {h} |-> Minted(a)]
    BY <2>2
  <2>6. MintedUp(p) = SumFunction([a \in A |-> v[a]])
    BY <1>1, <2>4 DEF MintedUp
  <2>7. MintedUp(h) = SumFunction([a \in A \cup {h} |-> v[a]])
    BY <1>2, <2>5 DEF MintedUp
  <2> QED
    BY <2>2, <2>3, <2>6, <2>7
<1>4. FeesUp(p) \in Int /\ FeesUp(h) = Fees(h) + FeesUp(p)
  <2>1. PICK v : v = [a \in Hashes |-> Fees(a)]
    OBVIOUS
  <2>2. \A a \in A \cup {h} : v[a] = Fees(a) /\ v[a] \in Int
    BY <1>2, <2>1, BlockSums
  <2>3. /\ SumFunction([a \in A |-> v[a]]) \in Int
        /\ SumFunction([a \in A \cup {h} |-> v[a]]) = v[h] + SumFunction([a \in A |-> v[a]])
    BY <1>2, <2>2, SumUp
  <2>4. [a \in A |-> v[a]] = [a \in A |-> Fees(a)]
    BY <2>2
  <2>5. [a \in A \cup {h} |-> v[a]] = [a \in A \cup {h} |-> Fees(a)]
    BY <2>2
  <2>6. FeesUp(p) = SumFunction([a \in A |-> v[a]])
    BY <1>1, <2>4 DEF FeesUp
  <2>7. FeesUp(h) = SumFunction([a \in A \cup {h} |-> v[a]])
    BY <1>2, <2>5 DEF FeesUp
  <2> QED
    BY <2>2, <2>3, <2>6, <2>7
<1> QED
  BY <1>3, <1>4

LEMMA IncludedGrow ==
    ASSUME ChainInv, MintInv, NEW h \in Hashes \ {1}, NEW p, p = blocks[h].parent,
           IsFiniteSet(IncludedBy(p))
    PROVE  /\ IsFiniteSet(IncludedBy(h))
           /\ Cardinality(IncludedBy(h)) = Cardinality(blocks[h].body) + Cardinality(IncludedBy(p))
           /\ Cardinality(IncludedBy(p)) \in Nat /\ Cardinality(blocks[h].body) \in Nat
<1>1. PICK A, body : A = Ancestors(p) /\ body = blocks[h].body
  OBVIOUS
<1>2. Ancestors(h) = A \cup {h}
  BY <1>1, AncestorsGrow
<1>3. PICK I, J : I = IncludedBy(p) /\ J = IncludedBy(h)
  OBVIOUS
<1>4. J = body \cup I
  <2>1. I = UNION {blocks[a].body : a \in A} /\ J = UNION {blocks[a].body : a \in A \cup {h}}
    BY <1>1, <1>2, <1>3 DEF IncludedBy
  <2> QED
    BY <1>1, <2>1
<1>5. IncludedIn(blocks, p) = I
  BY <1>3, AncestorsAreUp DEF IncludedBy, IncludedIn
<1>6. IsFiniteSet(body) /\ body \cap I = {} /\ IsFiniteSet(I)
  BY <1>1, <1>3, <1>5 DEF MintInv, OnParent
<1>7. /\ IsFiniteSet(body \cup I)
      /\ Cardinality(body \cup I)
            = Cardinality(body) + Cardinality(I) - Cardinality(body \cap I)
  BY <1>6, FS_Union
<1>8. Cardinality(body \cap I) = 0
  BY <1>6, FS_EmptySet
<1>9. Cardinality(body) \in Nat /\ Cardinality(I) \in Nat
  BY <1>6, FS_CardinalityType
<1>10. Cardinality(body \cup I) = Cardinality(body) + Cardinality(I)
  BY <1>7, <1>8, <1>9
<1> QED
  BY <1>1, <1>3, <1>4, <1>7, <1>9, <1>10

LEMMA TotalsFirst ==
    ASSUME ChainInv, MintInv, HeadersInv
    PROVE  Totals(1)
<1>1. PICK N : N = Len(blocks) /\ N \in Nat /\ Hashes = 1..N
  BY ChainFacts
<1>2. 1 \in Hashes /\ blocks[1] = GenesisBlock /\ blocks[1].parent = 0 /\ Rooted(blocks)
  BY DEF ChainInv, GenesisBlock, None
<1>3. Ancestors(1) = {1}
  <2>1. 0 \in 0..N /\ 1 \in 1..N
    BY <1>1, <1>2
  <2>2. Up(blocks)[1] = {1} \cup Up(blocks)[0] /\ Up(blocks)[0] = {}
    BY <1>1, <1>2, <2>1, UpEquation
  <2> QED
    BY <2>2, AncestorsAreUp
<1>4. Minted(1) = 0 /\ Fees(1) = 0 /\ blocks[1].body = {}
  BY BlockSums
<1>5. IncludedBy(1) = {} /\ IsFiniteSet({}) /\ Cardinality({}) = 0
  BY <1>3, <1>4, FS_EmptySet DEF IncludedBy
<1>6. PICK v : v = [a \in {1} |-> 0]
  OBVIOUS
<1>7. SumFunction(v) = 0
  <2>1. PICK S, x : S = {} /\ x = 1
    OBVIOUS
  <2>2. IsFiniteSet(S) /\ x \notin S /\ S \cup {x} = {1} /\ v[x] = 0 /\ DOMAIN v = {1}
    BY <1>5, <1>6, <2>1
  <2>3. SumFunctionOnSet(v, S) = 0
    BY <2>1, SumEmpty
  <2>4. \A y \in S : v[y] \in Int /\ v[y] = v[y]
    BY <2>1
  <2>5. v[x] \in Int
    BY <2>2
  <2>6. SumFunctionOnSet(v, S \cup {x}) = v[x] + SumFunctionOnSet(v, S)
    BY <2>2, <2>4, <2>5, SumMore
  <2>7. SumFunctionOnSet(v, {1}) = 0
    BY <2>2, <2>3, <2>6
  <2> QED
    BY <2>2, <2>7, SumOfFunction
<1>8. MintedUp(1) = 0 /\ FeesUp(1) = 0
  <2>1. v = [a \in {1} |-> Minted(a)] /\ v = [a \in {1} |-> Fees(a)]
    BY <1>4, <1>6
  <2> QED
    BY <1>3, <1>7, <2>1 DEF MintedUp, FeesUp
<1>9. blocks[1].storage.treasury = 0 /\ blocks[1].storage.authors = 0
  BY <1>2 DEF GenesisBlock, GenesisBuild, Storage
<1>10. PICK c, d, M, F, n :
          /\ c = blocks[1].storage.treasury /\ d = blocks[1].storage.authors
          /\ M = MintedUp(1) /\ F = FeesUp(1) /\ n = Cardinality(IncludedBy(1))
  OBVIOUS
<1>11. c = 0 /\ d = 0 /\ M = 0 /\ F = 0 /\ n = 0
  BY <1>5, <1>8, <1>9, <1>10
<1>12. M \in Int /\ F \in Int /\ c + d = M + F /\ F <= 5 * d /\ 5 * d <= F + 8 * n
  BY <1>11
<1>13. IsFiniteSet(IncludedBy(1))
  BY <1>5
<1> QED
  BY <1>10, <1>12, <1>13 DEF Totals

LEMMA TotalsNext ==
    ASSUME ChainInv, MintInv, HeadersInv, NEW h \in Hashes \ {1}, Totals(blocks[h].parent)
    PROVE  Totals(h)
<1>1. PICK p : p = blocks[h].parent
  OBVIOUS
<1>2. p \in Hashes
  BY <1>1, ParentsAre
<1>3. PICK state, before : state = blocks[h].storage /\ before = blocks[p].storage
  OBVIOUS
<1>4. state \in Store /\ before \in Store
  BY <1>2, <1>3, StoresAre
<1>5. PICK c, d, cb, db : /\ c = state.treasury /\ d = state.authors
                          /\ cb = before.treasury /\ db = before.authors
  OBVIOUS
<1>6. c \in Nat /\ d \in Nat /\ cb \in Nat /\ db \in Nat
  BY <1>4, <1>5, InStore
<1>7. PICK m, f, M, F, k, n, j :
          /\ m = Minted(h) /\ f = Fees(h) /\ M = MintedUp(p) /\ F = FeesUp(p)
          /\ k = Cardinality(blocks[h].body) /\ n = Cardinality(IncludedBy(p))
          /\ j = Cardinality(IncludedBy(h))
  OBVIOUS
<1>8. /\ m = MintedIn(state, blocks[h].number) /\ f = FeesOf(blocks[h].body)
      /\ m \in Int /\ f \in Int
  BY <1>3, <1>7, BlockSums
<1>9. /\ c + d = cb + db + m + f /\ 5 * db + f <= 5 * d /\ 5 * d <= 5 * db + f + 8 * k
  <2>1. Follows(blocks[h], before)
    BY <1>1, <1>3 DEF MintInv, OnParent
  <2> QED
    BY <1>3, <1>5, <1>7, <1>8, <2>1 DEF Follows
<1>10. /\ M \in Int /\ F \in Int /\ MintedUp(h) = m + M /\ FeesUp(h) = f + F
  BY <1>1, <1>7, SumsGrow
<1>11. IsFiniteSet(IncludedBy(p)) /\ cb + db = M + F /\ F <= 5 * db /\ 5 * db <= F + 8 * n
  BY <1>1, <1>3, <1>5, <1>7 DEF Totals
<1>12. IsFiniteSet(IncludedBy(h)) /\ j = k + n /\ k \in Nat /\ n \in Nat
  BY <1>1, <1>7, <1>11, IncludedGrow
<1>13. /\ m + M \in Int /\ f + F \in Int /\ c + d = (m + M) + (f + F)
  BY <1>6, <1>8, <1>9, <1>10, <1>11
<1>14. f + F <= 5 * d /\ 5 * d <= (f + F) + 8 * j
  BY <1>6, <1>8, <1>9, <1>10, <1>11, <1>12
<1> QED
  BY <1>3, <1>5, <1>7, <1>10, <1>12, <1>13, <1>14 DEF Totals

LEMMA TotalsHold ==
    ASSUME ChainInv, MintInv, HeadersInv
    PROVE  \A h \in Hashes : Totals(h)
<1>1. PICK N : N = Len(blocks) /\ N \in Nat /\ Hashes = 1..N
  BY ChainFacts
<1>2. PICK T : T = {h \in Nat : h \in 1..N /\ ~Totals(h)}
  OBVIOUS
<1>3. T \in SUBSET Nat
  BY <1>2
<1>4. T = {}
  <2> SUFFICES ASSUME T # {} PROVE FALSE
    OBVIOUS
  <2>1. PICK h \in T : \A y \in T : h <= y
    BY <1>3, LeastNumber
  <2>2. h \in Nat /\ h \in Hashes /\ ~Totals(h)
    BY <1>1, <1>2, <2>1
  <2>3. h # 1
    BY <2>2, TotalsFirst
  <2>4. PICK p : p = blocks[h].parent
    OBVIOUS
  <2>5. p \in Hashes /\ p < h
    BY <2>2, <2>3, <2>4, AncestorsGrow
  <2>6. p \in Nat /\ ~(h <= p)
    BY <1>1, <2>2, <2>5
  <2>7. Totals(p)
    BY <1>1, <1>2, <2>1, <2>5, <2>6
  <2> QED
    BY <2>2, <2>3, <2>4, <2>7, TotalsNext
<1> QED
  BY <1>1, <1>2, <1>4

-----------------------------------------------------------------------------
(***************************************************************************)
(* Theorems                                                                *)
(***************************************************************************)
LEMMA InitChain ==
    ASSUME Init
    PROVE  ChainInv /\ Hashes = {1} /\ Up(blocks)[1] = {1}
<1>1. PICK g : g = GenesisBlock
  OBVIOUS
<1>2. blocks = <<g>> /\ best = 1 /\ finalized = 1
  BY <1>1 DEF Init
<1>3. /\ Len(blocks) = 1 /\ blocks[1] = g /\ DOMAIN blocks = {1} /\ 1..1 = {1}
      /\ blocks = [h \in 1..Len(blocks) |-> blocks[h]]
  BY <1>2
<1>4. g.parent = 0
  BY <1>1 DEF GenesisBlock, None
<1>5. Rooted(blocks)
  BY <1>3, <1>4 DEF Rooted
<1>6. Up(blocks)[1] = {1}
  <2>1. 1 \in 1..Len(blocks) /\ blocks[1].parent = 0
    BY <1>3, <1>4
  <2> QED
    BY <1>5, <2>1, UpEquation
<1>7. Hashes = {1}
  BY <1>3 DEF Hashes
<1> QED
  BY <1>1, <1>2, <1>3, <1>5, <1>6, <1>7 DEF ChainInv

LEMMA InitServed ==
    ASSUME Init
    PROVE  ServedInv /\ EmptyInv
<1>1. /\ calls = <<>> /\ commands = <<>> /\ task = Idle
      /\ Hashes = {1} /\ blocks[1] = GenesisBlock
  BY InitChain DEF Init, ChainInv
<1>2. task.at = "idle" /\ blocks[1].by = 0
  BY <1>1 DEF Idle, GenesisBlock
<1>3. DOMAIN calls = {} /\ DOMAIN commands = {} /\ commands \in Seq(Nat)
  BY <1>1
<1>4. Len(calls) = 0 /\ calls = [i \in 1..Len(calls) |-> calls[i]]
  BY <1>1
<1>5. CommandsInv
  <2>1. CallsAre(calls)
    BY <1>3, <1>4 DEF CallsAre
  <2> QED
    BY <1>3, <2>1 DEF CommandsInv
<1>6. MadeInv
  BY <1>1, <1>2, <1>3 DEF MadeInv, Making
<1>7. TaskInv /\ AnswersInv
  BY <1>2, <1>3 DEF TaskInv, AnswersInv, Busy, Making
<1>8. EmptyInv
  BY <1>1, <1>2 DEF EmptyInv, Own
<1> QED
  BY <1>5, <1>6, <1>7, <1>8 DEF ServedInv

LEMMA InitTime ==
    ASSUME Init
    PROVE  TimeInv
<1>1. /\ Hashes = {1} /\ Up(blocks)[1] = {1} /\ blocks[1] = GenesisBlock
  BY InitChain DEF ChainInv
<1>2. task.at = "idle" /\ blocks[1].slot = 0
  BY <1>1 DEF Init, Idle, GenesisBlock
<1>3. time \in Nat /\ SlotDuration <= time
  BY NowAssumption DEF Init
<1>4. started.time = time /\ started.best = 1 /\ started.len = 1
  BY DEF Init
<1>5. HeadersInv /\ ClockInv
  BY <1>1, <1>2, <1>3, <1>4 DEF HeadersInv, ClockInv
<1>6. Recent = {} /\ ChainSlots /\ ProposalSlots
  BY <1>1, <1>2 DEF Recent, Own, ChainSlots, ProposalSlots
<1>7. RecentSlots
  BY <1>6 DEF RecentSlots
<1>8. StartSlots
  <2>1. 0 + SlotDuration <= time
    BY <1>3, DurationAssumption
  <2>2. Slot(0) < Slot(time) /\ Slot(0) \in Nat /\ Slot(time) \in Nat
    BY <1>3, <2>1, SlotApart, SlotAdd
  <2> QED
    BY <1>1, <1>2, <1>4, <2>2 DEF StartSlots
<1> QED
  BY <1>5, <1>6, <1>7, <1>8 DEF TimeInv, SlotsInv

\* The invariant holds of every reachable state.
LEMMA Inductive == Spec => []IInv
<1>1. Init => IInv
  <2>1. Init => EngineInv
    BY EnginesAssumption DEF Init, EngineInv
  <2> QED
    BY <2>1, InitChain, InitServed, InitTime DEF IInv
<1>2. IInv /\ [Next]_vars => IInv'
  <2> SUFFICES ASSUME IInv, [Next]_vars PROVE IInv'
    OBVIOUS
  <2>1. EngineInv /\ ChainInv /\ ServedInv /\ EmptyInv /\ TimeInv
    BY DEF IInv
  <2>2. EngineInv'
    BY <2>1, StepKinds DEF EngineInv, Engine
  <2> QED
    BY <2>1, <2>2, ServedStep, EmptyStep, TimeStep DEF IInv
<1> QED
  BY <1>1, <1>2, PTL DEF Spec

\* What create_block and finalize_block are told is true, and stays so: for any
\* number of calls, forks, failures and restarts, a block that a call was told of
\* is the only one it made, on the parent it asked for; an error of seal_block
\* means that it made none; and a block it finalized stays on the finalized and
\* on the best chain.
THEOREM AnswersCorrect == Spec => []AnswersAreTrue
<1>1. IInv => AnswersAreTrue
  <2> SUFFICES ASSUME IInv PROVE AnswersAreTrue
    OBVIOUS
  <2>1. ChainInv /\ AnswersInv
    BY DEF IInv, ServedInv
  <2>2. Up(blocks)[finalized] \subseteq Up(blocks)[best]
    BY <2>1, ChainFacts DEF ChainInv
  <2>3. ASSUME NEW i \in DOMAIN calls, calls[i].phase = "answered"
        PROVE  /\ ~calls[i].answer.ok /\ ToCode(calls[i].answer.error) # 10000 => Made(i) = {}
               /\ calls[i].answer.ok /\ calls[i].request.finalize =>
                     calls[i].answer.hash \in Ancestors(finalized) \cap Ancestors(best)
               /\ calls[i].answer.ok /\ calls[i].request.command = "SealNewBlock" =>
                     /\ Made(i) = {calls[i].answer.hash}
                     /\ calls[i].request.hash \in {None, blocks[calls[i].answer.hash].parent}
    <3>1. TrueAnswer(i, calls[i].answer)
      BY <2>1, <2>3 DEF AnswersInv
    <3> QED
      BY <2>2, <3>1, AncestorsAreUp DEF TrueAnswer
  <2> QED
    BY <2>3 DEF AnswersAreTrue, Made
<1> QED
  BY <1>1, Inductive, PTL

\* The second look at the proposal keeps seal_block from making an empty block
\* that nobody asked for, however the pool changes between the two looks.
THEOREM EmptyCorrect == Spec => []EmptyOnlyIfAsked
<1>1. IInv => EmptyOnlyIfAsked
  BY DEF IInv, EmptyInv, EmptyOnlyIfAsked, AskedFor
<1> QED
  BY <1>1, Inductive, PTL

\* Two blocks of the node share a slot only if the older one was left behind on a
\* fork at a restart: for every slot duration and clock, and however often seals
\* failed and the node was restarted (SlotTimestampProvider).
THEOREM SlotsCorrect == Spec => []SlotsDoNotCollide
<1>1. IInv => SlotsDoNotCollide
  <2> SUFFICES ASSUME IInv, engine.provider # "none", NEW new \in Recent,
                      NEW old \in Own \ {new}, blocks[new].slot = blocks[old].slot
               PROVE  old <= started.len /\ old \notin Up(blocks)[started.best]
    BY AncestorsAreUp DEF SlotsDoNotCollide
  <2>1. /\ ChainInv /\ HeadersInv /\ ClockInv /\ StartSlots /\ RecentSlots
    BY DEF IInv, TimeInv, SlotsInv
  <2>2. PICK N : N \in Nat /\ Hashes = 1..N
    BY <2>1, ChainFacts
  <2>3. /\ new \in 1..N /\ old \in 1..N /\ new # old /\ started.len \in 1..N
    BY <2>1, <2>2 DEF Recent, Own, ClockInv
  <2>4. PICK a, b : /\ a = blocks[old].timestamp /\ b = blocks[new].timestamp
                    /\ a \in Nat /\ b \in Nat
                    /\ blocks[old].slot = Slot(a) /\ blocks[new].slot = Slot(b)
    BY <2>1, <2>2, <2>3, BlockTimes
  <2>5. Slot(a) = Slot(b) /\ Slot(a) \in Nat
    BY <2>4, SlotAdd
  <2>6. ~(a + SlotDuration <= b) /\ ~(b + SlotDuration <= a)
    <3>1. ~(Slot(a) < Slot(b)) /\ ~(Slot(b) < Slot(a))
      BY <2>5
    <3> QED
      BY <2>4, <3>1, SlotApart
  <2>7. old <= started.len
    <3>1. SUFFICES ASSUME old > started.len PROVE FALSE
      BY <2>2, <2>3
    <3>2. old \in Recent
      BY <3>1 DEF Recent
    <3>3. old < new \/ new < old
      BY <2>2, <2>3
    <3> QED
      BY <2>1, <2>4, <2>6, <3>2, <3>3 DEF RecentSlots
  <2>8. old \notin Up(blocks)[started.best]
    <3>1. SUFFICES ASSUME old \in Up(blocks)[started.best] PROVE FALSE
      OBVIOUS
    <3>2. Slot(a) < Slot(started.time)
      BY <2>1, <2>4, <3>1 DEF StartSlots
    <3>3. started.time \in Nat /\ started.time <= b
      BY <2>1, <2>4 DEF RecentSlots, ClockInv
    <3>4. Slot(started.time) <= Slot(b) /\ Slot(started.time) \in Nat
      BY <2>4, <3>3, SlotMonotone, SlotAdd
    <3> QED
      BY <2>5, <3>2, <3>4
  <2> QED
    BY <2>7, <2>8
<1> QED
  BY <1>1, Inductive, PTL

\* The time is always ahead of a best chain that the node started with or sealed:
\* the next proposal never has an old slot, and the runtime accepts its timestamp.
THEOREM SealableCorrect == Spec => []BestIsSealable
<1>1. IInv => BestIsSealable
  <2> SUFFICES ASSUME IInv, engine.provider # "none",
                      best \in Up(blocks)[started.best] \cup Recent
               PROVE  /\ Slot(time) > blocks[best].slot
                      /\ time # started.time => Fits(blocks[best], time)
    BY AncestorsAreUp DEF BestIsSealable
  <2>1. /\ ChainInv /\ HeadersInv /\ ClockInv /\ StartSlots /\ RecentSlots
    BY DEF IInv, TimeInv, SlotsInv
  <2>2. PICK t, u, d, m : /\ t = time /\ u = started.time /\ d = SlotDuration /\ m = MinimumPeriod
                          /\ t \in Nat /\ u \in Nat /\ d \in Nat /\ m \in Nat /\ m <= d
                          /\ (t = u \/ u + d <= t)
    BY <2>1, DurationAssumption DEF ClockInv, MinimumPeriod
  <2>3. PICK b : b = blocks[best].timestamp /\ b \in Nat /\ blocks[best].slot = Slot(b)
    BY <2>1, BlockTimes DEF ChainInv
  <2>4. Slot(b) \in Nat /\ Slot(t) \in Nat /\ Slot(u) \in Nat
    BY <2>2, <2>3, SlotAdd
  <2>5. Slot(b) < Slot(t) /\ (t # u => b + m <= t)
    <3>1. CASE best \in Up(blocks)[started.best]
      <4>1. Slot(b) < Slot(u)
        BY <2>1, <2>2, <2>3, <3>1 DEF StartSlots
      <4>2. u <= t /\ Slot(u) <= Slot(t)
        BY <2>2, SlotMonotone
      <4>3. b < u
        <5>1. SUFFICES ASSUME u <= b PROVE FALSE
          BY <2>2, <2>3
        <5>2. Slot(u) <= Slot(b)
          BY <2>2, <2>3, <5>1, SlotMonotone
        <5> QED
          BY <2>4, <4>1, <5>2
      <4>4. t # u => b + m <= t
        BY <2>2, <2>3, <4>3
      <4> QED
        BY <2>4, <4>1, <4>2, <4>4
    <3>2. CASE best \in Recent
      <4>1. b + d <= t
        BY <2>1, <2>2, <2>3, <3>2 DEF RecentSlots
      <4>2. b + m <= t
        BY <2>2, <2>3, <4>1
      <4>3. Slot(b) < Slot(t)
        BY <2>2, <2>3, <4>1, SlotApart
      <4> QED
        BY <4>2, <4>3
    <3> QED
      BY <3>1, <3>2
  <2>6. Slot(time) > blocks[best].slot
    BY <2>2, <2>3, <2>4, <2>5
  <2>7. time # started.time => time >= blocks[best].timestamp + MinimumPeriod
    BY <2>2, <2>3, <2>5
  <2> QED
    BY <2>6, <2>7 DEF Fits
<1> QED
  BY <1>1, Inductive, PTL

\* The state of the blocks holds in every reachable state.
LEMMA MintInductive == Spec => [](IInv /\ ReadyInv /\ MintInv)
<1>1. Init => ReadyInv /\ MintInv
  <2> SUFFICES ASSUME Init PROVE ReadyInv /\ MintInv
    OBVIOUS
  <2>1. ready = {} /\ task = Idle /\ Hashes = {1}
    BY InitChain DEF Init
  <2>2. task.at = "idle"
    BY <2>1 DEF Idle
  <2> QED
    BY <2>1, <2>2, FS_EmptySet DEF ReadyInv, MintInv
<1>2. IInv /\ ReadyInv /\ MintInv /\ [Next]_vars => ReadyInv' /\ MintInv'
  BY ReadyStep, MintStep DEF IInv
<1> QED
  BY <1>1, <1>2, Inductive, PTL DEF Spec

LEMMA RoundedDown ==
    ASSUME NEW F \in Int, NEW d \in Nat, NEW n \in Nat, F <= 5 * d, 5 * d <= F + 8 * n
    PROVE  d - F \div 5 \in 0..(2 * n)
<1>1. PICK q : q = F \div 5
  OBVIOUS
<1>2. q \in Int /\ 5 * q <= F /\ F < 5 * q + 5
  BY <1>1
<1>3. q <= d /\ d - q <= 2 * n
  BY <1>2
<1> QED
  BY <1>1, <1>2, <1>3

\* The accounts of edge-treasury-reward and of DealWithFees, on every fork, with any
\* extrinsics, blocks of any numbers and any payouts, intervals and fees: the interval
\* and the payout of a block are the ones root set in it or its parent left behind;
\* the treasury and the authors of the blocks together hold exactly what on_finalize
\* minted along the chain, each block with its own interval and payout, and what was
\* paid for the extrinsics on it; the authors have a fifth of the latter, with at most
\* two units of rounding for every extrinsic, one for its fee and one for its tip,
\* whatever the order in which a block has them; and TreasuryMinting tells the balance.
THEOREM TreasuryCorrect == Spec => []TreasuryIsMinted
<1>1. IInv /\ MintInv => TreasuryIsMinted
  <2> SUFFICES ASSUME IInv, MintInv, NEW h \in Hashes
               PROVE  LET state == blocks[h].storage
                          before == IF h = 1 THEN GenesisBuild(GenesisConfig)
                                    ELSE blocks[blocks[h].parent].storage
                      IN  /\ state.minting_interval
                                \in InForce(h, "set_minting_interval", before.minting_interval)
                          /\ state.current_payout
                                \in InForce(h, "set_current_payout", before.current_payout)
                          /\ state.treasury + state.authors = MintedUp(h) + FeesUp(h)
                          /\ state.authors - FeesUp(h) \div 5 \in 0..(2 * Cardinality(IncludedBy(h)))
                          /\ state.event = IF Minted(h) = 0 THEN <<>>
                                           ELSE <<state.treasury, blocks[h].number>>
    BY DEF TreasuryIsMinted, MintedUp, FeesUp
  <2>1. ChainInv /\ HeadersInv
    BY DEF IInv, TimeInv
  <2>2. PICK state : state = blocks[h].storage
    OBVIOUS
  <2>3. PICK before : before = IF h = 1 THEN GenesisBuild(GenesisConfig)
                               ELSE blocks[blocks[h].parent].storage
    OBVIOUS
  <2>4. Totals(h) /\ state \in Store
    BY <2>1, <2>2, TotalsHold, StoresAre
  <2>5. state.treasury + state.authors = MintedUp(h) + FeesUp(h)
    BY <2>2, <2>4 DEF Totals
  <2>6. state.authors - FeesUp(h) \div 5 \in 0..(2 * Cardinality(IncludedBy(h)))
    <3>1. PICK F, d, n : F = FeesUp(h) /\ d = state.authors /\ n = Cardinality(IncludedBy(h))
      OBVIOUS
    <3>2. F \in Int /\ IsFiniteSet(IncludedBy(h)) /\ F <= 5 * d /\ 5 * d <= F + 8 * n
      BY <2>2, <2>4, <3>1 DEF Totals
    <3>3. d \in Nat /\ n \in Nat
      BY <2>4, <3>1, <3>2, InStore, FS_CardinalityType
    <3>4. d - F \div 5 \in 0..(2 * n)
      BY <3>2, <3>3, RoundedDown
    <3> QED
      BY <3>1, <3>4
  <2>7. \A call, old : InForce(h, call, old) = SetIn(blocks[h].body, call, old)
    BY DEF InForce, SetIn
  <2>8. CASE h = 1
    <3>1. blocks[1].storage = GenesisBuild(GenesisConfig) /\ Minted(1) = 0 /\ blocks[1].body = {}
      BY <2>1, BlockSums DEF ChainInv, GenesisBlock
    <3>2. \A call, old : SetIn({}, call, old) = {old}
      BY DEF SetIn
    <3>3. state = before /\ state = GenesisBuild(GenesisConfig)
      BY <2>2, <2>3, <2>8, <3>1
    <3>4. state.event = <<>>
      BY <3>3 DEF GenesisBuild, Storage
    <3>5. /\ state.minting_interval \in InForce(h, "set_minting_interval", before.minting_interval)
          /\ state.current_payout \in InForce(h, "set_current_payout", before.current_payout)
      BY <2>7, <2>8, <3>1, <3>2, <3>3
    <3> QED
      BY <2>2, <2>3, <2>5, <2>6, <2>8, <3>1, <3>4, <3>5
  <2>9. CASE h # 1
    <3>1. PICK b : b = blocks[h]
      OBVIOUS
    <3>2. Follows(b, before)
      BY <2>3, <2>9, <3>1 DEF MintInv, OnParent
    <3>3. Minted(h) = MintedIn(state, b.number)
      BY <2>1, <2>2, <2>9, <3>1, BlockSums
    <3>4. b.storage = state
      BY <2>2, <3>1
    <3>5. /\ state.minting_interval \in SetIn(b.body, "set_minting_interval", before.minting_interval)
          /\ state.current_payout \in SetIn(b.body, "set_current_payout", before.current_payout)
          /\ state.event = IF Minted(h) = 0 THEN <<>> ELSE <<state.treasury, b.number>>
      BY <3>2, <3>3, <3>4 DEF Follows
    <3> QED
      BY <2>2, <2>3, <2>5, <2>6, <2>7, <3>1, <3>5
  <2> QED
    BY <2>8, <2>9
<1> QED
  BY <1>1, MintInductive, PTL
=============================================================================
