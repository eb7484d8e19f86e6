----------------------------- MODULE AuraProofs -----------------------------
(***************************************************************************)
(* Proofs about Aura, for any nodes, authority sets, lengths of the chain  *)
(* and drift of the clocks, and any order in which blocks are delivered.   *)
(***************************************************************************)
EXTENDS Aura, SequenceTheorems, TLAPS

-----------------------------------------------------------------------------
(***************************************************************************)
(* What is known of a sealed block, from the block itself: who made it on  *)
(* which head for which slot, and that the seal is by the author whom its  *)
(* maker fetched for that slot. It holds for every block on the wire.      *)
(***************************************************************************)
Head1(h) == h.parent[1]
By(h) == Last(h.logs).by

\* The author that node n expects.
Expected(n, h) == slot_author(h.timestamp, Authorities(Head1(h), h.number, Until(n)))

SealedHeader(m, head, slot, author) ==
    Pushed(Proposed(m, head, slot), Seal(author, Proposed(m, head, slot)))

Sealed(h) ==
    /\ h.maker[1] \in Nodes
    /\ h.timestamp \in Nat
    /\ Head1(h).number \in Nat
    /\ h.number \in 1..MaxNumber
    /\ h = SealedHeader(h.maker[1], Head1(h), h.timestamp, By(h))

NodesInv ==
    /\ clock \in [Nodes -> Nat]
    /\ imported = [n \in Nodes |-> imported[n]]
    /\ best = [n \in Nodes |-> best[n]]
    /\ seen = [n \in Nodes |-> seen[n]]
    /\ equivocations = [n \in Nodes |-> equivocations[n]]
    /\ \A n \in Nodes : best[n] \in Known(n)

BlocksInv ==
    /\ \A h \in wire : Sealed(h)
    /\ FaultyIsRefused

\* Every node expects the author of each block that it has, built or verified.
ExpectedInv == \A n \in Nodes : \A h \in Known(n) \ {Genesis} : Expected(n, h) = <<By(h)>>

\* A header is in the store of node n, or reported with the stored one.
Covered(n, slot, header, signer) ==
    \E s \in seen[n] :
        /\ s.slot = slot /\ s.signer = signer
        /\ \/ s.header = header
           \/ EquivocationProof(slot, signer, s.header, header) \in equivocations[n]

\* The store has at most one header of a slot and signer, no proof has one header
\* twice, and every block from the network that is in capacity is covered.
StoreInv ==
    \A n \in Nodes :
        /\ \A s, t \in seen[n] : s.slot = t.slot /\ s.signer = t.signer => s = t
        /\ \A proof \in equivocations[n] : proof.first_header # proof.second_header

SeenInv ==
    \A n \in Nodes : Config[n].verifier.check_for_equivocation =>
        \A h \in Received(n) : Covered(n, find_pre_digest(h), Popped(h), By(h))

IInv == NodesInv /\ BlocksInv /\ ExpectedInv /\ StoreInv /\ SeenInv

-----------------------------------------------------------------------------
(***************************************************************************)
(* Headers                                                                 *)
(***************************************************************************)
\* Front and Last undo Append.
LEMMA FrontOfAppend ==
    ASSUME NEW S, NEW s \in Seq(S), NEW x \in S
    PROVE  /\ Front(Append(s, x)) = s
           /\ Last(Append(s, x)) = x
<1>1. Last(Append(s, x)) = x
  BY DEF Last
<1>2. Len(Append(s, x)) - 1 = Len(s) /\ Len(s) \in Nat /\ Len(s) \in Int /\ 1 \in Int
  OBVIOUS
<1>3. \A i \in 1..Len(s) : Append(s, x)[i] \in S /\ Append(s, x)[i] = s[i]
  OBVIOUS
<1>4. /\ SubSeq(Append(s, x), 1, Len(s)) \in Seq(S)
      /\ Len(SubSeq(Append(s, x), 1, Len(s))) = IF 1 <= Len(s) THEN Len(s) - 1 + 1 ELSE 0
      /\ \A i \in 1..(Len(s) - 1 + 1) :
           SubSeq(Append(s, x), 1, Len(s))[i] = Append(s, x)[1 + i - 1]
  BY <1>2, <1>3, SubSeqProperties, SMT
<1>5. Len(s) - 1 + 1 = Len(s) /\ (1 <= Len(s) \/ Len(s) = 0)
      /\ \A i \in 1..Len(s) : 1 + i - 1 = i
  BY <1>2
<1>6. SubSeq(Append(s, x), 1, Len(s)) = s
  <2>1. /\ Len(SubSeq(Append(s, x), 1, Len(s))) = Len(s)
        /\ \A i \in 1..Len(s) : SubSeq(Append(s, x), 1, Len(s))[i] = s[i]
    BY <1>3, <1>4, <1>5
  <2> QED
    BY <1>4, <2>1, SeqEqual
<1> QED
  BY <1>1, <1>2, <1>6 DEF Front

\* The same for the two logs of a sealed header.
LEMMA AppendOne ==
    ASSUME NEW x, NEW y
    PROVE  /\ Append(<<x>>, y) = <<x, y>>
           /\ Front(<<x, y>>) = <<x>>
           /\ Last(<<x, y>>) = y
<1>1. <<x>> \in Seq({x, y}) /\ y \in {x, y} /\ <<x, y>> \in Seq({x, y})
  OBVIOUS
<1>2. /\ Append(<<x>>, y) \in Seq({x, y})
      /\ Len(Append(<<x>>, y)) = Len(<<x, y>>)
      /\ \A i \in 1..Len(Append(<<x>>, y)) : Append(<<x>>, y)[i] = <<x, y>>[i]
  BY <1>1
<1>3. Append(<<x>>, y) = <<x, y>>
  BY <1>1, <1>2, SeqEqual
<1> QED
  BY <1>1, <1>3, FrontOfAppend

IsSealed(h, m, head, slot, author) ==
    slot \in Nat /\ head.number \in Nat /\ h = SealedHeader(m, head, slot, author)

\* What such a header consists of.
Shape(h, m, head, slot, author) ==
    /\ h.logs = <<PreDigest(slot), Seal(author, Proposed(m, head, slot))>>
    /\ h.number = head.number + 1 /\ h.number # 0
    /\ h.parent = <<head>> /\ Head1(h) = head
    /\ h.timestamp = slot
    /\ h.maker = <<m>>
    /\ Last(h.logs) = Seal(author, Proposed(m, head, slot))
    /\ By(h) = author
    /\ Popped(h) = Proposed(m, head, slot)
    /\ find_pre_digest(h) = slot
    /\ find_pre_digest(Proposed(m, head, slot)) = slot

\* Popped and find_pre_digest undo what Proposed and Pushed did.
LEMMA SealedIs ==
    ASSUME NEW h, NEW m, NEW head, NEW slot, NEW author, IsSealed(h, m, head, slot, author)
    PROVE  Shape(h, m, head, slot, author)
<1>0. slot \in Nat /\ head.number \in Nat /\ h = SealedHeader(m, head, slot, author)
  BY DEF IsSealed
<1> DEFINE P == Proposed(m, head, slot)
           seal == Seal(author, P)
           pre == PreDigest(slot)
<1>1. P.logs = <<pre>> /\ P.number = head.number + 1 /\ P.number # 0
  BY <1>0 DEF Proposed
<1>2. h = [P EXCEPT !.logs = Append(<<pre>>, seal)]
  BY <1>0, <1>1 DEF SealedHeader, Pushed
<1>3. pre.item = "pre" /\ pre.slot = slot /\ seal.item = "seal" /\ seal.by = author
  BY DEF PreDigest, Seal
<1>4. Append(<<pre>>, seal) = <<pre, seal>>
  BY AppendOne
<1>5. h.logs = <<pre, seal>> /\ h.number = head.number + 1 /\ h.parent = <<head>>
      /\ h.timestamp = slot /\ h.maker = <<m>>
      /\ \A y : [h EXCEPT !.logs = y] = [P EXCEPT !.logs = y]
  <2> DEFINE x == <<pre, seal>>
  <2>1. h = [P EXCEPT !.logs = x]
    BY <1>2, <1>4
  <2> HIDE DEF x
  <2>2. /\ h.number = head.number + 1 /\ h.parent = <<head>> /\ h.logs = x
        /\ h.timestamp = slot /\ h.maker = <<m>>
        /\ \A y : [h EXCEPT !.logs = y] = [P EXCEPT !.logs = y]
    BY <2>1 DEF Proposed
  <2> QED
    BY <2>2 DEF x
<1>6. Front(h.logs) = <<pre>> /\ Last(h.logs) = seal
  <2> HIDE DEF pre, seal
  <2> QED
    BY <1>5, AppendOne
<1>7. Popped(h) = P
  <2>1. Popped(h) = [P EXCEPT !.logs = <<pre>>]
    BY <1>5, <1>6 DEF Popped
  <2> QED
    BY <2>1 DEF Proposed
<1>8. find_pre_digest(P) = slot
  <2> HIDE DEF P, pre
  <2>1. {i \in DOMAIN P.logs : P.logs[i].item = "pre"} = {1}
    BY <1>1, <1>3
  <2> QED
    BY <1>1, <1>3, <2>1 DEF find_pre_digest
<1>9. find_pre_digest(h) = slot
  <2> HIDE DEF P, pre, seal
  <2>1. {i \in DOMAIN h.logs : h.logs[i].item = "pre"} = {1}
    BY <1>3, <1>5
  <2>2. h.number # 0
    BY <1>0, <1>5
  <2>3. h.logs[1] = pre
    BY <1>5
  <2> QED
    BY <1>3, <2>1, <2>2, <2>3 DEF find_pre_digest
<1>10. Head1(h) = head /\ By(h) = author
  BY <1>3, <1>5, <1>6 DEF Head1, By
<1> QED
  BY <1>1, <1>5, <1>6, <1>7, <1>8, <1>9, <1>10 DEF Shape

\* The parts of a sealed block, from the block itself.
LEMMA SealedFacts ==
    ASSUME NEW h, Sealed(h)
    PROVE  /\ h.logs = <<PreDigest(h.timestamp), Last(h.logs)>> /\ h.logs # <<>>
           /\ h.timestamp \in Nat
           /\ Last(h.logs) = Seal(By(h), Popped(h)) /\ Last(h.logs).item = "seal"
           /\ Popped(h) = Proposed(h.maker[1], Head1(h), h.timestamp)
           /\ h.number = Head1(h).number + 1 /\ h.number \in 1..MaxNumber
           /\ h.maker = <<h.maker[1]>>
           /\ find_pre_digest(h) = h.timestamp
           /\ find_pre_digest(Popped(h)) = h.timestamp
<1>1. PICK m, head, slot, author :
          m = h.maker[1] /\ head = Head1(h) /\ slot = h.timestamp /\ author = By(h)
  OBVIOUS
<1>2. /\ slot \in Nat /\ head.number \in Nat /\ h = SealedHeader(m, head, slot, author)
      /\ h.number \in 1..MaxNumber
  BY <1>1 DEF Sealed
<1>a. IsSealed(h, m, head, slot, author)
  BY <1>2 DEF IsSealed
<1>b. Shape(h, m, head, slot, author)
  BY <1>a, SealedIs
<1>3. /\ h.logs = <<PreDigest(slot), Seal(author, Proposed(m, head, slot))>>
      /\ h.number = head.number + 1
      /\ h.maker = <<m>>
      /\ Last(h.logs) = Seal(author, Proposed(m, head, slot))
      /\ Popped(h) = Proposed(m, head, slot)
      /\ find_pre_digest(h) = slot
      /\ find_pre_digest(Proposed(m, head, slot)) = slot
  BY <1>b DEF Shape
<1>4. Last(h.logs).item = "seal"
  BY <1>3 DEF Seal
<1>5. h.logs # <<>>
  BY <1>3
<1> QED
  BY <1>1, <1>2, <1>3, <1>4, <1>5

\* What the verifier does with a sealed block: it is accepted by the nodes that
\* expect its author, when its slot has come.
LEMMA VerifySealed ==
    ASSUME NEW n \in Nodes, NEW h, Sealed(h), clock[n] \in Nat, NEW with_body \in BOOLEAN
    PROVE  Verify(n, h, with_body) = "Checked" <=>
              h.timestamp <= clock[n] + 1 /\ Expected(n, h) = <<By(h)>>
<1>1. PICK slot : slot = h.timestamp /\ slot \in Nat
  BY SealedFacts
<1>2. PICK P : P = Popped(h)
  OBVIOUS
<1>3. PICK auths : auths = Authorities(h.parent[1], h.number, Config[n].verifier.compatibility_mode)
  OBVIOUS
<1>4. Expected(n, h) = slot_author(slot, auths)
  BY <1>1, <1>3 DEF Expected, Head1, Until
<1>5. /\ h.logs # <<>> /\ Last(h.logs).item = "seal" /\ Last(h.logs).over = P
      /\ Last(h.logs).by = By(h)
      /\ find_pre_digest(P) = slot
  <2>1. /\ h.logs # <<>> /\ Last(h.logs).item = "seal" /\ Last(h.logs) = Seal(By(h), P)
        /\ find_pre_digest(P) = slot
    BY <1>1, <1>2, SealedFacts
  <2>2. Last(h.logs).over = P
    BY <2>1 DEF Seal
  <2> QED
    BY <2>1, <2>2 DEF By
<1>6. slot # MultipleHeaders /\ slot # NoDigestFound
  BY <1>1 DEF MultipleHeaders, NoDigestFound
<1>7. CheckHeader(h, clock[n] + 1, auths) =
        IF slot > clock[n] + 1 THEN "Deferred"
        ELSE IF slot_author(slot, auths) = <<>> THEN "SlotAuthorNotFound"
        ELSE IF <<By(h)>> = slot_author(slot, auths) THEN "Checked"
        ELSE "BadSignature"
  BY <1>2, <1>5, <1>6 DEF CheckHeader
<1>8. CheckHeader(h, clock[n] + 1, auths) = "Checked" <=>
        slot <= clock[n] + 1 /\ slot_author(slot, auths) = <<By(h)>>
  <2>1. slot > clock[n] + 1 <=> ~(slot <= clock[n] + 1)
    BY <1>1
  <2>2. <<By(h)>> # <<>>
    OBVIOUS
  <2>3. PICK author : author = slot_author(slot, auths)
    OBVIOUS
  <2> QED
    BY <1>7, <2>1, <2>2, <2>3
<1>9. CheckInherents(Config[n].verifier, h, find_pre_digest(Popped(h)))
  BY <1>1, <1>2, <1>5 DEF CheckInherents
<1>10. Verify(n, h, with_body) = "Checked" <=> CheckHeader(h, clock[n] + 1, auths) = "Checked"
  BY <1>3, <1>9 DEF Verify, Checked
<1> QED
  BY <1>1, <1>4, <1>8, <1>10

\* A block that is made for a slot is sealed as its maker expects.
LEMMA AuthoredSealed ==
    ASSUME NEW n \in Nodes, NEW head, NEW slot \in Nat, NEW author,
           head.number \in Nat, head.number < MaxNumber,
           ClaimSlot(n, head, slot) = <<author>>
    PROVE  /\ Sealed(SealedHeader(n, head, slot, author))
           /\ Expected(n, SealedHeader(n, head, slot, author)) =
                <<By(SealedHeader(n, head, slot, author))>>
           /\ SealedHeader(n, head, slot, author).maker = <<n>>
<1>1. PICK h : h = SealedHeader(n, head, slot, author)
  OBVIOUS
<1>2. /\ h.number = head.number + 1 /\ Head1(h) = head /\ h.timestamp = slot
      /\ h.maker = <<n>> /\ By(h) = author
  <2>1. IsSealed(h, n, head, slot, author)
    BY <1>1 DEF IsSealed
  <2>2. Shape(h, n, head, slot, author)
    BY <2>1, SealedIs
  <2> QED
    BY <2>2 DEF Shape
<1>3. h.maker[1] = n /\ head.number + 1 \in 1..MaxNumber
  BY <1>2, BoundsAssumption
<1>4. Sealed(h)
  BY <1>1, <1>2, <1>3 DEF Sealed
<1>5. Config[n].worker.compatibility_mode = Until(n)
  <2>1. PICK w : w = Config[n].worker
    OBVIOUS
  <2>2. Config[n] = NewFullBase([keystore |-> w.keystore,
                                 native_version_fits |-> w.can_author_with,
                                 until |-> w.compatibility_mode])
    BY <2>1, ServiceAssumption
  <2>3. Config[n].verifier.compatibility_mode = w.compatibility_mode
    BY <2>2 DEF NewFullBase, NewPartial, ImportQueue
  <2> QED
    BY <2>1, <2>3 DEF Until
<1>6. ClaimSlot(n, head, slot) # <<>>
  OBVIOUS
<1>7. slot_author(slot, Authorities(head, head.number + 1, Until(n))) = <<author>>
  BY <1>5, <1>6 DEF ClaimSlot
<1> QED
  BY <1>1, <1>2, <1>4, <1>7 DEF Expected

-----------------------------------------------------------------------------
(***************************************************************************)
(* The invariant                                                           *)
(***************************************************************************)
\* Every node starts with the genesis block only.
LEMMA InitInv == Init => IInv
<1> SUFFICES ASSUME Init PROVE IInv
  OBVIOUS
<1>1. \A n \in Nodes : imported[n] = {GenesisParams} /\ best[n] = Genesis
  BY DEF Init
<1>2. GenesisParams.post_hash = Genesis
  BY DEF GenesisParams
<1>3. \A n \in Nodes : Known(n) = {Genesis}
  BY <1>1, <1>2 DEF Known
<1>4. NodesInv
  <2>1. clock \in [Nodes -> Nat] /\ imported = [n \in Nodes |-> imported[n]]
    BY DEF Init
  <2>2. /\ best = [n \in Nodes |-> best[n]] /\ seen = [n \in Nodes |-> seen[n]]
        /\ equivocations = [n \in Nodes |-> equivocations[n]]
    BY DEF Init
  <2> QED
    BY <1>1, <1>3, <2>1, <2>2 DEF NodesInv
<1>5. BlocksInv
  BY <1>3 DEF Init, BlocksInv, FaultyIsRefused
<1>6. ExpectedInv /\ SeenInv
  BY <1>3 DEF ExpectedInv, SeenInv, Received
<1>7. StoreInv
  BY DEF Init, StoreInv
<1> QED
  BY <1>4, <1>5, <1>6, <1>7 DEF IInv

\* A block is added to those of node n, as in Author and Deliver.
LEMMA KnownGrows ==
    ASSUME NEW n \in Nodes, NEW p, imported = [m \in Nodes |-> imported[m]],
           imported' = [imported EXCEPT ![n] = @ \cup {p}]
    PROVE  /\ Known(n)' = Known(n) \cup {p.post_hash}
           /\ \A m \in Nodes : m # n => Known(m)' = Known(m)
           /\ imported' = [m \in Nodes |-> imported'[m]]
<1>1. imported'[n] = imported[n] \cup {p}
  OBVIOUS
<1>2. \A m \in Nodes : m # n => imported'[m] = imported[m]
  OBVIOUS
<1>3. imported' = [m \in Nodes |-> imported'[m]]
  OBVIOUS
<1>4. Known(n)' = Known(n) \cup {p.post_hash}
  BY <1>1 DEF Known
<1>5. \A m \in Nodes : m # n => Known(m)' = Known(m)
  BY <1>2 DEF Known
<1> QED
  BY <1>3, <1>4, <1>5

\* The invariants of nodes and blocks survive a new block that its owner expects.
LEMMA BlockAdded ==
    ASSUME IInv, NEW n \in Nodes, NEW p, NEW h, h = p.post_hash,
           Sealed(h), Expected(n, h) = <<By(h)>>,
           imported' = [imported EXCEPT ![n] = @ \cup {p}],
           best' = [best EXCEPT ![n] = Chosen(n, h)],
           wire' = wire \cup {h},
           clock' = clock
    PROVE  /\ clock' \in [Nodes -> Nat]
           /\ imported' = [m \in Nodes |-> imported'[m]]
           /\ best' = [m \in Nodes |-> best'[m]]
           /\ \A m \in Nodes : best'[m] \in Known(m)'
           /\ BlocksInv' /\ ExpectedInv'
<1>1. /\ clock \in [Nodes -> Nat] /\ imported = [m \in Nodes |-> imported[m]]
      /\ best = [m \in Nodes |-> best[m]] /\ \A m \in Nodes : best[m] \in Known(m)
  BY DEF IInv, NodesInv
<1>2. /\ Known(n)' = Known(n) \cup {h} /\ imported' = [m \in Nodes |-> imported'[m]]
      /\ \A m \in Nodes : m # n => Known(m)' = Known(m)
  BY <1>1, KnownGrows
<1>3. best' = [m \in Nodes |-> best'[m]] /\ \A m \in Nodes : m # n => best'[m] = best[m]
  BY <1>1
<1>4. best'[n] = Chosen(n, h) /\ Chosen(n, h) \in {h, best[n]}
  BY <1>1 DEF Chosen
<1>5. \A m \in Nodes : best'[m] \in Known(m)'
  BY <1>1, <1>2, <1>3, <1>4
<1>6. BlocksInv'
  <2>1. (\A g \in wire : Sealed(g)) /\ \A m \in Nodes : Known(m) \subseteq wire \cup {Genesis}
    BY DEF IInv, BlocksInv, FaultyIsRefused
  <2>2. \A g \in wire' : Sealed(g)
    BY <2>1
  <2>3. \A m \in Nodes : Known(m)' \subseteq wire' \cup {Genesis}
    BY <1>2, <2>1
  <2> QED
    BY <2>2, <2>3 DEF BlocksInv, FaultyIsRefused, Sealed, SealedHeader, Head1, By
<1>7. ExpectedInv'
  <2>1. \A m \in Nodes : \A g \in Known(m) \ {Genesis} : Expected(m, g) = <<By(g)>>
    BY DEF IInv, ExpectedInv
  <2>2. \A m \in Nodes : \A g \in Known(m)' \ {Genesis} : Expected(m, g) = <<By(g)>>
    BY <1>2, <2>1
  <2> QED
    BY <2>2 DEF ExpectedInv
<1> QED
  BY <1>1, <1>2, <1>3, <1>5, <1>6, <1>7

\* The slot of a block that a node has.
LEMMA KnownSlot ==
    ASSUME IInv, NEW n \in Nodes, NEW h \in Known(n) \ {Genesis}
    PROVE  find_pre_digest(h) \in Nat
<1>1. Sealed(h)
  BY DEF IInv, BlocksInv, FaultyIsRefused
<1> QED
  BY <1>1, SealedFacts

\* A clock advances: what was out of capacity stays so.
LEMMA AdvanceStep == ASSUME IInv, NEW n \in Nodes, Advance(n) PROVE IInv'
<1>1. /\ imported' = imported /\ best' = best /\ seen' = seen /\ wire' = wire
      /\ equivocations' = equivocations
  BY DEF Advance
<1>2. clock' \in [Nodes -> Nat]
  <2>1. clock \in [Nodes -> Nat] /\ clock' = [clock EXCEPT ![n] = @ + 1]
    BY DEF IInv, NodesInv, Advance
  <2> QED
    BY <2>1
<1>3. \A m \in Nodes : Known(m)' = Known(m)
  BY <1>1 DEF Known
<1>4. NodesInv'
  BY <1>1, <1>2, <1>3 DEF IInv, NodesInv
<1>5. BlocksInv' /\ ExpectedInv' /\ StoreInv'
  BY <1>1, <1>3 DEF IInv, BlocksInv, FaultyIsRefused, ExpectedInv, StoreInv
<1>6. ASSUME NEW m \in Nodes, NEW h \in Received(m)' PROVE h \in Received(m)
  <2>1. clock[m] \in Nat /\ clock'[m] \in Nat /\ clock[m] <= clock'[m]
    <3>1. clock \in [Nodes -> Nat] /\ clock' = [clock EXCEPT ![n] = @ + 1]
      BY DEF IInv, NodesInv, Advance
    <3> QED
      BY <3>1
  <2>2. /\ h \in Known(m) \ {Genesis} /\ h.maker # <<m>>
        /\ clock'[m] + 1 - find_pre_digest(h) <= MaxSlotCapacity
    BY <1>3, <1>6 DEF Received, InCapacity
  <2>3. find_pre_digest(h) \in Nat
    BY <2>2, KnownSlot
  <2>4. PICK slot : slot = find_pre_digest(h)
    OBVIOUS
  <2>5. clock[m] + 1 - slot <= MaxSlotCapacity
    BY <2>1, <2>2, <2>3, <2>4, BoundsAssumption
  <2> QED
    BY <2>2, <2>4, <2>5 DEF Received, InCapacity
<1>7. SeenInv'
  BY <1>1, <1>6 DEF IInv, SeenInv, Covered
<1> QED
  BY <1>4, <1>5, <1>7 DEF IInv

\* A slot is claimed for one author.
LEMMA ClaimIsOne ==
    ASSUME NEW n, NEW head, NEW slot, ClaimSlot(n, head, slot) # <<>>
    PROVE  ClaimSlot(n, head, slot) = <<ClaimSlot(n, head, slot)[1]>>
<1>1. PICK auths : auths = Authorities(head, head.number + 1, Config[n].worker.compatibility_mode)
  OBVIOUS
<1>2. ClaimSlot(n, head, slot) = slot_author(slot, auths)
  BY <1>1 DEF ClaimSlot
<1>3. slot_author(slot, auths) # <<>>
  BY <1>2
<1>4. PICK a : slot_author(slot, auths) = <<a>>
  BY <1>3 DEF slot_author
<1> QED
  BY <1>2, <1>4

\* The number of a block that a node has.
LEMMA KnownNumber ==
    ASSUME IInv, NEW n \in Nodes, NEW h \in Known(n)
    PROVE  h.number \in Nat
<1>1. h \in wire \/ h = Genesis
  BY DEF IInv, BlocksInv, FaultyIsRefused
<1>2. CASE h = Genesis
  BY <1>2 DEF Genesis
<1>3. CASE h \in wire
  <2>1. h.number \in 1..MaxNumber
    BY <1>3 DEF IInv, BlocksInv, Sealed
  <2> QED
    BY <2>1, BoundsAssumption
<1> QED
  BY <1>1, <1>2, <1>3

\* The slot worker builds a block, which enters neither store nor reports.
LEMMA AuthorStep == ASSUME IInv, NEW n \in Nodes, Author(n) PROVE IInv'
<1>1. PICK slot, head, claim :
          slot = clock[n] /\ head = best[n] /\ claim = ClaimSlot(n, head, slot)
  OBVIOUS
<1>2. PICK p : p = AuthoredParams(Proposed(n, head, slot), claim[1])
  OBVIOUS
<1>3. /\ claim # <<>> /\ head.number < MaxNumber
      /\ imported' = [imported EXCEPT ![n] = @ \cup {p}]
      /\ best' = [best EXCEPT ![n] = Chosen(n, p.post_hash)]
      /\ wire' = wire \cup {p.post_hash}
      /\ clock' = clock /\ seen' = seen /\ equivocations' = equivocations
  BY <1>1, <1>2 DEF Author, Imported
<1>4. slot \in Nat /\ head \in Known(n)
  BY <1>1 DEF IInv, NodesInv
<1>5. head.number \in Nat
  BY <1>4, KnownNumber
<1>6. PICK author : author = claim[1] /\ ClaimSlot(n, head, slot) = <<author>>
  BY <1>1, <1>3, ClaimIsOne
<1>7. PICK h : h = SealedHeader(n, head, slot, author)
  OBVIOUS
<1>8. h = p.post_hash
  BY <1>2, <1>6, <1>7 DEF AuthoredParams, SealedHeader
<1>9. Sealed(h) /\ Expected(n, h) = <<By(h)>> /\ h.maker = <<n>>
  BY <1>3, <1>4, <1>5, <1>6, <1>7, AuthoredSealed
<1>10. /\ clock' \in [Nodes -> Nat]
       /\ imported' = [m \in Nodes |-> imported'[m]]
       /\ best' = [m \in Nodes |-> best'[m]]
       /\ \A m \in Nodes : best'[m] \in Known(m)'
       /\ BlocksInv' /\ ExpectedInv'
  BY <1>3, <1>8, <1>9, BlockAdded
<1>11. NodesInv'
  BY <1>3, <1>10 DEF IInv, NodesInv
<1>12. /\ Known(n)' = Known(n) \cup {h}
       /\ \A m \in Nodes : m # n => Known(m)' = Known(m)
  <2>1. imported = [m \in Nodes |-> imported[m]]
    BY DEF IInv, NodesInv
  <2> QED
    BY <1>3, <1>8, <2>1, KnownGrows
<1>13. \A m \in Nodes : \A g \in Known(m)' : g.maker # <<m>> => g \in Known(m)
  BY <1>9, <1>12
<1>14. \A m \in Nodes : Received(m)' \subseteq Received(m)
  BY <1>3, <1>13 DEF Received, InCapacity
<1>15. SeenInv'
  BY <1>3, <1>14 DEF IInv, SeenInv, Covered
<1>16. StoreInv'
  BY <1>3 DEF IInv, StoreInv
<1> QED
  BY <1>10, <1>11, <1>15, <1>16 DEF IInv

\* The store and the reports after check_equivocation of any header.
LEMMA EquivocationChecked ==
    ASSUME IInv, NEW n \in Nodes, NEW slot, NEW header, NEW signer,
           CheckEquivocation(n, slot, header, signer), clock' = clock
    PROVE  /\ seen' = [m \in Nodes |-> seen'[m]]
           /\ equivocations' = [m \in Nodes |-> equivocations'[m]]
           /\ \A m \in Nodes : seen[m] \subseteq seen'[m]
           /\ \A m \in Nodes : equivocations[m] \subseteq equivocations'[m]
           /\ InCapacity(n, slot) => Covered(n, slot, header, signer)'
           /\ StoreInv'
<1>1. /\ seen = [m \in Nodes |-> seen[m]]
      /\ equivocations = [m \in Nodes |-> equivocations[m]]
      /\ StoreInv
  BY DEF IInv, NodesInv
<1>2. CASE ~InCapacity(n, slot)
  <2>1. seen' = seen /\ equivocations' = equivocations
    BY <1>2 DEF CheckEquivocation
  <2> QED
    BY <1>1, <1>2, <2>1 DEF StoreInv
<1>3. CASE InCapacity(n, slot) /\ Stored(n, slot, signer) = {}
  <2>1. PICK r : r = [slot |-> slot, signer |-> signer, header |-> header]
    OBVIOUS
  <2>2. r.slot = slot /\ r.signer = signer /\ r.header = header
    BY <2>1
  <2>3. seen' = [seen EXCEPT ![n] = @ \cup {r}] /\ equivocations' = equivocations
    BY <1>3, <2>1 DEF CheckEquivocation
  <2>4. /\ seen' = [m \in Nodes |-> seen'[m]]
        /\ seen'[n] = seen[n] \cup {r}
        /\ \A m \in Nodes : m # n => seen'[m] = seen[m]
    BY <1>1, <2>3
  <2>5. Covered(n, slot, header, signer)'
    BY <2>2, <2>4 DEF Covered
  <2>6. \A s \in seen[n] : ~(s.slot = slot /\ s.signer = signer)
    BY <1>3 DEF Stored
  <2>7. StoreInv'
    <3>1. ASSUME NEW m \in Nodes, NEW s \in seen'[m], NEW t \in seen'[m],
                 s.slot = t.slot, s.signer = t.signer
          PROVE  s = t
      <4>1. CASE m # n
        BY <1>1, <2>4, <3>1, <4>1 DEF StoreInv
      <4>2. CASE m = n
        <5>1. s \in seen[n] \cup {r} /\ t \in seen[n] \cup {r}
          BY <2>4, <3>1, <4>2
        <5>2. s \in seen[n] /\ t \in seen[n] => s = t
          BY <1>1, <3>1 DEF StoreInv
        <5> QED
          BY <2>2, <2>6, <3>1, <5>1, <5>2
      <4> QED
        BY <4>1, <4>2
    <3> QED
      BY <1>1, <2>3, <3>1 DEF StoreInv
  <2> QED
    BY <1>1, <2>3, <2>4, <2>5, <2>7
<1>4. CASE InCapacity(n, slot) /\ Stored(n, slot, signer) # {}
  <2>1. PICK new : new = {EquivocationProof(slot, signer, s.header, header) :
                            s \in {t \in Stored(n, slot, signer) : t.header # header}}
    OBVIOUS
  <2>2. equivocations' = [equivocations EXCEPT ![n] = @ \cup new] /\ seen' = seen
    BY <1>4, <2>1 DEF CheckEquivocation
  <2>3. /\ equivocations' = [m \in Nodes |-> equivocations'[m]]
        /\ equivocations'[n] = equivocations[n] \cup new
        /\ \A m \in Nodes : m # n => equivocations'[m] = equivocations[m]
    BY <1>1, <2>2
  <2>4. PICK s \in seen[n] : s.slot = slot /\ s.signer = signer
    BY <1>4 DEF Stored
  <2>5. s.header # header => EquivocationProof(slot, signer, s.header, header) \in new
    BY <2>1, <2>4 DEF Stored
  <2>6. Covered(n, slot, header, signer)'
    BY <2>2, <2>3, <2>4, <2>5 DEF Covered
  <2>7. \A proof \in new : proof.first_header # proof.second_header
    BY <2>1 DEF EquivocationProof
  <2>8. StoreInv'
    BY <1>1, <2>2, <2>3, <2>7 DEF StoreInv
  <2> QED
    BY <1>1, <2>2, <2>3, <2>6, <2>8
<1> QED
  BY <1>2, <1>3, <1>4

\* The same of what check_header leaves, whatever its verdict.
LEMMA RecordedIs ==
    ASSUME IInv, NEW n \in Nodes, NEW f, Recorded(n, f), clock' = clock
    PROVE  /\ seen' = [m \in Nodes |-> seen'[m]]
           /\ equivocations' = [m \in Nodes |-> equivocations'[m]]
           /\ \A m \in Nodes : seen[m] \subseteq seen'[m]
           /\ \A m \in Nodes : equivocations[m] \subseteq equivocations'[m]
           /\ StoreInv'
           /\ /\ Config[n].verifier.check_for_equivocation /\ Checked(n, f) = "Checked"
              /\ InCapacity(n, find_pre_digest(Popped(f)))
              => Covered(n, find_pre_digest(Popped(f)), Popped(f), By(f))'
<1>1. PICK slot, header, signer :
          slot = find_pre_digest(Popped(f)) /\ header = Popped(f) /\ signer = By(f)
  OBVIOUS
<1>2. CASE Checked(n, f) = "Checked" /\ Config[n].verifier.check_for_equivocation
  <2>1. CheckEquivocation(n, slot, header, signer)
    BY <1>1, <1>2 DEF Recorded, By
  <2>2. /\ seen' = [m \in Nodes |-> seen'[m]]
        /\ equivocations' = [m \in Nodes |-> equivocations'[m]]
        /\ \A m \in Nodes : seen[m] \subseteq seen'[m]
        /\ \A m \in Nodes : equivocations[m] \subseteq equivocations'[m]
        /\ InCapacity(n, slot) => Covered(n, slot, header, signer)'
        /\ StoreInv'
    BY <2>1, EquivocationChecked
  <2>3. InCapacity(n, slot) => Covered(n, find_pre_digest(Popped(f)), Popped(f), By(f))'
    BY <1>1, <2>2 DEF Covered
  <2> QED
    BY <1>1, <2>2, <2>3
<1>3. CASE ~(Checked(n, f) = "Checked" /\ Config[n].verifier.check_for_equivocation)
  <2>1. seen' = seen /\ equivocations' = equivocations
    BY <1>3 DEF Recorded
  <2> QED
    BY <1>3, <2>1 DEF IInv, NodesInv, StoreInv
<1> QED
  BY <1>2, <1>3

\* What it takes to be imported.
LEMMA AcceptedNeeds ==
    ASSUME NEW n \in Nodes, NEW f, Accepted(n, f)
    PROVE  /\ Last(f.logs).item = "seal"
           /\ Last(f.logs).over = Popped(f)
           /\ find_pre_digest(Popped(f)) # MultipleHeaders
           /\ find_pre_digest(Popped(f)) # NoDigestFound
           /\ <<By(f)>> = slot_author(find_pre_digest(Popped(f)), Authorities(Head1(f), f.number, Until(n)))
           /\ Executes(Popped(f))
<1>1. PICK auths, now :
          /\ auths = Authorities(f.parent[1], f.number, Config[n].verifier.compatibility_mode)
          /\ now = clock[n] + 1
  OBVIOUS
<1>2. CheckHeader(f, now, auths) = "Checked" /\ Executes(Popped(f))
  BY <1>1, Zenon DEF Accepted, Verify, Checked
<1>3. PICK seal, pre, slot :
          seal = Last(f.logs) /\ pre = Popped(f) /\ slot = find_pre_digest(pre)
  OBVIOUS
<1>4. seal.item = "seal"
  BY <1>2, <1>3 DEF CheckHeader
<1>5. /\ slot # MultipleHeaders /\ slot # NoDigestFound /\ seal.over = pre
      /\ <<seal.by>> = slot_author(slot, auths)
  BY <1>2, <1>3, <1>4 DEF CheckHeader
<1> QED
  BY <1>1, <1>2, <1>3, <1>4, <1>5 DEF By, Head1, Until

\* A header, its parts in the order of Proposed.
HeaderOf(number, parent, logs, timestamp, maker) ==
    [number |-> number, parent |-> parent, logs |-> logs, timestamp |-> timestamp, maker |-> maker]

\* What is left of a header to which an item was pushed.
Undone(q, x) ==
    /\ Popped(Pushed(q, x)) = q /\ Last(Pushed(q, x).logs) = x
    /\ Head1(Pushed(q, x)) = Head1(q) /\ Pushed(q, x).number = q.number

\* Popped and Last undo Pushed.
LEMMA PushedIs ==
    ASSUME NEW number, NEW parent, NEW timestamp, NEW maker,
           NEW S, NEW logs \in Seq(S), NEW x \in S
    PROVE  Undone(HeaderOf(number, parent, logs, timestamp, maker), x)
<1>1. PICK long : long = Append(logs, x)
  OBVIOUS
<1>2. Front(long) = logs /\ Last(long) = x
  BY <1>1, FrontOfAppend
<1>3. PICK q, p :
          /\ q = HeaderOf(number, parent, logs, timestamp, maker)
          /\ p = HeaderOf(number, parent, long, timestamp, maker)
  OBVIOUS
<1>4. Pushed(q, x) = p
  <2>1. q.logs = logs
    BY <1>3 DEF HeaderOf
  <2>2. Pushed(q, x) = [q EXCEPT !.logs = long]
    BY <1>1, <2>1 DEF Pushed
  <2> QED
    BY <1>3, <2>2 DEF HeaderOf
<1>5. p.logs = long /\ p.number = number /\ p.parent = parent
  BY <1>3 DEF HeaderOf
<1>6. Popped(p) = q
  <2>1. Popped(p) = [p EXCEPT !.logs = logs]
    BY <1>2, <1>5 DEF Popped
  <2> QED
    BY <1>3, <2>1 DEF HeaderOf
<1>7. q.number = number /\ q.parent = parent
  BY <1>3 DEF HeaderOf
<1>8. Undone(q, x)
  BY <1>2, <1>4, <1>5, <1>6, <1>7 DEF Undone, Head1
<1> QED
  BY <1>3, <1>8

\* The pre-digest of a header whose logs are counted.
LEMMA PreDigestOf ==
    ASSUME NEW q, q.number # 0, NEW pre, pre.item = "pre"
    PROVE  /\ q.logs = <<>> => find_pre_digest(q) = NoDigestFound
           /\ q.logs = <<pre>> => find_pre_digest(q) = pre.slot
           /\ q.logs = <<pre, pre>> => find_pre_digest(q) = MultipleHeaders
<1>1. PICK S : S = {i \in DOMAIN q.logs : q.logs[i].item = "pre"}
  OBVIOUS
<1>2. CASE q.logs = <<>>
  <2>1. S = {}
    BY <1>1, <1>2
  <2> QED
    BY <1>1, <1>2, <2>1 DEF find_pre_digest
<1>3. CASE q.logs = <<pre>>
  <2>1. S = {1} /\ q.logs[1] = pre
    BY <1>1, <1>3
  <2>2. q.logs # <<>> /\ q.logs # <<pre, pre>>
    BY <1>3
  <2> QED
    BY <1>1, <2>1, <2>2 DEF find_pre_digest
<1>4. CASE q.logs = <<pre, pre>>
  <2>1. 1 \in S /\ 2 \in S
    BY <1>1, <1>4
  <2>2. S # {} /\ \E i, j \in S : i # j
    BY <2>1
  <2>3. q.logs # <<>> /\ q.logs # <<pre>>
    BY <1>4
  <2> QED
    BY <1>1, <2>2, <2>3 DEF find_pre_digest
<1> QED
  BY <1>2, <1>3, <1>4

\* One case per fault: no node accepts it, whether it can author or not.
LEMMA FaultyRefused ==
    ASSUME IInv, NEW n \in Nodes, NEW h \in wire, NEW f \in Faulty(h), Accepted(n, f)
    PROVE  FALSE
<1>1. Sealed(h)
  BY DEF IInv, BlocksInv
<1>2. PICK N, parent, ts, m, seal, a, pre, P :
          /\ N = h.number /\ parent = h.parent /\ ts = h.timestamp /\ m = h.maker[1]
          /\ seal = Last(h.logs) /\ a = By(h) /\ pre = PreDigest(ts) /\ P = Popped(h)
  OBVIOUS
<1>3. /\ h.logs = <<pre, seal>> /\ h.maker = <<m>> /\ ts \in Nat
      /\ N \in Nat /\ N # 0 /\ seal = Seal(a, P) /\ P = Proposed(m, Head1(h), ts)
      /\ find_pre_digest(P) = ts
  <2>1. /\ h.logs = <<pre, seal>> /\ h.maker = <<m>> /\ ts \in Nat
        /\ N \in 1..MaxNumber /\ seal = Seal(a, P) /\ P = Proposed(m, Head1(h), ts)
        /\ find_pre_digest(P) = ts
    BY <1>1, <1>2, SealedFacts
  <2> QED
    BY <2>1, BoundsAssumption
<1>4. P = HeaderOf(N, parent, <<pre>>, ts, <<m>>)
  <2>1. PICK head : head = Head1(h)
    OBVIOUS
  <2>2. IsSealed(h, m, head, ts, a)
    BY <1>1, <1>2, <2>1 DEF Sealed, IsSealed
  <2>3. h.parent = <<head>> /\ h.number = head.number + 1
    BY <2>2, SealedIs DEF Shape
  <2> QED
    BY <1>2, <1>3, <2>1, <2>3 DEF Proposed, HeaderOf
<1>5. h = HeaderOf(N, parent, <<pre, seal>>, ts, <<m>>)
  <2>1. h = Pushed(P, seal)
    BY <1>1, <1>2, <1>3 DEF Sealed, SealedHeader
  <2>2. Append(<<pre>>, seal) = <<pre, seal>>
    BY AppendOne
  <2>3. h = [P EXCEPT !.logs = <<pre, seal>>]
    BY <1>4, <2>1, <2>2 DEF Pushed, HeaderOf
  <2> QED
    BY <1>4, <2>3 DEF HeaderOf
<1>6. /\ pre.item = "pre" /\ pre.slot = ts
      /\ seal.item = "seal" /\ seal.over = P /\ seal.by = a
  BY <1>2, <1>3 DEF PreDigest, Seal
<1>7. /\ Last(f.logs).item = "seal"
      /\ Last(f.logs).over = Popped(f)
      /\ find_pre_digest(Popped(f)) # MultipleHeaders
      /\ find_pre_digest(Popped(f)) # NoDigestFound
      /\ <<By(f)>> = slot_author(find_pre_digest(Popped(f)), Authorities(Head1(f), f.number, Until(n)))
      /\ Executes(Popped(f))
  BY AcceptedNeeds
<1>8. PICK undated, redated, mistimed :
          /\ undated = [P EXCEPT !.logs = <<>>]
          /\ redated = [P EXCEPT !.logs = <<@[1], @[1]>>]
          /\ mistimed = [P EXCEPT !.timestamp = @ + 1]
  OBVIOUS
<1>9. /\ undated = HeaderOf(N, parent, <<>>, ts, <<m>>)
      /\ redated = HeaderOf(N, parent, <<pre, pre>>, ts, <<m>>)
      /\ mistimed = HeaderOf(N, parent, <<pre>>, ts + 1, <<m>>)
  <2>1. P.logs = <<pre>> /\ P.timestamp = ts
    BY <1>4 DEF HeaderOf
  <2>2. redated = [P EXCEPT !.logs = <<pre, pre>>]
    <3>1. P.logs[1] = pre
      BY <2>1
    <3> QED
      BY <1>8, <3>1
  <2> QED
    BY <1>4, <1>8, <2>1, <2>2 DEF HeaderOf
<1>10. PICK authors :
          authors = {slot_author(ts, RuntimeAuthorities(h.parent[1])),
                     slot_author(ts, InitializedAuthorities(h.parent[1]))}
  OBVIOUS
<1>11. \/ f = P
       \/ f = Pushed(P, PreDigest(ts))
       \/ f = [h EXCEPT !.maker = <<>>]
       \/ \E q \in {undated, redated, h} : f = Pushed(q, seal)
       \/ \E q \in {undated, redated, h, mistimed} : f = Resealed(q, a)
       \/ \E b \in AuthorityIds : <<b>> \notin authors /\ f = Resealed(P, b)
  BY <1>2, <1>3, <1>6, <1>8, <1>10 DEF Faulty
<1>12. CASE f = P
  <2>1. f.logs = <<pre>>
    BY <1>4, <1>12 DEF HeaderOf
  <2>2. Last(f.logs) = pre
    <3>1. Len(<<pre>>) = 1 /\ <<pre>>[1] = pre
      OBVIOUS
    <3> QED
      BY <2>1, <3>1 DEF Last
  <2> QED
    BY <1>6, <1>7, <2>2
<1>13. CASE f = Pushed(P, PreDigest(ts))
  <2>1. f.logs = Append(<<pre>>, pre)
    BY <1>2, <1>4, <1>13 DEF Pushed, HeaderOf
  <2>2. Append(<<pre>>, pre) = <<pre, pre>> /\ Last(<<pre, pre>>) = pre
    BY AppendOne
  <2>3. Last(f.logs) = pre
    BY <2>1, <2>2
  <2> QED
    BY <1>6, <1>7, <2>3
<1>14. CASE f = [h EXCEPT !.maker = <<>>]
  <2>1. f = HeaderOf(N, parent, <<pre, seal>>, ts, <<>>)
    BY <1>5, <1>14 DEF HeaderOf
  <2>2. f.logs = <<pre, seal>> /\ Popped(f).maker = <<>>
    <3>1. PICK short : short = Front(<<pre, seal>>)
      OBVIOUS
    <3>2. f.logs = <<pre, seal>> /\ Popped(f) = HeaderOf(N, parent, short, ts, <<>>)
      BY <2>1, <3>1 DEF Popped, HeaderOf
    <3> QED
      BY <3>2 DEF HeaderOf
  <2>3. Last(f.logs) = seal
    BY <2>2, AppendOne
  <2>4. P.maker = <<m>>
    BY <1>4 DEF HeaderOf
  <2>5. Popped(f) = P
    BY <1>6, <1>7, <2>3
  <2>6. <<m>> = <<>>
    BY <2>2, <2>4, <2>5
  <2> QED
    BY <2>6
\* Whoever seals them: the digests of these are refused by check_header or, two
\* seals and a mistimed body, by the runtime.
<1>15. ASSUME NEW q \in {undated, redated, h, mistimed}, NEW x, f = Pushed(q, x)
       PROVE  FALSE
  <2>1. PICK S : S = {pre, seal, x}
    OBVIOUS
  <2>2. /\ <<>> \in Seq(S) /\ <<pre>> \in Seq(S) /\ <<pre, pre>> \in Seq(S)
        /\ <<pre, seal>> \in Seq(S) /\ x \in S
    BY <2>1
  <2>3. Popped(f) = q
    <3>1. /\ Undone(HeaderOf(N, parent, <<>>, ts, <<m>>), x)
          /\ Undone(HeaderOf(N, parent, <<pre, pre>>, ts, <<m>>), x)
          /\ Undone(HeaderOf(N, parent, <<pre, seal>>, ts, <<m>>), x)
          /\ Undone(HeaderOf(N, parent, <<pre>>, ts + 1, <<m>>), x)
      BY <2>2, PushedIs
    <3>2. Undone(q, x)
      BY <1>5, <1>9, <1>15, <3>1
    <3> QED
      BY <1>15, <3>2 DEF Undone
  <2>4. CASE q = undated
    <3>1. q.number # 0 /\ q.logs = <<>>
      BY <1>3, <1>9, <2>4 DEF HeaderOf
    <3>2. find_pre_digest(q) = NoDigestFound
      BY <1>6, <3>1, PreDigestOf
    <3> QED
      BY <1>7, <2>3, <3>2
  <2>5. CASE q = redated
    <3>1. q.number # 0 /\ q.logs = <<pre, pre>>
      BY <1>3, <1>9, <2>5 DEF HeaderOf
    <3>2. find_pre_digest(q) = MultipleHeaders
      BY <1>6, <3>1, PreDigestOf
    <3> QED
      BY <1>7, <2>3, <3>2
  <2>6. CASE q = h
    <3>1. PICK slot : h.logs = <<PreDigest(slot)>>
      BY <1>7, <2>3, <2>6 DEF Executes
    <3>2. Len(<<pre, seal>>) = Len(<<PreDigest(slot)>>)
      BY <1>3, <3>1
    <3> QED
      BY <3>2
  <2>7. CASE q = mistimed
    <3>1. q.number # 0 /\ q.logs = <<pre>> /\ q.timestamp = ts + 1
      BY <1>3, <1>9, <2>7 DEF HeaderOf
    <3>2. find_pre_digest(q) = ts
      BY <1>6, <3>1, PreDigestOf
    <3>3. q.timestamp = ts
      BY <1>7, <2>3, <3>2 DEF Executes
    <3> QED
      BY <1>3, <3>1, <3>3
  <2> QED
    BY <1>15, <2>4, <2>5, <2>6, <2>7
<1>16. CASE \E b \in AuthorityIds : <<b>> \notin authors /\ f = Resealed(P, b)
  <2>1. PICK b \in AuthorityIds : <<b>> \notin authors /\ f = Resealed(P, b)
    BY <1>16
  <2>2. PICK x : x = Seal(b, P)
    OBVIOUS
  <2>3. f = Pushed(P, x) /\ x.by = b
    BY <2>1, <2>2 DEF Resealed, Seal
  <2>4. PICK S : S = {pre, x}
    OBVIOUS
  <2>5. <<pre>> \in Seq(S) /\ x \in S
    BY <2>4
  <2>6. Popped(f) = P /\ Last(f.logs) = x /\ Head1(f) = parent[1] /\ f.number = N
    <3>1. Undone(HeaderOf(N, parent, <<pre>>, ts, <<m>>), x)
      BY <2>5, PushedIs
    <3>2. Undone(P, x)
      BY <1>4, <3>1
    <3>3. P.number = N /\ P.parent = parent
      BY <1>4 DEF HeaderOf
    <3> QED
      BY <2>3, <3>2, <3>3 DEF Undone, Head1
  <2>7. <<b>> = slot_author(ts, Authorities(parent[1], N, Until(n)))
    BY <1>3, <1>7, <2>3, <2>6 DEF By
  <2>8. slot_author(ts, Authorities(parent[1], N, Until(n))) \in authors
    BY <1>2, <1>10 DEF Authorities
  <2> QED
    BY <2>1, <2>7, <2>8
<1> QED
  BY <1>11, <1>12, <1>13, <1>14, <1>15, <1>16 DEF Resealed

\* A block comes from the network or from faulty peers, is recorded, and imported
\* if it is accepted.
LEMMA DeliverStep ==
    ASSUME IInv, NEW n \in Nodes, NEW sent \in wire, NEW h \in {sent} \cup Faulty(sent),
           Deliver(n, h)
    PROVE  IInv'
<1>1. /\ Recorded(n, h) /\ wire' = wire /\ clock' = clock
      /\ clock \in [Nodes -> Nat] /\ imported = [m \in Nodes |-> imported[m]]
      /\ best = [m \in Nodes |-> best[m]]
  BY DEF Deliver, IInv, NodesInv
<1>2. /\ seen' = [m \in Nodes |-> seen'[m]]
      /\ equivocations' = [m \in Nodes |-> equivocations'[m]]
      /\ \A m \in Nodes : seen[m] \subseteq seen'[m]
      /\ \A m \in Nodes : equivocations[m] \subseteq equivocations'[m]
      /\ StoreInv'
  BY <1>1, RecordedIs
<1>3. ASSUME NEW m \in Nodes, NEW slot, NEW header, NEW signer, Covered(m, slot, header, signer)
      PROVE  Covered(m, slot, header, signer)'
  BY <1>2, <1>3 DEF Covered
<1>4. CASE Accepted(n, h)
  <2>1. h \in wire
    BY <1>4, FaultyRefused
  <2>2. Sealed(h) /\ clock[n] \in Nat
    BY <1>1, <2>1 DEF IInv, BlocksInv
  <2>3. PICK p : p = VerifiedParams(h)
    OBVIOUS
  <2>4. h = p.post_hash
    BY <2>3 DEF VerifiedParams
  <2>5. /\ Verify(n, h, TRUE) = "Checked"
        /\ imported' = [imported EXCEPT ![n] = @ \cup {p}]
        /\ best' = [best EXCEPT ![n] = Chosen(n, h)]
    BY <1>4, <2>3, <2>4 DEF Deliver, Accepted, Imported
  <2>6. Expected(n, h) = <<By(h)>>
    BY <2>2, <2>5, VerifySealed
  <2>7. wire' = wire \cup {h}
    BY <1>1, <2>1
  <2>8. /\ clock' \in [Nodes -> Nat]
        /\ imported' = [m \in Nodes |-> imported'[m]]
        /\ best' = [m \in Nodes |-> best'[m]]
        /\ \A m \in Nodes : best'[m] \in Known(m)'
        /\ BlocksInv' /\ ExpectedInv'
    BY <1>1, <2>2, <2>4, <2>5, <2>6, <2>7, BlockAdded
  <2>9. /\ Known(n)' = Known(n) \cup {h}
        /\ \A m \in Nodes : m # n => Known(m)' = Known(m)
    BY <1>1, <2>4, <2>5, KnownGrows
  <2>10. SeenInv'
    <3>1. ASSUME NEW m \in Nodes, Config[m].verifier.check_for_equivocation,
                 NEW g \in Received(m)'
          PROVE  Covered(m, find_pre_digest(g), Popped(g), By(g))'
      <4>1. PICK slot, header, signer :
                slot = find_pre_digest(g) /\ header = Popped(g) /\ signer = By(g)
        OBVIOUS
      <4>2. /\ g \in Known(m)' \ {Genesis} /\ g.maker # <<m>> /\ InCapacity(m, slot)
        BY <1>1, <4>1 DEF Received, InCapacity
      <4>3. CASE g \in Known(m)
        <5>1. g \in Received(m)
          BY <4>1, <4>2, <4>3 DEF Received
        <5>2. Covered(m, slot, header, signer)
          BY <3>1, <4>1, <5>1 DEF IInv, SeenInv
        <5>3. Covered(m, slot, header, signer)'
          BY <1>3, <5>2
        <5> QED
          BY <4>1, <5>3
      <4>4. CASE g \notin Known(m)
        <5>1. m = n /\ g = h
          BY <2>9, <4>2, <4>4
        <5>2. find_pre_digest(Popped(h)) = slot
          BY <2>2, <4>1, <5>1, SealedFacts
        <5>3. Checked(n, h) = "Checked"
          BY <2>5 DEF Verify
        <5>4. Covered(n, find_pre_digest(Popped(h)), Popped(h), By(h))'
          BY <1>1, <3>1, <4>2, <5>1, <5>2, <5>3, RecordedIs
        <5> QED
          BY <4>1, <5>1, <5>2, <5>4 DEF Covered
      <4> QED
        BY <4>3, <4>4
    <3> QED
      BY <3>1 DEF SeenInv, Covered, By
  <2>11. NodesInv'
    BY <1>2, <2>8 DEF NodesInv
  <2> QED
    BY <1>2, <2>8, <2>10, <2>11 DEF IInv
<1>5. CASE ~Accepted(n, h)
  <2>1. imported' = imported /\ best' = best
    BY <1>5 DEF Deliver
  <2>2. \A m \in Nodes : Known(m)' = Known(m)
    BY <2>1 DEF Known
  <2>3. NodesInv'
    BY <1>1, <1>2, <2>1, <2>2 DEF IInv, NodesInv
  <2>4. BlocksInv' /\ ExpectedInv'
    BY <1>1, <2>2 DEF IInv, BlocksInv, FaultyIsRefused, ExpectedInv
  <2>5. \A m \in Nodes : Received(m)' = Received(m)
    BY <1>1, <2>2 DEF Received, InCapacity
  <2>6. SeenInv'
    <3>1. ASSUME NEW m \in Nodes, Config[m].verifier.check_for_equivocation,
                 NEW g \in Received(m)'
          PROVE  Covered(m, find_pre_digest(g), Popped(g), By(g))'
      <4>1. PICK slot, header, signer :
                slot = find_pre_digest(g) /\ header = Popped(g) /\ signer = By(g)
        OBVIOUS
      <4>2. Covered(m, slot, header, signer)
        BY <2>5, <3>1, <4>1 DEF IInv, SeenInv
      <4>3. Covered(m, slot, header, signer)'
        BY <1>3, <4>2
      <4> QED
        BY <4>1, <4>3
    <3> QED
      BY <3>1 DEF SeenInv, Covered, By
  <2> QED
    BY <1>2, <2>3, <2>4, <2>6 DEF IInv
<1> QED
  BY <1>4, <1>5

\* The inductive invariant.
LEMMA InductiveInv == Spec => []IInv
<1>1. IInv /\ [Next]_vars => IInv'
  <2> SUFFICES ASSUME IInv, [Next]_vars PROVE IInv'
    OBVIOUS
  <2>1. CASE UNCHANGED vars
    <3>1. /\ clock' = clock /\ imported' = imported /\ best' = best /\ seen' = seen
          /\ wire' = wire /\ equivocations' = equivocations
      BY <2>1 DEF vars
    <3>2. \A m \in Nodes : Known(m)' = Known(m)
      BY <3>1 DEF Known
    <3>3. NodesInv' /\ BlocksInv'
      BY <3>1, <3>2 DEF IInv, NodesInv, BlocksInv, FaultyIsRefused
    <3>4. ExpectedInv' /\ StoreInv'
      BY <3>1, <3>2 DEF IInv, ExpectedInv, StoreInv
    <3>5. SeenInv'
      BY <3>1, <3>2 DEF IInv, SeenInv, Covered, Received, InCapacity
    <3> QED
      BY <3>3, <3>4, <3>5 DEF IInv
  <2>2. CASE Next
    <3>1. PICK n \in Nodes :
              \/ Advance(n) \/ Author(n)
              \/ \E sent \in wire : \E h \in {sent} \cup Faulty(sent) : Deliver(n, h)
      BY <2>2 DEF Next
    <3> QED
      BY <3>1, AdvanceStep, AuthorStep, DeliverStep
  <2> QED
    BY <2>1, <2>2
<1> QED
  BY <1>1, InitInv, PTL DEF Spec

-----------------------------------------------------------------------------
(***************************************************************************)
(* Builders, verifiers and the change of the authority set                 *)
(***************************************************************************)
\* What the invariant says of one block of one node.
LEMMA KnownSealed ==
    ASSUME IInv, NEW n \in Nodes, NEW h \in Known(n) \ {Genesis}
    PROVE  Sealed(h) /\ Expected(n, h) = <<By(h)>>
BY DEF IInv, BlocksInv, FaultyIsRefused, ExpectedInv

\* Compatible nodes fetch the same authorities, hence expect the same author.
LEMMA AgreeInv == IInv => PeersAgree
<1> SUFFICES ASSUME IInv, NEW n \in Nodes, NEW m \in Nodes, NEW h \in Known(m) \ {Genesis},
                    NEW with_body \in BOOLEAN, Compatible(n, m, h.number),
                    find_pre_digest(h) <= clock[n] + 1
             PROVE  Verify(n, h, with_body) = "Checked"
  BY DEF PeersAgree
<1>1. Sealed(h) /\ Expected(m, h) = <<By(h)>>
  BY KnownSealed
<1>2. clock[n] \in Nat
  BY DEF IInv, NodesInv
<1>3. /\ h.number = Head1(h).number + 1 /\ Head1(h).number \in Nat
      /\ find_pre_digest(h) = h.timestamp
  BY <1>1, SealedFacts DEF Sealed
<1>4. PICK N, k : N = h.number /\ k = Head1(h).number
  OBVIOUS
<1>5. SessionSet[k + 1] = SessionSet[N] /\ SessionSet[k + 2] = SessionSet[N + 1]
  BY <1>3, <1>4
<1>6. Authorities(Head1(h), h.number, Until(n)) = Authorities(Head1(h), h.number, Until(m))
  <2>1. \A u : Authorities(Head1(h), h.number, u) =
              IF u > N THEN SessionSet[N + 1] ELSE SessionSet[N]
    BY <1>4, <1>5 DEF Authorities, InitializedAuthorities, RuntimeAuthorities
  <2> QED
    BY <1>4, <2>1 DEF Compatible
<1>7. Expected(n, h) = <<By(h)>>
  BY <1>1, <1>6 DEF Expected
<1> QED
  BY <1>1, <1>2, <1>3, <1>7, VerifySealed

\* The expected author is one of the authorities that were fetched.
LEMMA OldSetInv == IInv => SealedByTheOldSet
<1> SUFFICES ASSUME IInv, NEW n \in Nodes, NEW h \in Known(n) \ {Genesis},
                    Until(n) <= h.number
             PROVE  Last(h.logs).by \in ToSet(SessionSet[h.number])
  BY DEF SealedByTheOldSet
<1>1. Sealed(h) /\ Expected(n, h) = <<By(h)>>
  BY KnownSealed
<1>2. PICK N, k, ts : N = h.number /\ k = Head1(h).number /\ ts = h.timestamp
  OBVIOUS
<1>3. N = k + 1 /\ k \in Nat /\ N \in 1..MaxNumber /\ ts \in Nat
  BY <1>1, <1>2, SealedFacts DEF Sealed
<1>4. Until(n) \in Nat
  BY ConfigAssumption DEF Until, AuraVerifier, CompatibilityMode
<1>5. PICK A : A = SessionSet[N]
  OBVIOUS
<1>6. Authorities(Head1(h), h.number, Until(n)) = A
  <2>1. ~(Until(n) > N) /\ SessionSet[k + 1] = SessionSet[N]
    BY <1>2, <1>3, <1>4
  <2> QED
    BY <1>2, <1>5, <2>1 DEF Authorities, RuntimeAuthorities
<1>7. A \in Seq(AuthorityIds)
  <2>1. N \in 1..Len(SessionSet)
    BY <1>3, SessionAssumption, BoundsAssumption
  <2> QED
    BY <1>5, <2>1, SessionAssumption
<1>8. slot_author(ts, A) = <<By(h)>>
  BY <1>1, <1>2, <1>6 DEF Expected
<1>9. A # <<>> /\ <<A[(ts % Len(A)) + 1]>> = <<By(h)>>
  BY <1>8 DEF slot_author
<1>10. A[(ts % Len(A)) + 1] = By(h)
  BY <1>9
<1>11. (ts % Len(A)) + 1 \in DOMAIN A
  <2>1. Len(A) \in Nat /\ Len(A) > 0 /\ DOMAIN A = 1..Len(A)
    BY <1>7, <1>9, EmptySeq
  <2>2. ts % Len(A) \in 0..(Len(A) - 1)
    BY <1>3, <2>1
  <2> QED
    BY <2>1, <2>2
<1> QED
  BY <1>2, <1>5, <1>10, <1>11 DEF ToSet, By

-----------------------------------------------------------------------------
(***************************************************************************)
(* The theorems                                                            *)
(***************************************************************************)

\* Builder and verifier agree: in any run, every block that one node built or
\* verified passes verify of every compatible node that knows its parent and
\* whose clock is close enough, across changes of the authority set and the end
\* of the compatibility mode.
THEOREM AgreementCorrect == Spec => []PeersAgree
BY InductiveInv, AgreeInv, PTL

\* Outside of the compatibility mode no node ever has a block that enacts a new
\* authority set and is sealed by an authority of the new set only.
THEOREM OldSetCorrect == Spec => []SealedByTheOldSet
BY InductiveInv, OldSetInv, PTL

\* Every block that a node ever has is one that a slot worker built, as it was
\* built: whatever faulty peers make of it (without its seal or pre-digest, with
\* two of them, changed after it was signed, sealed by another authority or with
\* another timestamp) is refused by check_header, check_inherents or the runtime.
THEOREM RefusalCorrect == Spec => []FaultyIsRefused
<1>1. IInv => FaultyIsRefused
  BY DEF IInv, BlocksInv
<1> QED
  BY <1>1, InductiveInv, PTL

\* The stored header of a slot and signer is the first one of all proofs.
LEMMA ReportedInv == IInv => EquivocationsAreReported
<1> SUFFICES ASSUME IInv, NEW n \in Nodes, Config[n].verifier.check_for_equivocation,
                    NEW a \in Received(n)
             PROVE  \E first \in seen[n] : \A b \in Received(n) :
                      find_pre_digest(a) = find_pre_digest(b) /\ Last(a.logs).by = Last(b.logs).by
                      => \/ first.header = Popped(b)
                         \/ EquivocationProof(find_pre_digest(b), Last(b.logs).by,
                                              first.header, Popped(b)) \in equivocations[n]
  BY DEF IInv, StoreInv, EquivocationsAreReported
<1>1. \A b \in Received(n) : Covered(n, find_pre_digest(b), Popped(b), By(b))
  BY DEF IInv, SeenInv
<1>2. PICK first \in seen[n] : first.slot = find_pre_digest(a) /\ first.signer = By(a)
  BY <1>1 DEF Covered
<1>3. ASSUME NEW b \in Received(n), find_pre_digest(a) = find_pre_digest(b), By(a) = By(b)
      PROVE  \/ first.header = Popped(b)
             \/ EquivocationProof(find_pre_digest(b), By(b), first.header, Popped(b))
                  \in equivocations[n]
  <2>1. PICK s \in seen[n] :
           /\ s.slot = find_pre_digest(b) /\ s.signer = By(b)
           /\ \/ s.header = Popped(b)
              \/ EquivocationProof(find_pre_digest(b), By(b), s.header, Popped(b))
                   \in equivocations[n]
    BY <1>1 DEF Covered
  <2>2. s = first
    BY <1>2, <1>3, <2>1 DEF IInv, StoreInv
  <2> QED
    BY <2>1, <2>2
<1> QED
  BY <1>2, <1>3 DEF By

\* check_equivocation misses nothing: of the blocks of one slot and signer that a
\* node got from the network, in whatever order they came, all but the stored one
\* are reported together with the stored one, while the slot is in capacity.
THEOREM EquivocationCorrect == Spec => []EquivocationsAreReported
BY InductiveInv, ReportedInv, PTL
=============================================================================
