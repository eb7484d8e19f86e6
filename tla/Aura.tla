-------------------------------- MODULE Aura --------------------------------
(***************************************************************************)
(* Aura of the consensus transition (node/consensus-transition/aura): the  *)
(* slot worker that builds and seals blocks (lib.rs) and the verifier of   *)
(* the import queue (import_queue.rs), for nodes that run with different   *)
(* compatibility modes while the authority set changes.                    *)
(*                                                                         *)
(* External, and modelled from how this code uses it: the slot stream of   *)
(* sc_consensus_slots, the runtime's authorities and its block execution,  *)
(* the client's fork choice, the equivocation store. A hash is the header  *)
(* itself. The network delivers any sealed block in any order, again and   *)
(* again, or never, and so it does with what faulty peers make of one.     *)
(***************************************************************************)
EXTENDS Integers, Sequences, FiniteSets, SequencesExt

CONSTANTS
    Nodes,
    AuthorityIds,
    Config,      \* the worker and verifier of every node
    Exposed,     \* <<m, n>>: faulty peers are between the maker m and node n
    SessionSet,  \* SessionSet[i + 1]: authorities in the state after block i
    MaxSlot,     \* bound: slots
    MaxNumber,   \* bound: height of the chain
    MaxDrift,    \* bound: slots between the clocks of two nodes
    MaxSlotCapacity \* MAX_SLOT_CAPACITY: age up to which equivocations are looked for

\* The block "until" which authorities are fetched after initialize_block;
\* CompatibilityMode::None is 0.
CompatibilityMode == Nat

AuraWorker ==
    [keystore : SUBSET AuthorityIds, compatibility_mode : CompatibilityMode,
     can_author_with : BOOLEAN]
AuraVerifier ==
    [can_author_with : BOOLEAN, check_for_equivocation : BOOLEAN,
     compatibility_mode : CompatibilityMode]

\* start_aura and import_queue pass on what they are given; can_author_with goes
\* to the slot loop around the worker.
BuildAuraWorker(keystore, compatibility_mode) ==
    [keystore |-> keystore, compatibility_mode |-> compatibility_mode]
StartAura(keystore, can_author_with, compatibility_mode) ==
    LET worker == BuildAuraWorker(keystore, compatibility_mode)
    IN  [keystore |-> worker.keystore, can_author_with |-> can_author_with,
         compatibility_mode |-> worker.compatibility_mode]
ImportQueue(can_author_with, check_for_equivocation, compatibility_mode) ==
    [can_author_with |-> can_author_with, check_for_equivocation |-> check_for_equivocation,
     compatibility_mode |-> compatibility_mode]

\* service.rs builds the queue and then the worker, from the same native version
\* and the same number, and always checks for equivocations.
NewPartial(node) == ImportQueue(node.native_version_fits, TRUE, node.until)
NewFullBase(node) ==
    [worker |-> StartAura(node.keystore, node.native_version_fits, node.until),
     verifier |-> NewPartial(node)]

ASSUME ConfigAssumption ==
    Config \in [Nodes -> [worker : AuraWorker, verifier : AuraVerifier]]
ASSUME ExposedAssumption == Exposed \subseteq Nodes \X Nodes
ASSUME ServiceAssumption ==
    \A n \in Nodes :
        Config[n] = NewFullBase([keystore |-> Config[n].worker.keystore,
                                 native_version_fits |-> Config[n].worker.can_author_with,
                                 until |-> Config[n].worker.compatibility_mode])
ASSUME SessionAssumption ==
    /\ SessionSet \in Seq(Seq(AuthorityIds))
    /\ Len(SessionSet) = MaxNumber + 2
ASSUME BoundsAssumption == {MaxSlot, MaxNumber, MaxDrift, MaxSlotCapacity} \subseteq Nat

VARIABLES
    clock,         \* the slot each node's clock is in
    worked,        \* the last slot each node's slot worker was called for
    imported,      \* the import parameters of the blocks of each node
    best,          \* its best block
    seen,          \* its equivocation store: one header per slot and signer
    equivocations, \* the equivocation proofs it reported
    wire           \* sealed blocks that were announced

vars == <<clock, worked, imported, best, seen, equivocations, wire>>

-----------------------------------------------------------------------------
(***************************************************************************)
(* Headers and authorities                                                 *)
(***************************************************************************)
PreDigest(slot) == [item |-> "pre", slot |-> slot]
Seal(author, header) == [item |-> "seal", by |-> author, over |-> header]

\* parent is a sequence so that the genesis header has one too.
Genesis == [number |-> 0, parent |-> <<>>, logs |-> <<>>, timestamp |-> 0, maker |-> <<>>]

Popped(header) == [header EXCEPT !.logs = Front(@)]
Pushed(header, item) == [header EXCEPT !.logs = Append(@, item)]

\* What find_pre_digest returns: a slot, or an error as a negative number.
MultipleHeaders == -1
NoDigestFound == -2

find_pre_digest(header) ==
    LET pre == {i \in DOMAIN header.logs : header.logs[i].item = "pre"}
    IN  IF header.number = 0 THEN 0
        ELSE IF pre = {} THEN NoDigestFound
        ELSE IF \E i, j \in pre : i # j THEN MultipleHeaders
        ELSE header.logs[CHOOSE i \in pre : TRUE].slot

\* None as an empty sequence.
slot_author(slot, authorities) ==
    IF authorities = <<>> THEN <<>> ELSE <<authorities[(slot % Len(authorities)) + 1]>>

\* The runtime's answer in the state of a block, and in the state that
\* initialize_block makes of it, in which a new set is already enacted.
RuntimeAuthorities(block) == SessionSet[block.number + 1]
InitializedAuthorities(block) == SessionSet[block.number + 2]

\* Mutant: the authorities of the block's own state are used for every block.
AuthoritiesOfBlock(parent, context_block_number, until) == InitializedAuthorities(parent)

Authorities(parent, context_block_number, until) ==
    IF until > context_block_number THEN InitializedAuthorities(parent)
    ELSE RuntimeAuthorities(parent)

-----------------------------------------------------------------------------
(***************************************************************************)
(* import_queue.rs                                                         *)
(***************************************************************************)

\* Mutant: the signer is compared, what was signed is not.
CheckHeaderSigner(header, slot_now, authorities) ==
    IF header.logs = <<>> THEN "HeaderUnsealed"
    ELSE IF Last(header.logs).item # "seal" THEN "HeaderBadSeal"
    ELSE LET slot == find_pre_digest(Popped(header))
         IN  IF slot < 0 THEN "NoDigestFound"
             ELSE IF slot > slot_now THEN "Deferred"
             ELSE IF <<Last(header.logs).by>> = slot_author(slot, authorities) THEN "Checked"
             ELSE "BadSignature"

\* check_header: the verdict on a sealed header.
CheckHeader(header, slot_now, authorities) ==
    IF header.logs = <<>> THEN "HeaderUnsealed"
    ELSE IF Last(header.logs).item # "seal" THEN "HeaderBadSeal"
    ELSE LET seal == Last(header.logs)
             pre == Popped(header)
             slot == find_pre_digest(pre)
             expected_author == slot_author(slot, authorities)
         IN  IF slot = MultipleHeaders THEN "MultipleHeaders"
             ELSE IF slot = NoDigestFound THEN "NoDigestFound"
             ELSE IF slot > slot_now THEN "Deferred"
             ELSE IF expected_author = <<>> THEN "SlotAuthorNotFound"
             ELSE IF <<seal.by>> = expected_author /\ seal.over = pre THEN "Checked"
             ELSE "BadSignature"

\* check_inherents, after aura_replace_inherent_data(slot): the runtime compares
\* the timestamp of the body with the slot of the header.
CheckInherents(verifier, header, slot) == verifier.can_author_with => header.timestamp = slot

\* The verdict of check_header in verify: one slot of drift is allowed for.
Checked(n, header) ==
    CheckHeader(header, clock[n] + 1,
                Authorities(header.parent[1], header.number, Config[n].verifier.compatibility_mode))

\* verify. A block without a body, or for a node whose authoring version does
\* not fit, skips the inherents (so would a runtime with a BlockBuilderApi before
\* version 2, which this one is not).
Verify(n, header, with_body) ==
    IF /\ Checked(n, header) = "Checked"
       /\ with_body
       /\ ~CheckInherents(Config[n].verifier, header, find_pre_digest(Popped(header)))
    THEN "Inherent"
    ELSE Checked(n, header)

\* What a verified block is imported with: the header without its seal, the
\* seal as a post digest, and the hash of both.
VerifiedParams(header) ==
    [header |-> Popped(header), post_digests |-> <<Last(header.logs)>>, post_hash |-> header]

-----------------------------------------------------------------------------
(***************************************************************************)
(* lib.rs: the slot worker                                                 *)
(***************************************************************************)

\* Mutant: the number of the head is used, not that of the new block.
ClaimSlotOfHead(n, head, slot) ==
    LET author == slot_author(slot, Authorities(head, head.number, Config[n].worker.compatibility_mode))
    IN  IF author # <<>> /\ author[1] \in Config[n].worker.keystore THEN author ELSE <<>>

\* claim_slot with epoch_data: the author of the slot, if its key is here.
ClaimSlot(n, head, slot) ==
    LET author == slot_author(slot, Authorities(head, head.number + 1, Config[n].worker.compatibility_mode))
    IN  IF author # <<>> /\ author[1] \in Config[n].worker.keystore THEN author ELSE <<>>

\* The proposed block: the pre-digest of the slot, and a body with a timestamp.
Proposed(n, head, slot) ==
    [number |-> head.number + 1, parent |-> <<head>>, logs |-> <<PreDigest(slot)>>,
     timestamp |-> slot, maker |-> <<n>>]

\* The runtime executes a block without its seal: Aura wants a slot after the
\* parent's and, as it is told of every timestamp, the timestamp of that slot;
\* the digest must be the one that the execution leaves.
Executes(block) ==
    LET slot == find_pre_digest(block)
    IN  /\ find_pre_digest(block.parent[1]) < slot
        /\ block.timestamp = slot
        /\ block.logs = <<PreDigest(slot)>>

\* block_import_params: the pre-sealed header is signed, the seal is a post
\* digest. The client computes the hash from both.
AuthoredParams(header, author) ==
    [header |-> header, post_digests |-> <<Seal(author, header)>>,
     post_hash |-> Pushed(header, Seal(author, header))]

-----------------------------------------------------------------------------
(***************************************************************************)
(* The nodes                                                               *)
(***************************************************************************)
GenesisParams == [header |-> Genesis, post_digests |-> <<>>, post_hash |-> Genesis]

Known(n) == {params.post_hash : params \in imported[n]}

Init ==
    /\ clock = [n \in Nodes |-> 0]
    /\ worked = [n \in Nodes |-> 0]
    /\ imported = [n \in Nodes |-> {GenesisParams}]
    /\ best = [n \in Nodes |-> Genesis]
    /\ seen = [n \in Nodes |-> {}]
    /\ equivocations = [n \in Nodes |-> {}]
    /\ wire = {}

\* ForkChoiceStrategy::LongestChain: the first of the longest chains is best.
Chosen(n, block) == IF block.number > best[n].number THEN block ELSE best[n]

Imported(n, params) ==
    /\ imported' = [imported EXCEPT ![n] = @ \cup {params}]
    /\ best' = [best EXCEPT ![n] = Chosen(n, params.post_hash)]

\* Clocks run on their own.
Advance(n) ==
    /\ clock[n] < MaxSlot
    /\ \A m \in Nodes : clock[n] + 1 - clock[m] <= MaxDrift
    /\ clock' = [clock EXCEPT ![n] = @ + 1]
    /\ UNCHANGED <<worked, imported, best, seen, equivocations, wire>>

\* The slot worker is called once per slot with the best block, if the node can
\* author with its version. It may also do nothing (backoff, offline, out of
\* time). No proposal comes of a block that does not execute.
Author(n) ==
    LET slot == clock[n]
        head == best[n]
        claim == ClaimSlot(n, head, slot)
    IN  /\ Config[n].worker.can_author_with
        /\ worked[n] < slot
        /\ head.number < MaxNumber
        /\ claim # <<>>
        /\ Executes(Proposed(n, head, slot))
        /\ LET params == AuthoredParams(Proposed(n, head, slot), claim[1])
           IN  /\ Imported(n, params)
               /\ wire' = wire \cup {params.post_hash}
        /\ worked' = [worked EXCEPT ![n] = slot]
        /\ UNCHANGED <<clock, seen, equivocations>>

\* Whether a header is young enough to be compared with others of its slot.
InCapacity(n, slot) == clock[n] + 1 - slot <= MaxSlotCapacity

\* The header of this slot and signer in the store of node n, as a set.
Stored(n, slot, signer) == {s \in seen[n] : s.slot = slot /\ s.signer = signer}

EquivocationProof(slot, offender, first_header, second_header) ==
    [slot |-> slot, offender |-> offender,
     first_header |-> first_header, second_header |-> second_header]

\* Mutant: only headers that extend the best chain enter the store.
CheckEquivocationOnBest(n, slot, header, signer) ==
    /\ equivocations' = [equivocations EXCEPT ![n] = @ \cup
          {EquivocationProof(slot, signer, s.header, header) :
             s \in {t \in Stored(n, slot, signer) : t.header # header}}]
    /\ seen' = [seen EXCEPT ![n] =
          IF header.parent = <<best[n]>> /\ InCapacity(n, slot) /\ Stored(n, slot, signer) = {}
          THEN @ \cup {[slot |-> slot, signer |-> signer, header |-> header]} ELSE @]

\* check_equivocation: the first header of a slot and signer is stored; another
\* one is reported together with it and not stored, the same one is ignored. The
\* store is not asked about old slots (and forgets them, which is not modelled).
CheckEquivocation(n, slot, header, signer) ==
    LET stored == Stored(n, slot, signer)
    IN  IF ~InCapacity(n, slot) THEN UNCHANGED <<seen, equivocations>>
        ELSE IF stored = {}
        THEN /\ seen' = [seen EXCEPT ![n] =
                    @ \cup {[slot |-> slot, signer |-> signer, header |-> header]}]
             /\ UNCHANGED equivocations
        ELSE /\ equivocations' = [equivocations EXCEPT ![n] = @ \cup
                    {EquivocationProof(slot, signer, s.header, header) :
                       s \in {t \in stored : t.header # header}}]
             /\ UNCHANGED seen

\* What check_header does beside its verdict.
Recorded(n, header) ==
    IF Checked(n, header) = "Checked" /\ Config[n].verifier.check_for_equivocation
    THEN CheckEquivocation(n, find_pre_digest(Popped(header)), Popped(header), Last(header.logs).by)
    ELSE UNCHANGED <<seen, equivocations>>

\* The block is imported if it is verified and then executes.
Accepted(n, header) == Verify(n, header, TRUE) = "Checked" /\ Executes(Popped(header))

\* Mutant: only children of the best block are imported.
DeliverOnBest(n, header) ==
    /\ header \notin Known(n)
    /\ header.parent[1] = best[n]
    /\ Recorded(n, header)
    /\ IF Accepted(n, header) THEN Imported(n, VerifiedParams(header))
       ELSE UNCHANGED <<imported, best>>
    /\ UNCHANGED <<clock, worked, wire>>

\* A block whose parent is known comes from the network, is verified and
\* imported. A block that is refused may come again; it leaves its header in the
\* equivocation store if it was refused for its inherents or by the runtime.
Deliver(n, header) ==
    /\ header \notin Known(n)
    /\ header.parent[1] \in Known(n)
    /\ Recorded(n, header)
    /\ IF Accepted(n, header) THEN Imported(n, VerifiedParams(header))
       ELSE UNCHANGED <<imported, best>>
    /\ UNCHANGED <<clock, worked, wire>>

\* What faulty peers make of a sealed header: it lost its seal or has another
\* pre-digest in its place; it has no pre-digest, two pre-digests or two seals,
\* under the old seal or sealed again; it was changed after it was signed; its
\* body has another timestamp than its slot; it is sealed by an authority whose
\* slot it is neither in the old set nor in the new one.
Resealed(pre, author) == Pushed(pre, Seal(author, pre))

Faulty(header) ==
    LET seal == Last(header.logs)
        pre == Popped(header)
        slot == find_pre_digest(pre)
        digests == {[pre EXCEPT !.logs = <<>>], [pre EXCEPT !.logs = <<@[1], @[1]>>], header}
        authors == {slot_author(slot, RuntimeAuthorities(header.parent[1])),
                    slot_author(slot, InitializedAuthorities(header.parent[1]))}
    IN  {pre, Pushed(pre, PreDigest(slot)), [header EXCEPT !.maker = <<>>]}
        \cup {Pushed(p, seal) : p \in digests}
        \cup {Resealed(p, seal.by) : p \in digests \cup {[pre EXCEPT !.timestamp = @ + 1]}}
        \cup {Resealed(pre, a) : a \in {b \in AuthorityIds : <<b>> \notin authors}}

Next ==
    \E n \in Nodes :
        \/ Advance(n)
        \/ Author(n)
        \/ \E header \in wire : Deliver(n, header)
        \/ \E sent \in {h \in wire : <<h.maker[1], n>> \in Exposed} :
              \E header \in Faulty(sent) : Deliver(n, header)

Spec == Init /\ [][Next]_vars

\* Time passes, and the network delivers again what a node still lacks.
FairSpec ==
    /\ Spec
    /\ \A n \in Nodes :
          /\ WF_vars(Advance(n))
          /\ WF_vars(\E header \in wire : Deliver(n, header))

-----------------------------------------------------------------------------
(***************************************************************************)
(* Properties                                                              *)
(***************************************************************************)

\* Two nodes fetch the same authorities for a block of this number: they have
\* both left the compatibility mode or both not, or the set does not change.
Until(n) == Config[n].verifier.compatibility_mode
Compatible(n, m, number) ==
    \/ Until(n) > number <=> Until(m) > number
    \/ SessionSet[number] = SessionSet[number + 1]

\* What a node has built or verified, every compatible node accepts once its
\* clock is close enough: builder and verifier agree on authorities, pre-header
\* and slot, across a change of the authority set and the end of the
\* compatibility mode. This is the doc of CompatibilityMode: nodes part only
\* "when the authority set changes", and only from the smaller "until" on.
PeersAgree ==
    \A n, m \in Nodes : \A header \in Known(m) \ {Genesis} : \A with_body \in BOOLEAN :
        /\ header.parent[1] \in Known(n)
        /\ Compatible(n, m, header.number)
        /\ find_pre_digest(header) <= clock[n] + 1
        => Verify(n, header, with_body) = "Checked"

\* The doc of UseInitializeBlock: "A block that enacts a new set, should not be
\* sealed/build by an authority of the new set." Outside of the compatibility
\* mode no node has a block sealed by an authority that was not in the set of
\* its parent.
SealedByTheOldSet ==
    \A n \in Nodes : \A header \in Known(n) \ {Genesis} :
        Until(n) <= header.number =>
            Last(header.logs).by \in ToSet(SessionSet[header.number])

\* Whatever the chain, the mode and the clock, and although a node whose
\* authoring version does not fit skips check_inherents: every block of a node is
\* one that a slot worker built, as it was built. What is found wrong, by
\* check_header, check_inherents or only in the execution, is not imported.
FaultyIsRefused == \A n \in Nodes : Known(n) \subseteq wire \cup {Genesis}

\* The blocks that a node got from the network and whose slot is in capacity.
Received(n) ==
    {h \in Known(n) \ {Genesis} : h.maker # <<n>> /\ InCapacity(n, find_pre_digest(h))}

\* Equivocation does not prevent an import, but a node that checks for it has
\* reported it: of all blocks of one slot and signer that came from the network,
\* on whatever forks, in whatever order and mixed with headers that were refused
\* after check_header, every one is reported with the same first header, or is
\* that header. A header that comes again is not reported with itself.
EquivocationsAreReported ==
    \A n \in Nodes : Config[n].verifier.check_for_equivocation =>
        /\ \A a \in Received(n) : \E first \in seen[n] : \A b \in Received(n) :
              /\ find_pre_digest(a) = find_pre_digest(b)
              /\ Last(a.logs).by = Last(b.logs).by
              => \/ first.header = Popped(b)
                 \/ EquivocationProof(find_pre_digest(b), Last(b.logs).by, first.header, Popped(b))
                       \in equivocations[n]
        /\ \A proof \in equivocations[n] : proof.first_header # proof.second_header

\* A block that is too far in the future is refused, not deferred, but is not
\* lost: it is accepted when it comes again. Every block of a node reaches every
\* node of the same mode.
BlocksSpread ==
    \A n, m \in Nodes : Until(n) = Until(m) =>
        []<>(Known(m) \subseteq Known(n))
=============================================================================
