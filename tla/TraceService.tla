---------------------------- MODULE TraceService ----------------------------
(***************************************************************************)
(* What the cache of client/rpc/trace/src/lib.rs promises the calls of     *)
(* trace_filter, without its batches, channels, tasks and counters: a      *)
(* block is unknown, being traced or traced; a call asks for one block at  *)
(* a time and is answered by what becomes of that block.                   *)
(***************************************************************************)
CONSTANTS Clients, Blocks, Results

\* The four values are distinct from the results and from every block.
CONSTANTS Absent, Pending, NoBlock, NoAnswer

CONSTANTS NotBatched, Closed    \* the two errors that are not results

VARIABLES
    entry,   \* what the service knows of each block
    wanted,  \* the block each call is asking for
    answer   \* the answer each call has received for that block

vars == <<entry, wanted, answer>>

Init ==
    /\ entry = [b \in Blocks |-> Absent]
    /\ wanted = [c \in Clients |-> NoBlock]
    /\ answer = [c \in Clients |-> NoAnswer]

Unanswered(b) == {c \in Clients : wanted[c] = b /\ answer[c] = NoAnswer}

AnswerAll(cs, v) == answer' = [c \in Clients |-> IF c \in cs THEN v ELSE answer[c]]

\* A batch makes unknown blocks known; the others are not traced again.
Pool(bs) ==
    /\ \A b \in bs : entry[b] = Absent
    /\ entry' = [b \in Blocks |-> IF b \in bs THEN Pending ELSE entry[b]]
    /\ UNCHANGED <<wanted, answer>>

\* A call asks for its first block, or for the next one once it has traces.
Ask(c, b) ==
    /\ wanted[c] = NoBlock \/ answer[c] \in Results
    /\ wanted' = [wanted EXCEPT ![c] = b]
    /\ answer' = [answer EXCEPT ![c] = NoAnswer]
    /\ UNCHANGED entry

\* A call returns, or its future is dropped.
Leave(c) ==
    /\ wanted' = [wanted EXCEPT ![c] = NoBlock]
    /\ answer' = [answer EXCEPT ![c] = NoAnswer]
    /\ UNCHANGED entry

\* A block that is not being traced is answered for at once.
Serve(c, b) ==
    /\ c \in Unanswered(b)
    /\ \/ entry[b] \in Results /\ AnswerAll({c}, entry[b])
       \/ entry[b] = Absent /\ AnswerAll({c}, NotBatched)
    /\ UNCHANGED <<entry, wanted>>

\* Tracing ends: the calls that wait for the block receive what is kept.
Resolve(b, res) ==
    /\ entry[b] = Pending
    /\ entry' = [entry EXCEPT ![b] = res]
    /\ \E cs \in SUBSET Unanswered(b) : AnswerAll(cs, res)
    /\ UNCHANGED wanted

\* Blocks are forgotten; calls that wait for one of them see it.
Evict(bs) ==
    /\ entry' = [b \in Blocks |-> IF b \in bs THEN Absent ELSE entry[b]]
    /\ \E cs \in SUBSET UNION {Unanswered(b) : b \in {k \in bs : entry[k] = Pending}} :
          AnswerAll(cs, Closed)
    /\ UNCHANGED wanted

Next ==
    \/ \E bs \in SUBSET Blocks : Pool(bs) \/ Evict(bs)
    \/ \E c \in Clients, b \in Blocks : Ask(c, b) \/ Serve(c, b)
    \/ \E c \in Clients : Leave(c)
    \/ \E b \in Blocks, res \in Results : Resolve(b, res)

Spec == Init /\ [][Next]_vars
=============================================================================
