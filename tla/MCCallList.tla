----------------------------- MODULE MCCallList -----------------------------
(***************************************************************************)
(* Model checking of the replay and the formatters: several transactions,  *)
(* so that state left behind by one can reach the next.                    *)
(***************************************************************************)
EXTENDS Formatters

\* Siblings and nesting after or before a smaller transaction, so that anything
\* left behind shows; in a Legacy replay, where positions can shift, also in a
\* third transaction.
Nodes3 == [r \in Runtimes |-> IF r = "early" THEN <<2, 3>> ELSE <<3, 1, 1>>]

\* Gas is compared with the tree only where frames end with Exit, and it has no
\* influence on anything else.
CostsPerRuntime == [r \in Runtimes |-> IF r = "early" THEN 2 ELSE 0]
=============================================================================
