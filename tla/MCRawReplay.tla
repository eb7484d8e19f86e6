---------------------------- MODULE MCRawReplay ----------------------------
(***************************************************************************)
(* Model checking of RawReplay with two contracts that call each other, so *)
(* that a contract can be entered again below itself.                      *)
(***************************************************************************)
EXTENDS RawReplay

\* Regular frames with storage, and all exceptional ones without.
RegularAndOdd == {<<FALSE, {}>>, <<TRUE, {"NoCode", "Precompile", "OutOfGas", "Nested"}>>}
Nesting == {<<FALSE, {"Nested"}>>}

OpsPerScenario == [s \in Scenarios |-> IF s[1] THEN 6 ELSE 8]
=============================================================================
