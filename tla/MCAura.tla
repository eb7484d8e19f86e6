------------------------------- MODULE MCAura -------------------------------
(***************************************************************************)
(* Model checking of Aura: blocks 1 and 2 each enact a new authority set.  *)
(***************************************************************************)
EXTENDS Aura

CONSTANTS x, y, z

Rotation == <<<<"a", "b">>, <<"b", "c">>, <<"a", "c">>, <<"a", "c">>>>

\* x and y leave the compatibility mode with block 2; z is an old node that never
\* leaves it. x and z share their keys, so that one authority can seal two blocks
\* for one slot; y only follows, with a version that does not fit the runtime's.
Modes ==
    [n \in Nodes |->
       NewFullBase([keystore |-> IF n = y THEN {} ELSE {"a", "b", "c"},
                    until |-> IF n = z THEN 9 ELSE 2,
                    native_version_fits |-> n # y])]

\* Faulty peers are between x and y, which does not check inherents.
Between == {<<x, y>>}
=============================================================================
