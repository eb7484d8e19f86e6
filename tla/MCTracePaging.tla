--------------------------- MODULE MCTracePaging ---------------------------
(***************************************************************************)
(* Model checking of TracePaging: two addresses, so that a trace of each   *)
(* kind can pass or fail each of the two address lists, and blocks large   *)
(* enough for one block to cross both "after" and the limit.               *)
(***************************************************************************)
EXTENDS TracePaging

\* Between them these actions pass and fail each list of NoneOrFirst.
FourActions ==
    {[type |-> "Call", from |-> "a", to |-> "a"],
     [type |-> "Call", from |-> "a", to |-> "b"],
     [type |-> "Create", from |-> "b"],
     [type |-> "Suicide", address |-> "a"]}

NoneOrFirst == {{}, {"a"}}
=============================================================================
