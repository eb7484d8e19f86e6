------------------------------ MODULE MCTxPool ------------------------------
(***************************************************************************)
(* Model checking of TxPool: a sender with transactions of every type, two *)
(* of which compete for one nonce, and an account without Ethereum         *)
(* transactions.                                                           *)
(***************************************************************************)
EXTENDS TxPool

Xt(hash, type, from, nonce, action, fee) ==
    [hash |-> hash, type |-> type, from |-> from, nonce |-> nonce, action |-> action,
     gas_price |-> IF type = "EIP1559" THEN 0 ELSE fee,
     max_fee_per_gas |-> IF type = "EIP1559" THEN fee ELSE 0]

SixExtrinsics ==
    {Xt(1, "Legacy", "a", 0, "Call", 1),
     Xt(2, "EIP2930", "a", 1, "Create", 1),
     Xt(3, "EIP1559", "a", 1, "Call", 2),
     Xt(4, "Legacy", "a", 2, "Call", 1),
     Xt(5, "EIP1559", "a", 2, "Call", 2),
     Xt(6, "Substrate", "s", 0, "Call", 1)}
=============================================================================
