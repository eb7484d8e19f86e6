--------------------------- MODULE TreasuryReward ---------------------------
(***************************************************************************)
(* The edge-treasury-reward pallet (pallets/edge-treasury-reward): what it *)
(* keeps in the state of a block, its calls and its on_finalize hook; and  *)
(* the other income of the treasury, its share of the fees (node/runtime). *)
(***************************************************************************)
EXTENDS Integers

\* A call of the pallet, who makes it and what is paid for it.
Extrinsic ==
    [call : {"set_current_payout", "set_minting_interval"}, value : Nat,
     origin : {"root", "signed"}, fee : Nat, tip : Nat]

\* MintingInterval, CurrentPayout, the free balance of the treasury, what the
\* authors of blocks got, and the TreasuryMinting event of the block, if any.
Storage(interval, payout) ==
    [minting_interval |-> interval, current_payout |-> payout,
     treasury |-> 0, authors |-> 0, event |-> <<>>]

GenesisBuild(config) == Storage(config.minting_interval, config.current_payout)

\* A call that is not from root is refused and leaves the state alone.
set_current_payout(state, origin, payout) ==
    IF origin = "root" THEN [state EXCEPT !.current_payout = payout] ELSE state
set_minting_interval(state, origin, interval) ==
    IF origin = "root" THEN [state EXCEPT !.minting_interval = interval] ELSE state

\* ration(80, 20) of an amount: the first share is rounded down, the second is the rest.
Ration(amount) == LET first == (amount * 80) \div 100 IN <<first, amount - first>>

\* Authorship::author() is unwrapped: the digest of the block has to tell its author.
Author(state, amount) == [state EXCEPT !.authors = @ + amount]

\* Of the fee and of the tip, each rationed by itself, 80% go to the treasury and
\* the rest to the author.
DealWithFees(state, fee, tip) ==
    LET treasury == Ration(fee)[1] + Ration(tip)[1]
        author == Ration(fee)[2] + Ration(tip)[2]
    IN  Author([state EXCEPT !.treasury = @ + treasury], author)

\* A call of root comes through the sudo pallet, which takes no fee. A call that is
\* refused is paid for like any other.
Dispatch(state, xt) ==
    DealWithFees(
        CASE xt.call = "set_current_payout" -> set_current_payout(state, xt.origin, xt.value)
          [] xt.call = "set_minting_interval" -> set_minting_interval(state, xt.origin, xt.value),
        xt.fee, xt.tip)

\* block_number % 0 panics, and with it the execution of the block.
OnFinalizePanics(state) == state.minting_interval = 0

\* Mutant: only the block at the interval itself is rewarded, not its multiples.
on_finalize_once(state, block_number) ==
    LET reward == state.current_payout
    IN  IF block_number # state.minting_interval \/ reward = 0
        THEN [state EXCEPT !.event = <<>>]
        ELSE [state EXCEPT !.treasury = @ + reward,
                           !.event = <<state.treasury + reward, block_number>>]

on_finalize(state, block_number) ==
    LET reward == state.current_payout
    IN  IF block_number % state.minting_interval # 0 \/ reward = 0
        THEN [state EXCEPT !.event = <<>>]
        ELSE [state EXCEPT !.treasury = @ + reward,
                           !.event = <<state.treasury + reward, block_number>>]
=============================================================================
