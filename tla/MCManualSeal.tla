---------------------------- MODULE MCManualSeal ----------------------------
(***************************************************************************)
(* Model checking of ManualSeal and TreasuryReward.                        *)
(***************************************************************************)
EXTENDS ManualSeal

\* An interval of 0 is the one that on_finalize cannot divide by.
SetPayout == [call |-> "set_current_payout", value |-> 5, origin |-> "root", fee |-> 0, tip |-> 0]
SetInterval == [call |-> "set_minting_interval", value |-> 1, origin |-> "root", fee |-> 0, tip |-> 0]
SetZero == [call |-> "set_minting_interval", value |-> 0, origin |-> "root", fee |-> 0, tip |-> 0]
SetUnauthorised ==
    [call |-> "set_minting_interval", value |-> 7, origin |-> "signed", fee |-> 1, tip |-> 6]
Calls == {SetPayout, SetInterval, SetZero, SetUnauthorised}

Config == [minting_interval |-> 2, current_payout |-> 3]

\* RPC calls that fork, finalize and restart; then with extrinsics and failures;
\* then with a block of another node.
Aura ==
    [seal |-> "manual", provider |-> "aura", inherents_len |-> 1, inherent_extrinsics |-> 1,
     claims |-> TRUE, first_in_chain |-> TRUE,
     MaxCalls |-> 3, abandons |-> FALSE, names_blocks |-> TRUE,
     create_empty |-> {TRUE}, finalize |-> {FALSE}, extrinsics |-> {},
     MaxRestarts |-> 1, MaxFaults |-> 0, MaxForeign |-> 0]
AuraPool ==
    [Aura EXCEPT !.MaxCalls = 2, !.abandons = TRUE, !.names_blocks = FALSE,
                 !.create_empty = BOOLEAN, !.MaxFaults = 1,
                 !.extrinsics = {SetPayout, SetInterval, SetZero}]
AuraForeign ==
    [Aura EXCEPT !.MaxCalls = 2, !.finalize = BOOLEAN, !.MaxForeign = 1, !.MaxRestarts = 0]

\* Babe without a claim; then on the chain of another node, with a claim but not
\* as its first authority, and with neither.
Babe ==
    [Aura EXCEPT !.provider = "babe", !.inherents_len = 2, !.claims = FALSE, !.MaxCalls = 2, !.MaxFaults = 1]
BabeSecond ==
    [Babe EXCEPT !.claims = TRUE, !.first_in_chain = FALSE, !.names_blocks = FALSE,
                 !.MaxFaults = 0, !.MaxForeign = 1]
BabeAbroad == [BabeSecond EXCEPT !.claims = FALSE]

Instant ==
    [Aura EXCEPT !.seal = "instant", !.extrinsics = Calls \ {SetInterval}, !.MaxFaults = 1,
                 !.MaxForeign = 1]
InstantPlain ==
    [Instant EXCEPT !.provider = "none", !.inherents_len = 0, !.inherent_extrinsics = 0,
                    !.extrinsics = {SetPayout, SetInterval}, !.MaxRestarts = 0, !.MaxForeign = 0]
\* The node's own inherent data providers for Aura: timestamp, slot and fee.
InstantNode ==
    [InstantPlain EXCEPT !.provider = "aura", !.inherents_len = 3, !.inherent_extrinsics = 2]

SetUps ==
    {Aura, AuraPool, AuraForeign, Babe, BabeSecond, BabeAbroad, Instant, InstantPlain, InstantNode}
=============================================================================
