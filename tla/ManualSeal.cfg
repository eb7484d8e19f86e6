CONSTANTS
    Engines <- SetUps
    Extrinsics <- Calls
    GenesisConfig <- Config
    SlotDuration = 4
    Now = {4, 7}
SPECIFICATION FairSpec
INVARIANTS
    SlotsDoNotCollide
    BestIsSealable
    AnswersAreTrue
    EmptyOnlyIfAsked
    TreasuryIsMinted
PROPERTIES
    EveryCallReturns
    InstantSeals
CHECK_DEADLOCK FALSE
