CONSTANTS
    Nobody = Nobody
    Plans <- MCPlans
    MaxSession = 7
    MaxGeneration = 2
SPECIFICATION FairSpec
INVARIANTS RowsInTheirGeneration OneRotation SignedOutStaysOut
PROPERTIES BarrierSpec NothingLeftBehind SwitchingEndsUnlessHeldUp
CHECK_DEADLOCK FALSE
