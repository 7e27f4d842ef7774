SPECIFICATION FairSpec
CONSTANTS
    U64Max = 12
    ControlChunk = 2
    LoopBuffer = 4
    CallerBuffers = {0, 1, 3, 4}
    Members <- MCMembers
    InitialBudgets <- MCBudgets
INVARIANTS
    TypeOK
    VerifiedSuccess
    NoSpuriousChecksum
    RetrySafe
PROPERTIES
    CancelledChargesNothing
    OperationReturns
CHECK_DEADLOCK FALSE
