SPECIFICATION FairSpec
CONSTANTS
    U64Max = 400
    Jobs <- MCJobs
    Budgets <- MCBudgets
    ControlChunk = 2
    MaxTotalInput = 40
    MaxEntryOutput = 8
    MaxTotalOutput = 9
    MaxDictionary = 64
    MaxFrames = 3
    ByteBits = 2
INVARIANTS
    StreamVerdict
    PumpedInOrder
    OutputPaidAndBounded
    LzwRoundTrip
    LzwAccounted
PROPERTIES
    SessionReturns
CHECK_DEADLOCK FALSE
