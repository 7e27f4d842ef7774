SPECIFICATION FairSpec
CONSTANTS
    VolumeSets <- MCVolumeSets
    Budgets <- MCBudgets
    U64Max = 40
    ControlChunk = 2
    MaxVolumes = 3
    MaxTotalInput = 8
    SignatureSize = 2
    FixedHeaderSize = 3
    StartHeaderSize = 1
    SfxScanLimit = 2
    MaxHeader = 3
    MaxTotalOutput = 5
    MaxDepth = 2
INVARIANTS
    AssembledInOrder
    AssemblyBounded
    OpenedIsComplete
    MissingIsRequired
    HeadersBounded
PROPERTIES
    CancelledAssemblyStops
    OpenReturns
CHECK_DEADLOCK FALSE
