SPECIFICATION FairSpec
CONSTANTS
    Archives <- MCArchives
    ControlChunk = 2
    MaxTotalOutput = 7
    MaxEntryOutput = 3
INVARIANTS
    MembersGetTheirBytes
    LimitsRespected
    CancellationIsPrompt
    ExtractionVerdict
PROPERTIES
    ImplementsSinkProtocol
    ExtractionReturns
CHECK_DEADLOCK FALSE
