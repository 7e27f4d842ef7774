SPECIFICATION Spec
CONSTANTS
    Archives <- MCArchives
    ControlChunk = 2
    MaxTotalOutput = 9
    MaxEntryOutput = 3
    MaxHeader = 3
INVARIANTS
    VerifyVerdict
    FirstCorruptionReported
    OpenedIsItsSlice
CHECK_DEADLOCK FALSE
