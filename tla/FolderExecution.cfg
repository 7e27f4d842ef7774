SPECIFICATION Spec
CONSTANTS
    RawFolders <- MCRawFolders
    SupportedInputs = {1, 2}
    SparePorts = 5
INVARIANTS
    VerdictIsReference
    ScheduleIsTopological
    NoInternalError
    StreamsRoutedAsBound
CHECK_DEADLOCK FALSE
