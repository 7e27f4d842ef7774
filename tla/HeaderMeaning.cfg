SPECIFICATION FairSpec
CONSTANTS
    U64Max = 255
    Coders <- MCCoders
    Inputs <- MCInputs
    Limits <- MCLimits
    GraphRoot <- MCGraphRoot
    SignatureOffset = 1
    FixedHeaderSize = 2
    NextHeaderOffset = 11
    Damage = {0, 1, 2, 10, 128, 255}
INVARIANTS
    DeclaredIsParsed
    ModelSound
    CountsAgree
PROPERTY
    ParseReturns
CHECK_DEADLOCK FALSE
