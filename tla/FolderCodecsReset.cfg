SPECIFICATION Spec
CONSTANTS
    U64Max = 1000
    Jobs <- MCJobs
    Budgets <- MCBudgets
    ControlChunk = 4
INVARIANTS
    ResetStreamsDecode
CHECK_DEADLOCK FALSE
