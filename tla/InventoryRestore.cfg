SPECIFICATION Spec
CONSTANTS
    Rigs = 2
    FirstProgram = 1
    VerifyTries = 2
    EditTries = 2
    Faults = FALSE
INVARIANT OriginalRestored
CHECK_DEADLOCK FALSE
