SPECIFICATION FairSpec
CONSTANTS
    Rigs = 3
    FirstProgram = 2
    VerifyTries = 3
    EditTries = 2
    Faults = TRUE
INVARIANTS CapturesMatch CompleteMeansAll
PROPERTIES ArchiveSpec InventoryFinishes
