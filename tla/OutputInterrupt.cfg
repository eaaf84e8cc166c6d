\* One recover run onto an existing directory, interrupted by Ctrl-C.
SPECIFICATION Spec
CONSTANTS
    NONE = NONE
    Runs = {"many"}
    Casts <- MCAlone
    Kind <- MCKind
    Files = {"f", "g", "h"}
    Entries <- MCEntries
    Origins <- MCOrigins
    OldTrees <- MCOldDirectory
    MayCollide <- MCMayCollide
    MaxFaults = 2
    Interruptible = {"many"}
INVARIANTS
    RollbackRestores
CHECK_DEADLOCK FALSE
