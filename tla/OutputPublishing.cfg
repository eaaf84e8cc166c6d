\* Runs racing for one destination, with failing operations, Ctrl-C and crashes.
SPECIFICATION Spec
CONSTANTS
    NONE = NONE
    Runs = {"many", "single", "backup", "first", "second", "lone"}
    Casts <- MCCasts
    Kind <- MCKind
    Files = {"f", "g", "h"}
    Entries <- MCEntries
    Origins <- MCOrigins
    OldTrees <- MCOldTrees
    MayCollide <- MCMayCollide
    MaxFaults = 2
    Interruptible = {"many", "single", "backup", "first"}
INVARIANTS
    DestinationWhole
    EndsClean
PROPERTIES
    ImplementsAtomic
    PreparedReplacesNothing
CHECK_DEADLOCK FALSE
