\* The program from start to exit, for every family of command lines.  It ends: no deadlock check.
SPECIFICATION Spec
CONSTANTS
    Unset = Unset
    Text = Text
    MaxShards = 3
    Invocations <- MCInvocations
INVARIANTS
    EventsTellTheStory
    ResultTellsTheTruth
    BackupRecoverable
    SecretsWherePlanned
    AskedIsMade
    MintedWithinReach
    LeavesNoTrace
CHECK_DEADLOCK FALSE
