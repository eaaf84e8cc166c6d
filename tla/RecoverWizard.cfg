\* Every answer a person can give to the guided recovery of one backup, with files that change
\* while it waits, frames of other copies and documents, and shards of other sets.
SPECIFICATION PatientSpec
CONSTANTS
    NONE = NONE
    a = a
    b = b
    c = c
    x = x
    y = y
    P = 5
    MAX_SHARES = 3
    Values <- MCValues
    Draws = {1, 2}
    ShareAt <- FieldShareAt
    Interpolate <- FieldInterpolate
    PublicKey <- MCPublicKey
    Hash <- MCHash
    DocOf <- MCDocOf
    TooLarge <- MCTooLarge
    Text <- MCText
    Normal <- MCNormal
    ChecksumHolds <- MCChecksumHolds
    Key <- MCKey
    BackupFiles <- MCBackupFiles
    PastedFrames <- MCPastedFrames
    ShardFrames <- MCShardFrames
    AuthFiles <- MCAuthFiles
    ShardFiles <- MCShardFiles
    Passphrases = {NONE, 1, 2, 3}
    GenuineFrames <- MCGenuineFrames
INVARIANTS
    CollectedShardsAreOneSet
    InspectionAgrees
PROPERTIES
    PastedBackupIsWhole
    OnlyVouchedIsWritten
    PatienceEndsPaste
