\* Reconstructing a split secret beside the backup, with three waiting handlers.
SPECIFICATION Spec
CONSTANTS
    NONE = NONE
    Docs <- MCDocs
    MaxTotal = 1
    Chunks <- MCChunks
    Hashes <- MCHashes
    Signatures <- MCSignatures
    Passphrases = {"pw", "typo", "junk"}
    Shares <- MCShares
    MaxShares = 2
    Headers <- MCHeaders
    Digest <- MCDigest
    Oversized <- MCOversized
    Interpolate <- MCInterpolate
    Content <- MCContent
    Codec = "gzip"
    BackupLength = 1
    Pastes <- WholeBackup
    ShardPastes <- SharePastes
    TypedPassphrases = {"typo"}
    MaxInFlight = 3
    CryptoModes = {"absent", "rejects", "works"}
INVARIANTS
    CacheCoherent
    SecretMatchesBackup
PROPERTIES
    InputsKept
CHECK_DEADLOCK FALSE
