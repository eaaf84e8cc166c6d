\* Collecting, authenticating, unlocking and extracting a two-frame backup, with every
\* interleaving of two waiting handlers; every handler that waits is resumed.
SPECIFICATION FairSpec
CONSTANTS
    NONE = NONE
    Docs <- MCDocs
    MaxTotal = 2
    Chunks <- MCChunks
    Hashes <- MCHashes
    Signatures <- MCSignatures
    Passphrases = {"pw", "typo", "junk"}
    Shares <- MCShares
    MaxShares = 2
    Headers <- MCHeaders
    Digest <- MCDigest
    Oversized <- MCOversized
    Interpolate <- MCInterpolate
    Content <- MCContent
    Codec = "gzip"
    BackupLength = 2
    Pastes <- CollectPastes
    ShardPastes <- NoPastes
    TypedPassphrases = {"pw", "typo"}
    MaxInFlight = 2
    CryptoModes = {"absent", "rejects", "works"}
INVARIANTS
    VerifiedIsEarned
PROPERTIES
    InputsKept
    ControlsReleased
CHECK_DEADLOCK FALSE
