\* A user who lets one operation end before starting the next: here what the view
\* promises holds, which it does not when operations overlap.
SPECIFICATION PatientSpec
CONSTANTS
    NONE = NONE
    Docs <- MCDocs
    MaxTotal = 2
    Chunks <- MCChunks
    Hashes <- MCHashes
    Signatures <- MCSignatures
    Passphrases = {"pw", "typo", "junk"}
    Shares <- MCShares
    MaxShares = 2
    Headers <- MCHeaders
    Digest <- MCDigest
    Oversized <- MCOversized
    Interpolate <- MCInterpolate
    Content <- MCContent
    Codec = "raw"
    BackupLength = 2
    Pastes <- CollectPastes
    ShardPastes <- SharePastes
    TypedPassphrases = {"typo"}
    MaxInFlight = 1
    CryptoModes = {"absent", "rejects", "works"}
INVARIANTS
    ClearedShowsNothing
    CollectedIsEnough
PROPERTIES
    ForgedShareNeverUsed
CHECK_DEADLOCK FALSE
