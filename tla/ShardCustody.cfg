\* Two mintings after the issue: what any hand of three documents gives, and what it can make.
SPECIFICATION Spec
CONSTANTS
    NONE = NONE
    chunk = chunk
    P = 5
    MAX_SHARES = 3
    Values <- MCValues
    Draws = {1, 2, 3, 4}
    ShareAt <- FieldShareAt
    Interpolate <- FieldInterpolate
    PublicKey <- MCPublicKey
    Hash <- MCHash
    DocOf <- MCDocOf
    TooLarge <- MCTooLarge
    Text <- MCText
    Normal <- MCNormal
    ChecksumHolds <- MCChecksumHolds
    Box <- MCBox
    Password = 3
    Seed = 2
    Issued <- MCIssued
    FirstDraws = {1, 2}
    Typed = {NONE, 3}
    Quorums <- Pairs
    Counts = {1}
    MaxHanded = 3
INVARIANTS
    RecoveredIsSecret
    SetsStayOne
    OfferIsFaithful
PROPERTIES
    MintedByTheBackupsKey
CHECK_DEADLOCK FALSE
