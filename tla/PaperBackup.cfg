\* A reader may stop at any time, and a refused document is the end.
SPECIFICATION Spec
CONSTANTS
    noise = noise
    Noise = noise
    Backups <- MCBackups
    TooLarge <- MCTooLarge
    ShellLen <- MCShellLen
    MAX_MAIN_FRAME_TOTAL = 25
    VarintRadix = 4
    DEFAULT_KIT_CHUNK_SIZE = 30
    MAX_QR_PROBE_BYTES = 50
INVARIANTS
    SizesAreBest
    TextRunsOn
    CodesAndTextFit
    ReadsBackOrRefuses
PROPERTY
    PaperIsPrinted
CHECK_DEADLOCK FALSE
