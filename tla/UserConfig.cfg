SPECIFICATION Spec
CONSTANTS
  Pages = {"a4", "letter"}
  DefaultPage = "a4"
  Codecs = {"raw", "base64"}
  DefaultCodec = "raw"
  MaxShards = 2
  r1 = r1
  r2 = r2
  Runs <- MCRuns
  Requests <- MCRequests
  HandTexts <- MCHandTexts
  NoInode = 0
  MaxStarts = 3
  MaxMishaps = 2
  MaxEvents = 4
INVARIANTS
  CountsAlwaysPaired
  OutcomeIsTrue
PROPERTIES
  SettingsKept
SYMMETRY RunSymmetry
CHECK_DEADLOCK FALSE
