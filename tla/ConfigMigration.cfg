SPECIFICATION Spec
CONSTANTS
  Pages = {"a4", "letter"}
  DefaultPage = "a4"
  Codecs = {"raw", "base64"}
  DefaultCodec = "raw"
  MaxShards = 2
  r1 = r1
  r2 = r2
  Runs <- OneRun
  Requests <- LoadOnly
  HandTexts <- DottedTexts
  NoInode = 0
  MaxStarts = 3
  MaxMishaps = 0
  MaxEvents = 3
PROPERTIES
  ParsedStaysParsed
CHECK_DEADLOCK FALSE
