CONSTANTS
    NONE = NONE
    Lines = {l}
    TextCodes = {t}
    ByteCodes = {b}
    MaxStarts = 3
    MaxPanels = 2
SPECIFICATION PatientSpec
PROPERTIES StopIsFinal TextSurvives ScanEnds
