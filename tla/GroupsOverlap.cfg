SPECIFICATION Spec
CONSTANTS
    a = a
    b = b
    Claims = {a, b}
    NoClaim = NoClaim
    PlaceOf <- OnePlace
    Severe = {a}
    MaxRev = 2
    MaxFindings = 1
    Compares = {TRUE, FALSE}
    Paths = {"there", "gone", "unknown"}
    Answers = {"upheld", "dismissed", "failed", "modified"}
    JudgeMax = 1
    VerifyMax = 1
    MaxDismissals = 1
    MaxRetries = 1
    MaxFaults = 0
    Overlapping = TRUE
CHECK_DEADLOCK FALSE
 
PROPERTIES Settles
