SPECIFICATION Spec
CONSTANTS
    a = a
    b = b
    Claims = {a, b}
    NoClaim = NoClaim
    PlaceOf <- OnePlace
    Severe = {a}
    MaxRev = 3
    MaxFindings = 1
    Compares = {TRUE,FALSE}
    Paths = {"there", "gone", "unknown"}
    Answers = {"upheld", "dismissed", "failed"}
    JudgeMax = 1
    VerifyMax = 1
    MaxDismissals = 1
    MaxRetries = 1
    MaxFaults = 1
    Overlapping = FALSE
CHECK_DEADLOCK FALSE
INVARIANTS ReportedIsOpen RateBounded 
PROPERTIES DismissalHolds
