SPECIFICATION Spec
CONSTANTS
    s1 = s1
    s2 = s2
    f1 = f1
    f2 = f2
    Shas = {s1, s2}
    NoSha = NoSha
    Findings = {f1, f2}
    Runs <- TwoRuns
    Openings = {TRUE, FALSE}
    MaxPushes = 1
    MaxRequests = 0
    MaxRetries = 1
    Faults = {"transient", "permanent", "refused", "killed"}
    MaxFaults = 1
SYMMETRY Symmetry
INVARIANTS NoDoubleInline SkippedIsHidden
PROPERTIES CompletesWhole
