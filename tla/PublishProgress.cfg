SPECIFICATION Spec
CONSTANTS
    s1 = s1
    s2 = s2
    f1 = f1
    f2 = f2
    Shas = {s1, s2}
    NoSha = NoSha
    Findings = {f1}
    Runs <- OneRun
    Openings = {TRUE}
    MaxPushes = 1
    MaxRequests = 1
    MaxRetries = 1
    Faults = {"permanent", "lost reply", "refused"}
    MaxFaults = 1
PROPERTIES JobSettles CheckConcludes
