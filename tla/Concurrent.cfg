SPECIFICATION Spec
CONSTANTS
    Shas = {s1, s2}
    FirstSha = s1
    NoSha = NoSha
    Hooks = {h1, h2}
    MaxGens = 3
    ReviewRunLimit = 1
    MaxRetries = 0
    MaxCrashes = 1
    Endpoints = {"index"}
    LateOpened = TRUE
SYMMETRY HookSymmetry
INVARIANTS TypeOK OneReviewPerRevision CreditsMatchReviews
PROPERTIES CompletedIsFinal KeepsPromise
