SPECIFICATION Spec
CONSTANTS
    Shas = {s1, s2}
    FirstSha = s1
    NoSha = NoSha
    Hooks = {h1}
    MaxGens = 3
    ReviewRunLimit = 1
    MaxRetries = 1
    MaxCrashes = 0
    Endpoints = {"review"}
    LateOpened = FALSE
 
PROPERTIES   IndexSettles ReviewSettles 
