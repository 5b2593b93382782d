SPECIFICATION Spec
CONSTANTS
    m1 = m1
    m2 = m2
    bedrock = bedrock
    None = None
    Models = {m1, m2, bedrock}
    Default = m1
    Converse = {bedrock}
    MaxRetries = 2
    MaxChanges = 2
    MaxFaults = 1
    Candidates = 3
    MaxPerRun = 2
    MaxTraceFaults = 2
CHECK_DEADLOCK FALSE
INVARIANTS SnapshotReviewed  CheckTellsTheEnd
PROPERTIES PipelineEnds
