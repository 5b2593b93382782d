\* The jobs and the revisions are bounded.
CONSTANTS
    Files = {f1, f2}
    Contents <- MCContents
    LastRevision = 2
    Jobs = {j1, j2, j3}
SPECIFICATION Spec
SYMMETRY Symmetry
CHECK_DEADLOCK FALSE
INVARIANTS  VectorsMatch
