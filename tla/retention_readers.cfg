SPECIFICATION Spec
CONSTANTS
    c1 = c1
    c2 = c2
    v1 = v1
    r1 = r1
    Collectors = {c1}
    Viewers = {}
    Readers = {r1}
    Retain = 1
    Grace = 2
    MaxVersion = 3
    MaxSegments = 2
    MaxTime = 3
    MaxFailures = 1
    MaxCrashes = 1
SYMMETRY Symmetry
INVARIANTS YoungManifestReadable
CHECK_DEADLOCK FALSE
