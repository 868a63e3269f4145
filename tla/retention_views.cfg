SPECIFICATION Spec
CONSTANTS
    c1 = c1
    c2 = c2
    v1 = v1
    r1 = r1
    Collectors = {c1, c2}
    Viewers = {v1}
    Readers = {}
    Retain = 2
    Grace = 0
    MaxVersion = 6
    MaxSegments = 2
    MaxTime = 0
    MaxFailures = 1
    MaxCrashes = 1
SYMMETRY Symmetry
INVARIANTS RetainedReadable HeldViewsReadable
