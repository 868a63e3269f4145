SPECIFICATION Spec
CONSTANTS
    w1 = w1
    w2 = w2
    w3 = w3
    e1 = e1
    d1 = d1
    Writers = {w1, w2, w3}
    EmptyWriters = {}
    Deleters = {d1}
    MaxFlushes = 3
    MaxFailures = 1
    MaxMishaps = 2
INVARIANTS TypeOK AckedSurvives AlwaysLoadable SeenOnce DeleteOrder
PROPERTIES NoGap EveryCallReturns
