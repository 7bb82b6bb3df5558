SPECIFICATION FairSpecInOrder
CONSTANTS
    b1 = b1
    b2 = b2
    r1 = r1
    r2 = r2
    r3 = r3
    q1 = q1
    q2 = q2
    q3 = q3
    i1 = i1
    i2 = i2
    Batches = {b1}
    Runs = {r1, r2}
    NoRun = NoRun
    NoBatch = NoBatch
    InputSets = {NoInputs, i1}
    NoInputs = NoInputs
    Requests = {q1, q2, q3}
    Unsettled = {b1}
    Kinds = {"start", "reset", "retry"}
    Faults = {}
CHECK_DEADLOCK FALSE
PROPERTY
    WorkEnds
