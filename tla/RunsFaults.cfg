SPECIFICATION Spec
CONSTANTS
    b1 = b1
    b2 = b2
    r1 = r1
    r2 = r2
    r3 = r3
    q1 = q1
    q2 = q2
    q3 = q3
    i1 = i1
    i2 = i2
    Batches = {b1}
    Runs = {r1, r2}
    NoRun = NoRun
    NoBatch = NoBatch
    InputSets = {NoInputs, i1, i2}
    NoInputs = NoInputs
    Requests = {q1, q2, q3}
    Unsettled = {b1}
    Kinds = {"start", "reset", "retry"}
    Faults = {"write", "reply", "github", "request", "runner"}
SYMMETRY Everyone
VIEW Rows
CHECK_DEADLOCK FALSE
INVARIANT
    CompletedMeansSucceeded
    ProcessingOwnsBatch
PROPERTY
    AdmitsCurrentFiles
