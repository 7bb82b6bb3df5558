SPECIFICATION Spec
CONSTANTS
    u1 = u1
    u2 = u2
    u3 = u3
    b1 = b1
    b2 = b2
    r1 = r1
    r2 = r2
    x = x
    y = y
    Uploads = {u1, u2}
    Batches = {b1, b2}
    Runs = {r1}
    NoRun = NoRun
    NoBatch = NoBatch
    Contents = {x, y}
    ContentOf <- OneContent
    Multipart = {u1}
    MustClean = {u1}
    Misdeclared = {}
    MaxFiles = 2
SYMMETRY BatchSymmetry
VIEW LiveRows
CHECK_DEADLOCK FALSE
INVARIANTS
    ManifestIsCurrent
    GateOpensWhenComplete
    DedupKeepsContent
    DedupIsUnique
PROPERTIES
    SealedGainsOnlyLateFiles
    ImplementsBatchLock
