SPECIFICATION Spec
CONSTANTS
    Names = {"f", "g"}
    Batches = {"b", "c"}
    Batch = "b"
    Frozen <- MCFrozen
    Hashed <- MCHashed
    Large = {}
    Kinds = {"run", "reset", "audit", "legacy", "rawrun", "rawreset"}
    Manifests <- OddManifests
    Stores <- MCStores
    Statuses <- MCStatuses
    MaxJobs = 2
    MaxTorn = 1
CHECK_DEADLOCK FALSE
INVARIANTS
    OriginalsUntouched
    AdmitsFrozenBytes
    InterruptedRunsRecover
    PassedOverWasAnalysed
