SPECIFICATION FairSpec
CONSTANTS
    Jobs <- Workload
CHECK_DEADLOCK FALSE
INVARIANTS
    ApprovableIsGraded
    GateMeansDelivered
    ManifestIsHonest
PROPERTIES
    EarlierPartsKeepEvidence
    RunEnds
