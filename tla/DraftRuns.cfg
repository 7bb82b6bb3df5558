SPECIFICATION FairSpec
CONSTANTS
    Sources = {"v1", "v2"}
    People = {"ann", "bob"}
    Large = {"v2"}
    Worlds <- MCWorlds
    Requests = {1, 2}
    FailLimit = 2
    MaxStaged = 1
CHECK_DEADLOCK FALSE
INVARIANTS
    ArchivedIsAccounted
    DoneIsNotDropped
PROPERTIES
    RawIsArchived
