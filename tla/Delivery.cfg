SPECIFICATION FairSpec
CONSTANTS
    Drafts = {"d1", "d2", "d3"}
    All = "all"
    Worlds <- MCWorlds
CHECK_DEADLOCK FALSE
INVARIANTS
    PublishedFirst
PROPERTIES
    ApprovedIsPublished
