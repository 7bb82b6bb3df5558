SPECIFICATION ReportsSpec
CONSTANTS
    Segment = 48000
    Films <- MCFilms
    MaxReedits = 0
INVARIANTS
    LedgerTellsShown
    AccountedIsShown
    PassIsClean
CHECK_DEADLOCK FALSE
