SPECIFICATION JobSpec
CONSTANTS
    Jobs <- Runs
    Faults <- Everything
CHECK_DEADLOCK FALSE
INVARIANTS
    GateFailureIsTold
    GreenJobIsWhole
PROPERTIES
    TerminalStands
