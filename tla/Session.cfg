SPECIFICATION Spec
CONSTANTS
    Segment = 48000
    Films <- MCFilms
    MaxReedits = 1
INVARIANTS
    AnswersKeepMeaning
    OneClusterEach
    ReelsAreWhole
    AttributedOrAlone
CHECK_DEADLOCK FALSE
