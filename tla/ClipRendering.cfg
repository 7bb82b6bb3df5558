SPECIFICATION Spec
CONSTANTS
    Fps <- MCFps
    MinConfidence <- MCMinConfidence
    Following = TRUE
    Scenarios <- MCScenarios
    Footage <- MCFootage
    MaxEnd <- MCMaxEnd
INVARIANTS
    CropHoldsAthlete
    FilmIsTold
    EvidenceIsOfTheVideo
