SPECIFICATION Spec
CONSTANTS
    VisibleSlots = 2
    SimulationStep = 2
    MaxFrameDelta = 7
    MaxStepsPerFrame = 2
    MaxCoordinate = 2
    Objective <- MCObjective
    Catalogs <- MCCatalogs
    Inputs <- MCInputs
    Elapsed <- MCElapsed
    FrameLimit = 9
INVARIANT ReplayReproducesTheRun
INVARIANT MenuIsTruthful
INVARIANT CaptureKeepsStep
PROPERTY TimeIsPlayedOrDropped
