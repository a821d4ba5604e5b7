CONSTANTS
    Capacity = 3
    MaxPositioned = 2
    MaxGeneration = 2
    MaxCoordinate = 1
    MaxSteps = 2
    Starts <- LowStart
    Deltas <- DiagonalDelta
SPECIFICATION Spec
PROPERTY ImplementsEntityPositions
