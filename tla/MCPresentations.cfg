SPECIFICATION Spec
CONSTANTS
    MaxGeneration = 2
    TextureConfig <- MCTextures
    MeshConfig <- MCMeshes
    Buttons <- MCButtons
    NavInputs <- MCNavInputs
    Startups <- MCStartups
    MaxCharacters = 2
    MaxFaults = 1
    MaxSubmitted = 1
INVARIANT PicturesAreCurrent
INVARIANT InFlightWorkIsKept
INVARIANT NothingIsLeaked
