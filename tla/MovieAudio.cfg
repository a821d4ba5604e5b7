SPECIFICATION FairSpec
CONSTANTS
    Capacity = 2
    Chunk = 2
    MaxDemand = 3
    MaxFrames = 3
    MaxSilence = 2
    MaxFailures = 2
INVARIANT PlaybackInOrder
PROPERTY SilenceIsKept
PROPERTY QueuedFramesAreConsumed
