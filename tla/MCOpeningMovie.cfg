SPECIFICATION FairSpec
CONSTANTS
    MovieFile <- MCMovieFile
    Payloads <- MCPayloads
    PcmFrames = 3
    SafetyTicks = 6
    ChunkBytes = 3
    Pulls <- MCPulls
    Rejections <- MCRejections
    CadenceNumerator = 3
    CadenceDenominator = 2
    MaxNoProgress = 1
    MaxFormatChanges = 1
    MaxFramesPerCall = 2
    MaxTotalFrames = 2
    MaxTotalInput = 5
    MaxQueued = 2
    MaxFeeds = 2
    UnitNs = 2
    Capacity = 2
    Refill = 1
    ClockNs = 3
    ClockRate = 2
    MaxPackets = 10
    MaxTrailing = 2
    MaxStartCodes = 20
    TimestampWrap = 16
    TimestampRate = 2
    BootRate = 2
    SafetySlack = 2
    MaxSafety = 50
    Layouts <- MCLayouts
    Demands = {1, 2}
    MaxTimeline = 5
    MaxFailures = 2
INVARIANT MovieRunsItsCourse
INVARIANT PictureKeepsTimeWithSound
PROPERTY MovieEnds
INVARIANT MoviesAreReadWhole
