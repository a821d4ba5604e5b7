CONSTANTS
    Profiles = {p1, p2}
    Characters = {c1, c2}
    None = None
    Timestamps = {1}
    MaxRecords = 6
    MaxProfiles = 2
    MaxCharacters = 2
    MaxCommits = 6
    MaxRawWrites = 1
    CardDirectories <- MCCardDirectories
    DamagedDirectories <- MCDamagedDirectories
    CardDamage <- MCCardDamage
    Identifiers <- MCIdentifiers
    IdBytes = 16
    NameBytes = 64
    MaxTimestamp = 1000
    HardMaxKeyBytes = 255
    MaxListed = 2
    DisplayNames <- MCDisplayNames
    MetadataSamples <- MCMetadata
    KeySegments <- MCKeySegments
    CellDamage = {0, 1, 2, 15, 101, 240}
    Stores <- MCStores
SPECIFICATION Spec
SYMMETRY Symmetry
INVARIANT NextStartIsAccepted
INVARIANT MemoryAgreesWithDatabase
PROPERTY SavesAreReadBack
PROPERTY ChangedPointersAreKept
CHECK_DEADLOCK FALSE
