SPECIFICATION HostSpec
CONSTANTS
    Services = {s1, s2, game}
    Tools = {s1, s2}
    s1 = s1
    s2 = s2
    game = game
    Game = game
    MaxVersion = 2
    ArchiveBytes <- MCArchiveBytes
    Allowance = 15
    Scratch = 9
    Amounts = {1}
    MaxParts = 1
    MaxOverrides = 2
    EntryBudget = 3
    CommandLines <- MCCommandLines
    Documents <- MCDocuments
    MaxEdits = 1
    MaxNodes = 8
    PathLimit = 6
    NameLimit = 3
    EntryLimit = 3
    PrefixLimit = 14
    IsoLimits <- MCIsoLimits
    GamePaths <- MCGamePaths
    ArchiveLayouts <- MCArchiveLayouts
    ImageTrees <- MCImageTrees
    DamagedTrees <- MCDamagedTrees
    DamagedWords = {0, 1, 2, 3, 9, 11, 12, 13, 65}
    KeyBytes = 4
    StringLimit = 2
    AtlasBytes = 5
    GlyphLimit = 14
    TailLimit = 1
    Unit = 2
    DepthLimit = 3
    AtlasExtent = 4
    WrittenTables <- MCWrittenTables
    WrittenFonts <- MCWrittenFonts
    LaidTexts <- MCLaidTexts
    Layouts <- MCLayouts
    Screens <- MCScreens
    Budgets <- MCBudgets
INVARIANTS
    LoadsComeFromTheMountedImage
    LoadsStayWithinTheirAllowance
    StartsAreOrderly
    LauncherStandsByItsGame
PROPERTIES
    SettingsAreKept
    ContentIsReadBack
CHECK_DEADLOCK FALSE
SYMMETRY AnyTool
