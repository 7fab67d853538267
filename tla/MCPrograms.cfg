SPECIFICATION MCSpec
CHECK_DEADLOCK FALSE
CONSTANTS
    Layouts <- MCLayouts
    MaxAddr = 26
    Requests = {1, 4, 6}
    Hdr = 2
    MinSize = 2
    Align = 2
    Screens <- MCScreens
    BootScreen <- MCBoot
    Glyphs = {"a"}
    Digits = {2}
    Finals = {"H", "J", "K", "A", "B", "C", "D", "s", "u", "m"}
    MaxParams = 2
    MaxDigits = 1
    Pids = {1, 2}
    FirstPid = 1
    NFrames = 28
    Images = {1}
    StackPages = 1
    HeapLimit = 2
    Values = {2}
    MaxCalls = 6
    HeapWords = 24
    AskedSizes = {1, 4, 7}
    Stamps = {1, 2}
    WordBits = 6
    IntBits = 4
    Days <- MCDays
    Seconds = {0, 86399}
    Numerals <- MCNumerals
    Arguments <- MCArguments
    Tables <- MCTables
    Arrays <- MCArrays
    TextWords <- MCWords
    FileTexts <- MCFileTexts
    EnvSize = 3
    Widths = {0, 3}
    Precisions <- MCPrecisions
    BufSizes = {1, 3, 8}
    StackDepth = 30
    Fuel = 24
    Sources <- MCSources
    Argcs = {0, 1, 3}
    NSlots = 2
    QSize = 2
    IdxMod = 4
    MaxDraws = 6
    NDumb = 2
    NFbs = 1
    NGem = 3
    Pictures <- MCPictures
    BootPicture <- MCBootPicture
    GpuPicture <- MCGpuPicture
    Presets <- MCPresets
    HeapUnits = 4
    StolenUnits = 2
INVARIANTS
    ExactTiling
    ShownIsScreen
    FramesApart
    UserDataKept
    
    
    DrawnIsShown
    
PROPERTIES
    HeapImplementsAbs
    PrivateMemory
