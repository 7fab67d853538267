SPECIFICATION MCSpec
VIEW MCView
CHECK_DEADLOCK FALSE
CONSTANTS
    NNodes = 4
    NMounts = 2
    Procs = {1, 2}
    First = 1
    Fds = {2, 3}
    Paths <- MCPaths
    OpenPaths <- MCOpenPaths
    DirPaths <- MCDirPaths
    Targets <- MCTargets
    Flags <- MCFlags
    Card <- MCCard
    MountPoints <- MCMountPoints
    PosMod = 3
    Offsets = {0}
    MaxSize = 1
    MaxDirents = 2
    NameTmp = "b"
    Data = {0, 1}
    Zero = 0
    Caps = {2, 4, 8}
    MaxEnd = 5
    MaxCount = 2
    Volumes <- MCVolumes
    SecPerCluster = 2
    SecSize = 2
    EntPerSec = 2
    FatPerSec = 4
    ReadOffsets = {0, 1, 2, 3, 4, 5, 8, 9, 11}
    Lengths = {0, 1, 3, 6, 12}
    Counts = {0, 1, 2, 9}
    MaxBad = 1
    MaxLines = 4
    LineLen = 5
    FileBuffer = 5
    MaxEdits = 2
    Letters = {"a"}
    Texts <- MCTexts
INVARIANTS
    TreeSound
    NamesLead
    Represents
    GivesWhatIsThere
PROPERTIES
    FailureKeepsTree
    
    KeysEditText
