SPECIFICATION MCSpec
SYMMETRY NameSymmetry
VIEW MCView
CHECK_DEADLOCK FALSE
CONSTANTS
    NInodes = 3
    NBlocks = 6
    NExt = 2
    EPB = 3
    Names = {a, b}
    NoName = NoName
    MaxFile = 3
    MaxWrite = 2
    CrashIn <- AllButUnlink
    MaxCrashes = 0
    Disks = {0, 1}
    Present = {0}
    Total <- AttachedTotal
    Grain = 4
    Round = 2
    Sizes = {0, 4}
    NSlots = 2
    NEntries = 4
    MaxList = 3
    Lba32 = 32
    MaxBoots = 1
    NSata = 2
    Lbas = {1, 2}
    Contents = {b0, b1}
    MaxCommands = 4
INVARIANTS
    RangesApart
    NodesAgree
    AccountingExact
    DisksAsReported
