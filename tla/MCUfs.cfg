SPECIFICATION Spec
SYMMETRY NameSymmetry
VIEW LiveView
CONSTANTS
    NInodes = 3
    NBlocks = 4
    NExt = 2
    EPB = 3
    Names = {a, b}
    NoName = NoName
    MaxFile = 3
    MaxWrite = 2
    CrashIn <- AllButUnlink
    MaxCrashes = 1
INVARIANTS
    
    EntriesSound
    ReadBackUntilFreed
