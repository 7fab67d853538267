SPECIFICATION PSpec
CONSTANTS
    Disks = {0}
    Present = {0}
    Total <- AttachedTotal
    Grain = 4
    Round = 2
    Sizes = {4}
    NSlots = 3
    NEntries = 3
    MaxList = 3
    Lba32 = 32
    MaxBoots = 0
PROPERTY
    DeleteKeepsOthers
