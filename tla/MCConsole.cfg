SPECIFICATION MCSpec
CHECK_DEADLOCK FALSE
CONSTANTS
    Procs = {idle, p1, p2, p3}
    Idle = idle
    BufferSize = 3
    MaxTyped = 4
    MaxWant = 2
    Lines <- MCLines
    MaxTokens = 4
    Dirs = {"/", "/d"}
    NFds = 7
    MaxFails = 1
INVARIANTS
    ReadyQueueExact
    InOrder
    RedirectedAndBack
PROPERTIES
    
    ShellReturns
