SPECIFICATION MCSpec
SYMMETRY ProcSymmetry
CHECK_DEADLOCK FALSE
CONSTANTS
    NTcp = 3
    RingSize = 2
    StreamLen = 3
    MaxSeq = 3
    MaxPort = 3
    Retries = 1
    Retransmit = 0
    TimeWait = 1
    BindPorts = {9}
    FirstPort = 1
    RPorts = {7}
    Hosts = {"g", "h", "r"}
    Link = {"g", "h"}
    Macs <- MCMacs
    Gateway = "g"
    StaticIp = "me"
    Leases = {"me2"}
    Resolvers <- MCResolvers
    ArpSize = 2
    NUdp = 1
    Ports = {68}
    UProcs = {u1, u2}
    NSock = 3
    UFds = 2
    BufSize = 2
    Backlog = 1
    MaxLen = 2
    UPaths = {"x"}
    NDesc = 3
    NTsd = 2
    MaxFrames = 7
INVARIANTS
    RcvNxtIsExpected
