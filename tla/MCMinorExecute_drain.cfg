SPECIFICATION Spec
CONSTANTS
    Scenarios <- DeviceScenarios
    Addrs <- MCAddrs
    Regs <- MCRegs
    IssueLimit = 2
    MemoryIssueLimit = 1
    CommitLimit = 2
    MemoryCommitLimit = 1
    MaxInFlight = 4
    AllowEarlyMemoryIssue = TRUE
    ThreadPolicy = "RoundRobin"
    RequestsSize = 1
    TransfersSize = 2
    StoreBufferSize = 2
    MemoryLimit = 2
    StoresPerCycle = 2
    MaxUpsets = 1
PROPERTY UnbufferableNotDiscarded
CHECK_DEADLOCK FALSE
