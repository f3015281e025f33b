SPECIFICATION FairSpec
CONSTANTS
    Scenarios <- OrderScenarios
    Addrs <- MCAddrs
    Regs <- MCRegs
    IssueLimit = 2
    MemoryIssueLimit = 1
    CommitLimit = 2
    MemoryCommitLimit = 1
    MaxInFlight = 4
    AllowEarlyMemoryIssue = TRUE
    ThreadPolicy = "RoundRobin"
    RequestsSize = 1
    TransfersSize = 2
    StoreBufferSize = 3
    MemoryLimit = 2
    StoresPerCycle = 2
    MaxUpsets = 2
INVARIANT TypeOK
INVARIANT LoadsSeeStores
INVARIANT NoWrongPathStores
INVARIANT OperandsReady
INVARIANT BarrierOrder
INVARIANT CountersMatch
INVARIANT QueueInv
INVARIANT MemoryInv
INVARIANT BarrierInv
PROPERTY MemoryInOrder
PROPERTY UnbufferableNotDiscarded
PROPERTY Completes
CHECK_DEADLOCK FALSE
