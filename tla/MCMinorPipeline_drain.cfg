CONSTANTS
    NumPCs = 3
    Program <- SerialQuiesce
    MacroLen = 3
    Handler = 0
    Fetch2Size = 2
    DecodeSize = 1
    DummySize = 1
    ExecuteSize = 1
    FetchLimit = 1
    IssueLimit = 1
    CommitLimit = 2
    FUSlots = 2
    ThreadPolicy = "RoundRobin"
    DegradePercent = 100
    MaxInterrupts = 0
    Events = {"drain", "wakeup", "icacheRetry", "slowITLB"}
SPECIFICATION FairSpec
VIEW RankedView
INVARIANTS
    PathInv
PROPERTIES
    ImplementsISA
    DrainCompletes
    ThreadAdvances
