CONSTANTS
    NumPCs = 2
    Program <- OpQuiesce
    MacroLen = 1
    Handler = 0
    Fetch2Size = 2
    DecodeSize = 1
    DummySize = 1
    ExecuteSize = 1
    FetchLimit = 1
    IssueLimit = 1
    CommitLimit = 1
    FUSlots = 2
    ThreadPolicy = "RoundRobin"
    DegradePercent = 100
    MaxInterrupts = 0
    Events = {"drain", "wakeup", "wakeupInDrain"}
SPECIFICATION FairSpec
VIEW RankedView
PROPERTIES
    DrainCompletes
