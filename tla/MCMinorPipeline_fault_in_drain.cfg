CONSTANTS
    NumPCs = 2
    Program <- MacroSerial
    MacroLen = 3
    Handler = 0
    Fetch2Size = 2
    DecodeSize = 1
    DummySize = 1
    ExecuteSize = 1
    FetchLimit = 1
    IssueLimit = 1
    CommitLimit = 1
    FUSlots = 1
    ThreadPolicy = "RoundRobin"
    DegradePercent = 100
    MaxInterrupts = 0
    Events = {"drain", "microFault"}
SPECIFICATION FairSpec
VIEW RankedView
PROPERTIES
    DrainCompletes
