CONSTANTS
    NumPCs = 2
    Program <- BranchQuiesce
    MacroLen = 1
    Handler = 0
    Fetch2Size = 2
    DecodeSize = 1
    DummySize = 1
    ExecuteSize = 1
    FetchLimit = 2
    IssueLimit = 1
    CommitLimit = 1
    FUSlots = 2
    ThreadPolicy = "RoundRobin"
    DegradePercent = 50
    MaxInterrupts = 0
    Events = {"wakeup"}
SPECIFICATION Spec
VIEW RankedView
INVARIANTS
    CommitsNextInst
    CreditsMatch
    SuspendedNeverCommits
