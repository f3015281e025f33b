CONSTANTS
    NumPCs = 3
    Program <- BranchMacroOp
    MacroLen = 2
    Handler = 2
    Fetch2Size = 2
    DecodeSize = 1
    DummySize = 1
    ExecuteSize = 1
    FetchLimit = 1
    IssueLimit = 1
    CommitLimit = 1
    FUSlots = 1
    ThreadPolicy = "RoundRobin"
    DegradePercent = 50
    MaxInterrupts = 1
    Events = {"instFault", "lineFault", "microFault"}
SPECIFICATION Spec
VIEW RankedView
INVARIANTS
    TypeOK
    CommitsNextInst
    CreditsMatch
    PathInv
PROPERTIES
    ImplementsISA
    InterruptsBetweenInsts
