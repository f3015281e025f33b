CONSTANTS
    t1 = t1
    t2 = t2
    t3 = t3
    NoTag = NoTag
    Sets <- SRRIPSet
    Tags <- ThreeTags
    Assoc = 2
    NumRRPVBits = 2
    HitPriority = FALSE
    Btp = 3
    NumSetDuelingSets = 4
    NumPSELCounterBits = 1
    NumMSHRs = 2
SPECIFICATION Spec
INVARIANTS
    TypeOK
    OneCopy
    ReplTracksBlk
    UnreadableIsOutstanding
    OutstandingIsUpgrade
PROPERTIES
    VictimIsMostDistant
    AgeingKeepsOrder
    DeadBlocksLeave
