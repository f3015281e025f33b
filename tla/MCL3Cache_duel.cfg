CONSTANTS
    t1 = t1
    t2 = t2
    t3 = t3
    NoTag = NoTag
    Sets <- FollowedDuel
    Tags <- TwoTags
    Assoc = 1
    NumRRPVBits = 1
    HitPriority = FALSE
    Btp = 3
    NumSetDuelingSets = 4
    NumPSELCounterBits = 2
    NumMSHRs = 1
SPECIFICATION Spec
PROPERTIES
    DuelSettles
