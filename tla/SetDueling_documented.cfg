\* The last-level cache of the project's configuration: 2 MB, 16 ways of 64
\* bytes, and the policy's default parameters.
CONSTANTS
    Assoc = 16
    NumRRPVBits = 2
    HitPriority = FALSE
    Btp = 3
    NumSetDuelingSets = 32
    NumPSELCounterBits = 10
    NumSets = 2048
SPECIFICATION Spec
CHECK_DEADLOCK FALSE
INVARIANT DedicatedAsDocumented
