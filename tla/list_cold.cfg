\* Three threads race for nodes from an empty list; one cooldown in total.
CONSTANTS
    t1 = t1
    t2 = t2
    t3 = t3
    Threads = {t1, t2, t3}
    MaxNodes = 4
    MaxCooldowns = 1
    InitOwners <- ColdStart
SYMMETRY ThreadSymmetry
SPECIFICATION ListSpec
INVARIANTS ListTypeOK ExclusiveOwnership OwnedNodesLinked WritersCounted CooldownWaitsForWriters
PROPERTY ListOnlyGrows
