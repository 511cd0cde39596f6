\* Two cooldowns of the same node, with a claimant that has read the state of
\* the first one.
CONSTANTS
    t1 = t1
    t2 = t2
    t3 = t3
    Threads = {t1, t2, t3}
    MaxNodes = 4
    MaxCooldowns = 2
    InitOwners <- OneOwner
SPECIFICATION ListSpec
INVARIANT CooldownWaitsForWriters
