\* Two instances and memory that is used again for another Arc.
CONSTANTS
    r = r
    w = w
    v = v
    NULL = NULL
    NONE = NONE
    NoStorage = NoStorage
    Dead = Dead
    Threads = {r, w}
    MaxNodes = 2
    MaxCooldowns = 0
    InitOwners <- AllWarm
    Storages = {s1, s2}
    Addrs = {a1, a2, a3}
    SlotCnt = 1
    GenMod = 8
    USE_FAST = TRUE
    Kinds <- HelpKinds
    MaxOps <- OneLoadThreeStores
    MaxStamp = 2
    InitGeneration <- FromZero
    InitStorage <- DistinctArcs
    LateThreads = {}
    Nulls = {}
    FairThreads = {}
SYMMETRY AddrSymmetry
SPECIFICATION Spec
INVARIANT LoadLinearizable
