\* Two instances that are dropped, taken apart and created again under guards.
CONSTANTS
    r = r
    w = w
    v = v
    NULL = NULL
    NONE = NONE
    NoStorage = NoStorage
    Dead = Dead
    Threads = {r, w}
    MaxNodes = 2
    MaxCooldowns = 0
    InitOwners <- AllWarm
    Storages = {s1, s2}
    Addrs = {a1, a2}
    SlotCnt = 1
    GenMod = 8
    USE_FAST = TRUE
    Kinds <- DestroyKinds
    MaxOps <- TwoEach
    MaxStamp = 2
    InitGeneration <- FromZero
    InitStorage <- DistinctArcs
    LateThreads = {}
    Nulls = {}
    FairThreads = {}
SYMMETRY AddrSymmetry
SPECIFICATION Spec
INVARIANTS RefCountExact NoUseAfterFree
PROPERTY ImplementsCell
