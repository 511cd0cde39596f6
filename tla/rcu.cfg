\* rcu and compare_and_swap against each other and store.
CONSTANTS
    r = r
    w = w
    v = v
    NULL = NULL
    NONE = NONE
    NoStorage = NoStorage
    Dead = Dead
    Threads = {r, w}
    MaxNodes = 2
    MaxCooldowns = 0
    InitOwners <- AllWarm
    Storages = {s1}
    Addrs = {a1, a2, a3}
    SlotCnt = 2
    GenMod = 8
    USE_FAST = TRUE
    Kinds <- UpdateKinds
    MaxOps <- OneEach
    MaxStamp = 2
    InitGeneration <- FromZero
    InitStorage <- DistinctArcs
    LateThreads = {}
    Nulls = {}
    FairThreads = {}
SYMMETRY AddrSymmetry
SPECIFICATION Spec
INVARIANTS RefCountExact NoUseAfterFree
PROPERTY ImplementsCell
