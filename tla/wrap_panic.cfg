\* The reader's generation counter overflows: what the load comes to.
CONSTANTS
    r = r
    w = w
    v = v
    NULL = NULL
    NONE = NONE
    NoStorage = NoStorage
    Dead = Dead
    Threads = {r, w}
    MaxNodes = 2
    MaxCooldowns = 1
    InitOwners <- AllWarm
    Storages = {s1}
    Addrs = {a1, a2, a3}
    SlotCnt = 1
    GenMod = 8
    USE_FAST = FALSE
    Kinds <- HelpKinds
    MaxOps <- TwoEach
    MaxStamp = 1
    InitGeneration <- BeforeWrap
    InitStorage <- DistinctArcs
    LateThreads = {}
    Nulls = {}
    FairThreads = {}
SYMMETRY AddrSymmetry
SPECIFICATION Spec
INVARIANT LoadsDoNotPanic
