\* A reader with one fast slot against a writer, addresses reused;
\* the second slow load overflows the generation counter.
CONSTANTS
    r = r
    w = w
    v = v
    NULL = NULL
    NONE = NONE
    NoStorage = NoStorage
    Dead = Dead
    Threads = {r, w}
    MaxNodes = 2
    MaxCooldowns = 1
    InitOwners <- AllWarm
    Storages = {s1}
    Addrs = {a1, a2, a3}
    SlotCnt = 1
    GenMod = 8
    USE_FAST = TRUE
    Kinds <- ReadWriteKinds
    MaxOps <- TwoEach
    MaxStamp = 2
    InitGeneration <- BeforeWrap
    InitStorage <- DistinctArcs
    LateThreads = {}
    Nulls = {}
    FairThreads = {}
SYMMETRY AddrSymmetry
SPECIFICATION Spec
INVARIANTS RefCountExact NoUseAfterFree LoadLinearizable DebtsHaveDebtors
