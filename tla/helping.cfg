\* A reader without fast slots against two writers that both want to help.
CONSTANTS
    r = r
    w = w
    v = v
    NULL = NULL
    NONE = NONE
    NoStorage = NoStorage
    Dead = Dead
    Threads = {r, w, v}
    MaxNodes = 3
    MaxCooldowns = 0
    InitOwners <- AllWarm
    Storages = {s1}
    Addrs = {a1, a2, a3}
    SlotCnt = 1
    GenMod = 8
    USE_FAST = FALSE
    Kinds <- HelpedLoad
    MaxOps <- OneEach
    MaxStamp = 1
    InitGeneration <- FromZero
    InitStorage <- DistinctArcs
    LateThreads = {}
    Nulls = {}
    FairThreads = {}
SYMMETRY AddrSymmetry
SPECIFICATION Spec
INVARIANTS RefCountExact NoUseAfterFree LoadLinearizable EnvelopesUnique
