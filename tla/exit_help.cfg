\* A reader ends while a writer helps it; a new one starts on the same node.
\* Only the writer is scheduled fairly.
CONSTANTS
    r = r
    w = w
    v = v
    NULL = NULL
    NONE = NONE
    NoStorage = NoStorage
    Dead = Dead
    Threads = {r, w}
    MaxNodes = 3
    MaxCooldowns = 1
    InitOwners <- AllWarm
    Storages = {s1, s2}
    Addrs = {a1, a2, a3}
    SlotCnt = 1
    GenMod = 8
    USE_FAST = FALSE
    Kinds <- ExitKinds
    MaxOps <- TwoLoadsOneStore
    MaxStamp = 1
    InitGeneration <- FromZero
    InitStorage <- DistinctArcs
    LateThreads = {}
    Nulls = {NULL}
    FairThreads = {w}
SPECIFICATION LiveSpec
INVARIANTS LoadLinearizable EnvelopesUnique DebugAsserts
PROPERTY CallsReturn
