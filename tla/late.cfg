\* Threads whose thread-locals are gone: every load of r has a node of its own,
\* given back before the guard is, and w has to find or push one too.  Only r is
\* scheduled fairly.
CONSTANTS
    r = r
    w = w
    v = v
    NULL = NULL
    NONE = NONE
    NoStorage = NoStorage
    Dead = Dead
    Threads = {r, w}
    MaxNodes = 3
    MaxCooldowns = 2
    InitOwners <- AllCold
    Storages = {s1}
    Addrs = {a1, a2}
    SlotCnt = 1
    GenMod = 8
    USE_FAST = TRUE
    Kinds <- HelpKinds
    MaxOps <- TwoEach
    MaxStamp = 2
    InitGeneration <- FromZero
    InitStorage <- DistinctArcs
    LateThreads = {r}
    Nulls = {}
    FairThreads = {r}
SPECIFICATION LiveSpec
INVARIANTS TypeOK RefCountExact NoUseAfterFree DebtsHaveDebtors DebugAsserts
PROPERTY CallsReturn
