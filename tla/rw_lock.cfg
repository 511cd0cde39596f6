\* A reader that also compares and swaps, against a writer that also destroys
\* the instance and creates it again; Arc, Option and Weak.
CONSTANTS
    r = r
    w = w
    Threads = {r, w}
    Addrs = {a1, a2}
    NULL = NULL
    Empty = Empty
    Dead = Dead
    Instance = Instance
    NoInstance = NoInstance
    Types <- AllTypes
    Kinds <- AllKinds
    MaxOps <- OneAgainstTwo
    MaxStamp = 2
SPECIFICATION LiveSpec
INVARIANTS TypeOK PointersPinned RefsExact
PROPERTIES ImplementsCell CallsReturn
