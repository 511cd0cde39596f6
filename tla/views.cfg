\* Caches and access objects against stores; two addresses, used again.
CONSTANTS
    f = f
    g = g
    Fields = {f, g}
    ConstData = ConstData
    Threads = {t1, t2}
    Addrs = {a1, a2}
    Caches = {c1, c2}
    Accesses <- SomeAccesses
    NoCache = NoCache
    NoGuard = NoGuard
    MaxWrites = 4
SYMMETRY Symmetry
SPECIFICATION Spec
INVARIANTS CacheFresh ReferencesLive GuardsResolve
