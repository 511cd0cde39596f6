-------------------------------- MODULE Views --------------------------------
(***************************************************************************)
(* The readers on top of one ArcSwapAny: caches (src/cache.rs) and access  *)
(* objects (src/access.rs), against stores of other threads.  load,        *)
(* load_full and store are steps of the Cell.                              *)
(*                                                                         *)
(* A cache looks at the pointer with Ordering::Relaxed.  Such a read finds *)
(* any write to the pointer that is not older than the newest one the      *)
(* thread knows of (coherence): written is the modification order of the   *)
(* pointer and known[t] the position up to which thread t has seen it.     *)
(***************************************************************************)
EXTENDS Access, FiniteSets

CONSTANTS
    Threads,
    Addrs,      \* addresses an Arc can be allocated at
    Caches,     \* the cache objects there can be
    Accesses,   \* the access objects in use
    NoCache,
    NoGuard,
    MaxWrites   \* bound: number of writes to the pointer

\* An Arc is known by its address and by which one it is at that address.
Values == Addrs \X Nat
CacheType == [val : Values, owner : Threads]
GuardType == [source : Sources, val : Values \cup {ConstData}, of : Accesses,
              layers : {LayersOf(x) : x \in Accesses}, from : Nat]

ASSUME ViewsAssumption ==
    /\ IsFiniteSet(Threads)
    /\ IsFiniteSet(Caches)
    /\ MaxWrites \in Nat
    /\ \A x \in Accesses : x.source \in Sources /\ x.adaptors \in Seq(Adaptors)
    /\ NoCache \notin CacheType
    /\ NoGuard \notin GuardType

VARIABLES
    refs,       \* the reference count at each address
    made,       \* history: which Arc lives at an address, counted from 1
    written,    \* everything that was written to the pointer
    known,      \* the newest write each thread knows of
    cache,      \* Cache.cached and the thread that has the cache
    guard,      \* a guard from an access object, per thread
    at,         \* the next step of each thread
    loc         \* the cache it uses, and known when the call began

vars == <<refs, made, written, known, cache, guard, at, loc>>

Current == written[Len(written)]
Inc(v) == [refs EXCEPT ![v[1]] = @ + 1]
NotIn == [c |-> NoCache, from |-> 0]

Init ==
    \E a \in Addrs :
        /\ made = [b \in Addrs |-> IF b = a THEN 1 ELSE 0]
        /\ refs = made
        /\ written = << <<a, 1>> >>
        /\ known = [t \in Threads |-> 1]
        /\ cache = [c \in Caches |-> NoCache]
        /\ guard = [t \in Threads |-> NoGuard]
        /\ at = [t \in Threads |-> "idle"]
        /\ loc = [t \in Threads |-> NotIn]

Knows(t, k) == known' = [known EXCEPT ![t] = k]

\* A store of a new Arc or of a clone; the reference to the old one goes.
Store(t) ==
    \E a \in Addrs :
        LET fresh == refs[a] = 0
            n == IF fresh THEN made[a] + 1 ELSE made[a]
        IN  /\ at[t] = "idle"
            /\ Len(written) < MaxWrites
            /\ made' = [made EXCEPT ![a] = n]
            /\ written' = Append(written, <<a, n>>)
            /\ refs' = [Inc(<<a, n>>) EXCEPT ![Current[1]] = @ - 1]
            /\ Knows(t, Len(written) + 1)
            /\ UNCHANGED <<cache, guard, at, loc>>

-----------------------------------------------------------------------------
(* Cache.                                                                    *)

Owns(t, c) == cache[c] # NoCache /\ cache[c].owner = t

\* Mutant: the cache remembers the address, without a reference.
CacheNewUncounted(t) ==
    \E c \in Caches :
        /\ at[t] = "idle"
        /\ cache[c] = NoCache
        /\ cache' = [cache EXCEPT ![c] = [val |-> Current, owner |-> t]]
        /\ Knows(t, Len(written))
        /\ UNCHANGED <<refs, made, written, guard, at, loc>>

\* Cache::new and From: load_full.
CacheNew(t) ==
    \E c \in Caches :
        /\ at[t] = "idle"
        /\ cache[c] = NoCache
        /\ cache' = [cache EXCEPT ![c] = [val |-> Current, owner |-> t]]
        /\ refs' = Inc(Current)
        /\ Knows(t, Len(written))
        /\ UNCHANGED <<made, written, guard, at, loc>>

\* The derived Clone clones the Arc inside.
CacheClone(t) ==
    \E c, d \in Caches :
        /\ at[t] = "idle"
        /\ Owns(t, c)
        /\ cache[d] = NoCache
        /\ cache' = [cache EXCEPT ![d] = cache[c]]
        /\ refs' = Inc(cache[c].val)
        /\ UNCHANGED <<made, written, known, guard, at, loc>>

CacheDrop(t) ==
    \E c \in Caches :
        /\ at[t] = "idle"
        /\ Owns(t, c)
        /\ cache' = [cache EXCEPT ![c] = NoCache]
        /\ refs' = [refs EXCEPT ![cache[c].val[1]] = @ - 1]
        /\ UNCHANGED <<made, written, known, guard, at, loc>>

\* A cache is moved to another thread, which then knows what this one knew.
CacheSend(t) ==
    \E c \in Caches, u \in Threads :
        /\ at[t] = "idle"
        /\ Owns(t, c)
        /\ cache' = [cache EXCEPT ![c].owner = u]
        /\ known' = [known EXCEPT ![u] = IF known[t] > @ THEN known[t] ELSE @]
        /\ UNCHANGED <<refs, made, written, guard, at, loc>>

\* Cache::load, on its own or called by a MapCache.
CacheLoad(t) ==
    \E c \in Caches :
        /\ at[t] = "idle"
        /\ Owns(t, c)
        /\ loc' = [loc EXCEPT ![t] = [c |-> c, from |-> known[t]]]
        /\ at' = [at EXCEPT ![t] = "check"]
        /\ UNCHANGED <<refs, made, written, known, cache, guard>>

\* revalidate: a relaxed look at the pointer; equal addresses mean up to date.
Revalidate(t) ==
    \E k \in known[t] .. Len(written) :
        /\ at[t] = "check"
        /\ Knows(t, k)
        /\ at' = [at EXCEPT ![t] = IF written[k][1] = cache[loc[t].c].val[1]
                                   THEN "borrowed" ELSE "reload"]
        /\ UNCHANGED <<refs, made, written, cache, guard, loc>>

\* revalidate: load_full, and the old value is dropped.
Reload(t) ==
    /\ at[t] = "reload"
    /\ cache' = [cache EXCEPT ![loc[t].c].val = Current]
    /\ refs' = [Inc(Current) EXCEPT ![cache[loc[t].c].val[1]] = @ - 1]
    /\ Knows(t, Len(written))
    /\ at' = [at EXCEPT ![t] = "borrowed"]
    /\ UNCHANGED <<made, written, guard, loc>>

\* The references to be had: to the Arc, to its data through cache::Access, or
\* to a part of it through a MapCache.
CacheRefs(t) ==
    LET arc == Borrow("pointer", cache[loc[t].c].val)
    IN  {arc} \cup {DerefLayer(arc, layer) : layer \in {"data"} \cup Fields}

\* The borrow of the cache ends.
CacheUsed(t) ==
    /\ at[t] = "borrowed"
    /\ at' = [at EXCEPT ![t] = "idle"]
    /\ loc' = [loc EXCEPT ![t] = NotIn]
    /\ UNCHANGED <<refs, made, written, known, cache, guard>>

-----------------------------------------------------------------------------
(* Access.                                                                   *)

\* Mutant: the guard does not keep what it points to.
AccessLoadUncounted(t) ==
    \E x \in Accesses :
        LET v == IF x.source = "constant" THEN ConstData ELSE Current
        IN  /\ at[t] = "idle"
            /\ guard[t] = NoGuard
            /\ guard' = [guard EXCEPT ![t] = [source |-> x.source, val |-> v, of |-> x,
                                              layers |-> LayersOf(x), from |-> known[t]]]
            /\ known' = IF x.source = "constant" THEN known
                        ELSE [known EXCEPT ![t] = Len(written)]
            /\ UNCHANGED <<refs, made, written, cache, at, loc>>

\* load: of the ArcSwapAny, or a clone of the constant, inside the layers.
AccessLoad(t) ==
    \E x \in Accesses :
        LET v == IF x.source = "constant" THEN ConstData ELSE Current
        IN  /\ at[t] = "idle"
            /\ guard[t] = NoGuard
            /\ guard' = [guard EXCEPT ![t] = [source |-> x.source, val |-> v, of |-> x,
                                              layers |-> LayersOf(x), from |-> known[t]]]
            /\ refs' = IF x.source = "constant" THEN refs ELSE Inc(v)
            /\ known' = IF x.source = "constant" THEN known
                        ELSE [known EXCEPT ![t] = Len(written)]
            /\ UNCHANGED <<made, written, cache, at, loc>>

GuardDrop(t) ==
    /\ at[t] = "idle"
    /\ guard[t] # NoGuard
    /\ refs' = IF guard[t].source = "constant" THEN refs
               ELSE [refs EXCEPT ![guard[t].val[1]] = @ - 1]
    /\ guard' = [guard EXCEPT ![t] = NoGuard]
    /\ UNCHANGED <<made, written, known, cache, at, loc>>

-----------------------------------------------------------------------------
Next ==
    \E t \in Threads :
        \/ Store(t)
        \/ CacheNew(t)
        \/ CacheClone(t)
        \/ CacheDrop(t)
        \/ CacheSend(t)
        \/ CacheLoad(t)
        \/ Revalidate(t)
        \/ Reload(t)
        \/ CacheUsed(t)
        \/ AccessLoad(t)
        \/ GuardDrop(t)

Spec == Init /\ [][Next]_vars

-----------------------------------------------------------------------------
(* Properties.                                                               *)

Since(k) == {written[j] : j \in k .. Len(written)}

\* What Cache::load returns is not older than what the thread knew of when it
\* made the call, although the look at the pointer is relaxed, the cache may
\* come from another thread and addresses are used again: the Arc in the cache
\* keeps its address from standing for another one.
CacheFresh ==
    \A t \in Threads :
        at[t] = "borrowed" => \A ref \in CacheRefs(t) : ref.to \in Since(loc[t].from)

\* Whatever a cache or a guard refers to is still the Arc at its address, and
\* alive, however often the pointer was replaced since.
ReferencesLive ==
    LET alive(v) == refs[v[1]] > 0 /\ made[v[1]] = v[2]
    IN  /\ \A c \in Caches : cache[c] # NoCache => alive(cache[c].val)
        /\ \A t \in Threads :
              guard[t] # NoGuard /\ guard[t].source # "constant" => alive(guard[t].val)

\* A guard of an access object derefs to the part that the access stands for, of
\* the Arc it keeps alive, which was in the ArcSwapAny when it was loaded, or of
\* the constant, through whatever pointers, boxes and conversions the load went.
GuardsResolve ==
    \A t \in Threads :
        guard[t] # NoGuard =>
            LET v == guard[t].val
            IN  /\ v \in {ConstData} \cup Since(guard[t].from)
                /\ v = ConstData <=> guard[t].source = "constant"
                /\ Deref(guard[t]) = Meaning(guard[t].of, v)
=============================================================================
