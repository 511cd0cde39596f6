----------------------------- MODULE ViewsProofs -----------------------------
(***************************************************************************)
(* Proofs about the caches and access objects, for any number of threads,  *)
(* caches, addresses and writes.                                           *)
(***************************************************************************)
EXTENDS Views, Counting

\* Types, and that a thread has seen a write that there is.
Shape ==
    /\ refs \in [Addrs -> Int]
    /\ made \in [Addrs -> Nat]
    /\ written \in Seq(Values)
    /\ Len(written) >= 1
    /\ known \in [Threads -> Nat]
    /\ \A t \in Threads : known[t] \in 1 .. Len(written)
    /\ cache \in [Caches -> CacheType \cup {NoCache}]
    /\ guard \in [Threads -> GuardType \cup {NoGuard}]
    /\ at \in [Threads -> {"idle", "check", "reload", "borrowed"}]
    /\ loc \in [Threads -> [c : Caches \cup {NoCache}, from : Nat]]

\* The caches and the guards that have a reference to the Arc at a.
Counts(t) == guard[t] # NoGuard /\ guard[t].source # "constant"
CachesOn(a) == {c \in Caches : cache[c] # NoCache /\ cache[c].val[1] = a}
GuardsOn(a) == {t \in Threads : Counts(t) /\ guard[t].val[1] = a}

\* The reference count is the number of references: the pointer's own, those of
\* the caches and those of the guards.
Counted ==
    \A a \in Addrs :
        refs[a] = (IF Current[1] = a THEN 1 ELSE 0)
                  + Cardinality(CachesOn(a)) + Cardinality(GuardsOn(a))

\* Whoever has a reference has it to the Arc that now lives at the address.
Lives(v) == made[v[1]] = v[2]
Present ==
    /\ Lives(Current)
    /\ \A c \in Caches : cache[c] # NoCache => Lives(cache[c].val)
    /\ \A t \in Threads : Counts(t) => guard[t].val \in Values /\ Lives(guard[t].val)

\* Later writes of an address are of the same Arc or of a later one.
Ordered ==
    /\ \A k \in 1 .. Len(written) : written[k][2] <= made[written[k][1]]
    /\ \A j, k \in 1 .. Len(written) :
          j <= k /\ written[j][1] = written[k][1] => written[j][2] <= written[k][2]

\* The owner of a cache knows of the write the cache has its Arc from.
Witnessed ==
    \A c \in Caches :
        cache[c] # NoCache =>
            \E k \in 1 .. Len(written) : k <= known[cache[c].owner] /\ written[k] = cache[c].val

\* Inside of a load the cache is the thread's own, and what it borrows is new
\* enough.
Loading ==
    \A t \in Threads :
        /\ at[t] # "idle" => /\ loc[t].c \in Caches
                             /\ Owns(t, loc[t].c)
                             /\ loc[t].from \in 1 .. known[t]
        /\ at[t] = "borrowed" => \E k \in loc[t].from .. Len(written) :
                                     written[k] = cache[loc[t].c].val

\* The inductive invariant.
ViewsInv == Shape /\ Counted /\ Present /\ Ordered /\ Witnessed /\ Loading

-----------------------------------------------------------------------------
\* The newest write is one.
LEMMA CurrentValue ==
    ASSUME Shape
    PROVE  Current \in Values /\ Len(written) \in Nat /\ Len(written) \in 1 .. Len(written)
BY DEF Shape, Current

\* The first Arc, in the pointer and nowhere else.
LEMMA InitViews == Init => ViewsInv
<1> SUFFICES ASSUME Init PROVE ViewsInv
  OBVIOUS
<1>1. PICK a \in Addrs :
        /\ made = [b \in Addrs |-> IF b = a THEN 1 ELSE 0]
        /\ refs = made
        /\ written = << <<a, 1>> >>
        /\ known = [t \in Threads |-> 1]
        /\ cache = [c \in Caches |-> NoCache]
        /\ guard = [t \in Threads |-> NoGuard]
        /\ at = [t \in Threads |-> "idle"]
        /\ loc = [t \in Threads |-> NotIn]
  BY DEF Init
<1>2. Len(written) = 1 /\ written[1] = <<a, 1>> /\ Current = <<a, 1>>
  BY <1>1 DEF Current
<1>3. Shape
  <2>1. <<a, 1>> \in Values
    BY DEF Values
  <2>2. written \in Seq(Values)
    BY <1>1, <2>1
  <2> QED
    BY <1>1, <1>2, <2>2 DEF Shape, NotIn
<1>4. Counted
  <2> SUFFICES ASSUME NEW b \in Addrs
               PROVE  refs[b] = (IF Current[1] = b THEN 1 ELSE 0)
                                + Cardinality(CachesOn(b)) + Cardinality(GuardsOn(b))
    BY DEF Counted
  <2>1. CachesOn(b) = {} /\ GuardsOn(b) = {}
    BY <1>1 DEF CachesOn, GuardsOn, Counts
  <2>2. Cardinality(CachesOn(b)) = 0 /\ Cardinality(GuardsOn(b)) = 0
    BY <2>1, FS_EmptySet
  <2> QED
    BY <1>1, <1>2, <2>2
<1>5. Present /\ Ordered /\ Witnessed /\ Loading
  BY <1>1, <1>2 DEF Present, Lives, Counts, Ordered, Witnessed, Loading
<1> QED
  BY <1>3, <1>4, <1>5 DEF ViewsInv

-----------------------------------------------------------------------------
Acts(t) ==
    \/ Store(t) \/ CacheNew(t) \/ CacheClone(t) \/ CacheDrop(t) \/ CacheSend(t) \/ CacheLoad(t)
    \/ Revalidate(t) \/ Reload(t) \/ CacheUsed(t) \/ AccessLoad(t) \/ GuardDrop(t)

\* The writes stay, and a store adds one at their end: of a new Arc at an
\* address without references, or of the Arc that lives there.
LEMMA StoreWrites ==
    ASSUME ViewsInv, NEW t \in Threads, Store(t)
    PROVE  \E a \in Addrs, n \in Nat :
              /\ Len(written') = Len(written) + 1
              /\ written' \in Seq(Values)
              /\ \A k \in 1 .. Len(written) : written'[k] = written[k]
              /\ written'[Len(written) + 1] = <<a, n>>
              /\ Current' = <<a, n>>
              /\ made' = [made EXCEPT ![a] = n]
              /\ \/ refs[a] = 0 /\ n = made[a] + 1
                 \/ refs[a] # 0 /\ n = made[a]
              /\ refs' = [[refs EXCEPT ![a] = @ + 1] EXCEPT ![Current[1]] = @ - 1]
              /\ known' = [known EXCEPT ![t] = Len(written) + 1]
<1>1. PICK a \in Addrs :
        LET n == IF refs[a] = 0 THEN made[a] + 1 ELSE made[a]
        IN  /\ made' = [made EXCEPT ![a] = n]
            /\ written' = Append(written, <<a, n>>)
            /\ refs' = [Inc(<<a, n>>) EXCEPT ![Current[1]] = @ - 1]
            /\ Knows(t, Len(written) + 1)
  BY DEF Store
<1> DEFINE n == IF refs[a] = 0 THEN made[a] + 1 ELSE made[a]
<1>2. n \in Nat /\ <<a, n>> \in Values /\ written \in Seq(Values) /\ Len(written) \in Nat
  BY DEF ViewsInv, Shape, Values
<1>3. written' = Append(written, <<a, n>>)
  BY <1>1
<1>4. refs' = [[refs EXCEPT ![a] = @ + 1] EXCEPT ![Current[1]] = @ - 1]
  BY <1>1 DEF Inc
<1>5. made' = [made EXCEPT ![a] = n] /\ known' = [known EXCEPT ![t] = Len(written) + 1]
  BY <1>1 DEF Knows
<1>6. (refs[a] = 0 /\ n = made[a] + 1) \/ (refs[a] # 0 /\ n = made[a])
  OBVIOUS
<1> HIDE DEF n
<1>7. /\ Len(written') = Len(written) + 1
      /\ written' \in Seq(Values)
      /\ \A k \in 1 .. Len(written) : written'[k] = written[k]
      /\ written'[Len(written) + 1] = <<a, n>>
  BY <1>2, <1>3
<1>8. Current' = <<a, n>>
  BY <1>7 DEF Current
<1> QED
  BY <1>2, <1>4, <1>5, <1>6, <1>7, <1>8

\* What a thread knows is a write, and it never knows less than before.
LEMMA KnownGrows ==
    ASSUME ViewsInv, NEW t \in Threads, Acts(t)
    PROVE  /\ known' \in [Threads -> Nat]
           /\ Len(written') \in Nat /\ Len(written) <= Len(written')
           /\ \A u \in Threads : known'[u] \in 1 .. Len(written') /\ known[u] <= known'[u]
<1> USE DEF ViewsInv, Shape
<1>1. CASE Store(t)
  <2>1. Len(written') = Len(written) + 1 /\ known' = [known EXCEPT ![t] = Len(written) + 1]
    BY <1>1, StoreWrites
  <2> QED
    BY <2>1
<1>2. CASE CacheNew(t) \/ Reload(t) \/ AccessLoad(t)
  <2>1. written' = written /\ (known' = [known EXCEPT ![t] = Len(written)] \/ known' = known)
    BY <1>2 DEF CacheNew, Reload, AccessLoad, Knows
  <2>2. Len(written) \in Nat /\ \A u \in Threads : known[u] <= Len(written) /\ known[u] \in Nat
    OBVIOUS
  <2>3. CASE known' = known
    BY <2>1, <2>2, <2>3
  <2>4. CASE known' = [known EXCEPT ![t] = Len(written)]
    BY <2>1, <2>2, <2>4
  <2> QED
    BY <2>1, <2>3, <2>4
<1>3. CASE CacheClone(t) \/ CacheDrop(t) \/ CacheLoad(t) \/ CacheUsed(t) \/ GuardDrop(t)
  BY <1>3 DEF CacheClone, CacheDrop, CacheLoad, CacheUsed, GuardDrop
<1>4. CASE CacheSend(t)
  BY <1>4 DEF CacheSend
<1>5. CASE Revalidate(t)
  BY <1>5 DEF Revalidate, Knows
<1> QED
  BY <1>1, <1>2, <1>3, <1>4, <1>5 DEF Acts

\* What the caches, the guards and the threads have keeps its type.
LEMMA ShapeStep ==
    ASSUME ViewsInv, NEW t \in Threads, Acts(t)
    PROVE  Shape'
<1> USE DEF ViewsInv
<1>0. /\ Current \in Values
      /\ \A v \in Values : Inc(v) \in [Addrs -> Int]
      /\ \A f \in [Addrs -> Int], a \in Addrs : [f EXCEPT ![a] = @ - 1] \in [Addrs -> Int]
      /\ \A v \in Values : v[1] \in Addrs
  <2>1. refs \in [Addrs -> Int] /\ Current \in Values
    BY CurrentValue DEF Shape
  <2>2. \A v \in Values : v[1] \in Addrs
    BY DEF Values
  <2>3. \A f \in [Addrs -> Int], a \in Addrs : /\ [f EXCEPT ![a] = @ - 1] \in [Addrs -> Int]
                                               /\ [f EXCEPT ![a] = @ + 1] \in [Addrs -> Int]
    OBVIOUS
  <2> QED
    BY <2>1, <2>2, <2>3 DEF Inc
<1>1. /\ known' \in [Threads -> Nat]
      /\ \A u \in Threads : known'[u] \in 1 .. Len(written')
  BY KnownGrows
<1>2. /\ written' \in Seq(Values) /\ Len(written') >= 1
      /\ made' \in [Addrs -> Nat]
  <2>1. CASE Store(t)
    BY <2>1, StoreWrites DEF Shape
  <2>2. CASE written' = written /\ made' = made
    BY <2>2 DEF Shape
  <2> QED
    BY <2>1, <2>2 DEF Acts, CacheNew, CacheClone, CacheDrop, CacheSend, CacheLoad, Revalidate,
                      Reload, CacheUsed, AccessLoad, GuardDrop
<1>3. cache' \in [Caches -> CacheType \cup {NoCache}]
  <2>1. CASE CacheNew(t)
    BY <1>0, <2>1 DEF CacheNew, Shape, CacheType
  <2>2. CASE CacheClone(t) \/ CacheDrop(t)
    BY <2>2 DEF CacheClone, CacheDrop, Shape
  <2>3. CASE CacheSend(t)
    <3>1. PICK c \in Caches, u \in Threads : Owns(t, c) /\ cache' = [cache EXCEPT ![c].owner = u]
      BY <2>3 DEF CacheSend
    <3>2. cache[c] \in CacheType
      BY <3>1 DEF Shape, Owns
    <3>3. [cache[c] EXCEPT !.owner = u] \in CacheType
      BY <3>2 DEF CacheType
    <3> QED
      BY <3>1, <3>3 DEF Shape
  <2>4. CASE Reload(t)
    <3>1. loc[t].c \in Caches /\ cache[loc[t].c] \in CacheType
      BY <2>4 DEF Shape, Owns, Loading, Reload
    <3>2. [cache[loc[t].c] EXCEPT !.val = Current] \in CacheType
      BY <1>0, <3>1 DEF CacheType
    <3> QED
      BY <2>4, <3>1, <3>2 DEF Shape, Reload
  <2>5. CASE cache' = cache
    BY <2>5 DEF Shape
  <2> QED
    BY <2>1, <2>2, <2>3, <2>4, <2>5
       DEF Acts, Store, CacheLoad, Revalidate, CacheUsed, AccessLoad, GuardDrop
<1>4. guard' \in [Threads -> GuardType \cup {NoGuard}]
  <2>1. CASE AccessLoad(t)
    <3>1. PICK x \in Accesses :
            guard' = [guard EXCEPT ![t] =
                        [source |-> x.source,
                         val |-> IF x.source = "constant" THEN ConstData ELSE Current,
                         of |-> x, layers |-> LayersOf(x), from |-> known[t]]]
      BY <2>1 DEF AccessLoad
    <3>2. guard'[t] \in GuardType
      BY <1>0, <3>1, ViewsAssumption DEF Shape, GuardType
    <3> QED
      BY <3>1, <3>2 DEF Shape
  <2>2. CASE guard' = guard \/ guard' = [guard EXCEPT ![t] = NoGuard]
    BY <2>2 DEF Shape
  <2> QED
    BY <2>1, <2>2 DEF Acts, Store, CacheNew, CacheClone, CacheDrop, CacheSend, CacheLoad,
                      Revalidate, Reload, CacheUsed, GuardDrop
<1>5. /\ at' \in [Threads -> {"idle", "check", "reload", "borrowed"}]
      /\ loc' \in [Threads -> [c : Caches \cup {NoCache}, from : Nat]]
  <2>1. CASE CacheLoad(t)
    BY <2>1 DEF CacheLoad, Shape
  <2>2. CASE Revalidate(t)
    BY <2>2 DEF Revalidate, Shape
  <2>3. CASE Reload(t)
    BY <2>3 DEF Reload, Shape
  <2>4. CASE CacheUsed(t)
    BY <2>4 DEF CacheUsed, NotIn, Shape
  <2>5. CASE at' = at /\ loc' = loc
    BY <2>5 DEF Shape
  <2> QED
    BY <2>1, <2>2, <2>3, <2>4, <2>5
       DEF Acts, Store, CacheNew, CacheClone, CacheDrop, CacheSend, AccessLoad, GuardDrop
<1>6. refs' \in [Addrs -> Int]
  <2>1. CASE Store(t)
    <3>1. PICK a \in Addrs : refs' = [[refs EXCEPT ![a] = @ + 1] EXCEPT ![Current[1]] = @ - 1]
      BY <2>1, StoreWrites
    <3> DEFINE more == [refs EXCEPT ![a] = @ + 1]
    <3>2. more \in [Addrs -> Int]
      BY DEF Shape
    <3>3. PICK b \in Addrs : refs' = [more EXCEPT ![b] = @ - 1]
      BY <1>0, <3>1
    <3> HIDE DEF more
    <3> QED
      BY <3>2, <3>3
  <2>2. CASE CacheNew(t) \/ AccessLoad(t)
    BY <1>0, <2>2 DEF CacheNew, AccessLoad, Shape
  <2>3. CASE CacheClone(t) \/ CacheDrop(t)
    <3>1. \A c \in Caches : Owns(t, c) => cache[c].val \in Values
      BY DEF Owns, Shape, CacheType
    <3> QED
      BY <1>0, <2>3, <3>1 DEF CacheClone, CacheDrop, Shape
  <2>4. CASE Reload(t)
    <3>1. loc[t].c \in Caches /\ cache[loc[t].c].val \in Values
      BY <2>4 DEF Shape, Owns, Loading, Reload, CacheType
    <3> QED
      BY <1>0, <2>4, <3>1 DEF Reload
  <2>5. CASE GuardDrop(t)
    <3>1. Counts(t) => guard[t].val[1] \in Addrs
      BY <1>0 DEF Present
    <3> QED
      BY <1>0, <2>5, <3>1 DEF GuardDrop, Counts, Shape
  <2>6. CASE refs' = refs
    BY <2>6 DEF Shape
  <2> QED
    BY <2>1, <2>2, <2>3, <2>4, <2>5, <2>6
       DEF Acts, CacheSend, CacheLoad, Revalidate, CacheUsed
<1> QED
  BY <1>1, <1>2, <1>3, <1>4, <1>5, <1>6 DEF Shape

-----------------------------------------------------------------------------
(* Counting.                                                                 *)

\* A step that touches one cache changes the number of caches on an address by
\* that cache.
LEMMA OneCache ==
    ASSUME NEW c \in Caches, NEW a, \A d \in Caches : d # c => cache'[d] = cache[d]
    PROVE  /\ Cardinality(CachesOn(a)) \in Nat
           /\ Cardinality(CachesOn(a)') = Cardinality(CachesOn(a))
                                          - (IF c \in CachesOn(a) THEN 1 ELSE 0)
                                          + (IF c \in CachesOn(a)' THEN 1 ELSE 0)
<1>1. IsFiniteSet(CachesOn(a))
  BY ViewsAssumption, FS_Subset DEF CachesOn
<1>2. CachesOn(a) \ {c} = CachesOn(a)' \ {c}
  BY DEF CachesOn
<1> QED
  BY <1>1, <1>2, CardinalityChange

\* The same for the guard of one thread.
LEMMA OneGuard ==
    ASSUME NEW t \in Threads, NEW a, \A u \in Threads : u # t => guard'[u] = guard[u]
    PROVE  /\ Cardinality(GuardsOn(a)) \in Nat
           /\ Cardinality(GuardsOn(a)') = Cardinality(GuardsOn(a))
                                          - (IF t \in GuardsOn(a) THEN 1 ELSE 0)
                                          + (IF t \in GuardsOn(a)' THEN 1 ELSE 0)
<1>1. IsFiniteSet(GuardsOn(a))
  BY ViewsAssumption, FS_Subset DEF GuardsOn
<1>2. GuardsOn(a) \ {t} = GuardsOn(a)' \ {t}
  BY DEF GuardsOn, Counts
<1> QED
  BY <1>1, <1>2, CardinalityChange

\* Somebody with a reference is counted.
LEMMA CountsPositive ==
    ASSUME ViewsInv
    PROVE  /\ \A a \in Addrs : Cardinality(CachesOn(a)) \in Nat /\ Cardinality(GuardsOn(a)) \in Nat
           /\ refs[Current[1]] > 0
           /\ \A c \in Caches : cache[c] # NoCache => refs[cache[c].val[1]] > 0
           /\ \A t \in Threads : Counts(t) => refs[guard[t].val[1]] > 0
<1> USE DEF ViewsInv
<1>1. \A a \in Addrs : /\ IsFiniteSet(CachesOn(a)) /\ Cardinality(CachesOn(a)) \in Nat
                       /\ IsFiniteSet(GuardsOn(a)) /\ Cardinality(GuardsOn(a)) \in Nat
  BY ViewsAssumption, FS_Subset, FS_CardinalityType DEF CachesOn, GuardsOn
<1>2. refs[Current[1]] > 0
  BY <1>1, CurrentValue DEF Counted, Values
<1>3. ASSUME NEW c \in Caches, cache[c] # NoCache
      PROVE  refs[cache[c].val[1]] > 0
  <2>1. cache[c].val[1] \in Addrs
    BY <1>3 DEF Shape, CacheType, Values
  <2>2. c \in CachesOn(cache[c].val[1])
    BY <1>3 DEF CachesOn
  <2>3. Cardinality(CachesOn(cache[c].val[1])) > 0
    BY <1>1, <2>1, <2>2, CardinalityPositive
  <2> QED
    BY <1>1, <2>1, <2>3 DEF Counted
<1>4. ASSUME NEW t \in Threads, Counts(t)
      PROVE  refs[guard[t].val[1]] > 0
  <2>1. guard[t].val[1] \in Addrs
    BY <1>4 DEF Present, Values
  <2>2. t \in GuardsOn(guard[t].val[1])
    BY <1>4 DEF GuardsOn
  <2>3. Cardinality(GuardsOn(guard[t].val[1])) > 0
    BY <1>1, <2>1, <2>2, CardinalityPositive
  <2> QED
    BY <1>1, <2>1, <2>3 DEF Counted
<1> QED
  BY <1>1, <1>2, <1>3, <1>4

\* What each step does to the count it does to the references, too.
LEMMA CountedStep ==
    ASSUME ViewsInv, NEW t \in Threads, Acts(t)
    PROVE  Counted'
<1> USE DEF ViewsInv
<1>0. /\ refs \in [Addrs -> Int]
      /\ Current \in Values
      /\ \A a \in Addrs : Cardinality(CachesOn(a)) \in Nat /\ Cardinality(GuardsOn(a)) \in Nat
      /\ \A v \in Values : v[1] \in Addrs
      /\ \A c \in Caches : cache[c] # NoCache => cache[c].val \in Values
  BY CurrentValue, CountsPositive DEF Shape, Values, CacheType
<1> SUFFICES ASSUME NEW a \in Addrs
             PROVE  refs'[a] = (IF Current'[1] = a THEN 1 ELSE 0)
                               + Cardinality(CachesOn(a)') + Cardinality(GuardsOn(a)')
  BY DEF Counted
<1>1. refs[a] = (IF Current[1] = a THEN 1 ELSE 0)
                + Cardinality(CachesOn(a)) + Cardinality(GuardsOn(a))
  BY DEF Counted
<1>2. cache' = cache => CachesOn(a)' = CachesOn(a)
  BY DEF CachesOn
<1>3. guard' = guard => GuardsOn(a)' = GuardsOn(a)
  BY DEF GuardsOn, Counts
<1>4. written' = written => Current' = Current
  BY DEF Current
<1>5. CASE Store(t)
  <2>1. cache' = cache /\ guard' = guard
    BY <1>5 DEF Store
  <2>2. PICK b \in Addrs, n \in Nat :
          /\ Current' = <<b, n>>
          /\ refs' = [[refs EXCEPT ![b] = @ + 1] EXCEPT ![Current[1]] = @ - 1]
    BY <1>5, StoreWrites
  <2>3. refs'[a] = refs[a] + (IF b = a THEN 1 ELSE 0) - (IF Current[1] = a THEN 1 ELSE 0)
    BY <1>0, <2>2
  <2> QED
    BY <1>0, <1>1, <1>2, <1>3, <2>1, <2>2, <2>3
<1>6. CASE CacheNew(t)
  <2>1. PICK c \in Caches :
          /\ cache[c] = NoCache
          /\ cache' = [cache EXCEPT ![c] = [val |-> Current, owner |-> t]]
          /\ refs' = [refs EXCEPT ![Current[1]] = @ + 1]
          /\ written' = written /\ guard' = guard
    BY <1>6 DEF CacheNew, Inc
  <2>2. cache'[c] # NoCache /\ cache'[c].val = Current
    BY <1>0, <2>1, ViewsAssumption DEF CacheType, Shape
  <2>3. c \notin CachesOn(a) /\ (c \in CachesOn(a)' <=> Current[1] = a)
    BY <2>1, <2>2 DEF CachesOn
  <2>4. Cardinality(CachesOn(a)') = Cardinality(CachesOn(a)) + (IF Current[1] = a THEN 1 ELSE 0)
    BY <1>0, <2>1, <2>3, OneCache DEF Shape
  <2>5. refs'[a] = refs[a] + (IF Current[1] = a THEN 1 ELSE 0)
    BY <1>0, <2>1
  <2> QED
    BY <1>0, <1>1, <1>3, <1>4, <2>1, <2>4, <2>5
<1>7. CASE CacheClone(t)
  <2>1. PICK c \in Caches, d \in Caches :
          /\ cache[c] # NoCache
          /\ cache[d] = NoCache
          /\ cache' = [cache EXCEPT ![d] = cache[c]]
          /\ refs' = [refs EXCEPT ![cache[c].val[1]] = @ + 1]
          /\ written' = written /\ guard' = guard
    BY <1>7 DEF CacheClone, Inc, Owns
  <2>2. cache'[d] = cache[c] /\ cache[c].val[1] \in Addrs
    BY <1>0, <2>1 DEF Shape
  <2>3. d \notin CachesOn(a) /\ (d \in CachesOn(a)' <=> cache[c].val[1] = a)
    BY <2>1, <2>2 DEF CachesOn
  <2>4. Cardinality(CachesOn(a)') = Cardinality(CachesOn(a))
                                    + (IF cache[c].val[1] = a THEN 1 ELSE 0)
    BY <1>0, <2>1, <2>3, OneCache DEF Shape
  <2>5. refs'[a] = refs[a] + (IF cache[c].val[1] = a THEN 1 ELSE 0)
    BY <1>0, <2>1, <2>2
  <2> QED
    BY <1>0, <1>1, <1>3, <1>4, <2>1, <2>4, <2>5
<1>8. CASE CacheDrop(t)
  <2>1. PICK c \in Caches :
          /\ cache[c] # NoCache
          /\ cache' = [cache EXCEPT ![c] = NoCache]
          /\ refs' = [refs EXCEPT ![cache[c].val[1]] = @ - 1]
          /\ written' = written /\ guard' = guard
    BY <1>8 DEF CacheDrop, Owns
  <2>2. cache'[c] = NoCache /\ cache[c].val[1] \in Addrs
    BY <1>0, <2>1 DEF Shape
  <2>3. c \notin CachesOn(a)' /\ (c \in CachesOn(a) <=> cache[c].val[1] = a)
    BY <2>1, <2>2 DEF CachesOn
  <2>4. Cardinality(CachesOn(a)') = Cardinality(CachesOn(a))
                                    - (IF cache[c].val[1] = a THEN 1 ELSE 0)
    BY <1>0, <2>1, <2>3, OneCache DEF Shape
  <2>5. refs'[a] = refs[a] - (IF cache[c].val[1] = a THEN 1 ELSE 0)
    BY <1>0, <2>1, <2>2
  <2> QED
    BY <1>0, <1>1, <1>3, <1>4, <2>1, <2>4, <2>5
<1>9. CASE CacheSend(t)
  <2>1. PICK c \in Caches, u \in Threads : Owns(t, c) /\ cache' = [cache EXCEPT ![c].owner = u]
    BY <1>9 DEF CacheSend
  <2>2. cache[c] \in CacheType
    BY <2>1 DEF Shape, Owns
  <2>3. cache'[c] \in CacheType /\ cache'[c].val = cache[c].val
    BY <2>1, <2>2 DEF Shape, CacheType
  <2>4. \A d \in Caches : cache'[d] # NoCache <=> cache[d] # NoCache
    BY <2>1, <2>2, <2>3, ViewsAssumption DEF Shape
  <2>5. \A d \in Caches : cache[d] # NoCache => cache'[d].val = cache[d].val
    BY <2>1, <2>3 DEF Shape
  <2>6. CachesOn(a)' = CachesOn(a)
    BY <2>4, <2>5 DEF CachesOn
  <2>7. refs' = refs /\ written' = written /\ guard' = guard
    BY <1>9 DEF CacheSend
  <2> QED
    BY <1>1, <1>3, <1>4, <2>6, <2>7
<1>10. CASE CacheLoad(t) \/ Revalidate(t) \/ CacheUsed(t)
  BY <1>1, <1>2, <1>3, <1>4, <1>10 DEF CacheLoad, Revalidate, CacheUsed
<1>11. CASE Reload(t)
  <2> DEFINE c == loc[t].c
  <2>1. c \in Caches /\ cache[c] # NoCache /\ cache[c] \in CacheType
    BY <1>11 DEF Reload, Loading, Owns, Shape
  <2>2. /\ cache' = [cache EXCEPT ![c].val = Current]
        /\ refs' = [[refs EXCEPT ![Current[1]] = @ + 1] EXCEPT ![cache[c].val[1]] = @ - 1]
        /\ written' = written /\ guard' = guard
    BY <1>11 DEF Reload, Inc
  <2> HIDE DEF c
  <2>3. cache'[c] \in CacheType /\ cache'[c].val = Current
    BY <1>0, <2>1, <2>2 DEF Shape, CacheType
  <2>4. /\ c \in CachesOn(a) <=> cache[c].val[1] = a
        /\ c \in CachesOn(a)' <=> Current[1] = a
    BY <2>1, <2>3, ViewsAssumption DEF CachesOn
  <2>5. Cardinality(CachesOn(a)') = Cardinality(CachesOn(a))
                                    - (IF cache[c].val[1] = a THEN 1 ELSE 0)
                                    + (IF Current[1] = a THEN 1 ELSE 0)
    BY <1>0, <2>1, <2>2, <2>4, OneCache DEF Shape
  <2>6. refs'[a] = refs[a] + (IF Current[1] = a THEN 1 ELSE 0)
                           - (IF cache[c].val[1] = a THEN 1 ELSE 0)
    BY <1>0, <2>1, <2>2
  <2> QED
    BY <1>0, <1>1, <1>3, <1>4, <2>2, <2>5, <2>6
<1>12. CASE AccessLoad(t)
  <2>1. PICK x \in Accesses :
          LET v == IF x.source = "constant" THEN ConstData ELSE Current
          IN  /\ guard[t] = NoGuard
              /\ guard' = [guard EXCEPT ![t] = [source |-> x.source, val |-> v, of |-> x,
                                                layers |-> LayersOf(x), from |-> known[t]]]
              /\ refs' = IF x.source = "constant" THEN refs ELSE Inc(v)
              /\ cache' = cache /\ written' = written
    BY <1>12 DEF AccessLoad
  <2>2. guard'[t] # NoGuard
    <3>1. guard'[t] \in GuardType
      BY <1>0, <2>1, ViewsAssumption DEF Shape, GuardType
    <3> QED
      BY <3>1, ViewsAssumption
  <2>3. guard'[t].source = x.source /\ (x.source # "constant" => guard'[t].val = Current)
    BY <2>1 DEF Shape
  <2>4. t \notin GuardsOn(a) /\ (t \in GuardsOn(a)' <=> x.source # "constant" /\ Current[1] = a)
    BY <2>1, <2>2, <2>3 DEF GuardsOn, Counts
  <2>5. Cardinality(GuardsOn(a)') =
            Cardinality(GuardsOn(a)) + (IF x.source # "constant" /\ Current[1] = a THEN 1 ELSE 0)
    BY <1>0, <2>1, <2>4, OneGuard DEF Shape
  <2>6. refs'[a] = refs[a] + (IF x.source # "constant" /\ Current[1] = a THEN 1 ELSE 0)
    BY <1>0, <2>1 DEF Inc
  <2> QED
    BY <1>0, <1>1, <1>2, <1>4, <2>1, <2>5, <2>6
<1>13. CASE GuardDrop(t)
  <2>1. /\ guard[t] # NoGuard
        /\ refs' = IF guard[t].source = "constant" THEN refs
                   ELSE [refs EXCEPT ![guard[t].val[1]] = @ - 1]
        /\ guard' = [guard EXCEPT ![t] = NoGuard]
        /\ cache' = cache /\ written' = written
    BY <1>13 DEF GuardDrop
  <2>2. t \notin GuardsOn(a)' /\ (t \in GuardsOn(a) <=> Counts(t) /\ guard[t].val[1] = a)
    BY <2>1 DEF GuardsOn, Counts, Shape
  <2>3. Cardinality(GuardsOn(a)') =
            Cardinality(GuardsOn(a)) - (IF Counts(t) /\ guard[t].val[1] = a THEN 1 ELSE 0)
    BY <1>0, <2>1, <2>2, OneGuard DEF Shape
  <2>4. refs'[a] = refs[a] - (IF Counts(t) /\ guard[t].val[1] = a THEN 1 ELSE 0)
    BY <1>0, <2>1 DEF Counts, Present
  <2> QED
    BY <1>0, <1>1, <1>2, <1>4, <2>1, <2>3, <2>4
<1> QED
  BY <1>5, <1>6, <1>7, <1>8, <1>9, <1>10, <1>11, <1>12, <1>13 DEF Acts

-----------------------------------------------------------------------------
(* Which Arc.                                                                *)

\* An address gets another Arc only when nobody has a reference to the one there.
LEMMA MadeStep ==
    ASSUME ViewsInv, NEW t \in Threads, Acts(t)
    PROVE  /\ \A a \in Addrs : made[a] <= made'[a] /\ (refs[a] > 0 => made'[a] = made[a])
           /\ \A v \in Values : Lives(v) /\ refs[v[1]] > 0 => Lives(v)'
<1>1. \A a \in Addrs : made[a] \in Nat /\ refs[a] \in Int
  BY DEF ViewsInv, Shape
<1>2. \A a \in Addrs : made[a] <= made'[a] /\ (refs[a] > 0 => made'[a] = made[a])
  <2>1. CASE Store(t)
    <3>1. PICK b \in Addrs, n \in Nat : /\ made' = [made EXCEPT ![b] = n]
                                        /\ \/ refs[b] = 0 /\ n = made[b] + 1
                                           \/ refs[b] # 0 /\ n = made[b]
      BY <2>1, StoreWrites
    <3>2. \A a \in Addrs : made'[a] = IF a = b THEN n ELSE made[a]
      BY <3>1 DEF ViewsInv, Shape
    <3> QED
      BY <1>1, <3>1, <3>2
  <2>2. CASE made' = made
    BY <1>1, <2>2
  <2> QED
    BY <2>1, <2>2 DEF Acts, CacheNew, CacheClone, CacheDrop, CacheSend, CacheLoad, Revalidate,
                      Reload, CacheUsed, AccessLoad, GuardDrop
<1> QED
  BY <1>2 DEF Lives, Values

\* A store puts in the Arc that lives at its address, loads and clones take one
\* that somebody has, and nobody's goes away.
LEMMA PresentStep ==
    ASSUME ViewsInv, NEW t \in Threads, Acts(t)
    PROVE  Present'
<1> USE DEF ViewsInv
<1> DEFINE LivesOn(v) == made'[v[1]] = v[2]
<1>1. /\ Current \in Values /\ LivesOn(Current)
      /\ \A c \in Caches : cache[c] # NoCache => cache[c].val \in Values /\ LivesOn(cache[c].val)
      /\ \A u \in Threads : Counts(u) => guard[u].val \in Values /\ LivesOn(guard[u].val)
  <2>1. \A c \in Caches : cache[c] # NoCache => cache[c].val \in Values
    BY DEF Shape, CacheType
  <2>2. \A v \in Values : Lives(v) /\ refs[v[1]] > 0 => LivesOn(v)
    BY MadeStep DEF Lives
  <2>3. Current \in Values
    BY CurrentValue
  <2> HIDE DEF LivesOn
  <2> QED
    BY <2>1, <2>2, <2>3, CountsPositive DEF Present
<1>2. LivesOn(Current')
  <2>1. CASE Store(t)
    <3>1. PICK a \in Addrs, n \in Nat : Current' = <<a, n>> /\ made' = [made EXCEPT ![a] = n]
      BY <2>1, StoreWrites
    <3>2. made'[a] = n
      BY <3>1 DEF Shape
    <3> QED
      BY <3>1, <3>2
  <2>2. CASE written' = written
    BY <1>1, <2>2 DEF Current
  <2> QED
    BY <2>1, <2>2 DEF Acts, CacheNew, CacheClone, CacheDrop, CacheSend, CacheLoad, Revalidate,
                      Reload, CacheUsed, AccessLoad, GuardDrop
<1> HIDE DEF LivesOn
<1>3. \A c \in Caches : cache'[c] # NoCache => LivesOn(cache'[c].val)
  <2>1. CASE CacheNew(t)
    <3>1. PICK c \in Caches : cache' = [cache EXCEPT ![c] = [val |-> Current, owner |-> t]]
      BY <2>1 DEF CacheNew
    <3>2. cache'[c].val = Current /\ \A d \in Caches : d # c => cache'[d] = cache[d]
      BY <3>1 DEF Shape
    <3> QED
      BY <1>1, <3>2
  <2>2. CASE CacheClone(t) \/ CacheDrop(t)
    BY <1>1, <2>2 DEF CacheClone, CacheDrop, Owns, Shape
  <2>3. CASE CacheSend(t)
    <3>1. PICK c \in Caches, u \in Threads : Owns(t, c) /\ cache' = [cache EXCEPT ![c].owner = u]
      BY <2>3 DEF CacheSend
    <3>2. cache'[c].val = cache[c].val /\ cache[c] # NoCache
      BY <3>1 DEF Shape, CacheType, Owns
    <3>3. \A d \in Caches : d # c => cache'[d] = cache[d]
      BY <3>1 DEF Shape
    <3> QED
      BY <1>1, <3>2, <3>3
  <2>4. CASE Reload(t)
    <3>1. loc[t].c \in Caches /\ cache[loc[t].c] \in CacheType
      BY <2>4 DEF Shape, Owns, Loading, Reload
    <3>2. cache'[loc[t].c].val = Current /\ \A d \in Caches : d # loc[t].c => cache'[d] = cache[d]
      BY <2>4, <3>1 DEF Reload, Shape, CacheType
    <3> QED
      BY <1>1, <3>1, <3>2
  <2>5. CASE cache' = cache
    BY <1>1, <2>5
  <2> QED
    BY <2>1, <2>2, <2>3, <2>4, <2>5
       DEF Acts, Store, CacheLoad, Revalidate, CacheUsed, AccessLoad, GuardDrop
<1>4. \A u \in Threads : Counts(u)' => guard'[u].val \in Values /\ LivesOn(guard'[u].val)
  <2>1. CASE AccessLoad(t)
    <3>1. PICK x \in Accesses :
            guard' = [guard EXCEPT ![t] =
                        [source |-> x.source,
                         val |-> IF x.source = "constant" THEN ConstData ELSE Current,
                         of |-> x, layers |-> LayersOf(x), from |-> known[t]]]
      BY <2>1 DEF AccessLoad
    <3>2. Counts(t)' => guard'[t].val = Current
      BY <3>1 DEF Shape, Counts
    <3>3. \A u \in Threads : u # t => guard'[u] = guard[u]
      BY <3>1 DEF Shape
    <3> QED
      BY <1>1, <3>2, <3>3 DEF Counts
  <2>2. CASE guard' = guard \/ guard' = [guard EXCEPT ![t] = NoGuard]
    BY <1>1, <2>2 DEF Counts, Shape
  <2> QED
    BY <2>1, <2>2 DEF Acts, Store, CacheNew, CacheClone, CacheDrop, CacheSend, CacheLoad,
                      Revalidate, Reload, CacheUsed, GuardDrop
<1> QED
  BY <1>2, <1>3, <1>4 DEF Present, Lives, LivesOn

\* A store adds the newest Arc of its address at the end.
LEMMA OrderedStep ==
    ASSUME ViewsInv, NEW t \in Threads, Acts(t)
    PROVE  Ordered'
<1>1. CASE Store(t)
  <2>1. PICK a \in Addrs, n \in Nat :
          /\ Len(written') = Len(written) + 1
          /\ \A k \in 1 .. Len(written) : written'[k] = written[k]
          /\ written'[Len(written) + 1] = <<a, n>>
          /\ made' = [made EXCEPT ![a] = n]
    BY <1>1, StoreWrites
  <2>2. Len(written) \in Nat /\ \A k \in 1 .. Len(written) : written[k] \in Values
    BY DEF ViewsInv, Shape
  <2>3. made'[a] = n
    BY <2>1 DEF ViewsInv, Shape
  <2>4. \A k \in 1 .. Len(written) : /\ written[k][1] \in Addrs /\ written[k][2] \in Nat
                                     /\ written[k][2] <= made[written[k][1]]
                                     /\ written[k][2] <= made'[written[k][1]]
    <3>1. \A b \in Addrs : made[b] \in Nat /\ made'[b] \in Nat /\ made[b] <= made'[b]
      BY MadeStep, ShapeStep DEF ViewsInv, Shape
    <3> QED
      BY <2>2, <3>1 DEF ViewsInv, Ordered, Values
  <2>5. \A k \in 1 .. Len(written') : k \in 1 .. Len(written) \/ k = Len(written) + 1
    BY <2>1, <2>2
  <2>6. \A k \in 1 .. Len(written') : written'[k][2] <= made'[written'[k][1]]
    BY <2>1, <2>3, <2>4, <2>5
  <2>7. ASSUME NEW j \in 1 .. Len(written'), NEW k \in 1 .. Len(written'),
               j <= k, written'[j][1] = written'[k][1]
        PROVE  written'[j][2] <= written'[k][2]
    <3>1. CASE k \in 1 .. Len(written)
      <4>1. j \in 1 .. Len(written)
        BY <2>2, <2>7, <3>1
      <4> QED
        BY <2>1, <2>7, <3>1, <4>1 DEF ViewsInv, Ordered
    <3>2. CASE k = Len(written) + 1
      BY <2>1, <2>3, <2>6, <2>7, <3>2
    <3> QED
      BY <2>5, <3>1, <3>2
  <2> QED
    BY <2>6, <2>7 DEF Ordered
<1>2. CASE written' = written /\ made' = made
  BY <1>2 DEF ViewsInv, Ordered
<1> QED
  BY <1>1, <1>2 DEF Acts, CacheNew, CacheClone, CacheDrop, CacheSend, CacheLoad, Revalidate,
                    Reload, CacheUsed, AccessLoad, GuardDrop

\* The writes there are stay where they are.
LEMMA WritesStay ==
    ASSUME ViewsInv, NEW t \in Threads, Acts(t)
    PROVE  /\ Len(written) \in Nat /\ Len(written') \in Nat /\ Len(written) <= Len(written')
           /\ \A k \in 1 .. Len(written) : k \in 1 .. Len(written') /\ written'[k] = written[k]
<1>1. Len(written) \in Nat /\ Len(written') \in Nat /\ Len(written) <= Len(written')
  BY KnownGrows, CurrentValue DEF ViewsInv
<1>2. CASE Store(t)
  BY <1>1, <1>2, StoreWrites
<1>3. CASE written' = written
  BY <1>1, <1>3
<1> QED
  BY <1>1, <1>2, <1>3 DEF Acts, CacheNew, CacheClone, CacheDrop, CacheSend, CacheLoad, Revalidate,
                          Reload, CacheUsed, AccessLoad, GuardDrop

\* A cache gets its Arc from a write that its thread then knows of, and who gets
\* the cache gets that knowledge.
LEMMA WitnessedStep ==
    ASSUME ViewsInv, NEW t \in Threads, Acts(t)
    PROVE  Witnessed'
<1> USE DEF ViewsInv
<1> DEFINE W(v, u) == \E k \in 1 .. Len(written') : k <= known'[u] /\ written'[k] = v
<1>1. \A c \in Caches : cache[c] # NoCache => cache[c].owner \in Threads
  BY DEF Shape, CacheType
<1>2. ASSUME NEW c \in Caches, cache[c] # NoCache
      PROVE  W(cache[c].val, cache[c].owner)
  <2>1. PICK k \in 1 .. Len(written) : k <= known[cache[c].owner] /\ written[k] = cache[c].val
    BY <1>2 DEF Witnessed
  <2>2. k \in 1 .. Len(written') /\ written'[k] = written[k]
    BY WritesStay
  <2>3. \A u \in Threads : known[u] \in Nat /\ known'[u] \in Nat /\ known[u] <= known'[u]
    BY KnownGrows DEF Shape
  <2>4. k <= known'[cache[c].owner]
    BY <1>1, <1>2, <2>1, <2>3
  <2> QED
    BY <2>1, <2>2, <2>4
<1>3. CASE CacheNew(t) \/ Reload(t)
  <2>1. PICK c \in Caches :
          /\ cache'[c].val = Current /\ cache'[c].owner = t
          /\ \A d \in Caches : d # c => cache'[d] = cache[d]
    <3>1. CASE CacheNew(t)
      BY <3>1 DEF CacheNew, Shape
    <3>2. CASE Reload(t)
      <4>1. loc[t].c \in Caches /\ cache[loc[t].c] \in CacheType /\ cache[loc[t].c].owner = t
        BY <3>2 DEF Shape, Owns, Loading, Reload
      <4>2. cache' = [cache EXCEPT ![loc[t].c].val = Current]
        BY <3>2 DEF Reload
      <4>3. cache'[loc[t].c].val = Current /\ cache'[loc[t].c].owner = t
        BY <4>1, <4>2 DEF Shape, CacheType
      <4>4. \A d \in Caches : d # loc[t].c => cache'[d] = cache[d]
        BY <4>1, <4>2 DEF Shape
      <4> QED
        BY <4>1, <4>3, <4>4
    <3> QED
      BY <1>3, <3>1, <3>2
  <2>2. known'[t] = Len(written) /\ written' = written
    BY <1>3 DEF CacheNew, Reload, Knows, Shape
  <2>3. W(Current, t)
    BY <2>2, CurrentValue DEF Current
  <2> HIDE DEF W
  <2>4. \A d \in Caches : cache'[d] # NoCache => W(cache'[d].val, cache'[d].owner)
    BY <1>2, <2>1, <2>3
  <2> QED
    BY <2>4 DEF W, Witnessed
<1>4. CASE CacheSend(t)
  <2>1. PICK c \in Caches, u \in Threads :
          /\ Owns(t, c)
          /\ cache' = [cache EXCEPT ![c].owner = u]
          /\ known' = [known EXCEPT ![u] = IF known[t] > @ THEN known[t] ELSE @]
          /\ written' = written
    BY <1>4 DEF CacheSend
  <2>2. cache[c] # NoCache /\ cache[c].owner = t
    BY <2>1 DEF Owns
  <2>3. cache'[c].val = cache[c].val /\ cache'[c].owner = u
    BY <2>1, <2>2 DEF Shape, CacheType
  <2>4. \A d \in Caches : d # c => cache'[d] = cache[d]
    BY <2>1 DEF Shape
  <2>5. known[t] <= known'[u] /\ known[t] \in Nat /\ known'[u] \in Nat
    BY <2>1 DEF Shape
  <2>6. W(cache[c].val, u)
    <3>1. PICK k \in 1 .. Len(written) : k <= known[t] /\ written[k] = cache[c].val
      BY <2>2 DEF Witnessed
    <3>2. k <= known'[u]
      BY <2>5, <3>1
    <3> QED
      BY <2>1, <3>1, <3>2
  <2> HIDE DEF W
  <2>7. \A d \in Caches : cache'[d] # NoCache => W(cache'[d].val, cache'[d].owner)
    BY <1>2, <2>3, <2>4, <2>6
  <2> QED
    BY <2>7 DEF W, Witnessed
<1>5. CASE CacheClone(t) \/ CacheDrop(t) \/ cache' = cache
  <2>1. \A c \in Caches :
            cache'[c] # NoCache => \E d \in Caches : cache'[c] = cache[d] /\ cache[d] # NoCache
    BY <1>5 DEF CacheClone, CacheDrop, Owns, Shape
  <2> HIDE DEF W
  <2>2. \A c \in Caches : cache'[c] # NoCache => W(cache'[c].val, cache'[c].owner)
    BY <1>2, <2>1
  <2> QED
    BY <2>2 DEF W, Witnessed
<1> QED
  BY <1>3, <1>4, <1>5 DEF Acts, Store, CacheLoad, Revalidate, CacheUsed, AccessLoad, GuardDrop

\* The cache keeps its Arc alive, so that a write of the same address after it is
\* a write of the same Arc: the look at the address tells the two apart.
LEMMA SameAddressSameArc ==
    ASSUME ViewsInv, NEW c \in Caches, cache[c] # NoCache, cache[c].owner \in Threads,
           NEW k \in known[cache[c].owner] .. Len(written), written[k][1] = cache[c].val[1]
    PROVE  written[k] = cache[c].val
<1> USE DEF ViewsInv
<1>1. PICK j \in 1 .. Len(written) : j <= known[cache[c].owner] /\ written[j] = cache[c].val
  BY DEF Witnessed
<1>2. /\ Len(written) \in Nat
      /\ known[cache[c].owner] \in 1 .. Len(written)
      /\ \A i \in 1 .. Len(written) : written[i] \in Values
  BY DEF Shape
<1>3. k \in 1 .. Len(written) /\ j <= k
  BY <1>1, <1>2
<1>4. written[j][2] <= written[k][2] /\ written[k][2] <= made[written[k][1]]
  BY <1>1, <1>3 DEF Ordered
<1>5. made[written[j][1]] = written[j][2]
  BY <1>1 DEF Present, Lives
<1>6. written[j] \in Values /\ written[k] \in Values /\ made[written[k][1]] \in Nat
  BY <1>2, <1>3 DEF Shape, Values
<1> QED
  BY <1>1, <1>4, <1>5, <1>6 DEF Values

\* Nobody touches the cache of another thread.
LEMMA OthersCaches ==
    ASSUME ViewsInv, NEW t \in Threads, Acts(t), NEW u \in Threads, u # t
    PROVE  /\ at'[u] = at[u] /\ loc'[u] = loc[u]
           /\ \A c \in Caches : Owns(u, c) => cache'[c] = cache[c]
<1> USE DEF ViewsInv
<1>1. at'[u] = at[u] /\ loc'[u] = loc[u]
  BY DEF Shape, Acts, Store, CacheNew, CacheClone, CacheDrop, CacheSend, CacheLoad, Revalidate,
         Reload, CacheUsed, AccessLoad, GuardDrop
<1>2. ASSUME NEW c \in Caches, Owns(u, c)
      PROVE  cache'[c] = cache[c]
  <2>1. CASE CacheNew(t) \/ CacheClone(t) \/ CacheDrop(t) \/ CacheSend(t)
    BY <1>2, <2>1 DEF CacheNew, CacheClone, CacheDrop, CacheSend, Owns, Shape
  <2>2. CASE Reload(t)
    <3>1. Owns(t, loc[t].c) /\ cache' = [cache EXCEPT ![loc[t].c].val = Current]
      BY <2>2 DEF Reload, Loading
    <3>2. c # loc[t].c
      BY <1>2, <3>1 DEF Owns
    <3> QED
      BY <3>1, <3>2 DEF Shape
  <2> QED
    BY <2>1, <2>2 DEF Acts, Store, CacheLoad, Revalidate, CacheUsed, AccessLoad, GuardDrop
<1> QED
  BY <1>1, <1>2

\* What a load borrows: the Arc it found unchanged, or the one it reloaded.
LEMMA LoadingStep ==
    ASSUME ViewsInv, NEW t \in Threads, Acts(t)
    PROVE  Loading'
<1> USE DEF ViewsInv
<1> DEFINE L(u) == /\ at'[u] # "idle" => /\ loc'[u].c \in Caches
                                         /\ Owns(u, loc[u].c)'
                                         /\ loc'[u].from \in 1 .. known'[u]
                   /\ at'[u] = "borrowed" => \E k \in loc'[u].from .. Len(written') :
                                                 written'[k] = cache'[loc'[u].c].val
<1>1. ASSUME NEW u \in Threads, u # t
      PROVE  L(u)
  <2>1. at'[u] = at[u] /\ loc'[u] = loc[u]
    BY <1>1, OthersCaches
  <2>2. CASE at[u] = "idle"
    BY <2>1, <2>2
  <2>3. CASE at[u] # "idle"
    <3>1. loc[u].c \in Caches /\ Owns(u, loc[u].c) /\ loc[u].from \in 1 .. known[u]
      BY <2>3 DEF Loading
    <3>2. cache'[loc[u].c] = cache[loc[u].c]
      BY <1>1, <3>1, OthersCaches
    <3>3. known[u] \in Nat /\ known'[u] \in Nat /\ known[u] <= known'[u]
      BY KnownGrows DEF Shape
    <3>4. loc'[u].from \in 1 .. known'[u]
      BY <2>1, <3>1, <3>3
    <3>5. ASSUME at[u] = "borrowed"
          PROVE  \E k \in loc[u].from .. Len(written') : written'[k] = cache[loc[u].c].val
      <4>1. PICK k \in loc[u].from .. Len(written) : written[k] = cache[loc[u].c].val
        BY <3>5 DEF Loading
      <4>2. k \in 1 .. Len(written)
        BY <3>1, <3>3, <4>1, WritesStay
      <4>3. k \in loc[u].from .. Len(written') /\ written'[k] = written[k]
        BY <4>1, <4>2, WritesStay
      <4> QED
        BY <4>1, <4>3
    <3>6. Owns(u, loc[u].c)'
      BY <2>1, <3>1, <3>2 DEF Owns
    <3> QED
      BY <2>1, <3>1, <3>2, <3>4, <3>5, <3>6
  <2> QED
    BY <2>2, <2>3
<1>2. L(t)
  <2>1. CASE CacheLoad(t)
    <3>1. PICK c \in Caches : /\ Owns(t, c)
                              /\ loc' = [loc EXCEPT ![t] = [c |-> c, from |-> known[t]]]
                              /\ at' = [at EXCEPT ![t] = "check"]
                              /\ cache' = cache /\ known' = known
      BY <2>1 DEF CacheLoad
    <3>2. at'[t] = "check" /\ loc'[t].c = c /\ loc'[t].from = known[t]
      BY <3>1 DEF Shape
    <3>3. known[t] \in 1 .. known'[t]
      BY <3>1 DEF Shape
    <3> QED
      BY <3>1, <3>2, <3>3 DEF Owns
  <2>2. CASE Revalidate(t)
    <3>1. PICK k \in known[t] .. Len(written) :
            /\ at[t] = "check"
            /\ known' = [known EXCEPT ![t] = k]
            /\ at' = [at EXCEPT ![t] = IF written[k][1] = cache[loc[t].c].val[1]
                                       THEN "borrowed" ELSE "reload"]
            /\ written' = written /\ cache' = cache /\ loc' = loc
      BY <2>2 DEF Revalidate, Knows
    <3>2. loc[t].c \in Caches /\ Owns(t, loc[t].c) /\ loc[t].from \in 1 .. known[t]
      BY <3>1 DEF Loading
    <3>3. known'[t] = k /\ known[t] \in Nat /\ Len(written) \in Nat
      BY <3>1 DEF Shape
    <3>4. loc[t].from \in 1 .. known'[t] /\ k \in loc[t].from .. Len(written)
      BY <3>1, <3>2, <3>3
    <3>5. at'[t] = "borrowed" => written[k] = cache[loc[t].c].val
      <4>1. at'[t] = "borrowed" => written[k][1] = cache[loc[t].c].val[1]
        BY <3>1 DEF Shape
      <4> QED
        BY <3>2, <4>1, SameAddressSameArc DEF Owns
    <3> QED
      BY <3>1, <3>2, <3>4, <3>5 DEF Owns
  <2>3. CASE Reload(t)
    <3>1. loc[t].c \in Caches /\ Owns(t, loc[t].c) /\ loc[t].from \in 1 .. known[t]
      BY <2>3 DEF Loading, Reload
    <3>2. cache[loc[t].c] \in CacheType /\ cache[loc[t].c].owner = t
      BY <3>1 DEF Owns, Shape
    <3>3. /\ cache' = [cache EXCEPT ![loc[t].c].val = Current]
          /\ known' = [known EXCEPT ![t] = Len(written)]
          /\ written' = written /\ loc' = loc
      BY <2>3 DEF Reload, Knows
    <3>4. cache'[loc[t].c] \in CacheType /\ cache'[loc[t].c].val = Current
          /\ cache'[loc[t].c].owner = t
      BY <3>1, <3>2, <3>3, CurrentValue DEF Shape, CacheType
    <3>5. known'[t] = Len(written) /\ Len(written) \in Nat /\ known[t] \in 1 .. Len(written)
      BY <3>3 DEF Shape
    <3>6. loc[t].from \in 1 .. known'[t] /\ Len(written) \in loc[t].from .. Len(written)
      BY <3>1, <3>5
    <3>7. Owns(t, loc[t].c)'
      BY <3>3, <3>4, ViewsAssumption DEF Owns
    <3> QED
      BY <3>1, <3>3, <3>4, <3>6, <3>7 DEF Current
  <2>4. CASE CacheUsed(t) \/ (at' = at /\ at[t] = "idle")
    BY <2>4 DEF CacheUsed, Shape
  <2> QED
    BY <2>1, <2>2, <2>3, <2>4
       DEF Acts, Store, CacheNew, CacheClone, CacheDrop, CacheSend, AccessLoad, GuardDrop
<1>3. \A u \in Threads : L(u)
  BY <1>1, <1>2
<1> QED
  BY <1>3 DEF Loading

-----------------------------------------------------------------------------
\* The invariant is inductive.
LEMMA NextViews == ViewsInv /\ [Next]_vars => ViewsInv'
<1> SUFFICES ASSUME ViewsInv, [Next]_vars PROVE ViewsInv'
  OBVIOUS
<1>1. CASE UNCHANGED vars
  <2> USE <1>1 DEF vars, ViewsInv
  <2>1. Shape' /\ Ordered' /\ Witnessed'
    BY DEF Shape, Ordered, Witnessed
  <2>2. Counted'
    BY DEF Counted, CachesOn, GuardsOn, Counts, Current
  <2>3. Present' /\ Loading'
    BY DEF Present, Lives, Counts, Current, Loading, Owns
  <2> QED
    BY <2>1, <2>2, <2>3
<1>2. ASSUME NEW t \in Threads, Acts(t) PROVE ViewsInv'
  BY <1>2, ShapeStep, CountedStep, PresentStep, OrderedStep, WitnessedStep, LoadingStep
     DEF ViewsInv
<1> QED
  BY <1>1, <1>2 DEF Next, Acts

\* What a cache or a guard refers to is alive and is the Arc it was made for, in
\* every reachable state and however addresses are used again: every
\* reference is counted, and an address is free only when nothing counts on it.
THEOREM ReferencesStayLive == Spec => []ReferencesLive
<1>1. ViewsInv => ReferencesLive
  BY CountsPositive DEF ViewsInv, Present, Lives, Counts, ReferencesLive
<1> QED
  BY <1>1, InitViews, NextViews, PTL DEF Spec

\* Cache::load never returns an Arc older than what the thread knew of when it
\* called, although revalidate compares addresses and reads the pointer relaxed.
THEOREM CachesAreFresh == Spec => []CacheFresh
<1>1. ViewsInv => CacheFresh
  <2> SUFFICES ASSUME ViewsInv, NEW t \in Threads, at[t] = "borrowed", NEW ref \in CacheRefs(t)
               PROVE  ref.to \in Since(loc[t].from)
    BY DEF CacheFresh
  <2> DEFINE arc == Borrow("pointer", cache[loc[t].c].val)
  <2>1. ref.to = cache[loc[t].c].val
    <3>1. arc.to = cache[loc[t].c].val
      BY DEF Borrow
    <3>2. \A layer : DerefLayer(arc, layer).to = arc.to
      BY DEF DerefLayer, Borrow
    <3>3. ref = arc \/ \E layer \in {"data"} \cup Fields : ref = DerefLayer(arc, layer)
      BY DEF CacheRefs
    <3> QED
      BY <3>1, <3>2, <3>3
  <2>2. \E k \in loc[t].from .. Len(written) : written[k] = cache[loc[t].c].val
    BY DEF ViewsInv, Loading
  <2> QED
    BY <2>1, <2>2 DEF Since
<1> QED
  BY <1>1, InitViews, NextViews, PTL DEF Spec
=============================================================================
