----------------------------- MODULE MCArcSwap ------------------------------
(* Instances of ArcSwap for TLC.                                             *)
EXTENDS ArcSwapCell, TLC

CONSTANTS r, w, v

AddrSymmetry == Permutations(Addrs)

\* Every thread has a node already, or nobody has.
AllWarm == IF v \in Threads THEN <<r, w, v>> ELSE <<r, w>>
AllCold == <<>>

\* Each instance starts with an Arc of its own; which one is all the same.
DistinctArcs ==
    CHOOSE f \in [Storages -> Addrs] : \A s, z \in Storages : f[s] = f[z] => s = z

FromZero == [t \in Threads |-> 0]
\* The second slow load of r is the one that overflows its generation counter.
BeforeWrap == [t \in Threads |-> IF t = r THEN GenLimit - 8 ELSE 0]

\* A reader against a writer.
ReadWriteKinds ==
    [t \in Threads |->
        IF t = r THEN {"load", "load_full", "guard_drop", "guard_into_inner", "drop_arc"}
        ELSE {"store", "swap"}]
TwoEach == [t \in Threads |-> 2]

\* Loads against stores.
HelpKinds == [t \in Threads |-> IF t = r THEN {"load", "guard_drop"} ELSE {"store"}]
\* A load whose guard is kept.
HelpedLoad == [t \in Threads |-> IF t = r THEN {"load"} ELSE {"store"}]
TwoLoadsOneStore == [t \in Threads |-> IF t = r THEN 2 ELSE 1]

\* rcu and compare and swap against each other and store.
UpdateKinds ==
    [t \in Threads |-> IF t = r THEN {"rcu", "guard_drop", "guard_from_inner"}
                       ELSE {"rcu", "cas", "store"}]

\* Readers come and go; a writer in the middle of helping one of them.
ExitKinds == [t \in Threads |-> IF t = w THEN {"store"} ELSE {"load", "guard_drop", "exit"}]
OneEach == [t \in Threads |-> 1]

\* Instances that are created and destroyed next to loads from them.
DestroyKinds ==
    [t \in Threads |->
        IF t = r THEN {"load", "guard_drop"}
        ELSE {"store", "drop", "into_inner", "new"}]

\* Enough stores for an address to come back in another instance.
OneLoadThreeStores == [t \in Threads |-> IF t = r THEN 1 ELSE 3]
=============================================================================
