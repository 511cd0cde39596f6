--------------------------- MODULE DebtListProofs ---------------------------
(***************************************************************************)
(* Proofs about the list of debt nodes, for any number of threads, nodes   *)
(* and cooldowns.                                                          *)
(***************************************************************************)
EXTENDS DebtList, Counting

\* There are finitely many threads, in a form that does not name IsFiniteSet.
LEMMA ThreadsEnumerated ==
    \E seq \in Seq(Threads) : \A t \in Threads : \E n \in 1 .. Len(seq) : seq[n] = t
BY ThreadsAssumption DEF IsFiniteSet

\* ListTypeOK but for the sign of active_writers, which WritersCounted gives.
Shape ==
    /\ LIST_HEAD \in Nodes \cup {NoNode}
    /\ next \in [Nodes -> Nodes \cup {NoNode}]
    /\ in_use \in [Nodes -> InUse]
    /\ active_writers \in [Nodes -> Int]
    /\ node \in [Threads -> Nodes \cup {NoNode}]
    /\ lpc \in [Threads -> ListLabels]
    /\ cursor \in [Threads -> Nodes \cup {NoNode}]
    /\ boxed \in [Threads -> Nodes \cup {NoNode}]
    /\ cooldowns \in Nat
    /\ stale \in [Nodes -> SUBSET Threads]

\* What a thread has at hand at each point of the code.
Locals ==
    \A t \in Threads :
        /\ lpc[t] \in {"cool_load", "cool_writers", "cool_cas", "claim"} =>
              cursor[t] \in Nodes /\ node[t] = NoNode /\ LIST_HEAD \in Nodes
        /\ node[t] \in Nodes => LIST_HEAD \in Nodes
        /\ lpc[t] = "alloc" => node[t] = NoNode
        /\ lpc[t] = "push" => boxed[t] \in Nodes /\ node[t] = NoNode
        /\ lpc[t] # "push" => boxed[t] = NoNode
        /\ lpc[t] \in {"reserve", "visit"} => cursor[t] \in Nodes
        /\ lpc[t] \in {"cd_swap", "cd_release"} => node[t] \in Nodes

\* The inductive invariant behind exclusive ownership.
ListInv == Shape /\ Locals /\ ExclusiveOwnership

\* The null pointer is not a node.
LEMMA NodesFacts == NoNode \notin Nodes
BY BoundsAssumption DEF Nodes, NoNode

\* The list as the first owners have left it satisfies the invariant.
LEMMA InitInv == ListInit => ListInv
<1> SUFFICES ASSUME ListInit PROVE ListInv
  OBVIOUS
<1> DEFINE linked == 1 .. Len(InitOwners)
<1>1. /\ linked \subseteq Nodes
      /\ Len(InitOwners) \in Nat
      /\ Len(InitOwners) \in Nodes \cup {NoNode}
  BY InitOwnersAssumption, BoundsAssumption DEF Nodes, NoNode
<1>2. \A t \in Threads :
          \/ node[t] = NoNode
          \/ node[t] \in linked /\ InitOwners[node[t]] = t
  BY DEF ListInit
<1>3. Shape
  <2>1. next \in [Nodes -> Nodes \cup {NoNode}]
    <3>1. \A n \in linked : n - 1 \in Nodes \cup {NoNode}
      BY <1>1, BoundsAssumption DEF Nodes, NoNode
    <3> QED
      BY <3>1 DEF ListInit
  <2>2. node \in [Threads -> Nodes \cup {NoNode}]
    BY <1>1, <1>2 DEF ListInit
  <2> QED
    BY <1>1, <2>1, <2>2 DEF Shape, ListInit, InUse, ListLabels
<1>4. Locals
  BY <1>1, <1>2, NodesFacts DEF Locals, ListInit, NoNode
<1>5. ExclusiveOwnership
  <2>1. \A t \in Threads : Owned(t) = node[t] /\ boxed[t] = NoNode
    BY DEF Owned, ListInit
  <2>2. \A n \in linked : in_use[n] = "NODE_USED"
    BY <1>1 DEF ListInit
  <2> QED
    BY <1>2, <2>1, <2>2 DEF ExclusiveOwnership
<1> QED
  BY <1>3, <1>4, <1>5 DEF ListInv

-----------------------------------------------------------------------------
(* One lemma per action; those that only look at the list are together.     *)

\* Steps that change neither the chain nor who owns what: the reads of Node::get,
\* the walk of a writer and the reservation that begins start_cooldown.
LEMMA LookStep ==
    ASSUME ListInv, NEW t \in Threads,
           \/ GetStart(t) \/ CheckCooldownLoad(t) \/ CheckCooldownWriters(t)
           \/ TraverseStart(t) \/ ReserveWriter(t) \/ ReleaseWriter(t) \/ ThreadExit(t)
    PROVE  ListInv'
<1> USE NodesFacts DEF ListInv
<1>0. /\ UNCHANGED <<LIST_HEAD, next, in_use, node, boxed>>
      /\ lpc' \in [Threads -> ListLabels]
      /\ \A u \in Threads \ {t} : lpc'[u] = lpc[u] /\ cursor'[u] = cursor[u]
      /\ lpc[t] \notin {"push", "cd_release"} /\ lpc'[t] \notin {"push", "cd_release"}
  BY DEF Shape, ListLabels, GetStart, GetVisit, CheckCooldownLoad, CheckCooldownWriters,
         TraverseStart, ReserveWriter, ReleaseWriter, ThreadExit, CooldownReserve, Enter
<1>1. Shape'
  <2> USE DEF Shape, Locals, ListLabels, Enter
  <2>1. CASE GetStart(t)
    BY <2>1 DEF GetStart, GetVisit
  <2>2. CASE CheckCooldownLoad(t)
    BY <2>2 DEF CheckCooldownLoad
  <2>3. CASE CheckCooldownWriters(t)
    BY <2>3 DEF CheckCooldownWriters
  <2>4. CASE TraverseStart(t)
    BY <2>4 DEF TraverseStart
  <2>5. CASE ReserveWriter(t)
    <3>0. cursor[t] \in Nodes
      BY <2>5 DEF ReserveWriter
    <3>1. active_writers' \in [Nodes -> Int]
      BY <2>5, <3>0 DEF ReserveWriter
    <3> QED
      BY <2>5, <3>1, <1>0 DEF ReserveWriter
  <2>6. CASE ReleaseWriter(t)
    <3>1. cursor[t] \in Nodes
      BY <2>6 DEF ReleaseWriter
    <3>2. stale' \in [Nodes -> SUBSET Threads]
      BY <2>6, <3>1 DEF ReleaseWriter
    <3>3. active_writers' \in [Nodes -> Int]
      BY <2>6, <3>1 DEF ReleaseWriter
    <3>4. cursor' \in [Threads -> Nodes \cup {NoNode}]
      BY <2>6, <3>1 DEF ReleaseWriter
    <3> QED
      BY <2>6, <3>2, <3>3, <3>4, <1>0 DEF ReleaseWriter
  <2>7. CASE ThreadExit(t)
    <3>0. node[t] \in Nodes
      BY <2>7 DEF ThreadExit, CooldownReserve
    <3>1. active_writers' \in [Nodes -> Int]
      BY <2>7, <3>0 DEF ThreadExit, CooldownReserve
    <3>2. cooldowns' \in Nat
      BY <2>7 DEF ThreadExit, CooldownReserve
    <3> QED
      BY <2>7, <3>1, <3>2, <1>0 DEF ThreadExit, CooldownReserve
  <2> QED
    BY <2>1, <2>2, <2>3, <2>4, <2>5, <2>6, <2>7
<1>2. Locals'
  <2> USE DEF Shape, Locals, Enter
  <2>1. CASE GetStart(t)
    BY <2>1 DEF GetStart, GetVisit
  <2>2. CASE CheckCooldownLoad(t)
    BY <2>2 DEF CheckCooldownLoad
  <2>3. CASE CheckCooldownWriters(t)
    BY <2>3 DEF CheckCooldownWriters
  <2>4. CASE TraverseStart(t)
    BY <2>4 DEF TraverseStart
  <2>5. CASE ReserveWriter(t)
    BY <2>5 DEF ReserveWriter
  <2>6. CASE ReleaseWriter(t)
    BY <2>6 DEF ReleaseWriter
  <2>7. CASE ThreadExit(t)
    BY <2>7 DEF ThreadExit, CooldownReserve
  <2> QED
    BY <2>1, <2>2, <2>3, <2>4, <2>5, <2>6, <2>7
<1>3. ExclusiveOwnership'
  <2>1. \A u \in Threads : Owned(u)' = Owned(u)
    BY <1>0 DEF Owned
  <2> QED
    BY <1>0, <2>1 DEF ExclusiveOwnership
<1> QED
  BY <1>1, <1>2, <1>3

\* check_cooldown changes nodes in cooldown only, which nobody owns.
LEMMA CheckCooldownCasStep ==
    ASSUME ListInv, NEW t \in Threads, CheckCooldownCas(t)
    PROVE  ListInv'
<1> USE NodesFacts DEF ListInv, CheckCooldownCas, Enter
<1>1. Shape'
  BY DEF Shape, Locals, InUse, ListLabels
<1>2. Locals'
  BY DEF Shape, Locals
<1>3. ExclusiveOwnership'
  <2>1. \A u \in Threads : Owned(u)' = Owned(u)
    BY DEF Owned, Shape
  <2>2. \A n \in Nodes : in_use[n] = "NODE_USED" => in_use'[n] = "NODE_USED"
    BY DEF Shape
  <2>3. \A u \in Threads : Owned(u) \in Nodes \cup {NoNode} /\ boxed[u] \in Nodes \cup {NoNode}
    BY DEF Owned, Shape
  <2> QED
    BY <2>1, <2>2, <2>3 DEF ExclusiveOwnership
<1> QED
  BY <1>1, <1>2, <1>3

\* The compare_exchange of Node::get takes a node that was NODE_UNUSED, so nobody's.
LEMMA GetClaimStep ==
    ASSUME ListInv, NEW t \in Threads, GetClaim(t)
    PROVE  ListInv'
<1> USE NodesFacts DEF ListInv
<1> DEFINE n == cursor[t]
<1>0. n \in Nodes /\ node[t] = NoNode /\ lpc[t] = "claim" /\ boxed[t] = NoNode
  BY DEF GetClaim, Locals
<1>1. CASE in_use[n] = "NODE_UNUSED"
  <2>0. /\ in_use' = [in_use EXCEPT ![n] = "NODE_USED"]
        /\ node' = [node EXCEPT ![t] = n]
        /\ cursor' = [cursor EXCEPT ![t] = NoNode]
        /\ lpc' = [lpc EXCEPT ![t] = "off"]
        /\ UNCHANGED <<LIST_HEAD, next, active_writers, boxed, cooldowns, stale>>
    BY <1>1 DEF GetClaim, Enter
  <2>1. Shape'
    BY <1>0, <2>0 DEF Shape, InUse, ListLabels
  <2>2. Locals'
    BY <1>0, <2>0 DEF Shape, Locals
  <2>3. ExclusiveOwnership'
    <3>1. /\ Owned(t)' = n
          /\ \A u \in Threads \ {t} : Owned(u)' = Owned(u)
      BY <1>0, <2>0 DEF Owned, Shape
    <3>2. /\ in_use'[n] = "NODE_USED"
          /\ \A m \in Nodes : in_use[m] = "NODE_USED" => in_use'[m] = "NODE_USED" /\ m # n
      BY <1>0, <1>1, <2>0 DEF Shape
    <3>3. \A u \in Threads : Owned(u) \in Nodes \cup {NoNode} /\ boxed[u] \in Nodes \cup {NoNode}
      BY DEF Owned, Shape
    <3>4. \A u \in Threads : Owned(u) # n /\ boxed[u] # n
      BY <1>0, <3>2, <3>3 DEF ExclusiveOwnership
    <3> QED
      BY <1>0, <2>0, <3>1, <3>2, <3>3, <3>4 DEF ExclusiveOwnership
  <2> QED
    BY <2>1, <2>2, <2>3
<1>2. CASE in_use[n] # "NODE_UNUSED"
  <2>0. /\ cursor' = [cursor EXCEPT ![t] = next[n]]
        /\ lpc' = [lpc EXCEPT ![t] = IF next[n] = NoNode THEN "alloc" ELSE "cool_load"]
        /\ UNCHANGED <<LIST_HEAD, next, in_use, node, active_writers, boxed, cooldowns, stale>>
    BY <1>2 DEF GetClaim, GetVisit, Enter
  <2>1. Shape'
    BY <1>0, <2>0 DEF Shape, ListLabels
  <2>2. Locals'
    BY <1>0, <2>0 DEF Shape, Locals
  <2>3. \A u \in Threads : Owned(u)' = Owned(u)
    BY <1>0, <2>0 DEF Owned, Shape
  <2>4. ExclusiveOwnership'
    BY <2>0, <2>3 DEF ExclusiveOwnership
  <2> QED
    BY <2>1, <2>2, <2>4
<1> QED
  BY <1>1, <1>2

\* A new box is nobody else's.
LEMMA GetAllocStep ==
    ASSUME ListInv, NEW t \in Threads, GetAlloc(t)
    PROVE  ListInv'
<1> USE NodesFacts DEF ListInv
<1>0. PICK n \in Nodes :
          /\ in_use[n] = "FREE"
          /\ in_use' = [in_use EXCEPT ![n] = "NODE_USED"]
          /\ boxed' = [boxed EXCEPT ![t] = n]
  BY DEF GetAlloc
<1>1. /\ lpc[t] = "alloc"
      /\ lpc' = [lpc EXCEPT ![t] = "push"]
      /\ cursor' = [cursor EXCEPT ![t] = LIST_HEAD]
      /\ UNCHANGED <<LIST_HEAD, next, active_writers, node, cooldowns, stale>>
  BY DEF GetAlloc, Enter
<1>2. Shape'
  BY <1>0, <1>1 DEF Shape, InUse, ListLabels
<1>3. Locals'
  BY <1>0, <1>1 DEF Shape, Locals
<1>4. ExclusiveOwnership'
  <2>1. \A u \in Threads : Owned(u)' = Owned(u)
    BY <1>1 DEF Owned, Shape
  <2>2. /\ in_use'[n] = "NODE_USED"
        /\ \A m \in Nodes : in_use[m] = "NODE_USED" => in_use'[m] = "NODE_USED" /\ m # n
    BY <1>0 DEF Shape
  <2>3. \A u \in Threads : Owned(u) \in Nodes \cup {NoNode} /\ boxed[u] \in Nodes \cup {NoNode}
    BY DEF Owned, Shape
  <2>4. \A u \in Threads : Owned(u) # n /\ boxed[u] # n
    BY <2>2, <2>3 DEF ExclusiveOwnership
  <2>5. boxed'[t] = n /\ \A u \in Threads \ {t} : boxed'[u] = boxed[u]
    BY <1>0 DEF Shape
  <2> QED
    BY <2>1, <2>2, <2>3, <2>4, <2>5 DEF ExclusiveOwnership
<1> QED
  BY <1>2, <1>3, <1>4

\* A push turns the box of its thread into the thread's node.
LEMMA GetPushStep ==
    ASSUME ListInv, NEW t \in Threads, GetPush(t)
    PROVE  ListInv'
<1> USE NodesFacts DEF ListInv
<1> DEFINE n == boxed[t]
<1>0. n \in Nodes /\ node[t] = NoNode /\ lpc[t] = "push"
  BY DEF GetPush, Locals
<1>1. CASE LIST_HEAD = cursor[t]
  <2>0. /\ next' = [next EXCEPT ![n] = cursor[t]]
        /\ LIST_HEAD' = n
        /\ node' = [node EXCEPT ![t] = n]
        /\ boxed' = [boxed EXCEPT ![t] = NoNode]
        /\ cursor' = [cursor EXCEPT ![t] = NoNode]
        /\ lpc' = [lpc EXCEPT ![t] = "off"]
        /\ UNCHANGED <<in_use, active_writers, cooldowns, stale>>
    BY <1>1 DEF GetPush, Enter
  <2>1. Shape'
    BY <1>0, <2>0 DEF Shape, ListLabels
  <2>2. Locals'
    BY <1>0, <2>0 DEF Shape, Locals
  <2>3. ExclusiveOwnership'
    <3>1. /\ Owned(t)' = n
          /\ boxed'[t] = NoNode
          /\ \A u \in Threads \ {t} : Owned(u)' = Owned(u) /\ boxed'[u] = boxed[u]
      BY <1>0, <2>0 DEF Owned, Shape
    <3>2. \A u \in Threads \ {t} : Owned(u) # n /\ boxed[u] # n
      BY <1>0 DEF ExclusiveOwnership
    <3> QED
      BY <1>0, <2>0, <3>1, <3>2 DEF ExclusiveOwnership
  <2> QED
    BY <2>1, <2>2, <2>3
<1>2. CASE LIST_HEAD # cursor[t]
  <2>0. /\ next' = [next EXCEPT ![n] = cursor[t]]
        /\ cursor' = [cursor EXCEPT ![t] = LIST_HEAD]
        /\ UNCHANGED <<LIST_HEAD, node, boxed, lpc, in_use, active_writers, cooldowns, stale>>
    BY <1>2 DEF GetPush
  <2>1. Shape'
    BY <1>0, <2>0 DEF Shape
  <2>2. Locals'
    BY <1>0, <2>0 DEF Shape, Locals
  <2>3. ExclusiveOwnership'
    BY <2>0 DEF ExclusiveOwnership, Owned
  <2> QED
    BY <2>1, <2>2, <2>3
<1> QED
  BY <1>1, <1>2

\* With the swap of in_use the thread gives up the ownership of its node.
LEMMA CooldownSwapStep ==
    ASSUME ListInv, NEW t \in Threads, CooldownSwap(t)
    PROVE  ListInv'
<1> USE NodesFacts DEF ListInv
<1> DEFINE n == node[t]
<1>0. n \in Nodes /\ lpc[t] = "cd_swap" /\ boxed[t] = NoNode /\ Owned(t) = n
  BY DEF CooldownSwap, Locals, Owned
<1>1. /\ in_use' = [in_use EXCEPT ![n] = "NODE_COOLDOWN"]
      /\ stale' = [stale EXCEPT ![n] = WritersOn(n) \ {t}]
      /\ lpc' = [lpc EXCEPT ![t] = "cd_release"]
      /\ UNCHANGED <<LIST_HEAD, next, active_writers, node, cursor, boxed, cooldowns>>
  BY DEF CooldownSwap, Enter
<1>2. Shape'
  <2>1. WritersOn(n) \ {t} \subseteq Threads
    BY DEF WritersOn
  <2> QED
    BY <1>0, <1>1, <2>1 DEF Shape, InUse, ListLabels
<1>3. Locals'
  BY <1>0, <1>1 DEF Shape, Locals
<1>4. ExclusiveOwnership'
  <2>1. Owned(t)' = NoNode /\ \A u \in Threads \ {t} : Owned(u)' = Owned(u)
    BY <1>0, <1>1 DEF Owned, Shape
  <2>2. \A u \in Threads \ {t} : Owned(u) # n
    BY <1>0 DEF ExclusiveOwnership
  <2>3. \A u \in Threads : boxed[u] # n
    BY <1>0 DEF ExclusiveOwnership
  <2>4. \A m \in Nodes : m # n => in_use'[m] = in_use[m]
    BY <1>0, <1>1 DEF Shape
  <2>5. \A u \in Threads : Owned(u) \in Nodes \cup {NoNode} /\ boxed[u] \in Nodes \cup {NoNode}
    BY DEF Owned, Shape
  <2> QED
    BY <1>1, <2>1, <2>2, <2>3, <2>4, <2>5 DEF ExclusiveOwnership
<1> QED
  BY <1>2, <1>3, <1>4

\* The thread forgets a node it no longer owns.
LEMMA CooldownReleaseStep ==
    ASSUME ListInv, NEW t \in Threads, CooldownRelease(t)
    PROVE  ListInv'
<1> USE NodesFacts DEF ListInv
<1>0. node[t] \in Nodes /\ lpc[t] = "cd_release" /\ boxed[t] = NoNode /\ Owned(t) = NoNode
  BY DEF CooldownRelease, Locals, Owned
<1>1. /\ active_writers' = [active_writers EXCEPT ![node[t]] = @ - 1]
      /\ node' = [node EXCEPT ![t] = NoNode]
      /\ lpc' = [lpc EXCEPT ![t] = "off"]
      /\ UNCHANGED <<LIST_HEAD, next, in_use, cursor, boxed, cooldowns, stale>>
  BY DEF CooldownRelease, Enter
<1>2. Shape'
  <2>1. active_writers' \in [Nodes -> Int]
    BY <1>0, <1>1 DEF Shape
  <2> QED
    BY <1>1, <2>1 DEF Shape, ListLabels
<1>3. Locals'
  BY <1>0, <1>1 DEF Shape, Locals
<1>4. ExclusiveOwnership'
  <2>1. \A u \in Threads : Owned(u)' = Owned(u)
    BY <1>0, <1>1 DEF Owned, Shape
  <2> QED
    BY <1>1, <2>1 DEF ExclusiveOwnership
<1> QED
  BY <1>2, <1>3, <1>4

\* Every step of the list preserves the invariant.
LEMMA NextInv == ListInv /\ [ListNext]_listVars => ListInv'
<1> SUFFICES ASSUME ListInv, [ListNext]_listVars PROVE ListInv'
  OBVIOUS
<1>1. CASE UNCHANGED listVars
  BY <1>1 DEF listVars, ListInv, Shape, Locals, ExclusiveOwnership, Owned
<1>2. ASSUME NEW t \in Threads,
             \/ GetStep(t) \/ TraverseStart(t) \/ ReserveWriter(t) \/ ReleaseWriter(t)
             \/ ThreadExit(t) \/ CooldownSwap(t) \/ CooldownRelease(t)
      PROVE  ListInv'
  BY <1>2, LookStep, CheckCooldownCasStep, GetClaimStep, GetAllocStep, GetPushStep,
     CooldownSwapStep, CooldownReleaseStep DEF GetStep
<1> QED
  BY <1>1, <1>2 DEF ListNext

\* A node belongs to one thread at a time and stays NODE_USED while it does:
\* the claiming compare_exchange of Node::get, the push loop and start_cooldown
\* keep the threads apart, for any number of threads, nodes and exits.
THEOREM OwnershipIsExclusive == ListSpec => []ExclusiveOwnership
<1>1. ListInv => ExclusiveOwnership
  BY DEF ListInv
<1> QED
  BY <1>1, InitInv, NextInv, PTL DEF ListSpec

-----------------------------------------------------------------------------
(* active_writers is the number of reservations.                             *)

\* The writers on a node can be counted.
LEMMA WritersFinite ==
    ASSUME NEW n
    PROVE  IsFiniteSet(WritersOn(n)) /\ Cardinality(WritersOn(n)) \in Nat
<1>1. WritersOn(n) \subseteq Threads
  BY DEF WritersOn
<1> QED
  BY <1>1, ThreadsAssumption, FS_Subset, FS_CardinalityType

\* A reservation taken by a thread that had none on the node.
LEMMA OneMoreWriter ==
    ASSUME Shape, WritersCounted, NEW n \in Nodes, NEW t \in Threads, t \notin WritersOn(n),
           active_writers' = [active_writers EXCEPT ![n] = @ + 1],
           WritersOn(n)' = WritersOn(n) \cup {t},
           \A m \in Nodes \ {n} : WritersOn(m)' = WritersOn(m)
    PROVE  WritersCounted'
<1>1. Cardinality(WritersOn(n) \cup {t}) = Cardinality(WritersOn(n)) + 1
  BY WritersFinite, FS_AddElement
<1> SUFFICES ASSUME NEW m \in Nodes
             PROVE  active_writers'[m] = Cardinality(WritersOn(m)')
  BY DEF WritersCounted
<1>2. CASE m = n
  BY <1>1, <1>2 DEF WritersCounted, Shape
<1>3. CASE m # n
  <2>1. active_writers'[m] = active_writers[m]
    BY <1>3 DEF Shape
  <2> QED
    BY <1>3, <2>1 DEF WritersCounted
<1> QED
  BY <1>2, <1>3

\* A reservation dropped.
LEMMA OneWriterLess ==
    ASSUME Shape, WritersCounted, NEW n \in Nodes, NEW t \in Threads, t \in WritersOn(n),
           active_writers' = [active_writers EXCEPT ![n] = @ - 1],
           WritersOn(n)' = WritersOn(n) \ {t},
           \A m \in Nodes \ {n} : WritersOn(m)' = WritersOn(m)
    PROVE  WritersCounted'
<1>1. Cardinality(WritersOn(n) \ {t}) = Cardinality(WritersOn(n)) - 1
  BY WritersFinite, FS_RemoveElement
<1> SUFFICES ASSUME NEW m \in Nodes
             PROVE  active_writers'[m] = Cardinality(WritersOn(m)')
  BY DEF WritersCounted
<1>2. CASE m = n
  BY <1>1, <1>2 DEF WritersCounted, Shape
<1>3. CASE m # n
  <2>1. active_writers'[m] = active_writers[m]
    BY <1>3 DEF Shape
  <2> QED
    BY <1>3, <2>1 DEF WritersCounted
<1> QED
  BY <1>2, <1>3

\* Steps that take or drop no reservation.
LEMMA SameWriters ==
    ASSUME ListInv, WritersCounted, NEW t \in Threads,
           GetStep(t) \/ TraverseStart(t) \/ CooldownSwap(t)
    PROVE  WritersCounted'
<1> DEFINE Busy(label) == label \in {"visit", "cd_swap", "cd_release"}
<1>1. /\ UNCHANGED active_writers
      /\ \A u \in Threads \ {t} : lpc'[u] = lpc[u] /\ cursor'[u] = cursor[u] /\ node'[u] = node[u]
  BY DEF ListInv, Shape, GetStep, GetStart, GetVisit, CheckCooldownLoad, CheckCooldownWriters,
         CheckCooldownCas, GetClaim, GetAlloc, GetPush, TraverseStart, CooldownSwap, Enter
<1>2. \/ ~Busy(lpc[t]) /\ ~Busy(lpc'[t])
      \/ lpc[t] = "cd_swap" /\ lpc'[t] = "cd_release" /\ node' = node
  BY DEF ListInv, Shape, GetStep, GetStart, GetVisit, CheckCooldownLoad, CheckCooldownWriters,
         CheckCooldownCas, GetClaim, GetAlloc, GetPush, TraverseStart, CooldownSwap, Enter
<1>3. \A n \in Nodes : WritersOn(n)' = WritersOn(n)
  BY <1>1, <1>2 DEF WritersOn
<1> QED
  BY <1>1, <1>3 DEF WritersCounted

\* Every step keeps active_writers in line with the reservations.
LEMMA NextCounted ==
    ASSUME ListInv, WritersCounted, [ListNext]_listVars
    PROVE  WritersCounted'
<1> USE NodesFacts DEF ListInv
<1>1. CASE UNCHANGED listVars
  <2>1. \A n \in Nodes : WritersOn(n)' = WritersOn(n)
    BY <1>1 DEF listVars, WritersOn
  <2> QED
    BY <1>1, <2>1 DEF listVars, WritersCounted
<1>2. ASSUME NEW t \in Threads, ReserveWriter(t) PROVE WritersCounted'
  <2>1. /\ lpc[t] = "reserve" /\ cursor[t] \in Nodes
        /\ active_writers' = [active_writers EXCEPT ![cursor[t]] = @ + 1]
        /\ lpc' = [lpc EXCEPT ![t] = "visit"]
        /\ UNCHANGED <<node, cursor>>
    BY <1>2 DEF ReserveWriter, Locals, Enter
  <2>2. /\ t \notin WritersOn(cursor[t])
        /\ WritersOn(cursor[t])' = WritersOn(cursor[t]) \cup {t}
        /\ \A m \in Nodes \ {cursor[t]} : WritersOn(m)' = WritersOn(m)
    BY <2>1 DEF WritersOn, Shape
  <2> QED
    BY <2>1, <2>2, OneMoreWriter
<1>3. ASSUME NEW t \in Threads, ReleaseWriter(t) PROVE WritersCounted'
  <2> DEFINE n == cursor[t]
  <2>1. /\ lpc[t] = "visit" /\ n \in Nodes
        /\ active_writers' = [active_writers EXCEPT ![n] = @ - 1]
        /\ cursor' = [cursor EXCEPT ![t] = next[n]]
        /\ lpc' = [lpc EXCEPT ![t] = IF next[n] = NoNode THEN "off" ELSE "reserve"]
        /\ UNCHANGED node
    BY <1>3 DEF ReleaseWriter, Locals, Enter
  <2>2. /\ t \in WritersOn(n)
        /\ {u \in Threads : \/ lpc'[u] = "visit" /\ cursor'[u] = n
                            \/ lpc'[u] \in {"cd_swap", "cd_release"} /\ node'[u] = n}
           = WritersOn(n) \ {t}
        /\ \A m \in Nodes \ {n} : WritersOn(m)' = WritersOn(m)
    BY <2>1 DEF WritersOn, Shape
  <2> QED
    BY <2>1, <2>2, OneWriterLess DEF WritersOn
<1>4. ASSUME NEW t \in Threads, ThreadExit(t) PROVE WritersCounted'
  <2>1. /\ lpc[t] = "off" /\ node[t] \in Nodes
        /\ active_writers' = [active_writers EXCEPT ![node[t]] = @ + 1]
        /\ lpc' = [lpc EXCEPT ![t] = "cd_swap"]
        /\ UNCHANGED <<node, cursor>>
    BY <1>4 DEF ThreadExit, CooldownReserve, Shape, Enter
  <2>2. /\ t \notin WritersOn(node[t])
        /\ WritersOn(node[t])' = WritersOn(node[t]) \cup {t}
        /\ \A m \in Nodes \ {node[t]} : WritersOn(m)' = WritersOn(m)
    BY <2>1 DEF WritersOn, Shape
  <2> QED
    BY <2>1, <2>2, OneMoreWriter
<1>5. ASSUME NEW t \in Threads, CooldownRelease(t) PROVE WritersCounted'
  <2> DEFINE n == node[t]
  <2>1. /\ lpc[t] = "cd_release" /\ n \in Nodes
        /\ active_writers' = [active_writers EXCEPT ![n] = @ - 1]
        /\ node' = [node EXCEPT ![t] = NoNode]
        /\ lpc' = [lpc EXCEPT ![t] = "off"]
        /\ UNCHANGED cursor
    BY <1>5 DEF CooldownRelease, Locals, Enter
  <2>2. /\ t \in WritersOn(n)
        /\ {u \in Threads : \/ lpc'[u] = "visit" /\ cursor'[u] = n
                            \/ lpc'[u] \in {"cd_swap", "cd_release"} /\ node'[u] = n}
           = WritersOn(n) \ {t}
        /\ \A m \in Nodes \ {n} : WritersOn(m)' = WritersOn(m)
    BY <2>1 DEF WritersOn, Shape
  <2> QED
    BY <2>1, <2>2, OneWriterLess DEF WritersOn
<1> QED
  BY <1>1, <1>2, <1>3, <1>4, <1>5, SameWriters DEF ListNext

\* Nobody has a reservation before the first step.
LEMMA InitCounted == ListInit => WritersCounted
<1> SUFFICES ASSUME ListInit, NEW n \in Nodes
             PROVE  active_writers[n] = Cardinality(WritersOn(n))
  BY DEF WritersCounted
<1>1. WritersOn(n) = {}
  BY DEF ListInit, WritersOn
<1> QED
  BY <1>1, FS_EmptySet DEF ListInit

\* active_writers is exact in every reachable state: each reserve_writer is
\* paired with one drop of its NodeReservation, in pay_all and in start_cooldown,
\* whatever other threads do between the two.  So the zero that check_cooldown
\* waits for does mean that nobody is on the node at that moment.
THEOREM WritersAreCounted == ListSpec => []WritersCounted
<1>1. ListInit => ListInv /\ WritersCounted
  BY InitInv, InitCounted
<1>2. ListInv /\ WritersCounted /\ [ListNext]_listVars => (ListInv /\ WritersCounted)'
  BY NextInv, NextCounted
<1> QED
  BY <1>1, <1>2, PTL DEF ListSpec

\* The list is well typed in every reachable state; in particular the counter
\* active_writers, a usize that is decremented by fetch_sub, never underflows.
THEOREM ListTypeCorrect == ListSpec => []ListTypeOK
<1>1. ListInit => ListInv /\ WritersCounted
  BY InitInv, InitCounted
<1>2. ListInv /\ WritersCounted /\ [ListNext]_listVars => (ListInv /\ WritersCounted)'
  BY NextInv, NextCounted
<1>3. ListInv /\ WritersCounted => ListTypeOK
  <2> SUFFICES ASSUME ListInv, WritersCounted
               PROVE  ListTypeOK
    OBVIOUS
  <2>1. active_writers \in [Nodes -> Nat]
    BY WritersFinite DEF WritersCounted, ListInv, Shape
  <2> QED
    BY <2>1 DEF ListTypeOK, ListInv, Shape
<1> QED
  BY <1>1, <1>2, <1>3, PTL DEF ListSpec

-----------------------------------------------------------------------------
(* The chain of linked nodes.                                                *)

Links == [Nodes -> Nodes \cup {NoNode}]

\* What it takes to be in a chain.
LEMMA InChain ==
    ASSUME NEW links, NEW n, NEW m \in Nodes
    PROVE  m \in Chain(links, n) <=>
              \A S \in SUBSET Nodes :
                  n \in S \cup {NoNode} /\ (\A k \in S : links[k] \in S \cup {NoNode}) => m \in S
BY DEF Chain

\* A chain is inside of every closed set that it leads into.
LEMMA ChainLeast ==
    ASSUME NEW links, NEW n, NEW m \in Chain(links, n), NEW S \in SUBSET Nodes,
           n \in S \cup {NoNode}, \A k \in S : links[k] \in S \cup {NoNode}
    PROVE  m \in S
BY DEF Chain

\* Only nodes are in a chain.
LEMMA ChainNodes == \A links, n : Chain(links, n) \subseteq Nodes
BY DEF Chain

\* Nothing follows the null pointer.
LEMMA ChainEmpty ==
    ASSUME NEW links
    PROVE  Chain(links, NoNode) = {}
<1> SUFFICES ASSUME NEW m \in Nodes, m \in Chain(links, NoNode) PROVE FALSE
  BY ChainNodes
<1> DEFINE S == {k \in Nodes : FALSE}
<1>1. S \in SUBSET Nodes /\ NoNode \in S \cup {NoNode} /\ \A k \in S : links[k] \in S \cup {NoNode}
  OBVIOUS
<1>2. m \in S
  BY <1>1, ChainLeast
<1> QED
  BY <1>2

\* A chain begins with its first node and follows the links.
LEMMA ChainHead ==
    ASSUME NEW links, NEW n \in Nodes
    PROVE  n \in Chain(links, n)
BY InChain, NodesFacts

\* A chain is closed: it goes on with the successor of each of its nodes.
LEMMA ChainNext ==
    ASSUME NEW links \in Links, NEW n, NEW m \in Chain(links, n)
    PROVE  links[m] \in Chain(links, n) \cup {NoNode}
<1>1. m \in Nodes
  BY ChainNodes
<1> SUFFICES ASSUME links[m] # NoNode PROVE links[m] \in Chain(links, n)
  OBVIOUS
<1>2. links[m] \in Nodes
  BY <1>1 DEF Links
<1> SUFFICES ASSUME NEW S \in SUBSET Nodes, n \in S \cup {NoNode},
                    \A k \in S : links[k] \in S \cup {NoNode}
             PROVE  links[m] \in S
  BY <1>2, InChain
<1>3. m \in S
  BY <1>1, InChain
<1> QED
  BY <1>3

\* The chain from a node of a chain is part of it.
LEMMA ChainWithin ==
    ASSUME NEW links \in Links, NEW n, NEW m \in Chain(links, n) \cup {NoNode}
    PROVE  Chain(links, m) \subseteq Chain(links, n)
<1>1. CASE m = NoNode
  BY <1>1, ChainEmpty
<1>2. CASE m \in Chain(links, n)
  <2> SUFFICES ASSUME NEW k \in Nodes, k \in Chain(links, m),
                      NEW S \in SUBSET Nodes, n \in S \cup {NoNode},
                      \A j \in S : links[j] \in S \cup {NoNode}
               PROVE  k \in S
    BY ChainNodes, InChain
  <2>1. m \in S
    BY <1>2, ChainNodes, InChain
  <2> QED
    BY <2>1, InChain
<1> QED
  BY <1>1, <1>2

\* The first node and the rest.
LEMMA ChainStep ==
    ASSUME NEW links \in Links, NEW n \in Nodes
    PROVE  Chain(links, n) = {n} \cup Chain(links, links[n])
<1>1. {n} \cup Chain(links, links[n]) \subseteq Chain(links, n)
  BY ChainHead, ChainNext, ChainWithin
<1>2. ASSUME NEW m \in Chain(links, n) PROVE m \in {n} \cup Chain(links, links[n])
  <2> DEFINE S == {n} \cup Chain(links, links[n])
  <2>1. S \in SUBSET Nodes
    BY ChainNodes
  <2>2. links[n] \in S \cup {NoNode}
    BY ChainHead DEF Links
  <2>3. n \in S /\ \A k \in S : links[k] \in S \cup {NoNode}
    BY <2>2, ChainNext
  <2>4. m \in S
    <3> HIDE DEF S
    <3> QED
      BY <1>2, <2>1, <2>3, ChainLeast
  <2> QED
    BY <2>4
<1> QED
  BY <1>1, <1>2

\* A chain depends on the links of its nodes only.
LEMMA ChainSame ==
    ASSUME NEW links \in Links, NEW new \in Links, NEW n,
           \A m \in Chain(links, n) : new[m] = links[m]
    PROVE  Chain(new, n) = Chain(links, n)
<1> DEFINE C == Chain(links, n)
<1>0. C \subseteq Nodes
  BY ChainNodes
<1>1. n \in C \cup {NoNode} \/ n \notin Nodes \cup {NoNode}
  BY ChainHead
<1>2. CASE n \in C \cup {NoNode}
  <2>1. \A k \in C : links[k] \in C \cup {NoNode}
    BY ChainNext
  <2>2. ASSUME NEW m \in Chain(new, n) PROVE m \in C
    <3>1. \A k \in C : new[k] \in C \cup {NoNode}
      BY <2>1
    <3> QED
      <4> HIDE DEF C
      <4> QED
        BY <1>0, <1>2, <2>2, <3>1, ChainLeast
  <2>3. ASSUME NEW m \in C PROVE m \in Chain(new, n)
    <3> SUFFICES ASSUME NEW S \in SUBSET Nodes, n \in S \cup {NoNode},
                        \A k \in S : new[k] \in S \cup {NoNode}
                 PROVE  m \in S
      BY <1>0, <2>3, InChain
    <3> DEFINE T == S \cap C
    <3>1. T \in SUBSET Nodes /\ n \in T \cup {NoNode}
      BY <1>2
    <3>2. \A k \in T : links[k] \in T \cup {NoNode}
      BY <2>1
    <3>3. m \in T
      <4> HIDE DEF T
      <4> QED
        BY <2>3, <3>1, <3>2, ChainLeast
    <3> QED
      BY <3>3
  <2> QED
    BY <2>2, <2>3
<1>3. CASE n \notin Nodes \cup {NoNode}
  <2>1. \A S \in SUBSET Nodes : n \notin S \cup {NoNode}
    BY <1>3
  <2> QED
    BY <2>1, InChain, ChainNodes
<1> QED
  BY <1>1, <1>2, <1>3

\* The chain has no cycle.  Nodes in use are in it, boxes that are still to be
\* allocated or linked are not, and a cursor does not leave it.
Linked ==
    LET chain == ChainFrom(LIST_HEAD)
    IN  /\ \A n \in chain : n \notin ChainFrom(next[n])
        /\ \A n \in chain : in_use[n] # "FREE"
        /\ \A t \in Threads : /\ node[t] \in chain \cup {NoNode}
                              /\ cursor[t] \in chain \cup {NoNode}
                              /\ boxed[t] \notin chain

\* At the start the chain is 1 .. Len(InitOwners), backwards.
LEMMA InitLinked == ListInit => Linked
<1> SUFFICES ASSUME ListInit PROVE Linked
  OBVIOUS
<1> DEFINE len == Len(InitOwners)
<1>1. len \in Nat /\ 1 .. len \subseteq Nodes /\ NoNode = 0 /\ NoNode \notin Nodes
  BY InitOwnersAssumption, BoundsAssumption, NodesFacts DEF Nodes, NoNode
<1>2. next \in Links /\ LIST_HEAD = len /\ \A n \in 1 .. len : next[n] = n - 1
  BY <1>1, InitInv DEF ListInit, ListInv, Shape, Links
<1>3. ASSUME NEW k \in 0 .. len
      PROVE  ChainFrom(k) \subseteq 1 .. k
  <2> DEFINE S == 1 .. k
  <2>1. S \in SUBSET Nodes /\ k \in S \cup {NoNode}
    BY <1>1
  <2>2. \A n \in S : next[n] \in S \cup {NoNode}
    BY <1>1, <1>2
  <2> HIDE DEF S
  <2>3. \A m \in ChainFrom(k) : m \in S
    BY <2>1, <2>2, ChainLeast DEF ChainFrom
  <2> QED
    BY <2>3 DEF S
<1>4. 1 .. len \subseteq ChainFrom(LIST_HEAD)
  <2> SUFFICES ASSUME 1 .. len \ ChainFrom(LIST_HEAD) # {} PROVE FALSE
    OBVIOUS
  <2> DEFINE Gaps == {len - n : n \in 1 .. len \ ChainFrom(LIST_HEAD)}
  <2>1. Gaps \in SUBSET Nat /\ Gaps # {}
    BY <1>1
  <2>2. PICK g \in Gaps : \A h \in Gaps : g <= h
    BY <2>1, LeastElement
  <2>3. PICK n \in 1 .. len \ ChainFrom(LIST_HEAD) : g = len - n
    BY <2>2
  <2>4. CASE n = len
    BY <1>1, <1>2, <2>3, <2>4, ChainHead DEF ChainFrom
  <2>5. CASE n # len
    <3>1. n + 1 \in 1 .. len /\ len - (n + 1) < g
      BY <1>1, <2>3, <2>5
    <3>2. n + 1 \in ChainFrom(LIST_HEAD)
      <4> SUFFICES ASSUME n + 1 \notin ChainFrom(LIST_HEAD) PROVE FALSE
        OBVIOUS
      <4>1. len - (n + 1) \in Gaps
        BY <3>1
      <4>2. g <= len - (n + 1)
        BY <2>2, <4>1
      <4> QED
        BY <1>1, <2>3, <3>1, <4>2
    <3>3. next[n + 1] = n /\ n # NoNode
      BY <1>1, <1>2, <2>3, <3>1
    <3>4. next[n + 1] \in Chain(next, LIST_HEAD) \cup {NoNode}
      BY <1>2, <3>2, ChainNext DEF ChainFrom
    <3> QED
      BY <2>3, <3>3, <3>4 DEF ChainFrom
  <2> QED
    BY <2>4, <2>5
<1>5. ASSUME NEW n \in ChainFrom(LIST_HEAD)
      PROVE  n \notin ChainFrom(next[n]) /\ in_use[n] # "FREE"
  <2>1. n \in 1 .. len
    BY <1>1, <1>2, <1>3
  <2>2. ChainFrom(n - 1) \subseteq 1 .. n - 1
    BY <1>1, <1>3, <2>1
  <2> QED
    BY <1>1, <1>2, <2>1, <2>2 DEF ListInit
<1>6. ASSUME NEW t \in Threads
      PROVE  /\ node[t] \in ChainFrom(LIST_HEAD) \cup {NoNode}
             /\ cursor[t] = NoNode /\ boxed[t] = NoNode
  BY <1>4 DEF ListInit
<1>7. NoNode \notin ChainFrom(LIST_HEAD)
  BY <1>1, ChainNodes DEF ChainFrom
<1> QED
  BY <1>5, <1>6, <1>7 DEF Linked

\* The push of a box: the old chain is behind it.
LEMMA PushLinked ==
    ASSUME ListInv, Linked, NEW t \in Threads, GetPush(t)
    PROVE  /\ Linked'
           /\ Chain(next, LIST_HEAD) \subseteq Chain(next', LIST_HEAD')
           /\ \A n \in Chain(next, LIST_HEAD) : next'[n] = next[n]
<1> DEFINE b == boxed[t]
           chain == Chain(next, LIST_HEAD)
<1>1. /\ lpc[t] = "push" /\ b \in Nodes /\ b \notin chain
      /\ next \in Links /\ next' = [next EXCEPT ![b] = cursor[t]]
      /\ cursor[t] \in Nodes \cup {NoNode} /\ chain \subseteq Nodes
  BY ChainNodes DEF GetPush, ListInv, Shape, Locals, Linked, ChainFrom, Links
<1>2. next' \in Links /\ \A n \in Nodes : n # b => next'[n] = next[n]
  BY <1>1 DEF Links
<1>3. \A n \in chain : next'[n] = next[n]
  BY <1>1, <1>2
<1>4. ASSUME NEW m \in chain \cup {NoNode}
      PROVE  Chain(next', m) = Chain(next, m)
  <2>1. Chain(next, m) \subseteq chain
    BY <1>1, ChainWithin
  <2>2. \A n \in Chain(next, m) : next'[n] = next[n]
    BY <1>3, <2>1
  <2> QED
    BY <1>1, <1>2, <2>2, ChainSame
<1>5. \A n \in chain : Chain(next', next'[n]) = Chain(next, next[n])
  BY <1>1, <1>3, <1>4, ChainNext
<1>6. LIST_HEAD \in chain \cup {NoNode}
  BY ChainHead DEF ListInv, Shape
<1>7. Chain(next', LIST_HEAD) = chain
  BY <1>4, <1>6
<1>8. \A n \in chain : n \notin Chain(next, next[n])
  BY DEF Linked, ChainFrom
<1>9. \A n \in Nodes : in_use'[n] = in_use[n]
  BY DEF GetPush
<1>10. CASE LIST_HEAD = cursor[t]
  <2>1. /\ LIST_HEAD' = b /\ node' = [node EXCEPT ![t] = b]
        /\ boxed' = [boxed EXCEPT ![t] = NoNode] /\ cursor' = [cursor EXCEPT ![t] = NoNode]
    BY <1>10 DEF GetPush
  <2>2. Chain(next', b) = {b} \cup chain /\ Chain(next', next'[b]) = chain
    <3>1. next'[b] = LIST_HEAD
      BY <1>1, <1>10 DEF Links
    <3>2. Chain(next', b) = {b} \cup Chain(next', next'[b])
      BY <1>1, <1>2, ChainStep
    <3> QED
      BY <1>7, <3>1, <3>2
  <2>3. \A n \in {b} \cup chain : n \notin Chain(next', next'[n])
    <3>1. ASSUME NEW n \in chain PROVE n \notin Chain(next', next'[n])
      BY <1>5, <1>8, <3>1
    <3> QED
      BY <1>1, <2>2, <3>1
  <2>4. \A n \in {b} \cup chain : in_use'[n] # "FREE"
    BY <1>1, <1>9 DEF ListInv, ExclusiveOwnership, Linked, ChainFrom, NoNode, Nodes
  <2>5. ASSUME NEW u \in Threads
        PROVE  /\ node'[u] \in {b} \cup chain \cup {NoNode}
               /\ cursor'[u] \in {b} \cup chain \cup {NoNode}
               /\ boxed'[u] \notin {b} \cup chain
    <3>1. u # t => boxed[u] # b
      BY <1>1, NodesFacts DEF ListInv, ExclusiveOwnership
    <3> QED
      BY <1>1, <2>1, <3>1, NodesFacts DEF ListInv, Shape, Linked, ChainFrom
  <2> QED
    BY <1>3, <2>1, <2>2, <2>3, <2>4, <2>5 DEF Linked, ChainFrom
<1>11. CASE LIST_HEAD # cursor[t]
  <2>1. /\ cursor' = [cursor EXCEPT ![t] = LIST_HEAD]
        /\ UNCHANGED <<LIST_HEAD, node, boxed>>
    BY <1>11 DEF GetPush
  <2>2. \A n \in chain : n \notin Chain(next', next'[n])
    BY <1>5, <1>8
  <2>3. \A n \in chain : in_use'[n] # "FREE"
    BY <1>1, <1>9 DEF Linked, ChainFrom
  <2>4. ASSUME NEW u \in Threads
        PROVE  /\ node'[u] \in chain \cup {NoNode}
               /\ cursor'[u] \in chain \cup {NoNode}
               /\ boxed'[u] \notin chain
    BY <1>6, <2>1 DEF ListInv, Shape, Linked, ChainFrom
  <2>5. Chain(next', LIST_HEAD') = chain
    BY <1>7, <2>1
  <2> QED
    BY <1>3, <2>2, <2>3, <2>4, <2>5 DEF Linked, ChainFrom
<1> QED
  BY <1>10, <1>11

\* The other steps leave the links alone.
LEMMA OtherLinked ==
    ASSUME ListInv, Linked, NEW t \in Threads,
           \/ GetStart(t) \/ CheckCooldownLoad(t) \/ CheckCooldownWriters(t) \/ CheckCooldownCas(t)
           \/ GetClaim(t) \/ GetAlloc(t) \/ TraverseStart(t) \/ ReserveWriter(t)
           \/ ReleaseWriter(t) \/ ThreadExit(t) \/ CooldownSwap(t) \/ CooldownRelease(t)
    PROVE  Linked' /\ LIST_HEAD' = LIST_HEAD /\ next' = next
<1> DEFINE chain == Chain(next, LIST_HEAD)
<1>1. LIST_HEAD' = LIST_HEAD /\ next' = next
  BY DEF GetStart, CheckCooldownLoad, CheckCooldownWriters, CheckCooldownCas, GetClaim, GetAlloc,
         TraverseStart, ReserveWriter, ReleaseWriter, ThreadExit, CooldownReserve, CooldownSwap,
         CooldownRelease
<1>2. /\ chain \subseteq Nodes /\ NoNode \notin chain /\ next \in Links
      /\ LIST_HEAD \in chain \cup {NoNode}
  BY ChainNodes, ChainHead, NodesFacts DEF ListInv, Shape, Links
<1>3. /\ \A n \in chain : n \notin Chain(next, next[n])
      /\ \A n \in chain : in_use[n] # "FREE"
      /\ \A u \in Threads : /\ node[u] \in chain \cup {NoNode}
                            /\ cursor[u] \in chain \cup {NoNode}
                            /\ boxed[u] \notin chain
  BY DEF Linked, ChainFrom
<1> HIDE DEF chain
<1>4. \A n \in chain : in_use'[n] # "FREE"
  BY <1>2, <1>3 DEF ListInv, Shape, GetStart, CheckCooldownLoad, CheckCooldownWriters,
         CheckCooldownCas, GetClaim, GetAlloc, TraverseStart, ReserveWriter, ReleaseWriter,
         ThreadExit, CooldownReserve, CooldownSwap, CooldownRelease
<1>5. \A u \in Threads : node'[u] \in chain \cup {NoNode}
  BY <1>3 DEF ListInv, Shape, GetStart, CheckCooldownLoad, CheckCooldownWriters,
         CheckCooldownCas, GetClaim, GetAlloc, TraverseStart, ReserveWriter, ReleaseWriter,
         ThreadExit, CooldownReserve, CooldownSwap, CooldownRelease
<1>6. \A u \in Threads : boxed'[u] \notin chain
  BY <1>3 DEF ListInv, Shape, GetStart, CheckCooldownLoad, CheckCooldownWriters,
         CheckCooldownCas, GetClaim, GetAlloc, TraverseStart, ReserveWriter, ReleaseWriter,
         ThreadExit, CooldownReserve, CooldownSwap, CooldownRelease
<1>7. \A u \in Threads : cursor'[u] \in chain \cup {NoNode}
  <2>1. \A n \in chain : next[n] \in chain \cup {NoNode}
    BY <1>2, ChainNext DEF chain
  <2>2. CASE GetClaim(t) \/ ReleaseWriter(t)
    <3>1. cursor[t] \in chain
      BY <1>3, <2>2, NodesFacts DEF GetClaim, ReleaseWriter, ListInv, Locals
    <3> QED
      BY <1>3, <2>1, <2>2, <3>1 DEF ListInv, Shape, GetClaim, GetVisit, ReleaseWriter
  <2>3. CASE ~(GetClaim(t) \/ ReleaseWriter(t))
    BY <1>2, <1>3, <2>3 DEF ListInv, Shape, GetStart, GetVisit, CheckCooldownLoad,
         CheckCooldownWriters, CheckCooldownCas, GetAlloc, TraverseStart, ReserveWriter,
         ThreadExit, CooldownReserve, CooldownSwap, CooldownRelease
  <2> QED
    BY <2>2, <2>3
<1> QED
  BY <1>1, <1>3, <1>4, <1>5, <1>6, <1>7 DEF Linked, ChainFrom, chain

\* A step keeps the chain linked and only adds to it.
LEMMA NextLinked ==
    ASSUME ListInv, Linked, [ListNext]_listVars
    PROVE  /\ Linked'
           /\ Chain(next, LIST_HEAD) \subseteq Chain(next', LIST_HEAD')
           /\ \A n \in Chain(next, LIST_HEAD) : next'[n] = next[n]
<1>1. CASE UNCHANGED listVars
  BY <1>1 DEF listVars, Linked, ChainFrom
<1>2. CASE \E t \in Threads : GetPush(t)
  BY <1>2, PushLinked
<1>3. CASE ListNext /\ ~\E t \in Threads : GetPush(t)
  BY <1>3, OtherLinked DEF ListNext, GetStep
<1> QED
  BY <1>1, <1>2, <1>3

\* The chain is linked the right way for ever.
LEMMA AlwaysLinked == ListSpec => [](ListInv /\ Linked)
<1>1. ListInit => ListInv /\ Linked
  BY InitInv, InitLinked
<1>2. ListInv /\ Linked /\ [ListNext]_listVars => (ListInv /\ Linked)'
  BY NextInv, NextLinked
<1> QED
  BY <1>1, <1>2, PTL DEF ListSpec

\* Every node that a thread owns is reachable from LIST_HEAD, and the chain ends,
\* whatever pushes and claims race: pay_all visits every node in use.
THEOREM OwnedNodesAreLinked == ListSpec => []OwnedNodesLinked
<1>1. Linked => OwnedNodesLinked
  BY DEF Linked, OwnedNodesLinked
<1> QED
  BY <1>1, AlwaysLinked, PTL

\* Linked nodes keep their place and their successor for ever, so a traversal
\* visits every node that was linked when it loaded the head.
THEOREM ListGrows == ListSpec => ListOnlyGrows
<1>1. ListInv /\ Linked /\ [ListNext]_listVars =>
         [/\ ChainFrom(LIST_HEAD) \subseteq ChainFrom(LIST_HEAD)'
          /\ \A n \in ChainFrom(LIST_HEAD) : next'[n] = next[n]]_listVars
  BY NextLinked DEF ChainFrom
<1> QED
  BY <1>1, AlwaysLinked, PTL DEF ListSpec, ListOnlyGrows

-----------------------------------------------------------------------------
(* The cooldown.                                                             *)

\* No cooldown of a node starts while a thread that has seen no writers there is
\* about to end the one before: the race of check_cooldown does not happen.
NoCooldownRace ==
    \A t, u \in Threads : lpc[t] = "cool_cas" /\ lpc[u] = "cd_swap" => cursor[t] # node[u]

\* Thread u has sent n into cooldown and has its reservation still.
Releasing(n) == {u \in Threads : lpc[u] = "cd_release" /\ node[u] = n}

\* The writers from before a cooldown are visiting still; a node that is out of
\* cooldown has none, nor has one whose cooldown somebody is about to end.
Cooled ==
    /\ \A n \in Nodes : \A u \in stale[n] : lpc[u] = "visit" /\ cursor[u] = n
    /\ \A n \in Nodes : in_use[n] # "NODE_COOLDOWN" => stale[n] = {} /\ Releasing(n) = {}
    /\ \A t \in Threads : lpc[t] = "cool_cas" => stale[cursor[t]] = {} /\ Releasing(cursor[t]) = {}

\* Nobody is on a node at the start.
LEMMA InitCooled == ListInit => Cooled
BY DEF ListInit, Cooled, Releasing

\* Steps of the traversals and of the claims.
LEMMA LookCooled ==
    ASSUME ListInv, WritersCounted, Cooled, NEW t \in Threads,
           \/ GetStart(t) \/ CheckCooldownLoad(t) \/ CheckCooldownWriters(t) \/ TraverseStart(t)
           \/ ReserveWriter(t) \/ ThreadExit(t)
    PROVE  Cooled'
<1> USE DEF ListInv, Shape, Enter, GetVisit
<1>1. UNCHANGED <<in_use, stale, node>> /\ t \in Threads /\ lpc[t] # "visit" /\ lpc[t] # "cool_cas"
  BY DEF GetStart, CheckCooldownLoad, CheckCooldownWriters, TraverseStart, ReserveWriter,
         ThreadExit, CooldownReserve
<1>2. /\ \A u \in Threads : u # t => lpc'[u] = lpc[u] /\ cursor'[u] = cursor[u]
      /\ lpc'[t] # "cd_release" /\ lpc[t] # "cd_release"
  BY DEF GetStart, CheckCooldownLoad, CheckCooldownWriters, TraverseStart, ReserveWriter,
         ThreadExit, CooldownReserve
<1>4. \A n \in Nodes : \A u \in stale'[n] : lpc'[u] = "visit" /\ cursor'[u] = n
  BY <1>1, <1>2 DEF Cooled
<1>5. lpc'[t] = "cool_cas" =>
        cursor'[t] \in Nodes /\ stale[cursor'[t]] = {} /\ Releasing(cursor'[t]) = {}
  <2> SUFFICES ASSUME lpc'[t] = "cool_cas"
               PROVE  cursor'[t] \in Nodes /\ stale[cursor'[t]] = {} /\ Releasing(cursor'[t]) = {}
    OBVIOUS
  <2>1. CheckCooldownWriters(t) /\ active_writers[cursor[t]] = 0 /\ cursor'[t] = cursor[t]
    BY DEF GetStart, CheckCooldownLoad, CheckCooldownWriters, TraverseStart, ReserveWriter,
           ThreadExit, CooldownReserve
  <2>2. cursor[t] \in Nodes
    BY <2>1 DEF CheckCooldownWriters, Locals
  <2>3. WritersOn(cursor[t]) = {}
    BY <2>1, <2>2, WritersFinite, FS_EmptySet DEF WritersCounted
  <2> QED
    BY <2>1, <2>2, <2>3 DEF WritersOn, Releasing, Cooled
<1>6. ASSUME NEW u \in Threads, lpc'[u] = "cool_cas"
      PROVE  stale'[cursor'[u]] = {} /\ {v \in Threads : lpc'[v] = "cd_release" /\ node'[v] = cursor'[u]} = {}
  <2>1. stale[cursor'[u]] = {} /\ Releasing(cursor'[u]) = {}
    <3>1. CASE u = t
      BY <1>5, <1>6, <3>1
    <3>2. CASE u # t
      BY <1>2, <1>6, <3>2 DEF Cooled
    <3> QED
      BY <3>1, <3>2
  <2>2. \A v \in Threads : lpc'[v] = "cd_release" => v # t /\ lpc[v] = "cd_release"
    BY <1>2
  <2> QED
    BY <1>1, <2>1, <2>2 DEF Releasing
<1>7. \A n \in Nodes : in_use'[n] # "NODE_COOLDOWN" =>
         stale'[n] = {} /\ {v \in Threads : lpc'[v] = "cd_release" /\ node'[v] = n} = {}
  <2>1. \A n \in Nodes : in_use'[n] # "NODE_COOLDOWN" => stale'[n] = {} /\ Releasing(n) = {}
    BY <1>1 DEF Cooled
  <2>2. \A v \in Threads : lpc'[v] = "cd_release" => lpc[v] = "cd_release" /\ node'[v] = node[v]
    BY <1>1, <1>2
  <2> QED
    BY <2>1, <2>2 DEF Releasing
<1> QED
  BY <1>4, <1>6, <1>7 DEF Cooled, Releasing

\* Steps that end a cooldown, claim or make a node, or leave one.
LEMMA ChangeCooled ==
    ASSUME ListInv, Cooled, NEW t \in Threads,
           CheckCooldownCas(t) \/ GetClaim(t) \/ GetAlloc(t) \/ GetPush(t) \/ ReleaseWriter(t)
    PROVE  Cooled'
<1> USE DEF ListInv, Shape, Enter, GetVisit
<1>1. /\ \A u \in Threads : u # t => lpc'[u] = lpc[u] /\ cursor'[u] = cursor[u] /\ node'[u] = node[u]
      /\ lpc'[t] \notin {"cd_release", "cool_cas"} /\ lpc[t] # "cd_release"
  BY DEF CheckCooldownCas, GetClaim, GetAlloc, GetPush, ReleaseWriter
<1>3. \A n \in Nodes : stale'[n] \subseteq stale[n]
  BY DEF CheckCooldownCas, GetClaim, GetAlloc, GetPush, ReleaseWriter
<1>4. \A n \in Nodes : t \notin stale'[n]
  <2>1. CASE ReleaseWriter(t)
    BY <2>1 DEF ReleaseWriter, Cooled, Locals
  <2>2. CASE ~ReleaseWriter(t)
    <3>1. lpc[t] # "visit"
      BY <2>2 DEF CheckCooldownCas, GetClaim, GetAlloc, GetPush
    <3> QED
      BY <1>3, <3>1 DEF Cooled
  <2> QED
    BY <2>1, <2>2
<1>5. \A n \in Nodes : \A u \in stale'[n] : lpc'[u] = "visit" /\ cursor'[u] = n
  BY <1>1, <1>3, <1>4 DEF Cooled
<1>6. \A n \in Nodes : in_use'[n] # "NODE_COOLDOWN" => stale[n] = {} /\ Releasing(n) = {}
  <2>1. CASE CheckCooldownCas(t)
    <3>1. /\ lpc[t] = "cool_cas" /\ cursor[t] \in Nodes
          /\ \A n \in Nodes : n # cursor[t] => in_use'[n] = in_use[n]
      BY <2>1 DEF CheckCooldownCas, Locals
    <3> QED
      BY <3>1 DEF Cooled
  <2>2. CASE ~CheckCooldownCas(t)
    <3>1. \A n \in Nodes : in_use'[n] # "NODE_COOLDOWN" => in_use[n] # "NODE_COOLDOWN"
      BY <2>2 DEF GetClaim, GetAlloc, GetPush, ReleaseWriter
    <3> QED
      BY <3>1 DEF Cooled
  <2> QED
    BY <2>1, <2>2
<1>7. \A u \in Threads : lpc[u] = "cool_cas" => cursor[u] \in Nodes
  BY DEF Locals
<1>8. ASSUME NEW u \in Threads, lpc'[u] = "cool_cas"
      PROVE  stale'[cursor'[u]] = {} /\ {v \in Threads : lpc'[v] = "cd_release" /\ node'[v] = cursor'[u]} = {}
  <2>1. u # t /\ lpc[u] = "cool_cas" /\ cursor'[u] = cursor[u] /\ cursor[u] \in Nodes
    BY <1>1, <1>7, <1>8
  <2>2. stale[cursor[u]] = {} /\ Releasing(cursor[u]) = {}
    BY <2>1 DEF Cooled
  <2>3. \A v \in Threads : lpc'[v] = "cd_release" => lpc[v] = "cd_release" /\ node'[v] = node[v]
    BY <1>1
  <2> QED
    BY <1>3, <2>1, <2>2, <2>3 DEF Releasing
<1>9. \A n \in Nodes : in_use'[n] # "NODE_COOLDOWN" =>
         stale'[n] = {} /\ {v \in Threads : lpc'[v] = "cd_release" /\ node'[v] = n} = {}
  <2>1. \A n \in Nodes : in_use'[n] # "NODE_COOLDOWN" => stale'[n] = {} /\ Releasing(n) = {}
    BY <1>3, <1>6
  <2>2. \A v \in Threads : lpc'[v] = "cd_release" => lpc[v] = "cd_release" /\ node'[v] = node[v]
    BY <1>1
  <2> QED
    BY <2>1, <2>2 DEF Releasing
<1> QED
  BY <1>5, <1>8, <1>9 DEF Cooled, Releasing

\* A cooldown starts: the writers that are on the node are visiting it.
LEMMA SwapCooled ==
    ASSUME ListInv, Cooled, NoCooldownRace, NEW t \in Threads, CooldownSwap(t)
    PROVE  Cooled'
<1> USE DEF ListInv, Shape, Enter
<1> DEFINE n == node[t]
<1>1. /\ n \in Nodes /\ lpc[t] = "cd_swap" /\ in_use[n] = "NODE_USED"
      /\ in_use' = [in_use EXCEPT ![n] = "NODE_COOLDOWN"]
      /\ stale' = [stale EXCEPT ![n] = WritersOn(n) \ {t}]
      /\ lpc' = [lpc EXCEPT ![t] = "cd_release"] /\ UNCHANGED <<node, cursor>>
  BY NodesFacts DEF CooldownSwap, Locals, ExclusiveOwnership, Owned
<1>2. ASSUME NEW u \in WritersOn(n), u # t
      PROVE  lpc[u] = "visit" /\ cursor[u] = n
  <2>1. ~(lpc[u] = "cd_release" /\ node[u] = n)
    BY <1>1 DEF Cooled, Releasing, WritersOn
  <2>2. ~(lpc[u] = "cd_swap" /\ node[u] = n)
    BY <1>1, <1>2, NodesFacts DEF ExclusiveOwnership, Owned, WritersOn
  <2> QED
    BY <2>1, <2>2 DEF WritersOn
<1>3. \A m : m # n => Releasing(m)' = Releasing(m)
  BY <1>1 DEF Releasing
<1>4. \A m \in Nodes : \A u \in stale'[m] : lpc'[u] = "visit" /\ cursor'[u] = m
  <2>1. \A m \in Nodes : \A u \in stale'[m] : u # t /\ u \in Threads
    BY <1>1 DEF Cooled, WritersOn
  <2>2. \A m \in Nodes : \A u \in stale'[m] : lpc[u] = "visit" /\ cursor[u] = m
    BY <1>1, <1>2 DEF Cooled
  <2> QED
    BY <1>1, <2>1, <2>2
<1>5. \A m \in Nodes : in_use'[m] # "NODE_COOLDOWN" => stale'[m] = {} /\ Releasing(m)' = {}
  BY <1>1, <1>3 DEF Cooled
<1>6. ASSUME NEW u \in Threads, lpc'[u] = "cool_cas"
      PROVE  stale'[cursor'[u]] = {} /\ Releasing(cursor[u])' = {}
  <2>1. u # t /\ lpc[u] = "cool_cas" /\ cursor[u] \in Nodes
    BY <1>1, <1>6 DEF Locals
  <2>2. cursor[u] # n
    BY <1>1, <2>1 DEF NoCooldownRace
  <2> QED
    BY <1>1, <1>3, <2>1, <2>2 DEF Cooled
<1> QED
  BY <1>1, <1>4, <1>5, <1>6 DEF Cooled

\* The owner lets go of the node that it has sent into cooldown.
LEMMA ReleaseCooled ==
    ASSUME ListInv, Cooled, NEW t \in Threads, CooldownRelease(t)
    PROVE  Cooled'
<1> USE DEF ListInv, Shape, Enter, CooldownRelease
<1>1. /\ \A u \in Threads : u # t => lpc'[u] = lpc[u] /\ node'[u] = node[u]
      /\ lpc[t] = "cd_release" /\ lpc'[t] = "off" /\ UNCHANGED <<in_use, stale, cursor>>
  OBVIOUS
<1>2. \A n : Releasing(n)' \subseteq Releasing(n)
  BY <1>1 DEF Releasing
<1>3. \A n \in Nodes : \A u \in stale'[n] : lpc'[u] = "visit" /\ cursor'[u] = n
  BY <1>1 DEF Cooled
<1> QED
  BY <1>1, <1>2, <1>3 DEF Cooled

\* Every step keeps the cooldown, short of the race.
LEMMA NextCooled ==
    ASSUME ListInv, WritersCounted, Cooled, NoCooldownRace, [ListNext]_listVars
    PROVE  Cooled'
<1>1. CASE UNCHANGED listVars
  BY <1>1 DEF listVars, Cooled, Releasing
<1>2. CASE ListNext
  BY <1>2, LookCooled, ChangeCooled, SwapCooled, ReleaseCooled DEF ListNext, GetStep
<1> QED
  BY <1>1, <1>2

\* A node leaves cooldown only when the writers that were on it have left, any
\* number of times, unless the race of check_cooldown happens: that a cooldown
\* starts again between the look at active_writers and the compare_exchange is
\* the only way to lose the protection.
THEOREM CooldownWaits == ListSpec /\ []NoCooldownRace => []CooldownWaitsForWriters
<1>1. ListInit => ListInv /\ WritersCounted /\ Cooled
  BY InitInv, InitCounted, InitCooled
<1>2. ListInv /\ WritersCounted /\ Cooled /\ NoCooldownRace /\ [ListNext]_listVars
        => (ListInv /\ WritersCounted /\ Cooled)'
  BY NextInv, NextCounted, NextCooled
<1>3. Cooled => CooldownWaitsForWriters
  BY DEF Cooled, CooldownWaitsForWriters
<1> QED
  BY <1>1, <1>2, <1>3, PTL DEF ListSpec
=============================================================================
