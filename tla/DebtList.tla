------------------------------ MODULE DebtList ------------------------------
(***************************************************************************)
(* The global list of debt nodes (src/debt/list.rs).                       *)
(*                                                                         *)
(* Every thread that touches an ArcSwap owns one node.  Nodes are leaked   *)
(* boxes, pushed in front of LIST_HEAD and never unlinked; a thread that   *)
(* ends (or whose generation counter overflows) sends its node into        *)
(* cooldown, from which another thread may claim it once no writer is      *)
(* poking into it.  Writers walk the whole list and announce themselves on *)
(* each node they visit with a NodeReservation.                            *)
(*                                                                         *)
(* One step is one atomic access.  Accesses are sequentially consistent.   *)
(***************************************************************************)
EXTENDS Integers, Sequences, FiniteSets

CONSTANTS
    Threads,        \* threads; after its exit an identifier is a new thread
    MaxNodes,       \* bound: how many node boxes can be allocated
    MaxCooldowns,   \* bound: how many times a node is sent into cooldown
    InitOwners      \* owners of the nodes linked at the start, oldest first

Nodes == 1 .. MaxNodes
NoNode == 0

ASSUME BoundsAssumption == MaxNodes \in Nat /\ MaxCooldowns \in Nat
ASSUME ThreadsAssumption == IsFiniteSet(Threads)

ASSUME InitOwnersAssumption ==
    /\ InitOwners \in Seq(Threads)
    /\ Len(InitOwners) <= MaxNodes
    /\ \A i, j \in 1 .. Len(InitOwners) : InitOwners[i] = InitOwners[j] => i = j

VARIABLES
    LIST_HEAD,      \* newest linked node
    next,           \* Node.next
    in_use,         \* Node.in_use; "FREE" is a box not allocated yet
    active_writers, \* Node.active_writers
    node,           \* LocalNode.node of each thread
    lpc,            \* where each thread is in the code of this module
    cursor,         \* node a traversal is at, or the head a push has read
    boxed,          \* the box a thread in Node::get has leaked, not linked yet
    cooldowns,      \* number of start_cooldown calls so far
    stale           \* history: writers on a node since before its cooldown

listVars == <<LIST_HEAD, next, in_use, active_writers, node, lpc, cursor,
              boxed, cooldowns, stale>>

InUse == {"FREE", "NODE_UNUSED", "NODE_USED", "NODE_COOLDOWN"}

ListLabels == {"off", "cool_load", "cool_writers", "cool_cas", "claim", "alloc",
               "push", "reserve", "visit", "cd_swap", "cd_release"}

ListTypeOK ==
    /\ LIST_HEAD \in Nodes \cup {NoNode}
    /\ next \in [Nodes -> Nodes \cup {NoNode}]
    /\ in_use \in [Nodes -> InUse]
    /\ active_writers \in [Nodes -> Nat]
    /\ node \in [Threads -> Nodes \cup {NoNode}]
    /\ lpc \in [Threads -> ListLabels]
    /\ cursor \in [Threads -> Nodes \cup {NoNode}]
    /\ boxed \in [Threads -> Nodes \cup {NoNode}]
    /\ cooldowns \in Nat
    /\ stale \in [Nodes -> SUBSET Threads]

-----------------------------------------------------------------------------
(* The list as it is once InitOwners have claimed a node each, in order.     *)
ListInit ==
    LET linked == 1 .. Len(InitOwners)
    IN  /\ LIST_HEAD = Len(InitOwners)
        /\ next = [n \in Nodes |-> IF n \in linked THEN n - 1 ELSE NoNode]
        /\ in_use = [n \in Nodes |-> IF n \in linked THEN "NODE_USED" ELSE "FREE"]
        /\ active_writers = [n \in Nodes |-> 0]
        /\ node = [t \in Threads |->
                     IF \E n \in linked : InitOwners[n] = t
                     THEN CHOOSE n \in linked : InitOwners[n] = t
                     ELSE NoNode]
        /\ lpc = [t \in Threads |-> "off"]
        /\ cursor = [t \in Threads |-> NoNode]
        /\ boxed = [t \in Threads |-> NoNode]
        /\ cooldowns = 0
        /\ stale = [n \in Nodes |-> {}]

Enter(t, label) == lpc' = [lpc EXCEPT ![t] = label]

-----------------------------------------------------------------------------
(* Node::get: reuse an unused node of the chain, or push a new one.          *)

\* The traversal goes to node n; past the last node it found nothing to reuse.
GetVisit(t, n) ==
    /\ cursor' = [cursor EXCEPT ![t] = n]
    /\ Enter(t, IF n = NoNode THEN "alloc" ELSE "cool_load")

\* LocalNode::with finds no node and calls Node::get, which loads the head.
GetStart(t) ==
    /\ lpc[t] = "off"
    /\ node[t] = NoNode
    /\ GetVisit(t, LIST_HEAD)
    /\ UNCHANGED <<LIST_HEAD, next, in_use, active_writers, node, boxed, cooldowns, stale>>

\* check_cooldown: first look at in_use.
CheckCooldownLoad(t) ==
    /\ lpc[t] = "cool_load"
    /\ Enter(t, IF in_use[cursor[t]] = "NODE_COOLDOWN" THEN "cool_writers" ELSE "claim")
    /\ UNCHANGED <<LIST_HEAD, next, in_use, active_writers, node, cursor, boxed,
                   cooldowns, stale>>

\* Mutant: the count of writers is not looked at.
CheckCooldownWritersSkipped(t) ==
    /\ lpc[t] = "cool_writers"
    /\ Enter(t, "cool_cas")
    /\ UNCHANGED <<LIST_HEAD, next, in_use, active_writers, node, cursor, boxed,
                   cooldowns, stale>>

\* check_cooldown: then at the count of writers.
CheckCooldownWriters(t) ==
    /\ lpc[t] = "cool_writers"
    /\ Enter(t, IF active_writers[cursor[t]] = 0 THEN "cool_cas" ELSE "claim")
    /\ UNCHANGED <<LIST_HEAD, next, in_use, active_writers, node, cursor, boxed,
                   cooldowns, stale>>

\* Mutant: a plain store in the place of the compare_exchange.
CheckCooldownStore(t) ==
    /\ lpc[t] = "cool_cas"
    /\ in_use' = [in_use EXCEPT ![cursor[t]] = "NODE_UNUSED"]
    /\ Enter(t, "claim")
    /\ UNCHANGED <<LIST_HEAD, next, active_writers, node, cursor, boxed, cooldowns, stale>>

\* check_cooldown: the compare_exchange, whose failure is ignored.
CheckCooldownCas(t) ==
    /\ lpc[t] = "cool_cas"
    /\ in_use' = [in_use EXCEPT ![cursor[t]] =
                    IF @ = "NODE_COOLDOWN" THEN "NODE_UNUSED" ELSE @]
    /\ Enter(t, "claim")
    /\ UNCHANGED <<LIST_HEAD, next, active_writers, node, cursor, boxed, cooldowns, stale>>

\* The compare_exchange that claims the node, or the next step of the traversal.
GetClaim(t) ==
    LET n == cursor[t]
    IN  /\ lpc[t] = "claim"
        /\ \/ /\ in_use[n] = "NODE_UNUSED"
              /\ in_use' = [in_use EXCEPT ![n] = "NODE_USED"]
              /\ node' = [node EXCEPT ![t] = n]
              /\ cursor' = [cursor EXCEPT ![t] = NoNode]
              /\ Enter(t, "off")
           \/ /\ in_use[n] # "NODE_UNUSED"
              /\ GetVisit(t, next[n])
              /\ UNCHANGED <<in_use, node>>
        /\ UNCHANGED <<LIST_HEAD, next, active_writers, boxed, cooldowns, stale>>

\* Box::leak of a default node (born NODE_USED), then the first read of the head.
GetAlloc(t) ==
    /\ lpc[t] = "alloc"
    /\ \E n \in Nodes :
          /\ in_use[n] = "FREE"
          /\ \A m \in Nodes : in_use[m] = "FREE" => n <= m
          /\ in_use' = [in_use EXCEPT ![n] = "NODE_USED"]
          /\ boxed' = [boxed EXCEPT ![t] = n]
    /\ cursor' = [cursor EXCEPT ![t] = LIST_HEAD]
    /\ Enter(t, "push")
    /\ UNCHANGED <<LIST_HEAD, next, active_writers, node, cooldowns, stale>>

\* Mutant: the new head is stored without looking whether the old one changed.
GetPushStore(t) ==
    LET n == boxed[t]
    IN  /\ lpc[t] = "push"
        /\ next' = [next EXCEPT ![n] = cursor[t]]
        /\ LIST_HEAD' = n
        /\ node' = [node EXCEPT ![t] = n]
        /\ boxed' = [boxed EXCEPT ![t] = NoNode]
        /\ cursor' = [cursor EXCEPT ![t] = NoNode]
        /\ Enter(t, "off")
        /\ UNCHANGED <<in_use, active_writers, cooldowns, stale>>

\* One round of the push loop: link behind the head read last, compare_exchange.
\* (A spurious failure of the weak compare_exchange changes nothing.)
GetPush(t) ==
    LET n == boxed[t]
    IN  /\ lpc[t] = "push"
        /\ next' = [next EXCEPT ![n] = cursor[t]]
        /\ \/ /\ LIST_HEAD = cursor[t]
              /\ LIST_HEAD' = n
              /\ node' = [node EXCEPT ![t] = n]
              /\ boxed' = [boxed EXCEPT ![t] = NoNode]
              /\ cursor' = [cursor EXCEPT ![t] = NoNode]
              /\ Enter(t, "off")
           \/ /\ LIST_HEAD # cursor[t]
              /\ cursor' = [cursor EXCEPT ![t] = LIST_HEAD]
              /\ UNCHANGED <<LIST_HEAD, node, boxed, lpc>>
        /\ UNCHANGED <<in_use, active_writers, cooldowns, stale>>

GetStep(t) ==
    \/ GetStart(t)
    \/ CheckCooldownLoad(t)
    \/ CheckCooldownWriters(t)
    \/ CheckCooldownCas(t)
    \/ GetClaim(t)
    \/ GetAlloc(t)
    \/ GetPush(t)

-----------------------------------------------------------------------------
(* Node::traverse as a writer uses it (Debt::pay_all).                       *)

\* Load the head; the list has at least the writer's own node.
TraverseStart(t) ==
    /\ lpc[t] = "off"
    /\ node[t] # NoNode
    /\ cursor' = [cursor EXCEPT ![t] = LIST_HEAD]
    /\ Enter(t, "reserve")
    /\ UNCHANGED <<LIST_HEAD, next, in_use, active_writers, node, boxed, cooldowns, stale>>

\* reserve_writer on the node the traversal is at.
ReserveWriter(t) ==
    /\ lpc[t] = "reserve"
    /\ active_writers' = [active_writers EXCEPT ![cursor[t]] = @ + 1]
    /\ Enter(t, "visit")
    /\ UNCHANGED <<LIST_HEAD, next, in_use, node, cursor, boxed, cooldowns, stale>>

\* Drop of the NodeReservation at the end of the closure, then on to node.next.
ReleaseWriter(t) ==
    LET n == cursor[t]
    IN  /\ lpc[t] = "visit"
        /\ active_writers' = [active_writers EXCEPT ![n] = @ - 1]
        /\ stale' = [stale EXCEPT ![n] = @ \ {t}]
        /\ cursor' = [cursor EXCEPT ![t] = next[n]]
        /\ Enter(t, IF next[n] = NoNode THEN "off" ELSE "reserve")
        /\ UNCHANGED <<LIST_HEAD, next, in_use, node, boxed, cooldowns>>

-----------------------------------------------------------------------------
(* start_cooldown, called by the drop of LocalNode at the end of a thread    *)
(* and when the generation counter of the helping slot overflows.            *)

\* Writers with a reservation on n.
WritersOn(n) ==
    {t \in Threads : \/ lpc[t] = "visit" /\ cursor[t] = n
                     \/ lpc[t] \in {"cd_swap", "cd_release"} /\ node[t] = n}

\* Mutant: no reservation is taken.
CooldownUnreserved(t) ==
    /\ node[t] # NoNode
    /\ cooldowns < MaxCooldowns
    /\ cooldowns' = cooldowns + 1
    /\ Enter(t, "cd_swap")
    /\ UNCHANGED <<LIST_HEAD, next, in_use, active_writers, node, cursor, boxed, stale>>

\* The owner takes a reservation of its own node first.
CooldownReserve(t) ==
    /\ node[t] # NoNode
    /\ cooldowns < MaxCooldowns
    /\ cooldowns' = cooldowns + 1
    /\ active_writers' = [active_writers EXCEPT ![node[t]] = @ + 1]
    /\ Enter(t, "cd_swap")
    /\ UNCHANGED <<LIST_HEAD, next, in_use, node, cursor, boxed, stale>>

CooldownSwap(t) ==
    LET n == node[t]
    IN  /\ lpc[t] = "cd_swap"
        /\ in_use' = [in_use EXCEPT ![n] = "NODE_COOLDOWN"]
        /\ stale' = [stale EXCEPT ![n] = WritersOn(n) \ {t}]
        /\ Enter(t, "cd_release")
        /\ UNCHANGED <<LIST_HEAD, next, active_writers, node, cursor, boxed, cooldowns>>

\* Mutant: the reservation is forgotten.
CooldownKeepsReservation(t) ==
    /\ lpc[t] = "cd_release"
    /\ node' = [node EXCEPT ![t] = NoNode]
    /\ Enter(t, "off")
    /\ UNCHANGED <<LIST_HEAD, next, in_use, active_writers, cursor, boxed, cooldowns, stale>>

\* The reservation is dropped and the thread forgets the node.
CooldownRelease(t) ==
    /\ lpc[t] = "cd_release"
    /\ active_writers' = [active_writers EXCEPT ![node[t]] = @ - 1]
    /\ node' = [node EXCEPT ![t] = NoNode]
    /\ Enter(t, "off")
    /\ UNCHANGED <<LIST_HEAD, next, in_use, cursor, boxed, cooldowns, stale>>

\* Drop of the thread-local LocalNode: the thread is between two operations.
ThreadExit(t) == lpc[t] = "off" /\ CooldownReserve(t)

-----------------------------------------------------------------------------
ListNext ==
    \E t \in Threads :
        \/ GetStep(t)
        \/ TraverseStart(t)
        \/ ReserveWriter(t)
        \/ ReleaseWriter(t)
        \/ ThreadExit(t)
        \/ CooldownSwap(t)
        \/ CooldownRelease(t)

ListSpec == ListInit /\ [][ListNext]_listVars

-----------------------------------------------------------------------------
(* Properties.                                                               *)

\* The node a thread may use: between the swap of in_use and the end of
\* start_cooldown the thread still names the node but no longer owns it.
Owned(t) == IF lpc[t] = "cd_release" THEN NoNode ELSE node[t]

\* A node belongs to at most one thread at a time, whether linked or still in
\* the hands of the thread that allocated it, and stays NODE_USED as long as
\* it does (claiming by compare_exchange in Node::get, the debug_asserts on
\* in_use in LocalNode).
ExclusiveOwnership ==
    /\ \A t \in Threads : Owned(t) # NoNode => in_use[Owned(t)] = "NODE_USED"
    /\ \A t \in Threads : boxed[t] # NoNode => in_use[boxed[t]] = "NODE_USED"
    /\ \A t, u \in Threads :
          /\ t # u /\ Owned(t) # NoNode => Owned(t) # Owned(u)
          /\ t # u /\ boxed[t] # NoNode => boxed[t] # boxed[u]
          /\ Owned(t) # NoNode => Owned(t) # boxed[u]

\* The nodes from n on: those in every set that n leads into and no link leads
\* out of.
Chain(links, n) ==
    LET into == {S \in SUBSET Nodes : /\ n \in S \cup {NoNode}
                                      /\ \A k \in S : links[k] \in S \cup {NoNode}}
    IN  {m \in Nodes : \A S \in into : m \in S}
ChainFrom(n) == Chain(next, n)

\* Every node some thread owns can be reached from LIST_HEAD, and a chain ends:
\* a writer that loads the head now will visit it (the push loop of Node::get,
\* concurrent pushes and claims included).
OwnedNodesLinked ==
    LET chain == ChainFrom(LIST_HEAD)
    IN  /\ \A t \in Threads : node[t] # NoNode => node[t] \in chain
        /\ \A n \in chain : n \notin ChainFrom(next[n])

\* active_writers counts exactly the reservations that are held.
WritersCounted ==
    \A n \in Nodes : active_writers[n] = Cardinality(WritersOn(n))

\* A linked node never leaves the chain and never gets another successor, so
\* the traversal of a writer cannot skip nodes that were there when it began.
ListOnlyGrows ==
    [][/\ ChainFrom(LIST_HEAD) \subseteq ChainFrom(LIST_HEAD)'
       /\ \A n \in ChainFrom(LIST_HEAD) : next'[n] = next[n]]_listVars

\* A node leaves cooldown only after every writer that was on it when the
\* cooldown started has left it (the ABA protection of helping.rs).
CooldownWaitsForWriters ==
    \A n \in Nodes : in_use[n] \in {"NODE_UNUSED", "NODE_USED"} => stale[n] = {}
=============================================================================
