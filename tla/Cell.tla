-------------------------------- MODULE Cell --------------------------------
(***************************************************************************)
(* What an ArcSwapAny promises (the contract that src/strategy/mod.rs      *)
(* states for load, wait_for_readers and compare_and_swap): a cell with    *)
(* one value, read and replaced in one step each.  There are no debts,     *)
(* locks or reference counts here; what is left of the memory is that an   *)
(* address is not used for another Arc while somebody has the one that     *)
(* lives there.                                                            *)
(*                                                                         *)
(* A read happens at some moment between the call and the return, so the   *)
(* call collects what the cell holds meanwhile and returns one of those.   *)
(***************************************************************************)
EXTENDS Naturals, BagsExt, Bags

CONSTANTS Threads, Storages, Addrs, NULL, NoStorage, Dead, Nulls

VARIABLES
    cell,   \* the value in each instance
    made,   \* number of Arcs there have been at each address
    held,   \* bag of the values that users have, in guards or as Arcs
    call    \* the call each thread is in

cellVars == <<cell, made, held, call>>

\* An Arc is known by its address and by which one it is at that address.
None == <<NULL, 0>>
Gone == <<Dead, 0>>

\* A call: what it has seen of the cell while it reads, its argument, the value
\* it started from and its result.
CallAs(kind, s, phase, seen, arg, base, res) ==
    [kind |-> kind, s |-> s, phase |-> phase, seen |-> seen, arg |-> arg, base |-> base,
     res |-> res]
NoCall == CallAs("none", NoStorage, "none", {}, None, None, None)

\* Users have it, or an instance, or a call that has not returned.  The raw
\* pointer compare_and_swap is called with keeps nothing alive.
InUse(v) ==
    \/ \E s \in Storages : cell[s] = v
    \/ BagIn(v, held)
    \/ \E t \in Threads : v \in {call[t].arg, call[t].res}
    \/ \E t \in Threads : call[t].kind = "rcu" /\ call[t].base = v

Fresh(a) == <<a, made[a] + 1>>

\* A value that a user passes: a new Arc where no Arc is in use, a clone (the
\* closure of rcu may clone what it is given), or None.
Passes(v) ==
    \/ \E a \in Addrs : /\ v = Fresh(a)
                        /\ ~InUse(<<a, made[a]>>)
                        /\ made' = [made EXCEPT ![a] = @ + 1]
    \/ /\ BagIn(v, held) \/ \E t \in Threads : call[t].phase = "read" /\ call[t].base = v
       /\ v # None
       /\ UNCHANGED made
    \/ v[1] \in Nulls /\ v = None /\ UNCHANGED made

Passable == {Fresh(a) : a \in Addrs} \cup {<<a, made[a]>> : a \in Addrs} \cup {None}

Gives(v) == held' = IF v = None THEN held ELSE BagAdd(held, v)

Usable(s) ==
    /\ cell[s] # Gone
    /\ \A t \in Threads : call[t].s = s => call[t].kind \notin {"drop", "into_inner"}
Unshared(s) == \A t \in Threads : call[t].s # s

Begins(t, kind, s, phase) ==
    /\ call[t] = NoCall
    /\ call' = [call EXCEPT ![t] = CallAs(kind, s, phase, {cell[s]}, None, None, None)]
    /\ Usable(s)

\* The call is decided: nothing but its result is left of it.
Decided(c, v) == CallAs(c.kind, c.s, "done", {}, None, None, v)

\* v replaces the value of s: every call that is reading s sees it.
Replace(t, c, s, v) ==
    /\ cell' = [cell EXCEPT ![s] = v]
    /\ call' = [u \in Threads |->
                   IF u = t THEN Decided(c, cell[s])
                   ELSE IF call[u].s = s /\ call[u].seen # {}
                        THEN [call[u] EXCEPT !.seen = @ \cup {v}]
                        ELSE call[u]]

-----------------------------------------------------------------------------
CellInit ==
    /\ held = EmptyBag
    /\ call = [t \in Threads |-> NoCall]
    /\ \A s \in Storages : cell[s] \in {<<a, made[a]>> : a \in Addrs}
    /\ \A a \in Addrs : made[a] = IF InUse(<<a, 1>>) THEN 1 ELSE 0

Read(t) ==
    \/ \E kind \in {"load", "load_full"}, s \in Storages :
          Begins(t, kind, s, "open") /\ UNCHANGED <<cell, made, held>>
    \/ /\ call[t].kind \in {"load", "load_full"}
       /\ \E v \in call[t].seen : call' = [call EXCEPT ![t] = Decided(@, v)]
       /\ UNCHANGED <<cell, made, held>>

Swap(t) ==
    \E kind \in {"store", "swap"}, s \in Storages, v \in Passable :
        /\ call[t] = NoCall
        /\ Replace(t, [kind |-> kind, s |-> s], s, v)
        /\ Usable(s)
        /\ Passes(v)
        /\ UNCHANGED held

\* compare_and_swap goes by the address alone, also of an Arc long gone.
Cas(t) ==
    \/ \E s \in Storages, v \in Passable, p \in Addrs \cup {NULL} :
          /\ call[t] = NoCall
          /\ call' = [call EXCEPT ![t] =
                        CallAs("cas", s, "ready", {cell[s]}, v, <<p, 0>>, None)]
          /\ Usable(s)
          /\ Passes(v)
          /\ UNCHANGED <<cell, held>>
    \/ /\ call[t].kind = "cas" /\ call[t].phase = "ready"
       /\ cell[call[t].s][1] = call[t].base[1]
       /\ Replace(t, call[t], call[t].s, call[t].arg)
       /\ UNCHANGED <<made, held>>
    \/ /\ call[t].kind = "cas"
       /\ \E v \in call[t].seen : /\ v[1] # call[t].base[1]
                                  /\ call' = [call EXCEPT ![t] = Decided(@, v)]
       /\ UNCHANGED <<cell, made, held>>

\* rcu replaces just the Arc its new value was computed from.  If another one is
\* there it computes a new value from that one.
Rcu(t) ==
    \/ \E s \in Storages : Begins(t, "rcu", s, "open") /\ UNCHANGED <<cell, made, held>>
    \/ /\ call[t].kind = "rcu" /\ call[t].phase \in {"open", "ready"}
       /\ \E v \in call[t].seen :
             /\ call[t].phase = "ready" => v # call[t].base
             /\ call' = [call EXCEPT ![t].phase = "read", ![t].base = v, ![t].arg = None]
       /\ UNCHANGED <<cell, made, held>>
    \/ /\ call[t].kind = "rcu" /\ call[t].phase = "read"
       /\ \E v \in Passable : /\ call' = [call EXCEPT ![t].phase = "ready", ![t].arg = v]
                              /\ Passes(v)
       /\ UNCHANGED <<cell, held>>
    \/ /\ call[t].kind = "rcu" /\ call[t].phase = "ready"
       /\ cell[call[t].s] = call[t].base
       /\ Replace(t, call[t], call[t].s, call[t].arg)
       /\ UNCHANGED <<made, held>>

\* drop and into_inner.
Destroy(t) ==
    \E kind \in {"drop", "into_inner"}, s \in Storages :
        /\ call[t] = NoCall
        /\ cell[s] # Gone
        /\ Unshared(s)
        /\ call' = [call EXCEPT ![t] = Decided([kind |-> kind, s |-> s], cell[s])]
        /\ UNCHANGED <<cell, made, held>>

\* The call returns; store and drop keep nothing.
Return(t) ==
    /\ call[t].phase = "done"
    /\ call' = [call EXCEPT ![t] = NoCall]
    /\ IF call[t].kind \in {"store", "drop"} THEN UNCHANGED held ELSE Gives(call[t].res)
    /\ cell' = IF call[t].kind \in {"drop", "into_inner"}
               THEN [cell EXCEPT ![call[t].s] = Gone] ELSE cell
    /\ UNCHANGED made

New ==
    \E s \in Storages, v \in Passable :
        /\ cell[s] = Gone
        /\ cell' = [cell EXCEPT ![s] = v]
        /\ Passes(v)
        /\ UNCHANGED <<held, call>>

\* A user drops a guard or an Arc, clones one, or makes one and keeps it.
Users ==
    \/ \E v \in BagToSet(held) :
          /\ held' \in {BagRemove(held, v), BagAdd(held, v)}
          /\ UNCHANGED <<cell, made, call>>
    \/ \E a \in Addrs :
          /\ ~InUse(<<a, made[a]>>)
          /\ made' = [made EXCEPT ![a] = @ + 1]
          /\ held' = BagAdd(held, Fresh(a))
          /\ UNCHANGED <<cell, call>>

\* Every step of the cell changes something.
CellNext ==
    /\ cellVars' # cellVars
    /\ \/ \E t \in Threads :
             Read(t) \/ Swap(t) \/ Cas(t) \/ Rcu(t) \/ Destroy(t) \/ Return(t)
       \/ New
       \/ Users

CellSpec == CellInit /\ [][CellNext]_cellVars
=============================================================================
