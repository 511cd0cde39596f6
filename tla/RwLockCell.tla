----------------------------- MODULE RwLockCell -----------------------------
(***************************************************************************)
(* Counting the references of the RwLock strategy, and how it implements   *)
(* the Cell.                                                               *)
(***************************************************************************)
EXTENDS RwLockStrategy

CONSTANTS
    Instance,       \* the instance there is
    NoInstance

ASSUME InstanceAssumption == Instance # NoInstance

One(b) == IF b THEN 1 ELSE 0

\* Thread t has a reference to what loc.ptr points to: it came out of the storage,
\* or was counted.
PtrCounted(t) ==
    \/ loc[t].kind \in {"store", "swap"}
    \/ at[t] \in {"rd_unlock", "cas_drop", "cas_unlock"}

\* Who has a reference to a inside a call: an argument until it is swapped in or
\* dropped, and a pointer with its reference.
ArgumentsOn(a) == {t \in Threads : loc[t].new = a}
PtrsOn(a) == {t \in Threads : PtrCounted(t) /\ loc[t].ptr = a}

\* The count that T manages is at every moment the number of Ts there are, in
\* the storage, with users and in calls; nobody holds one that was given back.
RefsExact ==
    \A a \in Addrs :
        refs[a] = One(storage = a) + held[a] + Cardinality(ArgumentsOn(a)) + Cardinality(PtrsOn(a))

-----------------------------------------------------------------------------
\* A T or an Arc is the same to the Cell.
HeldCount(a) == held[a] + arcs[a]

Decided(t) == ~Reading(t)

CallOf(t) ==
    LET none == Value(NULL)
        as(s, phase, saw, arg, base, res) ==
            [kind |-> loc[t].kind, s |-> s, phase |-> phase, seen |-> saw,
             arg |-> arg, base |-> base, res |-> res]
    IN  IF at[t] = "idle" THEN as(NoInstance, "none", {}, none, none, none)
        ELSE IF Decided(t) THEN as(Instance, "done", {}, none, none, Value(loc[t].ptr))
        ELSE as(Instance, IF loc[t].kind = "cas" THEN "ready" ELSE "open", seen[t],
                Value(loc[t].new), <<loc[t].cur, 0>>, none)

cellOf == [s \in {Instance} |-> Value(storage)]
heldOf ==
    [v \in {Value(a) : a \in {a \in Addrs : HeldCount(a) > 0}} |-> HeldCount(v[1])]
callOf == [t \in Threads |-> CallOf(t)]

C == INSTANCE Cell WITH
        Storages <- {Instance},
        NoStorage <- NoInstance,
        Nulls <- {NULL},
        cell <- cellOf,
        made <- stamp,
        held <- heldOf,
        call <- callOf

\* With the lock too, every call takes effect in one step and no address is used
\* again while a T, an Arc or a call refers to what lives there; a Weak that was
\* stored is the Weak that is loaded, also when its Arc is gone.
ImplementsCell == C!CellSpec
=============================================================================
