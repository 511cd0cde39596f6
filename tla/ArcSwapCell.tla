----------------------------- MODULE ArcSwapCell -----------------------------
(***************************************************************************)
(* ArcSwapAny with the default strategy implements the Cell: a debt is as  *)
(* good as a reference, and each call takes effect in one step.            *)
(***************************************************************************)
EXTENDS ArcSwap

\* What is on its way from a guard to an Arc is still with the user.
HeldCount(a) ==
      owned[a]
    + GuardsOn(a)
    + Cardinality({t \in Threads : op[t].kind = "guard_into_inner" /\ ld[t].ptr = a})

\* The writer has swapped, the reader has its value, the instance has been
\* taken over.  A debt in in_* that is not in the helping slot is that of a
\* result, which load_full and rcu turn into a reference.
ResultOut(t) == pc[t] \in IntoInnerLabels /\ ld[t].debt[2] # HelpingSlot
Decided(t) ==
    \/ op[t].kind \in {"store", "swap", "drop", "into_inner", "rcu_done"}
    \/ op[t].kind \in {"load", "load_full"} /\ (pc[t] = "ret" \/ ResultOut(t))
    \/ InCas(t) /\ (Waiting(t) \/ InHelp(t) \/ pc[t] = "cas_dec")
    \/ op[t].kind = "cas" /\ pc[t] = "cas_drop_new"
    \/ op[t].kind = "rcu" /\ ResultOut(t)

Result(t) ==
    IF op[t].kind = "rcu_done" THEN op[t].new
    ELSE IF op[t].kind \in {"load", "load_full"} \/ (op[t].kind = "rcu" /\ ~Waiting(t) /\ ResultOut(t))
         THEN ld[t].ptr
         ELSE wr[t].old

InRcu(t) == op[t].kind \in {"rcu_load", "rcu", "rcu_retry", "rcu_done"}
Phase(t) ==
    IF Decided(t) THEN "done"
    ELSE IF InCas(t) THEN "ready"
    ELSE IF op[t].kind = "rcu_retry" \/ pc[t] = "rcu_f" THEN "read"
    ELSE "open"

CallOf(t) ==
    LET c == [kind |-> IF InRcu(t) THEN "rcu" ELSE op[t].kind, s |-> op[t].s,
              phase |-> Phase(t), seen |-> {}, arg |-> Value(NULL), base |-> Value(NULL),
              res |-> Value(NULL)]
    IN  IF op[t].s = NoStorage
        THEN [c EXCEPT !.kind = "none", !.phase = "none"]
        ELSE IF Decided(t) THEN [c EXCEPT !.res = Value(Result(t))]
        ELSE [c EXCEPT !.seen = seen[t],
                       !.arg = Value(op[t].new),
                       !.base = IF op[t].kind = "cas" THEN <<op[t].cur, 0>>
                                ELSE Value(op[t].cur)]

C == INSTANCE Cell WITH
        cell <- [s \in Storages |-> Value(storage[s])],
        made <- stamp,
        held <- [v \in {Value(a) : a \in {a \in Addrs : HeldCount(a) > 0}} |-> HeldCount(v[1])],
        call <- [t \in Threads |-> CallOf(t)]

\* Every interleaving of the steps of loads, stores, swaps, compare_and_swaps,
\* rcus, destructions and drops is one of whole calls on a cell with one value:
\* what a load returns was there during the call, swap returns what it has
\* replaced, compare_and_swap replaces what it was told to, rcu just the Arc it
\* computed from (although it goes by the address), and no address is used
\* again while a user, an instance or a call has the Arc that lives there.
ImplementsCell == C!CellSpec
=============================================================================
