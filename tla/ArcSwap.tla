------------------------------- MODULE ArcSwap -------------------------------
(***************************************************************************)
(* ArcSwapAny with the default strategy (src/lib.rs on top of              *)
(* src/strategy/hybrid.rs and src/debt): threads call load, load_full,     *)
(* store, swap, compare_and_swap, into_inner and drop on shared instances, *)
(* drop the guards and Arcs they got in any thread, end and start again.   *)
(***************************************************************************)
EXTENDS Hybrid

CONSTANTS
    Kinds,          \* the calls each thread makes; "exit" if it may end
    MaxOps,         \* bound: number of calls of each thread
    MaxStamp,       \* bound: number of Arcs allocated at one address
    InitGeneration, \* generation counters at the start
    InitStorage,    \* what the instances hold at the start
    Nulls,          \* {NULL} for ArcSwapOption, {} for ArcSwap
    FairThreads     \* threads that LiveSpec assumes to be scheduled

ApiKinds == {"load", "load_full", "store", "swap", "cas", "rcu", "drop", "into_inner", "new",
             "guard_drop", "guard_into_inner", "guard_from_inner", "drop_arc", "exit"}

ASSUME ApiAssumption ==
    /\ IsFiniteSet(Storages)
    /\ Kinds \in [Threads -> SUBSET ApiKinds]
    /\ MaxOps \in [Threads -> Nat]
    /\ MaxStamp \in Nat \ {0}
    /\ InitGeneration \in [Threads -> Generations]
    /\ InitStorage \in [Storages -> Addrs]
    /\ \A s, z \in Storages : InitStorage[s] = InitStorage[z] => s = z
    /\ Nulls \subseteq {NULL}
    /\ LateThreads \subseteq Threads
    /\ \A t \in LateThreads : Kinds[t] \subseteq {"load", "load_full", "guard_drop", "drop_arc"}
    /\ FairThreads \subseteq Threads

VARIABLES
    budget,     \* calls each thread has left
    stamp,      \* history: which Arc lives at an address, counted from 1
    seen        \* history: values the storage had during each thread's load

vars == <<listVars, debtVars, storage, guards, owned, budget, stamp, seen>>

\* The identity of the Arc behind a pointer.
Value(p) == IF p \in Addrs THEN <<p, stamp[p]>> ELSE <<p, 0>>
Values == (Addrs \X (1 .. MaxStamp)) \cup {<<NULL, 0>>}

TypeOK ==
    /\ ListTypeOK
    /\ DebtTypeOK
    /\ HybridTypeOK
    /\ budget \in [Threads -> Nat]
    /\ stamp \in [Addrs -> 0 .. MaxStamp]
    /\ seen \in [Threads -> SUBSET Values]

Init ==
    /\ ListInit
    /\ DebtInit
    /\ pc = [t \in Threads |-> "idle"]
    /\ generation = InitGeneration
    /\ guards = EmptyBag
    /\ owned = [a \in Addrs |-> 0]
    /\ budget = MaxOps
    /\ seen = [t \in Threads |-> {}]
    /\ storage = InitStorage
    /\ strong = [a \in Addrs |-> IF \E s \in Storages : storage[s] = a THEN 1 ELSE 0]
    /\ stamp = strong

-----------------------------------------------------------------------------
(* Calls.                                                                    *)

\* Thread t is between two calls and makes one of this kind.
Invoke(t, kind) ==
    /\ pc[t] = "idle"
    /\ lpc[t] = "off"
    /\ kind \in Kinds[t]
    /\ budget[t] > 0
    /\ budget' = [budget EXCEPT ![t] = @ - 1]

Enters(t, kind, s, new, cur) == op' = [op EXCEPT ![t] = Operation(kind, s, new, cur)]

\* The Arcs users can clone; the closure of rcu has the one it is called with.
Held == {a \in Addrs : \/ owned[a] > 0
                       \/ \E g \in BagToSet(guards) : g.ptr = a
                       \/ \E t \in Threads : pc[t] = "rcu_f" /\ op[t].cur = a}

\* An argument of type T: a new Arc in free memory, a clone, or None.
Argument(p) ==
    \/ /\ p \in Addrs
       /\ strong[p] = 0
       /\ stamp[p] < MaxStamp
       /\ strong' = Inc(strong, p)
       /\ stamp' = [stamp EXCEPT ![p] = @ + 1]
    \/ /\ p \in Held
       /\ strong' = Inc(strong, p)
       /\ UNCHANGED stamp
    \/ /\ p \in Nulls
       /\ UNCHANGED <<strong, stamp>>

\* Nobody borrows s; nobody has taken it over to destroy it.
Exclusive(s) == \A t \in Threads : op[t].s # s
Shared(s) ==
    /\ storage[s] # Dead
    /\ \A t \in Threads : op[t].s = s => op[t].kind \notin {"drop", "into_inner"}

CallLoad(t) ==
    \E kind \in {"load", "load_full"}, s \in Storages :
        /\ Shared(s)
        /\ Invoke(t, kind)
        /\ Enters(t, kind, s, NULL, NULL)
        /\ BeginLoad(t)
        /\ UNCHANGED <<listVars, strong, slots, helpVars, localVars, wr, storage, guards, owned, stamp>>

\* swap, alone or in store: the argument is swapped in, wait_for_readers follows.
CallSwap(t) ==
    \E kind \in {"store", "swap"}, s \in Storages, new \in Ptrs :
        /\ Shared(s)
        /\ Invoke(t, kind)
        /\ Argument(new)
        /\ Enters(t, kind, s, NULL, NULL)
        /\ storage' = [storage EXCEPT ![s] = new]
        /\ wr' = [wr EXCEPT ![t].old = storage[s]]
        /\ Goto(t, "pa_inc")
        /\ UNCHANGED <<listVars, slots, helpVars, localVars, ld, guards, owned>>

\* compare_and_swap with the address `cur`, a raw pointer or that of an Arc.
CallCas(t) ==
    \E s \in Storages, new, cur \in Ptrs :
        /\ Shared(s)
        /\ Invoke(t, "cas")
        /\ Argument(new)
        /\ Enters(t, "cas", s, new, cur)
        /\ BeginLoad(t)
        /\ UNCHANGED <<listVars, slots, helpVars, localVars, wr, storage, guards, owned>>

\* rcu begins with a load.
CallRcu(t) ==
    \E s \in Storages :
        /\ Shared(s)
        /\ Invoke(t, "rcu")
        /\ Enters(t, "rcu_load", s, NULL, NULL)
        /\ BeginLoad(t)
        /\ UNCHANGED <<listVars, strong, slots, helpVars, localVars, wr, storage, guards, owned, stamp>>

\* The closure of rcu makes a new value out of `cur`; compare_and_swap follows.
RcuApply(t) ==
    \E new \in Ptrs :
        /\ pc[t] = "rcu_f"
        /\ Argument(new)
        /\ op' = [op EXCEPT ![t].kind = "rcu", ![t].new = new]
        /\ BeginLoad(t)
        /\ UNCHANGED <<listVars, slots, helpVars, localVars, wr, storage, guards, owned, budget>>

\* Mutant: the debts on the value of the instance are not paid.
CallDestroyAtOnce(t) ==
    \E kind \in {"drop", "into_inner"}, s \in Storages :
        /\ storage[s] # Dead
        /\ Exclusive(s)
        /\ Invoke(t, kind)
        /\ Enters(t, kind, s, NULL, NULL)
        /\ wr' = [wr EXCEPT ![t].old = storage[s]]
        /\ Goto(t, "old_dec")
        /\ UNCHANGED <<listVars, strong, slots, helpVars, localVars, ld, storage, guards, owned, stamp>>

\* Drop and into_inner have the instance for themselves and leave the pointer
\* where it is until wait_for_readers has returned.
CallDestroy(t) ==
    \E kind \in {"drop", "into_inner"}, s \in Storages :
        /\ storage[s] # Dead
        /\ Exclusive(s)
        /\ Invoke(t, kind)
        /\ Enters(t, kind, s, NULL, NULL)
        /\ wr' = [wr EXCEPT ![t].old = storage[s]]
        /\ Goto(t, "pa_inc")
        /\ UNCHANGED <<listVars, strong, slots, helpVars, localVars, ld, storage, guards, owned, stamp>>

\* with_strategy: a new instance, perhaps where another one used to be.
CallNew(t) ==
    \E s \in Storages, p \in Ptrs :
        /\ storage[s] = Dead
        /\ Invoke(t, "new")
        /\ Argument(p)
        /\ storage' = [storage EXCEPT ![s] = p]
        /\ UNCHANGED <<listVars, slots, helpVars, localVars, pc, op, ld, wr, guards, owned>>

\* A user drops a guard, or turns it into an Arc with Guard::into_inner.
CallGuard(t) ==
    \E kind \in {"guard_drop", "guard_into_inner"}, g \in BagToSet(guards) :
        /\ pc[t] = "idle"
        /\ lpc[t] = "off"
        /\ kind \in Kinds[t]
        /\ guards' = BagRemove(guards, g)
        /\ \/ /\ kind = "guard_drop"
              /\ Enters(t, kind, NoStorage, NULL, NULL)
              /\ BeginGuardDrop(t, g)
              /\ UNCHANGED owned
           \/ /\ kind = "guard_into_inner"
              /\ g.debt # NoDebt
              /\ Enters(t, kind, NoStorage, NULL, NULL)
              /\ ld' = [ld EXCEPT ![t] = Protection(g.ptr, g.debt)]
              /\ Goto(t, "in_inc")
              /\ UNCHANGED owned
           \/ /\ kind = "guard_into_inner"
              /\ g.debt = NoDebt
              /\ owned' = Inc(owned, g.ptr)
              /\ UNCHANGED <<pc, op, ld>>
        /\ UNCHANGED <<listVars, strong, slots, helpVars, localVars, wr, storage, budget, stamp>>

\* A user drops an Arc.
CallDropArc(t) ==
    \E a \in Addrs :
        /\ pc[t] = "idle"
        /\ lpc[t] = "off"
        /\ "drop_arc" \in Kinds[t]
        /\ owned[a] > 0
        /\ owned' = Dec(owned, a)
        /\ strong' = Dec(strong, a)
        /\ UNCHANGED <<listVars, slots, helpVars, localVars, pc, op, ld, wr, storage, guards, budget, stamp>>

\* Guard::from_inner: an Arc goes into a guard that owes nothing.
CallFromInner(t) ==
    \E a \in Addrs :
        /\ pc[t] = "idle"
        /\ lpc[t] = "off"
        /\ "guard_from_inner" \in Kinds[t]
        /\ owned[a] > 0
        /\ owned' = Dec(owned, a)
        /\ GiveGuard(Guard(a, NoDebt))
        /\ UNCHANGED <<listVars, strong, slots, helpVars, localVars, pc, op, ld, wr, storage, budget, stamp>>

-----------------------------------------------------------------------------
(* LocalNode::with and the end of a thread.                                  *)

\* with: a thread without a node gets one before its load or pay_all goes on.
NodeStep(t) ==
    /\ pc[t] \in {LoadEntry, "pa_inc"}
    /\ GetStep(t)
    /\ UNCHANGED <<debtVars, storage, guards, owned>>

\* The temporary node of a thread whose thread-locals are gone: it is sent into
\* cooldown at the end of `with`, a debt of the guard in it or not.
TmpNodeDrop(t) ==
    /\ t \in LateThreads
    /\ pc[t] = "ret"
    /\ \/ lpc[t] = "off" /\ CooldownReserve(t) /\ UNCHANGED localVars
       \/ CooldownSwap(t) /\ UNCHANGED localVars
       \/ /\ CooldownRelease(t)
          /\ generation' = [generation EXCEPT ![t] = 0]
          /\ offset' = [offset EXCEPT ![t] = 0]
    /\ UNCHANGED <<strong, slots, helpVars, pc, op, ld, wr, storage, guards, owned>>

\* The thread ends; its identifier stands for a new thread from then on.
ExitStep(t) ==
    /\ pc[t] = "idle"
    /\ \/ "exit" \in Kinds[t] /\ ThreadExit(t) /\ UNCHANGED localVars
       \/ CooldownSwap(t) /\ UNCHANGED localVars
       \/ /\ CooldownRelease(t)
          /\ generation' = [generation EXCEPT ![t] = 0]
          /\ offset' = [offset EXCEPT ![t] = 0]
    /\ UNCHANGED <<strong, slots, helpVars, pc, op, ld, wr, storage, guards, owned>>

-----------------------------------------------------------------------------
(* History: what the storage held since a call began to read it.             *)

LoadLabels == {"ld_ptr", "scan", "take", "ld_confirm", "ld_pay", "fb_addr", "fb_ctl",
               "fb_discard", "fb_cand", "fb_slot", "fb_confirm", "fb_hand", "fb_space",
               "fb_unpay", "fb_undec", "ret"}
IntoInnerLabels == {"in_inc", "in_pay", "in_dec"}

\* In the load of a call (for ever if it panics), or in compare_and_swap or rcu
\* before it has swapped.
Reading(t) ==
    /\ ~InHelp(t)
    /\ \/ pc[t] \in LoadLabels
       \/ pc[t] \in IntoInnerLabels /\ ld[t].debt[2] = HelpingSlot
       \/ pc[t] \in {"cas_x", "rcu_f", "panicked"}
       \/ pc[t] = "cas_drop_new" /\ op[t].kind = "rcu"
       \/ pc[t] \in {"gd_pay", "gd_dec"} /\ op[t].kind \in {"cas", "rcu", "rcu_retry"}

Observe ==
    seen' = [t \in Threads |->
                IF Reading(t)'
                THEN {Value(storage[op[t].s])'} \cup IF Reading(t) THEN seen[t] ELSE {}
                ELSE {}]

\* What the steps of the strategy leave alone: calls and allocations; those of
\* the debt slots also what is outside of the nodes, or the list of nodes too.
Inside == UNCHANGED <<budget, stamp>> /\ Observe
WalkOnly == UNCHANGED <<storage, guards, owned>> /\ Inside
SlotsOnly == UNCHANGED listVars /\ WalkOnly

Call(t) ==
    \/ CallLoad(t) /\ Observe
    \/ CallSwap(t) /\ Observe
    \/ CallCas(t) /\ Observe
    \/ CallRcu(t) /\ Observe
    \/ CallDestroy(t) /\ Observe
    \/ CallNew(t) /\ Observe
    \/ CallGuard(t) /\ Observe
    \/ CallDropArc(t) /\ Observe
    \/ CallFromInner(t) /\ Observe

\* A step of thread t inside a call.
Step(t) ==
    \/ NodeStep(t) /\ Inside
    \/ AttemptLoad(t) /\ Inside
    \/ FastScan(t) /\ SlotsOnly
    \/ FastTake(t) /\ SlotsOnly
    \/ AttemptConfirm(t) /\ Inside
    \/ AttemptPay(t) /\ Inside
    \/ HelpingAnnounce(t) /\ SlotsOnly
    \/ HelpingOpen(t) /\ SlotsOnly
    \/ FallbackDiscard(t) /\ Inside
    \/ FallbackCandidate(t) /\ Inside
    \/ ConfirmSlot(t) /\ SlotsOnly
    \/ ConfirmControl(t) /\ SlotsOnly
    \/ ConfirmHandover(t) /\ SlotsOnly
    \/ ConfirmSpace(t) /\ SlotsOnly
    \/ FallbackUnpay(t) /\ Inside
    \/ FallbackUndec(t) /\ Inside
    \/ IntoInnerInc(t) /\ Inside
    \/ IntoInnerPay(t) /\ Inside
    \/ IntoInnerDec(t) /\ Inside
    \/ GuardDropPay(t) /\ Inside
    \/ GuardDropDec(t) /\ Inside
    \/ ReturnGuard(t) /\ Inside
    \/ ReturnFull(t) /\ Inside
    \/ ReturnCas(t) /\ Inside
    \/ ReturnRcu(t) /\ Inside
    \/ RcuApply(t) /\ Observe
    \/ TmpNodeDrop(t) /\ Inside
    \/ CasExchange(t) /\ Inside
    \/ CasDec(t) /\ Inside
    \/ CasDropNew(t) /\ Inside
    \/ PayAllInc(t) /\ SlotsOnly
    \/ PayAllWalk(t) /\ WalkOnly
    \/ PayAllReserve(t) /\ WalkOnly
    \/ HelpControl(t) /\ SlotsOnly
    \/ HelpAddr(t) /\ SlotsOnly
    \/ HelpReconfirm(t) /\ SlotsOnly
    \/ HelpTheirSpace(t) /\ SlotsOnly
    \/ HelpStore(t) /\ SlotsOnly
    \/ HelpCas(t) /\ SlotsOnly
    \/ HelpDrop(t) /\ SlotsOnly
    \/ HelpOffer(t) /\ SlotsOnly
    \/ PayAllSlot(t) /\ SlotsOnly
    \/ PayAllIncMore(t) /\ SlotsOnly
    \/ PayAllRelease(t) /\ WalkOnly
    \/ PayAllDec(t) /\ Inside
    \/ OldDec(t) /\ Inside

\* Everybody is done (or has panicked).
Done ==
    /\ \A t \in Threads : pc[t] = "panicked" \/ (pc[t] = "idle" /\ lpc[t] = "off")
    /\ UNCHANGED vars

Next ==
    \/ \E t \in Threads : Call(t) \/ Step(t) \/ (ExitStep(t) /\ Inside)
    \/ Done

Spec == Init /\ [][Next]_vars

\* Fairness: a thread that is scheduled goes on with the call it is in.  Nothing
\* is assumed of the other threads: they may stop anywhere, for ever.
LiveSpec == Spec /\ \A t \in FairThreads : WF_vars(Step(t))

-----------------------------------------------------------------------------
(* Who has a reference, or the right to one that is only owed.               *)

\* Between the change of the storage and the end of wait_for_readers.
Waiting(t) == pc[t] \in {"pa_inc", "pa_walk", "pa_dec"} \/ lpc[t] \in {"reserve", "visit"}

\* pay_all has a reference prepaid.
Prepaid(t) == Waiting(t) /\ pc[t] \notin {"pa_inc", "pa_inc2"}

\* The reference that came out of the storage is still with the writer.
TookOld(t) ==
    /\ op[t].kind \in {"store", "swap", "cas", "rcu"}
    /\ Waiting(t) \/ pc[t] \in {"old_dec", "cas_dec"}

\* compare_and_swap has the guard `old`.
CasGuard(t) ==
    /\ InCas(t)
    /\ Waiting(t) \/ pc[t] \in {"cas_x", "cas_dec", "cas_drop_new"}

\* rcu has the guard `cur`.
RcuGuard(t) == op[t].kind \in {"rcu", "rcu_retry"} \/ pc[t] = "rcu_f"

\* ld.ptr is protected by the debt ld.debt, or was when the debt got paid.
Protects(t) ==
    pc[t] \in {"ld_confirm", "ld_pay", "fb_confirm", "fb_hand", "fb_space", "fb_unpay",
               "fb_undec", "ret", "gd_pay", "gd_dec"} \cup IntoInnerLabels

\* The replacement a helped reader has found.
Received(t) ==
    IF pc[t] = "fb_hand" THEN handover[ld[t].env]
    ELSE IF pc[t] \in {"fb_space", "fb_unpay", "fb_undec"} THEN ld[t].repl ELSE NULL

\* The references to a, owed ones included, that threads have inside of calls.
CallClaims(a) ==
      Cardinality({t \in Threads : op[t].new = a})
    + Cardinality({t \in Threads : TookOld(t) /\ wr[t].old = a})
    + Cardinality({t \in Threads : Prepaid(t) /\ wr[t].old = a})
    + Cardinality({t \in Threads : CasGuard(t) /\ wr[t].old = a})
    + Cardinality({t \in Threads : RcuGuard(t) /\ op[t].cur = a})
    + Cardinality({t \in Threads : wr[t].repl = a})
    + Cardinality({t \in Threads : Protects(t) /\ ld[t].ptr = a})
    + Cardinality({t \in Threads : pc[t] \in {"in_pay", "in_dec"} /\ ld[t].ptr = a})
    + Cardinality({t \in Threads : Received(t) = a})

\* The number of guards on a.
GuardsOn(a) ==
    Cardinality(UNION {{g} \X (1 .. guards[g]) : g \in {g \in BagToSet(guards) : g.ptr = a}})

\* Everybody's references to the Arc at a, owed ones included: storages, users
\* and threads inside calls, and envelopes on their way to a reader.
Claims(a) ==
      Cardinality({s \in Storages : storage[s] = a})
    + owned[a]
    + GuardsOn(a)
    + CallClaims(a)
    + Cardinality({n \in Nodes : /\ Tag(control[n]) = REPLACEMENT_TAG
                                 /\ handover[EnvelopeIn(control[n])] = a})

\* The debts on a.
Owed(a) == Cardinality({d \in Nodes \X SlotIds : slots[d[1]][d[2]] = a})

-----------------------------------------------------------------------------
(* Properties.                                                               *)

\* At every moment the reference count plus the debts is the number of
\* references in use: a debt paid twice, or by the wrong party, or a count
\* bumped for a debt that was given back meanwhile, would leak the Arc or free
\* it early (Debt::pay, pay_all, into_inner, drop, confirm, help).
RefCountExact == \A a \in Addrs : strong[a] + Owed(a) = Claims(a)

\* The pointers thread t relies on: it dereferences them, counts on them or
\* hands them out in one of its next steps.
ReliesOn(t) ==
    LET inLoad == pc[t] \in {"ret", "fb_undec", "gd_pay", "gd_dec"} \cup IntoInnerLabels
        inWrite == Waiting(t) \/ pc[t] \in {"old_dec", "cas_x", "cas_dec", "cas_drop_new"}
    IN  (IF inLoad THEN {ld[t].ptr} ELSE {})
        \cup (IF inWrite THEN {wr[t].old} ELSE {})
        \cup (IF RcuGuard(t) THEN {op[t].cur} ELSE {})
        \cup {op[t].new, wr[t].repl, Received(t)}

\* What a storage, a guard, an Arc or a thread inside a call relies on has not
\* been freed, whichever writers have replaced it and paid its debts meanwhile.
NoUseAfterFree ==
    \A a \in Addrs :
        (\/ \E s \in Storages : storage[s] = a
         \/ \E g \in BagToSet(guards) : g.ptr = a
         \/ owned[a] > 0
         \/ \E t \in Threads : a \in ReliesOn(t))
        => strong[a] > 0

\* A load returns an Arc that the storage held at some moment between the call
\* and the return: no older value, no other Arc at a reused address, however
\* the pointer was protected (confirmed debt, debt paid by a writer, or a
\* replacement from a helper).
LoadLinearizable ==
    \A t \in Threads : pc[t] = "ret" /\ ~InHelp(t) => Value(ld[t].ptr) \in seen[t]

\* Every debt in a slot is one that somebody will look at again: a guard with
\* just that debt, or a thread in the middle of a call.  After a thread's exit
\* and the reuse of its node too.
DebtsHaveDebtors ==
    \A n \in Nodes, k \in SlotIds :
        slots[n][k] # NONE =>
            \/ BagIn(Guard(slots[n][k], <<n, k>>), guards)
            \/ \E t \in Threads :
                  \/ Protects(t) /\ ld[t].ptr = slots[n][k] /\ ld[t].debt = <<n, k>>
                  \/ CasGuard(t) /\ wr[t].old = slots[n][k] /\ wr[t].debt = <<n, k>>
                  \/ RcuGuard(t) /\ op[t].cur = slots[n][k] /\ op[t].debt = <<n, k>>
                  \/ pc[t] = "fb_confirm" /\ node[t] = n /\ k = HelpingSlot

\* The envelope that node n will offer next, whatever exchange is under way.
Envelope(n) ==
    LET owner(labels) == \E t \in Threads : node[t] = n /\ pc[t] \in labels
        ownerIs(t, labels) == node[t] = n /\ pc[t] \in labels
    IN  IF Tag(control[n]) = REPLACEMENT_TAG THEN EnvelopeIn(control[n])
        ELSE IF owner({"fb_hand", "fb_space"})
             THEN ld[CHOOSE t \in Threads : ownerIs(t, {"fb_hand", "fb_space"})].env
        ELSE IF owner({"hp_offer"})
             THEN wr[CHOOSE t \in Threads : ownerIs(t, {"hp_offer"})].env
        ELSE space_offer[n]

\* Envelopes are exchanged, never shared: two helpers with the same one could
\* overwrite each other's replacement (help, confirm).
EnvelopesUnique ==
    \A m, n \in Nodes : m # n => Envelope(m) # Envelope(n)

\* The assertions of the code: nothing but NONE in a slot that is taken, IDLE
\* control where a transaction or a help starts, a valid answer in confirm, no
\* help for oneself, an owned node in use.
DebugAsserts ==
    \A t \in Threads :
        LET n == node[t]
        IN  /\ pc[t] = "take" => slots[n][ld[t].idx] = NONE
            /\ pc[t] = "fb_slot" => slots[n][HelpingSlot] = NONE
            /\ pc[t] = "fb_ctl" => control[n] = IDLE
            /\ pc[t] = "hp_ctl" => control[n] = IDLE
            /\ pc[t] = "hp_addr" => cursor[t] # n
            /\ pc[t] = "fb_confirm" => \/ control[n] = GEN(generation[t])
                                       \/ Tag(control[n]) = REPLACEMENT_TAG
            /\ pc[t] \in {"scan", "fb_ctl", "fb_slot", "hp_ctl"} => in_use[n] = "NODE_USED"
            /\ lpc[t] = "cd_swap" => in_use[n] = "NODE_USED"

\* A load never finds its thread without a node: one that overflows the
\* generation "doesn't block the reader, it'll simply find *a* node next time"
\* (helping.rs, line 73), and confirm_helping expects that "LocalNode::with
\* ensures it is set" (list.rs, line 302).
LoadsDoNotPanic == \A t \in Threads : pc[t] # "panicked"

\* A thread that is scheduled gets out of every call, wherever the others have
\* stopped: loads and guard drops of a reader (wait-free), stores of a writer
\* that meets a reader in the middle of a load (the loop of help).
CallsReturn == \A t \in FairThreads : pc[t] # "idle" ~> pc[t] = "idle"
=============================================================================
