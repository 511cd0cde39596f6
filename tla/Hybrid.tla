------------------------------- MODULE Hybrid -------------------------------
(***************************************************************************)
(* The hybrid strategy (src/strategy/hybrid.rs): how a pointer is loaded   *)
(* from a storage with a debt instead of a reference, how the guard that   *)
(* comes out is dropped or turned into a full reference, and how           *)
(* compare_and_swap replaces the pointer.                                  *)
(*                                                                         *)
(* A load runs on its own, inside compare_and_swap, or nested in help      *)
(* while the thread has a node reserved (lpc[t] = "visit"): there it is    *)
(* the replacement closure of wait_for_readers.                            *)
(***************************************************************************)
EXTENDS Debts, Bags, BagsExt

CONSTANTS
    Dead,           \* content of a storage that does not exist
    LateThreads     \* threads whose thread-locals are gone, at the end of their lives

ASSUME DeadAssumption == Dead \notin Ptrs

VARIABLES
    storage,    \* the AtomicPtr of each ArcSwap
    guards,     \* bag of the guards that users hold, in any thread
    owned       \* number of Arcs that users hold, by address

Guard(p, d) == [ptr |-> p, debt |-> d]

HybridLabels ==
    DebtLabels \cup {"idle", "ret", "ld_pay", "fb_undec", "in_inc", "in_pay", "in_dec",
                     "gd_pay", "gd_dec", "cas_x", "cas_dec", "cas_drop_new", "old_dec", "rcu_f",
                     "panicked"}

HybridTypeOK ==
    /\ storage \in [Storages -> Ptrs \cup {Dead}]
    /\ pc \in [Threads -> HybridLabels]
    /\ IsABag(guards)
    /\ BagToSet(guards) \subseteq [ptr : Ptrs, debt : AllDebts]
    /\ owned \in [Addrs -> Nat]

InHelp(t) == lpc[t] = "visit"

\* compare_and_swap, called by the user or by rcu.
InCas(t) == op[t].kind \in {"cas", "rcu"}

\* Out of LocalNode::with: a temporary node has been given back.
LeftWith(t) == t \in LateThreads => node[t] = NoNode

\* The load has produced a HybridProtection on p with debt d.
LoadReturns(t, p, d) ==
    /\ ld' = [ld EXCEPT ![t] = Protection(p, d)]
    /\ Goto(t, "ret")

\* Strategy::load begins (LocalNode::with comes first, see NodeStep).
BeginLoad(t) ==
    /\ ld' = [ld EXCEPT ![t] = NoLoad]
    /\ Goto(t, LoadEntry)

\* The API call returns.
Finish(t) ==
    /\ op' = [op EXCEPT ![t] = NoOp]
    /\ ld' = [ld EXCEPT ![t] = NoLoad]
    /\ wr' = [wr EXCEPT ![t] = NoWrite]
    /\ Goto(t, "idle")

GiveGuard(g) == guards' = BagAdd(guards, g)

\* The drop of a guard begins: with a debt to give back, or a reference to release.
BeginGuardDrop(t, g) ==
    /\ ld' = [ld EXCEPT ![t] = Protection(g.ptr, g.debt)]
    /\ Goto(t, IF g.debt = NoDebt THEN "gd_dec" ELSE "gd_pay")

-----------------------------------------------------------------------------
(* HybridProtection::attempt: get_debt is FastScan and FastTake.             *)

AttemptLoad(t) ==
    /\ pc[t] = "ld_ptr"
    /\ node[t] # NoNode
    /\ ld' = [ld EXCEPT ![t].ptr = storage[op[t].s]]
    /\ Goto(t, "scan")
    /\ UNCHANGED <<listVars, strong, slots, helpVars, localVars, op, wr, storage, guards,
                   owned>>

\* Mutant: the debt is trusted without a second look at the storage.
AttemptTrusts(t) ==
    /\ pc[t] = "ld_confirm"
    /\ LoadReturns(t, ld[t].ptr, ld[t].debt)
    /\ UNCHANGED <<listVars, strong, slots, helpVars, localVars, op, wr, storage, guards,
                   owned>>

\* Has the storage changed since?
AttemptConfirm(t) ==
    /\ pc[t] = "ld_confirm"
    /\ IF storage[op[t].s] = ld[t].ptr
       THEN LoadReturns(t, ld[t].ptr, ld[t].debt)
       ELSE Goto(t, "ld_pay") /\ UNCHANGED ld
    /\ UNCHANGED <<listVars, strong, slots, helpVars, localVars, op, wr, storage, guards,
                   owned>>

\* Mutant: the failed attempt leaves its debt behind.
AttemptLeavesDebt(t) ==
    /\ pc[t] = "ld_pay"
    /\ ld' = [ld EXCEPT ![t] = NoLoad]
    /\ Goto(t, "fb_addr")
    /\ UNCHANGED <<listVars, strong, slots, helpVars, localVars, op, wr, storage, guards,
                   owned>>

\* It has: give the debt back and fail, or use the reference someone paid with.
AttemptPay(t) ==
    /\ pc[t] = "ld_pay"
    /\ Pay(t, ld[t].debt, ld[t].ptr,
           ld' = [ld EXCEPT ![t] = NoLoad] /\ Goto(t, "fb_addr"),
           LoadReturns(t, ld[t].ptr, NoDebt))
    /\ UNCHANGED <<listVars, strong, helpVars, localVars, op, wr, storage, guards,
                   owned>>

-----------------------------------------------------------------------------
(* HybridProtection::fallback around HelpingAnnounce, HelpingOpen and the    *)
(* Confirm steps.                                                            *)

\* new_helping: on overflow the node goes into cooldown and is forgotten.
FallbackDiscard(t) ==
    /\ pc[t] = "fb_discard"
    /\ \/ lpc[t] = "off" /\ CooldownReserve(t) /\ UNCHANGED pc
       \/ CooldownSwap(t) /\ UNCHANGED pc
       \/ CooldownRelease(t) /\ Goto(t, "fb_cand")
    /\ UNCHANGED <<strong, slots, helpVars, localVars, op, ld, wr, storage, guards, owned>>

\* Load the candidate.  confirm_helping then expects the node to be there.
FallbackCandidate(t) ==
    /\ pc[t] = "fb_cand"
    /\ ld' = [ld EXCEPT ![t].ptr = storage[op[t].s]]
    /\ Goto(t, IF node[t] = NoNode THEN "panicked" ELSE "fb_slot")
    /\ UNCHANGED <<listVars, strong, slots, helpVars, localVars, op, wr, storage, guards,
                   owned>>

\* Mutant: the unused debt on the candidate is left in the slot.
FallbackLeavesDebt(t) ==
    /\ pc[t] = "fb_unpay"
    /\ LoadReturns(t, ld[t].repl, NoDebt)
    /\ UNCHANGED <<listVars, strong, slots, helpVars, localVars, op, wr, storage, guards,
                   owned>>

\* Mutant: it is not noticed that a writer has paid the unused debt.
FallbackIgnoresPaid(t) ==
    /\ pc[t] = "fb_unpay"
    /\ Pay(t, ld[t].debt, ld[t].ptr,
           LoadReturns(t, ld[t].repl, NoDebt),
           LoadReturns(t, ld[t].repl, NoDebt))
    /\ UNCHANGED <<listVars, strong, helpVars, localVars, op, wr, storage, guards,
                   owned>>

\* There is a replacement: pay the unused debt on the candidate back.
FallbackUnpay(t) ==
    /\ pc[t] = "fb_unpay"
    /\ Pay(t, ld[t].debt, ld[t].ptr,
           LoadReturns(t, ld[t].repl, NoDebt),
           Goto(t, "fb_undec") /\ UNCHANGED ld)
    /\ UNCHANGED <<listVars, strong, helpVars, localVars, op, wr, storage, guards,
                   owned>>

\* The candidate's debt was paid too: drop that reference.
FallbackUndec(t) ==
    /\ pc[t] = "fb_undec"
    /\ strong' = Dec(strong, ld[t].ptr)
    /\ LoadReturns(t, ld[t].repl, NoDebt)
    /\ UNCHANGED <<listVars, slots, helpVars, localVars, op, wr, storage, guards,
                   owned>>

-----------------------------------------------------------------------------
(* HybridProtection::into_inner of [ld.ptr, ld.debt], debt present.          *)

\* A full reference to p: the replacement in help, or an Arc for the user.  rcu
\* still has to drop `cur` before it returns.
FullReference(t, p) ==
    \/ /\ InHelp(t)
       /\ wr' = [wr EXCEPT ![t].repl = p]
       /\ ld' = [ld EXCEPT ![t] = NoLoad]
       /\ Goto(t, "hp_theirs")
       /\ UNCHANGED <<op, owned>>
    \/ /\ ~InHelp(t)
       /\ op[t].kind # "rcu"
       /\ owned' = Inc(owned, p)
       /\ Finish(t)
    \/ /\ ~InHelp(t)
       /\ op[t].kind = "rcu"
       /\ op' = [op EXCEPT ![t] = Operation("rcu_done", op[t].s, p, NULL)]
       /\ BeginGuardDrop(t, Guard(op[t].cur, op[t].debt))
       /\ wr' = [wr EXCEPT ![t] = NoWrite]
       /\ UNCHANGED owned

\* In fallback the result is put back into a HybridProtection.
IntoInnerDone(t) ==
    IF ld[t].debt[2] = HelpingSlot
    THEN LoadReturns(t, ld[t].ptr, NoDebt) /\ UNCHANGED <<op, wr, owned>>
    ELSE FullReference(t, ld[t].ptr)

IntoInnerInc(t) ==
    /\ pc[t] = "in_inc"
    /\ strong' = Inc(strong, ld[t].ptr)
    /\ Goto(t, "in_pay")
    /\ UNCHANGED <<listVars, slots, helpVars, localVars, op, ld, wr, storage, guards, owned>>

IntoInnerPay(t) ==
    /\ pc[t] = "in_pay"
    /\ Pay(t, ld[t].debt, ld[t].ptr,
           IntoInnerDone(t),
           Goto(t, "in_dec") /\ UNCHANGED <<op, ld, wr, owned>>)
    /\ UNCHANGED <<listVars, strong, helpVars, localVars, storage, guards>>

\* Someone paid the debt in the meantime, one reference is too many.
IntoInnerDec(t) ==
    /\ pc[t] = "in_dec"
    /\ strong' = Dec(strong, ld[t].ptr)
    /\ IntoInnerDone(t)
    /\ UNCHANGED <<listVars, slots, helpVars, localVars, storage, guards>>

-----------------------------------------------------------------------------
(* Drop of the HybridProtection [ld.ptr, ld.debt].                           *)

\* The guard is gone: the next round of compare_and_swap or of rcu, or the end.
GuardDropDone(t) ==
    \/ /\ InCas(t)
       /\ BeginLoad(t)
       /\ UNCHANGED <<op, wr, owned>>
    \/ /\ op[t].kind = "rcu_retry"
       /\ ld' = [ld EXCEPT ![t] = NoLoad]
       /\ Goto(t, "rcu_f")
       /\ UNCHANGED <<op, wr, owned>>
    \/ /\ op[t].kind \in {"guard_drop", "rcu_done"}
       /\ owned' = Inc(owned, op[t].new)
       /\ Finish(t)

\* Mutant: the reference is released even if the debt was still there.
GuardDropTwice(t) ==
    /\ pc[t] = "gd_pay"
    /\ Pay(t, ld[t].debt, ld[t].ptr,
           Goto(t, "gd_dec") /\ UNCHANGED <<op, ld, wr, owned>>,
           Goto(t, "gd_dec") /\ UNCHANGED <<op, ld, wr, owned>>)
    /\ UNCHANGED <<listVars, strong, helpVars, localVars, storage, guards>>

GuardDropPay(t) ==
    /\ pc[t] = "gd_pay"
    /\ Pay(t, ld[t].debt, ld[t].ptr,
           GuardDropDone(t),
           Goto(t, "gd_dec") /\ UNCHANGED <<op, ld, wr, owned>>)
    /\ UNCHANGED <<listVars, strong, helpVars, localVars, storage, guards>>

GuardDropDec(t) ==
    /\ pc[t] = "gd_dec"
    /\ strong' = Dec(strong, ld[t].ptr)
    /\ GuardDropDone(t)
    /\ UNCHANGED <<listVars, slots, helpVars, localVars, storage, guards>>

-----------------------------------------------------------------------------
(* What becomes of the result of a load.                                     *)

\* ArcSwapAny::load wraps it into a Guard.
ReturnGuard(t) ==
    /\ pc[t] = "ret"
    /\ op[t].kind = "load"
    /\ ~InHelp(t)
    /\ LeftWith(t)
    /\ GiveGuard(Guard(ld[t].ptr, ld[t].debt))
    /\ Finish(t)
    /\ UNCHANGED <<listVars, strong, slots, helpVars, localVars, storage, owned>>

\* load_full, and the replacement closure: go on with into_inner.
ReturnFull(t) ==
    /\ pc[t] = "ret"
    /\ op[t].kind = "load_full" \/ InHelp(t)
    /\ LeftWith(t)
    /\ IF ld[t].debt = NoDebt
       THEN FullReference(t, ld[t].ptr)
       ELSE Goto(t, "in_inc") /\ UNCHANGED <<op, ld, wr, owned>>
    /\ UNCHANGED <<listVars, strong, slots, helpVars, localVars, storage, guards>>

\* compare_and_swap compares it with `current`.
ReturnCas(t) ==
    /\ pc[t] = "ret"
    /\ InCas(t)
    /\ ~InHelp(t)
    /\ wr' = [wr EXCEPT ![t].old = ld[t].ptr, ![t].debt = ld[t].debt]
    /\ ld' = [ld EXCEPT ![t] = NoLoad]
    /\ Goto(t, IF ld[t].ptr = op[t].cur THEN "cas_x" ELSE "cas_drop_new")
    /\ UNCHANGED <<listVars, strong, slots, helpVars, localVars, storage, op, guards, owned>>

\* rcu has its first `cur`; the closure comes next.
ReturnRcu(t) ==
    /\ pc[t] = "ret"
    /\ op[t].kind = "rcu_load"
    /\ op' = [op EXCEPT ![t].cur = ld[t].ptr, ![t].debt = ld[t].debt]
    /\ ld' = [ld EXCEPT ![t] = NoLoad]
    /\ Goto(t, "rcu_f")
    /\ UNCHANGED <<listVars, strong, slots, helpVars, localVars, storage, wr, guards, owned>>

-----------------------------------------------------------------------------
(* compare_and_swap, with the guard `old` in [wr.old, wr.debt].              *)

\* Mutant: nobody waits for the readers of the old value.
CasWithoutWaiting(t) ==
    /\ pc[t] = "cas_x"
    /\ \/ /\ storage[op[t].s] = op[t].cur
          /\ storage' = [storage EXCEPT ![op[t].s] = op[t].new]
          /\ op' = [op EXCEPT ![t].new = NULL]
          /\ Goto(t, "cas_dec")
          /\ UNCHANGED <<ld, wr>>
       \/ /\ BeginGuardDrop(t, Guard(wr[t].old, wr[t].debt))
          /\ wr' = [wr EXCEPT ![t] = NoWrite]
          /\ UNCHANGED <<op, storage>>
    /\ UNCHANGED <<listVars, slots, helpVars, localVars, strong, guards, owned>>

\* The weak compare_exchange; on success the reference of `new` goes in and
\* the one of `old` comes out, on failure the guard is dropped.
CasExchange(t) ==
    /\ pc[t] = "cas_x"
    /\ \/ /\ storage[op[t].s] = op[t].cur
          /\ storage' = [storage EXCEPT ![op[t].s] = op[t].new]
          /\ op' = [op EXCEPT ![t].new = NULL]
          /\ Goto(t, "pa_inc")
          /\ UNCHANGED <<ld, wr>>
       \/ /\ BeginGuardDrop(t, Guard(wr[t].old, wr[t].debt))
          /\ wr' = [wr EXCEPT ![t] = NoWrite]
          /\ UNCHANGED <<op, storage>>
    /\ UNCHANGED <<listVars, slots, helpVars, localVars, strong, guards, owned>>

\* compare_and_swap returns the guard on the old value to the user.
CasReturns(t) ==
    /\ op[t].kind = "cas"
    /\ GiveGuard(Guard(wr[t].old, wr[t].debt))
    /\ Finish(t)
    /\ UNCHANGED owned

\* The comparison of two pointers, whatever they are wrapped in.
ptr_eq(a, b) == a = b

\* rcu has swapped: Guard::into_inner of `prev`.
RcuSwapped(t) ==
    /\ ptr_eq(op[t].cur, wr[t].old)
    /\ IF wr[t].debt = NoDebt
       THEN FullReference(t, wr[t].old)
       ELSE /\ ld' = [ld EXCEPT ![t].ptr = wr[t].old, ![t].debt = wr[t].debt]
            /\ wr' = [wr EXCEPT ![t] = NoWrite]
            /\ Goto(t, "in_inc")
            /\ UNCHANGED <<op, owned>>
    /\ UNCHANGED guards

\* rcu has not: `prev` becomes `cur`, the old `cur` is dropped.
RcuRetry(t) ==
    /\ ~ptr_eq(op[t].cur, wr[t].old)
    /\ op' = [op EXCEPT ![t].kind = "rcu_retry", ![t].new = NULL,
                        ![t].cur = wr[t].old, ![t].debt = wr[t].debt]
    /\ BeginGuardDrop(t, Guard(op[t].cur, op[t].debt))
    /\ wr' = [wr EXCEPT ![t] = NoWrite]
    /\ UNCHANGED <<guards, owned>>

\* compare_and_swap has returned `prev` to rcu, which finds out whether it is
\* the value it wanted to replace.
RcuPrev(t) == op[t].kind = "rcu" /\ (RcuSwapped(t) \/ RcuRetry(t))

\* Mutant: both references to the old value are kept.
CasKeepsBoth(t) ==
    /\ pc[t] = "cas_dec"
    /\ CasReturns(t) \/ RcuPrev(t)
    /\ UNCHANGED <<listVars, strong, slots, helpVars, localVars, storage>>

\* Success, after wait_for_readers: one reference too many on the old value.
CasDec(t) ==
    /\ pc[t] = "cas_dec"
    /\ strong' = Dec(strong, wr[t].old)
    /\ CasReturns(t) \/ RcuPrev(t)
    /\ UNCHANGED <<listVars, slots, helpVars, localVars, storage>>

\* Mutant: rcu offers the same new value again, not calling the closure.
RcuNewOnce(t) ==
    /\ pc[t] = "cas_drop_new"
    /\ \/ CasReturns(t) /\ strong' = Dec(strong, op[t].new)
       \/ /\ op[t].kind = "rcu"
          /\ op' = [op EXCEPT ![t].cur = wr[t].old, ![t].debt = wr[t].debt]
          /\ BeginGuardDrop(t, Guard(op[t].cur, op[t].debt))
          /\ wr' = [wr EXCEPT ![t] = NoWrite]
          /\ UNCHANGED <<guards, owned, strong>>
    /\ UNCHANGED <<listVars, slots, helpVars, localVars, storage>>

\* Not equal: the unused new value is dropped.
CasDropNew(t) ==
    /\ pc[t] = "cas_drop_new"
    /\ strong' = Dec(strong, op[t].new)
    /\ CasReturns(t) \/ RcuPrev(t)
    /\ UNCHANGED <<listVars, slots, helpVars, localVars, storage>>

-----------------------------------------------------------------------------
(* wait_for_readers returns to swap, store, compare_and_swap, Drop or        *)
(* into_inner of ArcSwapAny.                                                 *)

\* pay_all drops the reference it still has prepaid.
PayAllDec(t) ==
    /\ pc[t] = "pa_dec"
    /\ strong' = Dec(strong, wr[t].old)
    /\ \/ /\ op[t].kind \in {"store", "drop"}
          /\ Goto(t, "old_dec")
          /\ UNCHANGED <<op, ld, wr, storage, owned>>
       \/ /\ InCas(t)
          /\ Goto(t, "cas_dec")
          /\ UNCHANGED <<op, ld, wr, storage, owned>>
       \/ /\ op[t].kind = "swap"
          /\ owned' = Inc(owned, wr[t].old)
          /\ Finish(t)
          /\ UNCHANGED storage
       \/ /\ op[t].kind = "into_inner"
          /\ owned' = Inc(owned, wr[t].old)
          /\ storage' = [storage EXCEPT ![op[t].s] = Dead]
          /\ Finish(t)
    /\ UNCHANGED <<listVars, slots, helpVars, localVars, guards>>

\* Mutant: Drop forgets to release the reference of the storage.
OldKept(t) ==
    /\ pc[t] = "old_dec"
    /\ strong' = IF op[t].kind = "drop" THEN strong ELSE Dec(strong, wr[t].old)
    /\ storage' = IF op[t].kind = "drop" THEN [storage EXCEPT ![op[t].s] = Dead] ELSE storage
    /\ Finish(t)
    /\ UNCHANGED <<listVars, slots, helpVars, localVars, guards, owned>>

\* store drops the old value; Drop releases the stored reference.
OldDec(t) ==
    /\ pc[t] = "old_dec"
    /\ strong' = Dec(strong, wr[t].old)
    /\ storage' = IF op[t].kind = "drop" THEN [storage EXCEPT ![op[t].s] = Dead] ELSE storage
    /\ Finish(t)
    /\ UNCHANGED <<listVars, slots, helpVars, localVars, guards, owned>>
=============================================================================
