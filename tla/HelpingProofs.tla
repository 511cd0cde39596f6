--------------------------- MODULE HelpingProofs ----------------------------
(***************************************************************************)
(* Proofs about the invariant of ArcSwapInv, second part: what threads     *)
(* share.  The helping slots work as long as no generation counter wraps   *)
(* around and no cooldown is cut short.                                    *)
(***************************************************************************)
EXTENDS HelpingLocals

-----------------------------------------------------------------------------
(* Instances.                                                                *)

Destroyers == {"drop", "into_inner"}

\* The call of t goes on, on the same instance.
GoesOn(t) ==
    /\ op'[t].s = op[t].s
    /\ op'[t].kind \in Destroyers => op[t].kind \in Destroyers /\ wr'[t].old = wr[t].old

\* It is over.
IsOver(t) == op'[t] = NoOp

\* A full reference does not let a call leave its instance.
LEMMA FullOn ==
    ASSUME Shapes, NEW t \in Threads, NEW p \in Ptrs, FullReference(t, p)
    PROVE  GoesOn(t) \/ IsOver(t)
BY DEF FullReference, Finish, GoesOn, IsOver, Shapes, WriteType, Operation, Destroyers

\* How the steps that end calls treat the instance.
LEMMA ResultOn ==
    ASSUME ListInv, HelpInv, NEW t \in Threads, ResultStep(t), UNCHANGED listVars
    PROVE  \/ (GoesOn(t) \/ IsOver(t)) /\ UNCHANGED storage
           \/ /\ op[t].kind \in {"cas", "rcu"} /\ op'[t].kind = op[t].kind /\ op'[t].s = op[t].s
              /\ storage' = [storage EXCEPT ![op[t].s] = op[t].new]
           \/ /\ op[t].kind \in Destroyers /\ IsOver(t)
              /\ storage' = [storage EXCEPT ![op[t].s] = Dead]
<1> Shape /\ Locals /\ Shapes /\ Instances /\ Local(t)
  BY DEF ListInv, HelpInv
<1>0. ld[t].ptr \in Ptrs /\ wr[t].old \in Ptrs
  BY Fields
<1>1. CASE IntoInnerInc(t)
  BY <1>1 DEF IntoInnerInc, GoesOn
<1>2. CASE IntoInnerPay(t) \/ IntoInnerDec(t)
  <2>1. IntoInnerDone(t) \/ UNCHANGED <<op, wr>>
    BY <1>2 DEF IntoInnerPay, IntoInnerDec, Pay
  <2>2. FullReference(t, ld[t].ptr) \/ UNCHANGED <<op, wr>>
    BY <2>1 DEF IntoInnerDone
  <2>3. GoesOn(t) \/ IsOver(t)
    BY <1>0, <2>2, FullOn DEF GoesOn
  <2> QED
    BY <1>2, <2>3 DEF IntoInnerPay, IntoInnerDec
<1>3. CASE GuardDropPay(t) \/ GuardDropDec(t)
  <2>1. Finish(t) \/ UNCHANGED <<op, wr>>
    BY <1>3 DEF GuardDropPay, GuardDropDec, Pay, GuardDropDone
  <2>3. GoesOn(t) \/ IsOver(t)
    BY <2>1 DEF GoesOn, IsOver, Finish, Shapes
  <2> QED
    BY <1>3, <2>3 DEF GuardDropPay, GuardDropDec
<1>4. CASE ReturnGuard(t)
  BY <1>4 DEF ReturnGuard, Finish, IsOver, Shapes
<1>5. CASE ReturnFull(t)
  <2>1. FullReference(t, ld[t].ptr) \/ UNCHANGED <<op, wr>>
    BY <1>5 DEF ReturnFull
  <2>2. GoesOn(t) \/ IsOver(t)
    BY <1>0, <2>1, FullOn DEF GoesOn
  <2> QED
    BY <1>5, <2>2 DEF ReturnFull
<1>6. CASE ReturnCas(t)
  BY <1>6 DEF ReturnCas, InCas, GoesOn, Destroyers
<1>7. CASE ReturnRcu(t) \/ RcuApply(t)
  BY <1>7 DEF ReturnRcu, RcuApply, GoesOn, Destroyers, Shapes, OpType
<1>8. CASE CasExchange(t)
  <2>1. op[t].kind \in {"cas", "rcu"}
    BY <1>8 DEF CasExchange, Local, Calls
  <2> QED
    BY <1>8, <2>1 DEF CasExchange, GoesOn, Destroyers, Shapes, OpType
<1>9. CASE CasDec(t) \/ CasDropNew(t)
  <2>1. CASE CasReturns(t)
    BY <1>9, <2>1 DEF CasDec, CasDropNew, CasReturns, Finish, IsOver, Shapes
  <2>2. CASE RcuSwapped(t)
    <3>1. FullReference(t, wr[t].old) \/ (UNCHANGED op /\ op[t].kind \in {"cas", "rcu"})
      BY <1>9, <2>2 DEF RcuSwapped, CasDec, CasDropNew, Local, Calls
    <3>2. GoesOn(t) \/ IsOver(t)
      BY <1>0, <3>1, FullOn DEF GoesOn, Destroyers
    <3> QED
      BY <1>9, <3>2 DEF CasDec, CasDropNew
  <2>3. CASE RcuRetry(t)
    BY <1>9, <2>3 DEF CasDec, CasDropNew, RcuRetry, GoesOn, Destroyers, Shapes, OpType
  <2> QED
    BY <1>9, <2>1, <2>2, <2>3 DEF CasDec, CasDropNew, RcuPrev
<1>10. CASE PayAllDec(t)
  BY <1>10 DEF PayAllDec, Finish, GoesOn, IsOver, Destroyers, Shapes
<1>11. CASE OldDec(t)
  BY <1>11 DEF OldDec, Finish, GoesOn, IsOver, Destroyers, Shapes
<1> QED
  BY <1>1, <1>2, <1>3, <1>4, <1>5, <1>6, <1>7, <1>8, <1>9, <1>10, <1>11 DEF ResultStep

\* The other steps leave the call alone.
LEMMA OtherOn ==
    ASSUME ListInv, HelpInv, NEW t \in Threads,
           \/ NodeOnly(t)
           \/ (ReadStep(t) \/ HelpStep(t) \/ PayStep(t) \/ WalkStep(t)) /\ UNCHANGED <<storage, guards, owned>>
    PROVE  /\ UNCHANGED <<op, storage, guards, owned>> /\ wr'[t].old = wr[t].old
           /\ wr'[t].debt = wr[t].debt
<1> Shapes
  BY DEF HelpInv
<1>0. UNCHANGED <<storage, guards, owned>>
  BY DEF NodeOnly, NodeStep, TmpNodeDrop, ExitStep
<1>1. CASE NodeOnly(t)
  BY <1>0, <1>1 DEF NodeOnly, NodeStep, TmpNodeDrop, ExitStep, debtVars
<1>2. CASE ReadStep(t)
  BY <1>0, <1>2 DEF ReadStep, AttemptLoad, FastScan, FastTake, AttemptConfirm, AttemptPay,
         HelpingAnnounce, HelpingOpen, FallbackCandidate, ConfirmSlot, ConfirmControl,
         ConfirmHandover, ConfirmSpace, FallbackUnpay, FallbackUndec, Pay
<1>3. CASE HelpStep(t)
  <2>1. ASSUME NEW c, HelpMatch(t, c) PROVE wr'[t].old = wr[t].old /\ wr'[t].debt = wr[t].debt
    BY <2>1 DEF HelpMatch, Shapes, WriteType
  <2>2. CASE HelpControl(t) \/ HelpReconfirm(t) \/ HelpDrop(t) \/ HelpOffer(t)
    BY <1>0, <2>1, <2>2 DEF HelpControl, HelpReconfirm, HelpDrop, HelpOffer
  <2>3. CASE HelpAddr(t) \/ HelpTheirSpace(t) \/ HelpStore(t) \/ HelpCas(t)
    BY <1>0, <2>3 DEF HelpAddr, HelpTheirSpace, HelpStore, HelpCas, Shapes, WriteType
  <2> QED
    BY <1>3, <2>2, <2>3 DEF HelpStep
<1>4. CASE PayStep(t) \/ WalkStep(t)
  BY <1>0, <1>4 DEF PayStep, WalkStep, PayAllInc, PayAllWalk, PayAllReserve, PayAllSlot,
     PayAllIncMore,
                PayAllRelease, NextSlot, Pay, Shapes, WriteType
<1> QED
  BY <1>1, <1>2, <1>3, <1>4

\* Calls run on instances that exist, destroyers are alone.
LEMMA NextInstances ==
    ASSUME ListInv, HelpInv, NEW t \in Threads, Acts(t)
    PROVE  Instances'
<1> Shape /\ Shapes /\ Instances /\ \A u \in Threads : Local(u)
  BY DEF ListInv, HelpInv
<1>0. \A u \in Threads : u # t => op'[u] = op[u] /\ wr'[u] = wr[u]
  BY OthersSame DEF Same
<1>1. \A u \in Threads : op[u].s \in Storages \cup {NoStorage} /\ op[u].new \in Ptrs
  BY Fields
<1>2. \A u \in Threads : op[u].kind \in Destroyers => op[u].s \in Storages
  BY DEF Local, Calls, Destroyers
<1>a. Dead \notin Ptrs /\ NoStorage \notin Storages /\ NULL \in Ptrs
  BY Consts
<1>b. NoOp.s = NoStorage /\ NoOp.kind = "none"
  BY DEF NoOp, Operation
<1>3. ASSUME GoesOn(t) \/ IsOver(t), UNCHANGED storage
      PROVE  Instances'
  <2>1. \A u \in Threads : op'[u].s = op[u].s \/ (u = t /\ op'[u].s = NoStorage)
    BY <1>0, <1>3, <1>b DEF GoesOn, IsOver
  <2>2. \A u \in Threads : op'[u].kind \in Destroyers =>
           op[u].kind \in Destroyers /\ wr'[u].old = wr[u].old /\ op'[u].s = op[u].s
    BY <1>0, <1>3, <1>b DEF GoesOn, IsOver, Destroyers
  <2> QED
    BY <1>2, <1>3, <2>1, <2>2, <1>a DEF Instances, Destroyers
<1>4. CASE CallStep(t)
  <2>0. op[t] = NoOp
    BY <1>4, CallEffect DEF Local, Calls
  <2>1. ASSUME NEW kind \in LoadCalls, NEW s \in Storages, NEW new \in Ptrs, NEW cur \in Ptrs,
               LoadBegins(t, kind, s, new, cur)
        PROVE  Instances'
    <3>1. op'[t].s = s /\ op'[t].kind = kind /\ kind \notin Destroyers /\ UNCHANGED storage
      BY <2>1 DEF LoadBegins, Operation, Shapes, LoadCalls, Destroyers
    <3> QED
      BY <1>0, <1>2, <2>0, <2>1, <3>1, <1>b DEF LoadBegins, Shared, Instances, Destroyers
  <2>2. ASSUME NEW kind \in WriteCalls, NEW s \in Storages, WriteBegins(t, kind, s)
        PROVE  Instances'
    <3>1. op'[t].s = s /\ op'[t].kind = kind /\ wr'[t].old = storage[s] /\ storage[s] # Dead
      BY <2>2 DEF WriteBegins, Operation, Shapes, WriteType
    <3>2. CASE kind \in Destroyers /\ Exclusive(s) /\ UNCHANGED storage
      BY <1>0, <2>0, <3>1, <3>2, <1>b DEF Instances, Destroyers, Exclusive
    <3>3. CASE kind \notin Destroyers /\ Shared(s) /\ \E new \in Ptrs : storage' = [storage EXCEPT ![s] = new]
      <4>1. PICK new \in Ptrs : storage' = [storage EXCEPT ![s] = new]
        BY <3>3
      <4>2. \A z \in Storages : storage'[z] = IF z = s THEN new ELSE storage[z]
        BY <4>1 DEF Shapes
      <4>3. \A u \in Threads : op[u].kind \in Destroyers => op[u].s # s
        BY <3>3 DEF Shared, Destroyers
      <4>4. \A u \in Threads : op'[u].s # NoStorage => storage'[op'[u].s] # Dead
        BY <1>0, <1>1, <3>1, <4>2, <1>a DEF Instances
      <4>5. ASSUME NEW u \in Threads, op'[u].kind \in Destroyers
            PROVE  /\ storage'[op'[u].s] = wr'[u].old
                   /\ \A v \in Threads : v # u => op'[v].s # op'[u].s
        <5>1. u # t /\ op'[u] = op[u] /\ wr'[u] = wr[u]
          BY <1>0, <3>1, <3>3, <4>5
        <5>2. op[u].s \in Storages /\ op[u].s # s
          BY <1>2, <4>3, <4>5, <5>1
        <5> QED
          BY <1>0, <3>1, <4>2, <4>5, <5>1, <5>2 DEF Instances, Destroyers
      <4> QED
        BY <4>4, <4>5 DEF Instances, Destroyers
    <3> QED
      BY <2>2, <3>2, <3>3 DEF WriteBegins, Destroyers
  <2>3. ASSUME NEW kind \in GuardCalls, NEW g \in BagToSet(guards), GuardEnds(t, kind, g)
        PROVE  Instances'
    <3>1. /\ op'[t].s = NoStorage /\ op'[t].kind = kind /\ kind \notin Destroyers
          /\ UNCHANGED storage
      BY <2>3 DEF GuardEnds, Operation, Shapes, GuardCalls, Destroyers
    <3> QED
      BY <1>0, <1>2, <2>0, <3>1, <1>a, <1>b DEF Instances, Destroyers
  <2>4. CASE AtOnce
    <3>1. UNCHANGED <<op, wr>>
      BY <2>4 DEF AtOnce
    <3>2. UNCHANGED storage \/ \E s \in Storages, p \in Ptrs : storage[s] = Dead /\ storage' = [storage EXCEPT ![s] = p]
      BY <2>4 DEF AtOnce
    <3>3. \A u \in Threads : op[u].s \in Storages => storage'[op[u].s] = storage[op[u].s]
      BY <3>2, <1>a DEF Instances, Shapes
    <3> QED
      BY <1>1, <1>2, <3>1, <3>3 DEF Instances, Destroyers
  <2> QED
    BY <1>4, CallEffect, <2>1, <2>2, <2>3, <2>4
<1>5. CASE ResultStep(t) /\ UNCHANGED listVars
  <2>1. CASE /\ op[t].kind \in {"cas", "rcu"} /\ op'[t].kind = op[t].kind /\ op'[t].s = op[t].s
             /\ storage' = [storage EXCEPT ![op[t].s] = op[t].new]
    <3>1. op[t].s \in Storages
      BY <2>1 DEF Local, Calls
    <3>2. \A z \in Storages : storage'[z] = IF z = op[t].s THEN op[t].new ELSE storage[z]
      BY <2>1 DEF Shapes
    <3>3. \A u \in Threads : op[u].kind \in Destroyers => u # t /\ op[u].s # op[t].s
      BY <2>1 DEF Instances, Destroyers
    <3>4. \A u \in Threads : op'[u].s # NoStorage => storage'[op'[u].s] # Dead
      BY <1>0, <1>1, <2>1, <3>2, <1>a DEF Instances
    <3>5. ASSUME NEW u \in Threads, op'[u].kind \in Destroyers
          PROVE  /\ storage'[op'[u].s] = wr'[u].old
                 /\ \A v \in Threads : v # u => op'[v].s # op'[u].s
      <4>1. u # t /\ op'[u] = op[u] /\ wr'[u] = wr[u]
        BY <1>0, <2>1, <3>5 DEF Destroyers
      <4>2. op[u].s \in Storages /\ op[u].s # op[t].s
        BY <1>2, <3>3, <3>5, <4>1
      <4> QED
        BY <1>0, <2>1, <3>2, <3>5, <4>1, <4>2 DEF Instances, Destroyers
    <3> QED
      BY <3>4, <3>5 DEF Instances, Destroyers
  <2>2. CASE /\ op[t].kind \in Destroyers /\ IsOver(t)
             /\ storage' = [storage EXCEPT ![op[t].s] = Dead]
    <3>1. op[t].s \in Storages /\ \A u \in Threads : u # t => op[u].s # op[t].s
      BY <1>2, <2>2 DEF Instances, Destroyers
    <3>2. \A u \in Threads : u # t /\ op[u].s \in Storages => storage'[op[u].s] = storage[op[u].s]
      BY <2>2, <3>1 DEF Shapes
    <3>3. op'[t].s = NoStorage /\ op'[t].kind = "none"
      BY <2>2, <1>b DEF IsOver
    <3> QED
      BY <1>0, <1>1, <1>2, <3>2, <3>3, <1>a DEF Instances, Destroyers
  <2> QED
    BY <1>3, <1>5, <2>1, <2>2, ResultOn
<1>6. CASE \/ NodeOnly(t)
           \/ (ReadStep(t) \/ HelpStep(t) \/ PayStep(t) \/ WalkStep(t)) /\ UNCHANGED <<storage, guards, owned>>
  <2>1. UNCHANGED <<op, storage>> /\ wr'[t].old = wr[t].old
    BY <1>6, OtherOn
  <2> QED
    BY <1>3, <2>1 DEF GoesOn
<1> QED
  BY <1>4, <1>5, <1>6 DEF Acts

-----------------------------------------------------------------------------
(* Announced loads.                                                          *)

\* The labels between the accesses of a load to the slots of its node, and
\* between those of help.
BusyLabels ==
    OpenLabels \cup HelpedLabels \cup
    {"scan", "take", "fb_ctl", "hp_addr", "hp_reconf", "hp_store", "hp_cas", "hp_drop", "hp_offer"}

\* The steps of neither: they leave the helping slots alone.
Neutral(t) ==
    \/ CallStep(t)
    \/ NodeOnly(t)
    \/ ResultStep(t) /\ UNCHANGED listVars
    \/ PayStep(t) /\ UNCHANGED listVars
    \/ WalkStep(t)

\* Where a full reference leads.
LEMMA FullTo ==
    ASSUME Shapes, NEW t \in Threads, NEW p, FullReference(t, p)
    PROVE  pc'[t] \in {"hp_theirs", "idle", "gd_pay", "gd_dec"}
BY DEF FullReference, Finish, BeginGuardDrop, Goto, Shapes

\* The neutral steps leave the helping slots alone.
LEMMA NeutralEffect ==
    ASSUME Shapes, NEW t \in Threads, Neutral(t)
    PROVE  UNCHANGED helpVars /\ pc[t] \notin BusyLabels /\ pc'[t] \notin BusyLabels
<1> USE DEF BusyLabels, OpenLabels, HelpedLabels
<1>1. CASE CallStep(t)
  <2>1. UNCHANGED helpVars /\ pc[t] = "idle"
    BY <1>1, CallEffect
  <2>2. pc'[t] \in {LoadEntry, "pa_inc", "in_inc", "gd_dec", "gd_pay", "idle"}
    BY <1>1, CallEffect DEF LoadBegins, WriteBegins, GuardEnds, AtOnce, Shapes
  <2> QED
    BY <2>1, <2>2 DEF LoadEntry
<1>2. CASE NodeOnly(t)
  BY <1>2 DEF NodeOnly, NodeStep, TmpNodeDrop, ExitStep, debtVars, helpVars, LoadEntry
<1>3. CASE PayStep(t) \/ WalkStep(t)
  BY <1>3 DEF PayStep, WalkStep, PayAllInc, PayAllWalk, PayAllReserve, PayAllSlot,
     PayAllIncMore,
                PayAllRelease, NextSlot, Pay, Goto, Shapes
<1>4. CASE ResultStep(t)
  <2>1. UNCHANGED helpVars
    BY <1>4 DEF ResultStep, IntoInnerInc, IntoInnerPay, IntoInnerDec, GuardDropPay,
       GuardDropDec,
         ReturnGuard, ReturnFull, ReturnCas, ReturnRcu, RcuApply, CasExchange, CasDec,
         CasDropNew, PayAllDec, OldDec
  <2>2. pc[t] \notin BusyLabels
    BY <1>4 DEF ResultStep, IntoInnerInc, IntoInnerPay, IntoInnerDec, GuardDropPay,
       GuardDropDec,
         ReturnGuard, ReturnFull, ReturnCas, ReturnRcu, RcuApply, CasExchange, CasDec,
         CasDropNew, PayAllDec, OldDec
  <2>3. CASE IntoInnerInc(t) \/ IntoInnerPay(t) \/ IntoInnerDec(t) \/ ReturnFull(t)
    <3>1. \/ FullReference(t, ld[t].ptr)
          \/ pc'[t] \in {"in_pay", "in_dec", "in_inc", "ret"}
      BY <2>3 DEF IntoInnerInc, IntoInnerPay, IntoInnerDec, ReturnFull, IntoInnerDone,
         LoadReturns,
                  Pay, Goto, Shapes
    <3>2. pc'[t] \notin BusyLabels
      BY <3>1, FullTo
    <3> QED
      BY <2>1, <2>2, <3>2
  <2>4. CASE GuardDropPay(t) \/ GuardDropDec(t)
    <3>1. pc'[t] \in {LoadEntry, "rcu_f", "idle", "gd_dec"}
      BY <2>4 DEF GuardDropPay, GuardDropDec, GuardDropDone, Pay, BeginLoad, Finish, Goto,
         Shapes
    <3> QED
      BY <2>1, <2>2, <3>1 DEF LoadEntry
  <2>5. CASE ReturnGuard(t) \/ ReturnCas(t) \/ ReturnRcu(t) \/ RcuApply(t) \/ CasExchange(t)
    <3>1. pc'[t] \in {LoadEntry, "rcu_f", "idle", "gd_dec", "gd_pay", "cas_x", "cas_drop_new", "pa_inc"}
      BY <2>5 DEF ReturnGuard, ReturnCas, ReturnRcu, RcuApply, CasExchange, BeginLoad,
         BeginGuardDrop,
                  Finish, Goto, Shapes
    <3> QED
      BY <2>1, <2>2, <3>1 DEF LoadEntry
  <2>6. CASE CasDec(t) \/ CasDropNew(t)
    <3>1. \/ FullReference(t, wr[t].old)
          \/ pc'[t] \in {"idle", "in_inc", "gd_dec", "gd_pay"}
      BY <2>6 DEF CasDec, CasDropNew, CasReturns, RcuPrev, RcuSwapped, RcuRetry,
         BeginGuardDrop,
                  Finish, Goto, Shapes
    <3>2. pc'[t] \notin BusyLabels
      BY <3>1, FullTo
    <3> QED
      BY <2>1, <2>2, <3>2
  <2>7. CASE PayAllDec(t) \/ OldDec(t)
    <3>1. pc'[t] \in {"idle", "old_dec", "cas_dec"}
      BY <2>7 DEF PayAllDec, OldDec, Finish, Goto, Shapes
    <3> QED
      BY <2>1, <2>2, <3>1
  <2> QED
    BY <1>4, <2>3, <2>4, <2>5, <2>6, <2>7 DEF ResultStep
<1> QED
  BY <1>1, <1>2, <1>3, <1>4 DEF Neutral

\* Every step is neutral, one of a load or one of help.
LEMMA ActsCases ==
    ASSUME NEW t \in Threads, Acts(t)
    PROVE  \/ Neutral(t)
           \/ ReadStep(t) /\ UNCHANGED <<listVars, storage, guards, owned>>
           \/ HelpStep(t) /\ UNCHANGED <<listVars, storage, guards, owned>>
BY DEF Acts, Neutral

\* What the steps of a load do to what the owner of a node has announced.
LEMMA ReadOpen ==
    ASSUME ListInv, HelpInv, NEW t \in Threads, ReadStep(t), UNCHANGED listVars
    PROVE  \/ HelpingOpen(t) \/ ConfirmControl(t) \/ HelpingAnnounce(t)
           \/ UNCHANGED <<control, generation>> /\ (pc[t] \in OpenLabels <=> pc'[t] \in OpenLabels)
<1> Shapes /\ Places(t)
  BY DEF HelpInv, Local
<1> USE DEF OpenLabels, helpVars, localVars, Goto, Shapes
<1>1. CASE AttemptLoad(t) \/ FastScan(t) \/ FastTake(t) \/ AttemptConfirm(t) \/ AttemptPay(t)
  BY <1>1 DEF AttemptLoad, FastScan, FastTake, AttemptConfirm, AttemptPay, LoadReturns, Pay
<1>2. CASE FallbackCandidate(t) \/ ConfirmSlot(t)
  BY <1>2 DEF FallbackCandidate, ConfirmSlot, Places
<1>3. CASE ConfirmHandover(t) \/ ConfirmSpace(t) \/ FallbackUnpay(t) \/ FallbackUndec(t)
  BY <1>3 DEF ConfirmHandover, ConfirmSpace, FallbackUnpay, FallbackUndec, LoadReturns, Pay
<1> QED
  BY <1>1, <1>2, <1>3 DEF ReadStep

\* The steps of help announce no load.
LEMMA HelpOpen ==
    ASSUME ListInv, HelpInv, NEW t \in Threads, HelpStep(t), UNCHANGED listVars
    PROVE  /\ UNCHANGED localVars
           /\ pc[t] \notin OpenLabels /\ pc'[t] \notin OpenLabels
           /\ HelpCas(t) \/ UNCHANGED control
<1> Shapes
  BY DEF HelpInv
<1> QED
  BY ZenonT(60) DEF HelpStep, HelpControl, HelpAddr, HelpReconfirm, HelpTheirSpace, HelpStore, HelpCas,
         HelpDrop, HelpOffer, HelpMatch, LoadEntry, OpenLabels, helpVars, localVars, Goto,
         Shapes

\* A control that is not IDLE belongs to a load that the owner is in.
LEMMA NextAnnounced ==
    ASSUME ListInv, HelpInv, NoWrap, NEW t \in Threads, Acts(t)
    PROVE  Announced'
<1> Shape /\ Shapes /\ Announced /\ \A u \in Threads : Local(u)
  BY DEF ListInv, HelpInv
<1>0. \A u \in Threads : u # t => /\ pc'[u] = pc[u] /\ node'[u] = node[u]
                                  /\ generation'[u] = generation[u]
  BY OthersSame DEF Same
<1>1. ASSUME UNCHANGED control, pc[t] \in OpenLabels <=> pc'[t] \in OpenLabels,
             pc[t] \in OpenLabels => node'[t] = node[t] /\ generation'[t] = generation[t]
      PROVE  Announced'
  BY <1>0, <1>1 DEF Announced
<1>2. CASE Neutral(t)
  BY <1>1, <1>2, NeutralEffect DEF BusyLabels, helpVars
<1>3. \A u \in Threads : pc[u] \in OpenLabels \cup {"fb_ctl"} => node[u] \in Nodes /\ Owned(u) = node[u]
  BY OwnsNode
<1>4. \A u, v \in Threads : /\ pc[u] \in OpenLabels \cup {"fb_ctl"} /\ pc[v] \in OpenLabels \cup {"fb_ctl"}
                            /\ node[u] = node[v]
                            => u = v
  BY <1>3, NodesFacts DEF ListInv, ExclusiveOwnership
<1>5. CASE ReadStep(t) /\ UNCHANGED listVars
  <2>0. node'[t] = node[t]
    BY <1>5 DEF listVars
  <2>1. CASE HelpingOpen(t)
    <3>1. pc[t] = "fb_ctl" /\ pc'[t] = "fb_cand" /\ generation'[t] = generation[t]
      BY <2>1 DEF HelpingOpen, NoWrap, Goto, Shapes, localVars
    <3>2. node[t] \in Nodes
      BY <1>3, <3>1
    <3>3. control'[node[t]] = GEN(generation[t]) /\ \A n \in Nodes : n # node[t] => control'[n] = control[n]
      BY <2>1, <3>2 DEF HelpingOpen, Shapes
    <3>4. GEN(generation[t]) # IDLE
      BY ControlFacts DEF Shapes, GEN_TAG
    <3>5. \A n \in Nodes : control'[n] # IDLE =>
            \E u \in Threads :
               /\ node'[u] = n /\ pc'[u] \in OpenLabels
               /\ \/ control'[n] = GEN(generation'[u])
                  \/ \E e \in Nodes : control'[n] = REPLACEMENT(e)
      <4>1. SUFFICES ASSUME NEW n \in Nodes, control'[n] # IDLE
                     PROVE \E u \in Threads :
                               /\ node'[u] = n /\ pc'[u] \in OpenLabels
                               /\ \/ control'[n] = GEN(generation'[u])
                                  \/ \E e \in Nodes : control'[n] = REPLACEMENT(e)
        OBVIOUS
      <4>2. CASE n = node[t]
        BY <2>0, <3>1, <3>3, <4>2 DEF OpenLabels
      <4>3. CASE n # node[t]
        <5>1. control[n] # IDLE /\ control'[n] = control[n]
          BY <3>3, <4>1, <4>3
        <5>2. PICK u \in Threads :
               /\ node[u] = n /\ pc[u] \in OpenLabels
               /\ \/ control[n] = GEN(generation[u])
                  \/ \E e \in Nodes : control[n] = REPLACEMENT(e)
          BY <5>1 DEF Announced
        <5> QED
          BY <1>0, <4>3, <5>1, <5>2
      <4> QED
        BY <4>2, <4>3
    <3>6. \A u \in Threads : pc'[u] \in OpenLabels => control'[node'[u]] # IDLE
      <4>1. SUFFICES ASSUME NEW u \in Threads, pc'[u] \in OpenLabels PROVE control'[node'[u]] # IDLE
        OBVIOUS
      <4>2. CASE u = t
        BY <2>0, <3>3, <3>4, <4>2
      <4>3. CASE u # t
        <5>1. pc[u] \in OpenLabels /\ node'[u] = node[u]
          BY <1>0, <4>1, <4>3
        <5>2. node[u] \in Nodes /\ node[u] # node[t]
          BY <1>3, <1>4, <3>1, <4>3, <5>1
        <5> QED
          BY <3>3, <5>1, <5>2 DEF Announced
      <4> QED
        BY <4>2, <4>3
    <3> QED
      BY <3>5, <3>6 DEF Announced
  <2>2. CASE ConfirmControl(t)
    <3>1. pc[t] = "fb_confirm" /\ pc'[t] \notin OpenLabels
      BY <2>2 DEF ConfirmControl, Goto, Shapes, OpenLabels
    <3>2. node[t] \in Nodes /\ pc[t] \in OpenLabels
      BY <1>3, <3>1 DEF OpenLabels
    <3>3. control'[node[t]] = IDLE /\ \A n \in Nodes : n # node[t] => control'[n] = control[n]
      BY <2>2, <3>2 DEF ConfirmControl, Shapes
    <3>5. ASSUME NEW n \in Nodes, control'[n] # IDLE
          PROVE \E u \in Threads :
                    /\ node'[u] = n /\ pc'[u] \in OpenLabels
                    /\ \/ control'[n] = GEN(generation'[u])
                       \/ \E e \in Nodes : control'[n] = REPLACEMENT(e)
      <4>1. n # node[t] /\ control[n] # IDLE /\ control'[n] = control[n]
        BY <3>3, <3>5
      <4>2. PICK u \in Threads :
               /\ node[u] = n /\ pc[u] \in OpenLabels
               /\ \/ control[n] = GEN(generation[u])
                  \/ \E e \in Nodes : control[n] = REPLACEMENT(e)
          BY <4>1 DEF Announced
      <4> QED
        BY <1>0, <4>1, <4>2
    <3>6. ASSUME NEW u \in Threads, pc'[u] \in OpenLabels
          PROVE  control'[node'[u]] # IDLE
      <4>1. u # t
        BY <3>1, <3>6
      <4>2. pc[u] \in OpenLabels /\ node'[u] = node[u]
        BY <1>0, <3>6, <4>1
      <4>3. node[u] \in Nodes /\ node[u] # node[t]
        BY <1>3, <1>4, <3>2, <4>1, <4>2
      <4> QED
        BY <3>3, <4>2, <4>3 DEF Announced
    <3> QED
      BY <3>5, <3>6 DEF Announced
  <2>3. CASE HelpingAnnounce(t)
    <3>1. UNCHANGED control /\ pc[t] \notin OpenLabels /\ pc'[t] \notin OpenLabels
      BY <2>3 DEF HelpingAnnounce, Goto, Shapes, OpenLabels
    <3> QED
      BY <1>1, <3>1
  <2>4. CASE UNCHANGED <<control, generation>> /\ (pc[t] \in OpenLabels <=> pc'[t] \in OpenLabels)
    BY <1>1, <2>0, <2>4
  <2> QED
    BY <1>5, <2>1, <2>2, <2>3, <2>4, ReadOpen
<1>6. CASE HelpStep(t) /\ UNCHANGED listVars
  <2>1. /\ UNCHANGED localVars /\ node'[t] = node[t]
        /\ pc[t] \notin OpenLabels /\ pc'[t] \notin OpenLabels
    BY <1>6, HelpOpen DEF listVars
  <2>2. CASE UNCHANGED control
    BY <1>1, <2>1, <2>2
  <2>3. CASE HelpCas(t) /\ control' # control
    <3>1. /\ cursor[t] \in Nodes /\ node[t] \in Nodes
          /\ space_offer[node[t]] \in Nodes /\ wr[t].ctl \in Words
          /\ wr[t].ctl \in Controls
      <4>1. pc[t] = "hp_cas" /\ wr[t].ctl \in Words
        BY <2>3 DEF HelpCas, Local, Registers
      <4> QED
        BY <4>1, AtHand, Fields DEF VisitLabels, Shapes, ListInv, HelpInv
    <3>2. /\ control[cursor[t]] = wr[t].ctl
          /\ control'[cursor[t]] = REPLACEMENT(space_offer[node[t]])
          /\ \A n \in Nodes : n # cursor[t] => control'[n] = control[n]
      BY <2>3, <3>1 DEF HelpCas, Shapes
    <3>3. control[cursor[t]] # IDLE /\ REPLACEMENT(space_offer[node[t]]) # IDLE
      <4>1. REPLACEMENT(space_offer[node[t]]) \in Controls
        BY <3>1, ControlFacts
      <4> QED
        BY <3>1, <3>2, <4>1, ControlCases
    <3>4. \A n \in Nodes : control[n] # IDLE <=> control'[n] # IDLE
      BY <3>2, <3>3
    <3>5. \A u \in Threads : /\ pc'[u] \in OpenLabels <=> pc[u] \in OpenLabels
                             /\ node'[u] = node[u] /\ generation'[u] = generation[u]
      BY <1>0, <2>1 DEF localVars
    <3>6. ASSUME NEW n \in Nodes, control'[n] # IDLE
          PROVE \E u \in Threads :
                    /\ node'[u] = n /\ pc'[u] \in OpenLabels
                    /\ \/ control'[n] = GEN(generation'[u])
                       \/ \E e \in Nodes : control'[n] = REPLACEMENT(e)
      <4>1. PICK u \in Threads :
               /\ node[u] = n /\ pc[u] \in OpenLabels
               /\ \/ control[n] = GEN(generation[u])
                  \/ \E e \in Nodes : control[n] = REPLACEMENT(e)
        BY <3>4, <3>6 DEF Announced
      <4> QED
        BY <3>1, <3>2, <3>5, <4>1
    <3>7. \A u \in Threads : pc'[u] \in OpenLabels => control'[node'[u]] # IDLE
      BY <1>3, <3>4, <3>5 DEF Announced
    <3> QED
      BY <3>6, <3>7 DEF Announced
  <2> QED
    BY <1>6, <2>2, <2>3, HelpOpen
<1> QED
  BY <1>2, <1>5, <1>6, ActsCases

-----------------------------------------------------------------------------
(* Generations.                                                              *)

\* The owner of node n is past the word c, or the node waits for t.
Past(t, n, c) ==
    \/ t \in stale[n]
    \/ \E u \in Threads :
          /\ Owned(u) = n
          /\ c <= GEN(generation[u])
          /\ pc[u] = "fb_ctl" => c < GEN(generation[u])

\* A thread with a word in mind is on the node it has it from.
LEMMA PendingVisits ==
    ASSUME HelpInv, NEW t \in Threads, Pending(t)
    PROVE  lpc[t] = "visit" /\ wr[t].ctl \in Words
BY DEF HelpInv, Local, Places, Registers, Pending, InHelp, VisitLabels

\* A word that is in the control of a node is its owner's, and nobody else's.
LEMMA ReadsWord ==
    ASSUME ListInv, HelpInv, NEW t \in Threads, lpc[t] = "visit", pc[t] \notin OpenLabels,
           control[cursor[t]] \in Words
    PROVE  /\ cursor[t] # node[t]
           /\ \E u \in Threads : /\ u # t /\ Owned(u) = cursor[t] /\ pc[u] \in OpenLabels
                                 /\ control[cursor[t]] = GEN(generation[u])
<1>1. cursor[t] \in Nodes /\ node[t] \in Nodes /\ Owned(t) = node[t]
  BY OwnsNode DEF ListInv, Locals
<1>2. control[cursor[t]] \in Controls
  BY <1>1 DEF HelpInv, Shapes
<1>3. control[cursor[t]] # IDLE /\ ~\E e \in Nodes : control[cursor[t]] = REPLACEMENT(e)
  BY <1>2, ControlCases DEF GEN_TAG, REPLACEMENT_TAG
<1>4. PICK u \in Threads : /\ node[u] = cursor[t] /\ pc[u] \in OpenLabels
                           /\ control[cursor[t]] = GEN(generation[u])
  BY <1>1, <1>3 DEF HelpInv, Announced
<1>5. Owned(u) = cursor[t] /\ u # t
  BY <1>4, OwnsNode
<1> QED
  BY <1>1, <1>4, <1>5, NodesFacts DEF ListInv, ExclusiveOwnership

\* A step of t keeps what another thread knows of a node it is on.
LEMMA PastKept ==
    ASSUME ListInv, HelpInv, NoWrap', NEW t \in Threads, Acts(t), NEW u \in Threads, u # t,
           lpc[u] = "visit", wr[u].ctl \in Words, cursor[u] \in Nodes, Past(u, cursor[u], wr[u].ctl)
    PROVE  Past(u, cursor[u], wr[u].ctl)'
<1> DEFINE n == cursor[u]
           c == wr[u].ctl
<1> Shape /\ Shapes /\ Local(t)
  BY DEF ListInv, HelpInv
<1>0. /\ \A v \in Threads : v # t => /\ pc'[v] = pc[v] /\ lpc'[v] = lpc[v] /\ node'[v] = node[v]
                                     /\ generation'[v] = generation[v]
      /\ cursor'[u] = n /\ wr'[u] = wr[u]
  BY OthersSame DEF Same
<1>00. n \in Nodes /\ n # NoNode /\ c \in Nat
  BY NodesFacts, ControlFacts DEF Words
<1>1. CASE u \in stale[n]
  <2>1. u \in stale'[n]
    <3>1. CASE UNCHANGED stale
      BY <1>1, <3>1
    <3>2. CASE CooldownSwap(t)
      BY <1>1, <1>00, <3>2 DEF CooldownSwap, WritersOn, Shape
    <3>3. CASE ReleaseWriter(t)
      BY <1>1, <1>00, <3>3 DEF ReleaseWriter, Shape
    <3>4. UNCHANGED stale \/ CooldownSwap(t) \/ ReleaseWriter(t)
      <4>1. CASE CallStep(t)
        BY <4>1, CallEffect DEF listVars
      <4>2. CASE NodeOnly(t)
        BY <4>2 DEF NodeOnly, NodeStep, TmpNodeDrop, ExitStep, ThreadExit, CooldownReserve,
           CooldownRelease,
           GetStep, GetStart, CheckCooldownLoad, CheckCooldownWriters, CheckCooldownCas,
           GetClaim,
           GetAlloc, GetPush
      <4>3. CASE WalkStep(t)
        BY <4>3 DEF WalkStep, PayAllWalk, PayAllReserve, PayAllRelease, TraverseStart,
           ReserveWriter
      <4> QED
        BY <4>1, <4>2, <4>3 DEF Acts, listVars
    <3> QED
      BY <3>1, <3>2, <3>3, <3>4
  <2> QED
    BY <1>0, <2>1 DEF Past
<1>2. CASE u \notin stale[n]
  <2>1. PICK v \in Threads :
          /\ Owned(v) = n
          /\ c <= GEN(generation[v])
          /\ pc[v] = "fb_ctl" => c < GEN(generation[v])
    BY <1>2 DEF Past
  <2>2. CASE v # t
    <3>1. Owned(v)' = n /\ pc'[v] = pc[v] /\ generation'[v] = generation[v]
      BY <1>0, <2>1, <2>2 DEF Owned
    <3> QED
      BY <1>0, <2>1, <3>1 DEF Past
  <2>3. CASE v = t
    <3>0. node[t] = n /\ lpc[t] # "cd_release" /\ generation[t] \in Generations
      BY <1>00, <2>1, <2>3 DEF Owned, Shapes
    <3>1. CASE CooldownSwap(t)
      <4>1. u \in stale'[n]
        BY <1>00, <3>0, <3>1 DEF CooldownSwap, WritersOn, Shape
      <4> QED
        BY <1>0, <4>1 DEF Past
    <3>2. CASE HelpingAnnounce(t) /\ UNCHANGED listVars
      <4>1. /\ Owned(t)' = n /\ pc'[t] = "fb_ctl"
            /\ generation'[t] = (generation[t] + 4) % GenLimit
        BY <2>1, <2>3, <3>2 DEF HelpingAnnounce, Goto, Shapes, listVars, Owned
      <4>2. generation'[t] # 0
        BY <4>1 DEF NoWrap
      <4>3. generation'[t] = generation[t] + 4
        BY <3>0, <4>1, <4>2, NextGeneration
      <4>4. c < GEN(generation'[t])
        <5>1. GEN(generation[t]) \in Nat /\ GEN(generation[t]) = generation[t] + 2
          BY <3>0, ControlFacts DEF GEN, GEN_TAG
        <5>2. generation[t] \in Nat
          <6>1. PICK k \in 0 .. GenMod - 1 : generation[t] = 4 * k
            BY <3>0 DEF Generations
          <6> QED
            BY <6>1, SlotAssumption
        <5>3. GEN(generation'[t]) = generation[t] + 4 + 2
          BY <4>3 DEF GEN, GEN_TAG
        <5> QED
          BY <1>00, <2>1, <2>3, <5>1, <5>2, <5>3
      <4>5. GEN(generation'[t]) \in Nat
        BY <3>0, <4>1, NextGeneration, ControlFacts
      <4> QED
        BY <1>0, <1>00, <4>1, <4>4, <4>5 DEF Past
    <3>3. CASE /\ Owned(t)' = n /\ generation'[t] = generation[t]
               /\ pc'[t] = "fb_ctl" => pc[t] = "fb_ctl"
      BY <1>0, <2>1, <2>3, <3>3 DEF Past
    <3>4. \/ CooldownSwap(t)
          \/ HelpingAnnounce(t) /\ UNCHANGED listVars
          \/ /\ Owned(t)' = n /\ generation'[t] = generation[t]
             /\ pc'[t] = "fb_ctl" => pc[t] = "fb_ctl"
      <4>1. CASE CallStep(t)
        <5>1. UNCHANGED <<listVars, localVars>> /\ pc'[t] \notin BusyLabels
          BY <4>1, CallEffect, NeutralEffect DEF Neutral
        <5> QED
          BY <2>1, <2>3, <5>1 DEF listVars, localVars, Owned, BusyLabels
      <4>2. CASE NodeOnly(t)
        <5>1. pc'[t] = pc[t]
          BY <4>2 DEF NodeOnly, NodeStep, TmpNodeDrop, ExitStep, debtVars
        <5>2. ~CooldownRelease(t) /\ ~GetStart(t) /\ ~GetClaim(t) /\ ~GetPush(t)
          BY <1>00, <3>0 DEF ListInv, Locals, CooldownRelease, GetStart, GetClaim, GetPush
        <5>3. CooldownSwap(t) \/ (Owned(t)' = Owned(t) /\ UNCHANGED localVars)
          BY <3>0, <4>2, <5>2 DEF NodeOnly, NodeStep, TmpNodeDrop, ExitStep, ThreadExit,
             CooldownReserve,
             GetStep, CheckCooldownLoad, CheckCooldownWriters, CheckCooldownCas, GetAlloc,
             Owned,
             Enter, Shape, debtVars
        <5> QED
          BY <2>1, <2>3, <5>1, <5>3 DEF localVars
      <4>3. CASE WalkStep(t)
        <5>1. Owned(t)' = node[t] /\ UNCHANGED localVars
          BY <4>3 DEF WalkStep, PayAllWalk, PayAllReserve, PayAllRelease, TraverseStart,
             ReserveWriter,
             ReleaseWriter, Owned, Enter, Shape
        <5> QED
          BY <3>0, <4>3, <5>1, NeutralEffect DEF localVars, BusyLabels, Neutral
      <4>4. CASE (ResultStep(t) \/ PayStep(t)) /\ UNCHANGED listVars
        <5>1. UNCHANGED localVars
          BY <4>4 DEF ResultStep, IntoInnerInc, IntoInnerPay, IntoInnerDec, GuardDropPay,
             GuardDropDec,
             ReturnGuard, ReturnFull, ReturnCas, ReturnRcu, RcuApply, CasExchange, CasDec,
             CasDropNew, PayAllDec, OldDec, PayStep, PayAllInc, PayAllSlot, PayAllIncMore
        <5> QED
          BY <2>1, <2>3, <4>4, <5>1, NeutralEffect DEF listVars, localVars, Owned,
             BusyLabels, Neutral
      <4>5. CASE HelpStep(t) /\ UNCHANGED listVars
        <5>1. UNCHANGED localVars /\ pc'[t] # "fb_ctl"
          BY <4>5 DEF HelpStep, HelpControl, HelpAddr, HelpReconfirm, HelpTheirSpace,
             HelpStore, HelpCas,
              HelpDrop, HelpOffer, HelpMatch, LoadEntry, Goto, Shapes
        <5> QED
          BY <2>1, <2>3, <4>5, <5>1 DEF listVars, localVars, Owned
      <4>6. CASE ReadStep(t) /\ UNCHANGED listVars
        <5>1. HelpingAnnounce(t) \/ (generation' = generation /\ pc'[t] # "fb_ctl")
          BY <4>6 DEF ReadStep, AttemptLoad, FastScan, FastTake, AttemptConfirm, AttemptPay,
                HelpingOpen, FallbackCandidate, ConfirmSlot, ConfirmControl, LoadReturns,
                ConfirmHandover, ConfirmSpace, FallbackUnpay, FallbackUndec, Pay,
                localVars, Goto, Shapes
        <5> QED
          BY <2>1, <2>3, <4>6, <5>1 DEF listVars, Owned
      <4> QED
        BY <4>1, <4>2, <4>3, <4>4, <4>5, <4>6 DEF Acts
    <3> QED
      BY <3>1, <3>2, <3>3, <3>4
  <2> QED
    BY <2>2, <2>3
<1> QED
  BY <1>1, <1>2

\* A thread has the word it had, or the one that is in the control now.
LEMMA PendingStep ==
    ASSUME ListInv, HelpInv, NoWrap, NEW t \in Threads, Acts(t), Pending(t)'
    PROVE  /\ UNCHANGED listVars /\ lpc[t] = "visit"
           /\ \/ Pending(t) /\ wr'[t].ctl = wr[t].ctl
              \/ /\ control[cursor[t]] \in Words /\ wr'[t].ctl = control[cursor[t]]
                 /\ pc[t] \notin OpenLabels
<1> Shape /\ Locals /\ Shapes /\ Instances /\ Local(t)
  BY DEF ListInv, HelpInv
<1>0. lpc'[t] = "visit" /\ wr'[t].ctl \in Words
  BY NextLocal DEF Local, Places, Registers, Pending, InHelp, VisitLabels
<1>1. CASE CallStep(t)
  BY <1>0, <1>1, CallEffect DEF listVars
<1>2. CASE NodeOnly(t)
  <2>1. lpc'[t] # "visit"
    BY <1>2 DEF NodeOnly, NodeStep, TmpNodeDrop, ExitStep, ThreadExit, CooldownReserve,
       CooldownRelease,
           CooldownSwap, GetStep, GetStart, CheckCooldownLoad, CheckCooldownWriters,
           CheckCooldownCas,
           GetClaim, GetAlloc, GetPush, GetVisit, Enter, Shape
  <2> QED
    BY <1>0, <2>1
<1>3. CASE WalkStep(t) \/ PayStep(t)
  <2>1. pc'[t] \in {"pa_walk", "pa_reserve", "hp_ctl", "pa_slot", "pa_inc2", "pa_release", "pa_dec"}
    BY <1>3 DEF PayStep, WalkStep, PayAllInc, PayAllWalk, PayAllReserve, PayAllSlot,
       PayAllIncMore,
                PayAllRelease, NextSlot, Pay, Goto, Shapes
  <2> QED
    BY <2>1 DEF Pending, LoadSteps, LoadLabels, IntoInnerLabels
<1>4. CASE ResultStep(t) /\ UNCHANGED listVars
  <2>1. lpc[t] = "visit"
    BY <1>0, <1>4 DEF listVars
  <2>2. pc[t] \notin VisitLabels
    BY <1>4 DEF ResultStep, IntoInnerInc, IntoInnerPay, IntoInnerDec, GuardDropPay,
       GuardDropDec,
         ReturnGuard, ReturnFull, ReturnCas, ReturnRcu, RcuApply, CasExchange, CasDec,
         CasDropNew, PayAllDec, OldDec, VisitLabels
  <2>3. pc[t] \in LoadSteps
    BY <2>1, <2>2 DEF Local, Places
  <2>4. Pending(t)
    BY <2>1, <2>3 DEF Pending, InHelp
  <2>5. op[t].kind \in WriteKinds
    BY <2>1 DEF Local, Calls, Waiting
  <2>6. IntoInnerInc(t) \/ IntoInnerPay(t) \/ IntoInnerDec(t) \/ ReturnFull(t)
    BY <1>4, <2>1, <2>3, <2>5 DEF ResultStep, GuardDropPay, GuardDropDec,
         ReturnGuard, ReturnCas, ReturnRcu, RcuApply, CasExchange, CasDec, InHelp,
         CasDropNew, PayAllDec, OldDec, LoadSteps, LoadLabels, IntoInnerLabels, WriteKinds
  <2>7. UNCHANGED wr \/ wr' = [wr EXCEPT ![t].repl = ld[t].ptr]
    BY <2>1, <2>6 DEF IntoInnerInc, IntoInnerPay, IntoInnerDec, ReturnFull, IntoInnerDone,
       FullReference,
         InHelp, Pay
  <2>8. wr'[t].ctl = wr[t].ctl
    BY <2>7 DEF Shapes, WriteType
  <2> QED
    BY <1>4, <2>1, <2>4, <2>8
<1>5. CASE ReadStep(t) /\ UNCHANGED listVars
  <2>1. lpc[t] = "visit"
    BY <1>0, <1>5 DEF listVars
  <2>2. pc[t] \in LoadSteps /\ UNCHANGED wr
    BY <1>5 DEF ReadStep, AttemptLoad, FastScan, FastTake, AttemptConfirm, AttemptPay,
       HelpingAnnounce,
                HelpingOpen, FallbackCandidate, ConfirmSlot, ConfirmControl,
                ConfirmHandover, ConfirmSpace, FallbackUnpay, FallbackUndec, Pay,
                LoadSteps, LoadLabels
  <2> QED
    BY <1>5, <2>1, <2>2 DEF Pending, InHelp
<1>6. CASE HelpStep(t) /\ UNCHANGED listVars
  <2>0. lpc[t] = "visit" /\ pc[t] \notin OpenLabels
    BY <1>0, <1>6, HelpOpen DEF listVars
  <2>00. /\ cursor[t] \in Nodes /\ control[cursor[t]] \in Controls
         /\ wr[t].ctl \in Controls /\ IDLE \in Controls
    BY <2>0, Fields, ControlFacts DEF Locals, Shapes
  <2>1. ASSUME NEW c \in Controls, HelpMatch(t, c)
        PROVE  c \in Words /\ wr'[t].ctl = c
    BY <2>1, MatchEffect DEF Pending, LoadSteps, LoadLabels, IntoInnerLabels
  <2>2. CASE HelpControl(t)
    BY <1>6, <2>0, <2>00, <2>1, <2>2 DEF HelpControl
  <2>3. CASE HelpReconfirm(t)
    <3>1. IDLE \notin Words
      BY ControlCases, ControlFacts DEF GEN_TAG
    <3>2. HelpMatch(t, IDLE) \/ HelpMatch(t, control[cursor[t]])
      BY <2>3 DEF HelpReconfirm
    <3> QED
      BY <1>6, <2>0, <2>00, <2>1, <3>1, <3>2
  <2>4. CASE HelpOffer(t)
    <3>1. IDLE \notin Words
      BY ControlCases, ControlFacts DEF GEN_TAG
    <3> QED
      BY <2>00, <2>1, <2>4, <3>1 DEF HelpOffer
  <2>5. CASE HelpDrop(t)
    <3>1. wr[t].ctl \in Words /\ wr'[t].ctl = wr[t].ctl /\ pc[t] = "hp_drop"
      BY <2>00, <2>1, <2>5 DEF HelpDrop
    <3> QED
      BY <1>6, <2>0, <3>1 DEF Pending
  <2>6. CASE HelpAddr(t) \/ HelpTheirSpace(t) \/ HelpStore(t)
    <3>1. pc[t] \in {"hp_addr", "hp_theirs", "hp_store"} /\ wr'[t].ctl = wr[t].ctl
      BY <2>6 DEF HelpAddr, HelpTheirSpace, HelpStore, Shapes, WriteType
    <3> QED
      BY <1>6, <2>0, <3>1 DEF Pending
  <2>7. CASE HelpCas(t)
    <3>1. \/ pc'[t] = "hp_offer"
          \/ pc'[t] = "hp_drop" /\ wr'[t].ctl = control[cursor[t]]
      BY <2>7 DEF HelpCas, Goto, Shapes, WriteType
    <3> QED
      BY <1>0, <1>6, <2>0, <3>1 DEF Pending, LoadSteps, LoadLabels, IntoInnerLabels
  <2> QED
    BY <1>6, <2>2, <2>3, <2>4, <2>5, <2>6, <2>7 DEF HelpStep
<1> QED
  BY <1>1, <1>2, <1>3, <1>4, <1>5, <1>6 DEF Acts

\* A word in a helper's mind is none that the reader will use again.
LEMMA NextGenerational ==
    ASSUME ListInv, HelpInv, NoWrap, NoWrap', NEW t \in Threads, Acts(t)
    PROVE  Generational'
<1> Shape /\ Shapes /\ Locals
  BY DEF ListInv, HelpInv
<1>1. \A u \in Threads : u # t => Same(u)
  BY OthersSame
<1>2. \A u \in Threads : Pending(u) => cursor[u] # node[u] /\ Past(u, cursor[u], wr[u].ctl)
  BY DEF HelpInv, Generational, Past
<1>3. ASSUME NEW u \in Threads, u # t, Pending(u)'
      PROVE  cursor'[u] # node'[u] /\ Past(u, cursor[u], wr[u].ctl)'
  <2>1. Pending(u) /\ cursor'[u] = cursor[u] /\ node'[u] = node[u]
    BY <1>1, <1>3 DEF Same, Pending, InHelp
  <2>2. lpc[u] = "visit" /\ wr[u].ctl \in Words /\ cursor[u] \in Nodes
    BY <2>1, PendingVisits DEF Locals
  <2> QED
    BY <1>2, <1>3, <2>1, <2>2, PastKept
<1>4. ASSUME Pending(t)'
      PROVE  cursor'[t] # node'[t] /\ Past(t, cursor[t], wr[t].ctl)'
  <2>1. /\ UNCHANGED listVars /\ lpc[t] = "visit"
        /\ \/ Pending(t) /\ wr'[t].ctl = wr[t].ctl
           \/ /\ control[cursor[t]] \in Words /\ wr'[t].ctl = control[cursor[t]]
              /\ pc[t] \notin OpenLabels
    BY <1>4, PendingStep
  <2>2. Owned(t) = node[t] /\ cursor'[t] = cursor[t] /\ node'[t] = node[t] /\ stale' = stale
    BY <2>1, OwnsNode DEF listVars
  <2>3. \A v \in Threads : v # t => Owned(v)' = Owned(v) /\ pc'[v] = pc[v] /\ generation'[v] = generation[v]
    BY <1>1 DEF Same, Owned
  <2>4. CASE Pending(t) /\ wr'[t].ctl = wr[t].ctl
    BY <1>2, <2>2, <2>3, <2>4 DEF Past
  <2>5. CASE /\ control[cursor[t]] \in Words /\ wr'[t].ctl = control[cursor[t]]
             /\ pc[t] \notin OpenLabels
    <3>1. cursor[t] # node[t]
      BY <2>1, <2>5, ReadsWord
    <3>2. PICK u \in Threads : /\ u # t /\ Owned(u) = cursor[t] /\ pc[u] \in OpenLabels
                               /\ control[cursor[t]] = GEN(generation[u])
      BY <2>1, <2>5, ReadsWord
    <3>3. pc[u] # "fb_ctl" /\ GEN(generation[u]) <= GEN(generation[u])
      <4>1. GEN(generation[u]) \in Nat
        BY ControlFacts DEF Shapes
      <4> QED
        BY <3>2, <4>1 DEF OpenLabels
    <3> QED
      BY <2>2, <2>3, <2>5, <3>1, <3>2, <3>3 DEF Past
  <2> QED
    BY <2>1, <2>4, <2>5
<1> QED
  BY <1>3, <1>4 DEF Generational, Past

-----------------------------------------------------------------------------
(* Slots.                                                                    *)

\* A debt is put into a slot by its owner only; the other steps pay debts.
LEMMA SlotsDrain ==
    ASSUME ListInv, HelpInv, NEW t \in Threads, Acts(t), ~FastTake(t), ~ConfirmSlot(t)
    PROVE  \/ UNCHANGED slots
           \/ \E d \in AllDebts : /\ d # NoDebt
                                  /\ slots' = [slots EXCEPT ![d[1]][d[2]] = NONE]
                                  /\ \A n \in Nodes, k \in SlotIds :
                                        slots'[n][k] = IF d = <<n, k>> THEN NONE ELSE slots[n][k]
<1> Shape /\ Locals /\ Shapes /\ Instances /\ Local(t)
  BY DEF ListInv, HelpInv
<1>1. ASSUME NEW d \in AllDebts, d # NoDebt, slots' = [slots EXCEPT ![d[1]][d[2]] = NONE]
      PROVE  \A n \in Nodes, k \in SlotIds :
                slots'[n][k] = IF d = <<n, k>> THEN NONE ELSE slots[n][k]
  <2>1. d[1] \in Nodes /\ d[2] \in SlotIds /\ d = <<d[1], d[2]>>
    BY <1>1, DebtFacts DEF AllDebts
  <2> QED
    BY <1>1, <2>1 DEF Shapes
<1>2. SUFFICES ASSUME slots' # slots
               PROVE  \E d \in AllDebts : d # NoDebt /\ slots' = [slots EXCEPT ![d[1]][d[2]] = NONE]
  BY <1>1
<1>3. CASE PayAllSlot(t)
  <2>1. cursor[t] \in Nodes /\ NthSlot(wr[t].idx) \in SlotIds
    BY <1>3, AtHand, Fields, Consts DEF PayAllSlot, VisitLabels, NthSlot
  <2>2. slots' = [slots EXCEPT ![cursor[t]][NthSlot(wr[t].idx)] = NONE]
    BY <1>2, <1>3 DEF PayAllSlot, Pay
  <2> QED
    BY <2>1, <2>2, DebtFacts
<1>4. CASE AttemptPay(t) \/ FallbackUnpay(t) \/ IntoInnerPay(t) \/ GuardDropPay(t)
  <2>1. slots' = [slots EXCEPT ![ld[t].debt[1]][ld[t].debt[2]] = NONE]
    BY <1>2, <1>4 DEF AttemptPay, FallbackUnpay, IntoInnerPay, GuardDropPay, Pay
  <2>2. ld[t].debt \in AllDebts
    BY Fields
  <2>3. ld[t].debt # NoDebt
    <3>1. CASE AttemptPay(t) \/ GuardDropPay(t)
      BY <3>1, DebtFacts DEF AttemptPay, GuardDropPay, Local, Registers
    <3>2. CASE FallbackUnpay(t)
      <4>1. ld[t].debt = <<node[t], HelpingSlot>>
        BY <3>2 DEF FallbackUnpay, Local, Registers, HelpedLabels
      <4>2. node[t] \in Nodes
        BY <3>2, OwnsNode DEF FallbackUnpay, HelpedLabels
      <4> QED
        BY <4>1, <4>2, DebtFacts, Consts
    <3>3. CASE IntoInnerPay(t)
      BY <3>3 DEF IntoInnerPay, Local, Registers, IntoInnerLabels
    <3> QED
      BY <1>4, <3>1, <3>2, <3>3
  <2> QED
    BY <2>1, <2>2, <2>3
<1>5. CASE CallStep(t) \/ NodeOnly(t) \/ HelpStep(t) \/ WalkStep(t)
  <2>1. CallStep(t) => UNCHANGED slots
    BY CallEffect
  <2> QED
    BY <1>2, <1>5, <2>1 DEF NodeOnly, NodeStep, TmpNodeDrop, ExitStep, debtVars, HelpStep,
       HelpControl, HelpAddr,
       HelpReconfirm, HelpTheirSpace, HelpStore, HelpCas, HelpDrop, HelpOffer, WalkStep,
       PayAllWalk,
       PayAllReserve, PayAllRelease
<1>6. CASE ReadStep(t)
  BY <1>2, <1>4, <1>6 DEF ReadStep, AttemptLoad, FastScan, AttemptConfirm, HelpingAnnounce,
                HelpingOpen, FallbackCandidate, ConfirmControl,
                ConfirmHandover, ConfirmSpace, FallbackUndec
<1>7. CASE ResultStep(t)
  BY <1>2, <1>4, <1>7 DEF ResultStep, IntoInnerInc, IntoInnerDec, GuardDropDec,
         ReturnGuard, ReturnFull, ReturnCas, ReturnRcu, RcuApply, CasExchange, CasDec,
         CasDropNew, PayAllDec, OldDec
<1>8. CASE PayStep(t)
  BY <1>2, <1>3, <1>8 DEF PayStep, PayAllInc, PayAllIncMore
<1> QED
  BY <1>5, <1>6, <1>7, <1>8 DEF Acts

\* A thread that may still owe the reference of its helping slot.
Holds(u) ==
    \/ pc[u] \in {"fb_confirm", "fb_hand", "fb_space", "fb_unpay"}
    \/ pc[u] \in {"in_inc", "in_pay"} /\ ld[u].debt[2] = HelpingSlot

\* The debt stays the thread's until it is paid.
LEMMA HoldsOn ==
    ASSUME ListInv, HelpInv, NEW t \in Threads, Acts(t), Holds(t), node[t] \in Nodes,
           ld[t].ptr = slots[node[t]][HelpingSlot]
    PROVE  /\ node'[t] = node[t]
           /\ \/ Holds(t)' /\ ld'[t].ptr = ld[t].ptr
              \/ slots'[node[t]][HelpingSlot] = NONE
<1> Shape /\ Locals /\ Shapes /\ Instances /\ Local(t)
  BY DEF ListInv, HelpInv
<1>0. HelpingSlot \in SlotIds
  BY Consts
<1>1. CASE pc[t] \in {"in_inc", "in_pay"} /\ ld[t].debt[2] = HelpingSlot
  <2>1. (IntoInnerInc(t) \/ IntoInnerPay(t)) /\ UNCHANGED listVars
    BY <1>1, CallEffect DEF Acts, NodeOnly, NodeStep, TmpNodeDrop, ExitStep, LoadEntry,
       ResultStep,
       IntoInnerDec, GuardDropPay, GuardDropDec, ReturnGuard, ReturnFull, ReturnCas,
       ReturnRcu, RcuApply,
       CasExchange, CasDec, CasDropNew, PayAllDec, OldDec, ReadStep, AttemptLoad, FastScan,
       FastTake,
       AttemptConfirm, AttemptPay, HelpingAnnounce, HelpingOpen, FallbackCandidate,
       ConfirmSlot,
       ConfirmControl, ConfirmHandover, ConfirmSpace, FallbackUnpay, FallbackUndec,
       HelpStep, HelpControl,
       HelpAddr, HelpReconfirm, HelpTheirSpace, HelpStore, HelpCas, HelpDrop, HelpOffer,
       PayStep, PayAllInc, PayAllSlot, PayAllIncMore, WalkStep, PayAllWalk, PayAllReserve,
       PayAllRelease
  <2>2. CASE IntoInnerInc(t)
    BY <1>1, <2>1, <2>2 DEF IntoInnerInc, Holds, Goto, Shapes, listVars
  <2>3. CASE IntoInnerPay(t)
    <3>1. ld[t].debt[1] = node[t]
      BY <1>1 DEF Local, Registers, IntoInnerLabels
    <3>2. IsOwed(ld[t].debt, ld[t].ptr)
      BY <1>1, <3>1 DEF IsOwed
    <3>3. slots' = [slots EXCEPT ![node[t]][HelpingSlot] = NONE]
      BY <1>1, <2>3, <3>1, <3>2 DEF IntoInnerPay, Pay
    <3> QED
      BY <1>0, <2>1, <3>3 DEF Shapes, listVars
  <2> QED
    BY <2>1, <2>2, <2>3
<1>2. CASE pc[t] \in {"fb_confirm", "fb_hand", "fb_space", "fb_unpay"}
  <2>1. ReadStep(t) /\ UNCHANGED listVars
    <3>1. ~Neutral(t)
      BY <1>2, NeutralEffect DEF BusyLabels, OpenLabels, HelpedLabels
    <3>2. ~HelpStep(t)
      BY <1>2 DEF HelpStep, HelpControl, HelpAddr, HelpReconfirm, HelpTheirSpace,
         HelpStore, HelpCas,
         HelpDrop, HelpOffer
    <3> QED
      BY <3>1, <3>2, ActsCases
  <2>2. ConfirmControl(t) \/ ConfirmHandover(t) \/ ConfirmSpace(t) \/ FallbackUnpay(t)
    BY <1>2, <2>1 DEF ReadStep, AttemptLoad, FastScan, FastTake, AttemptConfirm,
       AttemptPay, HelpingAnnounce,
       HelpingOpen, FallbackCandidate, ConfirmSlot, FallbackUndec
  <2>3. CASE ConfirmControl(t)
    <3>1. /\ pc'[t] \in {"in_inc", "fb_hand"} /\ ld'[t].ptr = ld[t].ptr
          /\ ld'[t].debt = <<node[t], HelpingSlot>>
      BY <2>3 DEF ConfirmControl, Goto, Shapes, LoadType
    <3> QED
      BY <2>1, <3>1 DEF Holds, listVars
  <2>4. CASE ConfirmHandover(t) \/ ConfirmSpace(t)
    BY <2>1, <2>4 DEF ConfirmHandover, ConfirmSpace, Holds, Goto, Shapes, LoadType, listVars
  <2>5. CASE FallbackUnpay(t)
    <3>1. ld[t].debt = <<node[t], HelpingSlot>>
      BY <2>5 DEF FallbackUnpay, Local, Registers, HelpedLabels
    <3>2. IsOwed(ld[t].debt, ld[t].ptr)
      BY <3>1 DEF IsOwed
    <3>3. slots' = [slots EXCEPT ![node[t]][HelpingSlot] = NONE]
      BY <2>5, <3>1, <3>2 DEF FallbackUnpay, Pay
    <3> QED
      BY <1>0, <2>1, <3>3 DEF Shapes, listVars
  <2> QED
    BY <2>2, <2>3, <2>4, <2>5
<1> QED
  BY <1>1, <1>2 DEF Holds

\* Slots are found free by the one that takes them, and stay free until then.
LEMMA NextSlotsFree ==
    ASSUME ListInv, HelpInv, NEW t \in Threads, Acts(t)
    PROVE  SlotsFree'
<1> Shape /\ Locals /\ Shapes /\ Instances /\ SlotsFree /\ \A u \in Threads : Local(u)
  BY DEF ListInv, HelpInv
<1>0. \A u \in Threads : u # t => pc'[u] = pc[u] /\ node'[u] = node[u] /\ ld'[u] = ld[u]
  BY OthersSame DEF Same
<1>1. HelpingSlot \in SlotIds /\ NONE \notin Ptrs
  BY Consts
<1>2. \A u \in Threads : pc[u] \in {"take", "fb_slot"} => node[u] \in Nodes /\ Owned(u) = node[u]
  BY OwnsNode DEF OpenLabels
<1>3. \A u \in Threads : ld[u].idx \in SlotIds /\ ld[u].ptr \in Ptrs
  BY Fields, Consts
<1>4. \A u \in Threads : /\ u # t /\ pc[u] \in {"take", "fb_slot"} /\ pc[t] \in {"take", "fb_slot"}
                         => node[u] # node[t]
  BY <1>2, NodesFacts DEF ListInv, ExclusiveOwnership
<1>5. \A u \in Threads : Holds(u) /\ u # t => Holds(u)' /\ node'[u] = node[u] /\ ld'[u] = ld[u]
  BY <1>0 DEF Holds
<1>6. \A n \in Nodes : slots[n][HelpingSlot] # NONE =>
         \E u \in Threads : node[u] = n /\ Holds(u) /\ ld[u].ptr = slots[n][HelpingSlot]
  BY DEF SlotsFree, Holds
<1>7. CASE FastTake(t)
  <2>1. pc[t] = "take" /\ pc'[t] = "ld_confirm" /\ ld[t].idx # HelpingSlot /\ node[t] \in Nodes
    BY <1>2, <1>7, Consts DEF FastTake, Goto, Shapes, Local, Registers
  <2>2. \A n \in Nodes, k \in SlotIds :
           slots'[n][k] = IF n = node[t] /\ k = ld[t].idx THEN ld[t].ptr ELSE slots[n][k]
    BY <1>3, <1>7, <2>1 DEF FastTake, Shapes
  <2>3. \A u \in Threads : pc'[u] = "take" => slots'[node'[u]][ld'[u].idx] = NONE
    BY <1>0, <1>2, <1>3, <1>4, <2>1, <2>2 DEF SlotsFree
  <2>4. ~Holds(t)
    BY <2>1 DEF Holds
  <2>5. \A n \in Nodes : slots'[n][HelpingSlot] # NONE =>
         \E u \in Threads : node'[u] = n /\ Holds(u)' /\ ld'[u].ptr = slots'[n][HelpingSlot]
    BY <1>1, <1>5, <1>6, <2>1, <2>2, <2>4
  <2> QED
    BY <2>3, <2>5 DEF SlotsFree, Holds
<1>8. CASE ConfirmSlot(t)
  <2>1. /\ pc[t] = "fb_slot" /\ pc'[t] = "fb_confirm" /\ ld'[t] = ld[t] /\ node[t] \in Nodes
        /\ node'[t] = node[t]
    <3>1. UNCHANGED listVars
      <4>1. pc[t] = "fb_slot"
        BY <1>8 DEF ConfirmSlot
      <4>2. ~Neutral(t)
        BY <4>1, NeutralEffect DEF BusyLabels, OpenLabels
      <4> QED
        BY <4>2, ActsCases
    <3> QED
      BY <1>2, <1>8, <3>1 DEF ConfirmSlot, Goto, Shapes, listVars
  <2>2. \A n \in Nodes, k \in SlotIds :
           slots'[n][k] = IF n = node[t] /\ k = HelpingSlot THEN ld[t].ptr ELSE slots[n][k]
    BY <1>1, <1>8, <2>1 DEF ConfirmSlot, Shapes
  <2>3. \A u \in Threads : pc'[u] = "take" => slots'[node'[u]][ld'[u].idx] = NONE
    BY <1>0, <1>2, <1>3, <1>4, <2>1, <2>2 DEF SlotsFree
  <2>4. ~Holds(t) /\ Holds(t)'
    BY <2>1 DEF Holds
  <2>5. \A n \in Nodes : slots'[n][HelpingSlot] # NONE =>
         \E u \in Threads : node'[u] = n /\ Holds(u)' /\ ld'[u].ptr = slots'[n][HelpingSlot]
    BY <1>1, <1>5, <1>6, <2>1, <2>2, <2>4
  <2> QED
    BY <2>3, <2>5 DEF SlotsFree, Holds
<1>9. CASE ~FastTake(t) /\ ~ConfirmSlot(t)
  <2>1. \A n \in Nodes, k \in SlotIds : slots'[n][k] = slots[n][k] \/ slots'[n][k] = NONE
    BY <1>9, SlotsDrain
  <2>2. ASSUME NEW u \in Threads, pc'[u] = "take"
        PROVE  slots'[node'[u]][ld'[u].idx] = NONE
    <3>1. CASE u # t
      BY <1>0, <1>2, <1>3, <2>1, <2>2, <3>1 DEF SlotsFree
    <3>2. CASE u = t
      <4>1. ~Neutral(t)
        BY <2>2, <3>2, NeutralEffect DEF BusyLabels
      <4>2. ~HelpStep(t)
        BY <2>2, <3>2 DEF HelpStep, HelpControl, HelpAddr, HelpReconfirm, HelpTheirSpace,
           HelpStore, HelpCas,
         HelpDrop, HelpOffer, HelpMatch, LoadEntry, Goto, Shapes
      <4>3. ReadStep(t) /\ UNCHANGED listVars
        BY <4>1, <4>2, ActsCases
      <4>4. FastScan(t)
        BY <2>2, <3>2, <4>3 DEF ReadStep, AttemptLoad, FastTake, AttemptConfirm,
           AttemptPay, HelpingAnnounce,
           HelpingOpen, FallbackCandidate, ConfirmSlot, ConfirmControl, ConfirmHandover,
           ConfirmSpace,
           FallbackUnpay, FallbackUndec, LoadReturns, Pay, Goto, Shapes
      <4>5. slots' = slots /\ slots[node[t]][ld'[t].idx] = NONE /\ node'[t] = node[t]
        BY <2>2, <3>2, <4>3, <4>4 DEF FastScan, Goto, Shapes, LoadType, listVars
      <4> QED
        BY <3>2, <4>5
    <3> QED
      BY <3>1, <3>2
  <2>3. ASSUME NEW n \in Nodes, slots'[n][HelpingSlot] # NONE
        PROVE  \E u \in Threads : node'[u] = n /\ Holds(u)' /\ ld'[u].ptr = slots'[n][HelpingSlot]
    <3>1. slots'[n][HelpingSlot] = slots[n][HelpingSlot]
      BY <1>1, <2>1, <2>3
    <3>2. PICK u \in Threads : node[u] = n /\ Holds(u) /\ ld[u].ptr = slots[n][HelpingSlot]
      BY <1>6, <2>3, <3>1
    <3>3. CASE u # t
      BY <1>5, <3>1, <3>2, <3>3
    <3>4. CASE u = t
      BY <2>3, <3>1, <3>2, <3>4, HoldsOn
    <3> QED
      BY <3>3, <3>4
  <2> QED
    BY <2>2, <2>3 DEF SlotsFree, Holds
<1> QED
  BY <1>7, <1>8, <1>9

-----------------------------------------------------------------------------
(* Envelopes.                                                                *)

\* The labels at which a thread changes the envelope of its node.
Turning == {"fb_hand", "fb_space", "hp_offer"}

\* What tells which envelope a node has.
Orderly == ListInv /\ Shapes /\ (\A t \in Threads : Local(t)) /\ Announced

\* What Envelope comes to: at most one thread exchanges the envelope of a node, and
\* it has nothing announced.
EnvelopeIs ==
    \A n \in Nodes :
        /\ Tag(control[n]) = REPLACEMENT_TAG => Envelope(n) = EnvelopeIn(control[n])
        /\ \A u \in Threads : node[u] = n /\ pc[u] \in {"fb_hand", "fb_space"} => Envelope(n) = ld[u].env
        /\ \A u \in Threads : node[u] = n /\ pc[u] = "hp_offer" => Envelope(n) = wr[u].env
        /\ \/ Tag(control[n]) = REPLACEMENT_TAG
           \/ \E u \in Threads : node[u] = n /\ pc[u] \in {"fb_hand", "fb_space", "hp_offer"}
           \/ Envelope(n) = space_offer[n]

\* A node has the envelope that is on its way to it, or the one it offers.
LEMMA EnvelopeCases == Orderly => EnvelopeIs
<1> SUFFICES ASSUME Orderly PROVE EnvelopeIs
  OBVIOUS
<1> USE DEF Orderly
<1> Shape /\ Shapes /\ Announced /\ \A u \in Threads : Local(u)
  BY DEF ListInv
<1> USE DEF Turning
<1>1. \A u \in Threads : pc[u] \in Turning \cup OpenLabels => node[u] \in Nodes /\ Owned(u) = node[u]
  BY DEF Local, Places, Owned, Shape, VisitLabels, OpenLabels, HelpedLabels
<1>2. \A u, v \in Threads : /\ pc[u] \in Turning \cup OpenLabels /\ pc[v] \in Turning \cup OpenLabels
                            /\ node[u] = node[v]
                            => u = v
  BY <1>1, NodesFacts DEF ListInv, ExclusiveOwnership
<1> SUFFICES ASSUME NEW n \in Nodes
             PROVE  /\ Tag(control[n]) = REPLACEMENT_TAG => Envelope(n) = EnvelopeIn(control[n])
                    /\ \A u \in Threads : node[u] = n /\ pc[u] \in {"fb_hand", "fb_space"} => Envelope(n) = ld[u].env
                    /\ \A u \in Threads : node[u] = n /\ pc[u] = "hp_offer" => Envelope(n) = wr[u].env
                    /\ \/ Tag(control[n]) = REPLACEMENT_TAG
                       \/ \E u \in Threads : node[u] = n /\ pc[u] \in {"fb_hand", "fb_space", "hp_offer"}
                       \/ Envelope(n) = space_offer[n]
  BY DEF EnvelopeIs
<1>3. ASSUME NEW u \in Threads, node[u] = n, pc[u] \in Turning
      PROVE  Tag(control[n]) # REPLACEMENT_TAG
  <2>1. ~\E v \in Threads : node[v] = n /\ pc[v] \in OpenLabels
    BY <1>2, <1>3 DEF OpenLabels
  <2>2. control[n] = IDLE
    BY <2>1 DEF Announced
  <2> QED
    BY <2>2, ControlFacts DEF REPLACEMENT_TAG
<1>4. ASSUME NEW u \in Threads, node[u] = n, pc[u] \in {"fb_hand", "fb_space"}
      PROVE  Envelope(n) = ld[u].env
  <2> DEFINE v == CHOOSE t \in Threads : node[t] = n /\ pc[t] \in {"fb_hand", "fb_space"}
  <2>1. v \in Threads /\ node[v] = n /\ pc[v] \in {"fb_hand", "fb_space"}
    BY <1>4
  <2>2. v = u
    BY <1>2, <1>4, <2>1
  <2>3. Envelope(n) = ld[v].env
    BY <1>3, <1>4 DEF Envelope
  <2> QED
    BY <2>2, <2>3
<1>5. ASSUME NEW u \in Threads, node[u] = n, pc[u] = "hp_offer"
      PROVE  Envelope(n) = wr[u].env
  <2> DEFINE v == CHOOSE t \in Threads : node[t] = n /\ pc[t] \in {"hp_offer"}
  <2>1. v \in Threads /\ node[v] = n /\ pc[v] = "hp_offer"
    BY <1>5
  <2>2. v = u
    BY <1>2, <1>5, <2>1
  <2>3. ~\E t \in Threads : node[t] = n /\ pc[t] \in {"fb_hand", "fb_space"}
    BY <1>2, <1>5
  <2>4. Envelope(n) = wr[v].env
    BY <1>3, <1>5, <2>3 DEF Envelope
  <2> QED
    BY <2>2, <2>4
<1> QED
  BY <1>4, <1>5 DEF Envelope

\* The same after a step.
LEMMA EnvelopeCasesNext == Orderly' => EnvelopeIs'
BY EnvelopeCases, PTL

\* A node without an announced load has its control at rest.
LEMMA AtRest ==
    ASSUME ListInv, HelpInv, NEW u \in Threads, Owned(u) = node[u], node[u] \in Nodes, pc[u] \notin OpenLabels
    PROVE  control[node[u]] = IDLE
<1>1. ASSUME NEW v \in Threads, node[v] = node[u], pc[v] \in OpenLabels
      PROVE  FALSE
  <2>1. Owned(v) = node[v] /\ v # u
    BY <1>1, OwnsNode
  <2> QED
    BY <1>1, <2>1, NodesFacts DEF ListInv, ExclusiveOwnership
<1> QED
  BY <1>1 DEF HelpInv, Announced

\* The envelope of a node that t does not meet stays.
LEMMA EnvelopeStays ==
    ASSUME EnvelopeIs, EnvelopeIs', NEW t \in Threads, \A u \in Threads : u # t => Same(u),
           NEW n \in Nodes, control'[n] = control[n], space_offer'[n] = space_offer[n],
           ~(node[t] = n /\ pc[t] \in Turning), ~(node'[t] = n /\ pc'[t] \in Turning)
    PROVE  Envelope(n)' = Envelope(n)
<1>1. \A u \in Threads : u # t => pc'[u] = pc[u] /\ node'[u] = node[u] /\ ld'[u] = ld[u] /\ wr'[u] = wr[u]
  BY DEF Same
<1>2. CASE Tag(control[n]) = REPLACEMENT_TAG
  BY <1>2 DEF EnvelopeIs
<1>3. CASE \E u \in Threads : node[u] = n /\ pc[u] \in Turning
  <2>1. PICK u \in Threads : node[u] = n /\ pc[u] \in Turning
    BY <1>3
  <2>2. node'[u] = n /\ pc'[u] = pc[u] /\ ld'[u] = ld[u] /\ wr'[u] = wr[u]
    BY <1>1, <2>1
  <2>3. CASE pc[u] \in {"fb_hand", "fb_space"}
    BY <2>1, <2>2, <2>3 DEF EnvelopeIs
  <2>4. CASE pc[u] = "hp_offer"
    BY <2>1, <2>2, <2>4 DEF EnvelopeIs
  <2> QED
    BY <2>1, <2>3, <2>4 DEF Turning
<1>4. CASE /\ Tag(control[n]) # REPLACEMENT_TAG
           /\ ~\E u \in Threads : node[u] = n /\ pc[u] \in Turning
  <2>1. ~\E u \in Threads : node'[u] = n /\ pc'[u] \in Turning
    BY <1>1, <1>4
  <2> QED
    BY <1>4, <2>1 DEF EnvelopeIs, Turning
<1> QED
  BY <1>2, <1>3, <1>4

\* Steps that exchange no envelope.
LEMMA TurningSteps ==
    ASSUME Shapes, NEW t \in Threads, Acts(t)
    PROVE  \/ HelpingOpen(t) \/ ConfirmControl(t) \/ ConfirmHandover(t) \/ ConfirmSpace(t)
           \/ HelpOffer(t)
           \/ HelpCas(t) /\ pc'[t] = "hp_offer"
           \/ UNCHANGED <<control, space_offer>> /\ pc[t] \notin Turning /\ pc'[t] \notin Turning
<1> USE DEF Turning
<1>1. CASE Neutral(t)
  BY <1>1, NeutralEffect DEF BusyLabels, HelpedLabels, helpVars
<1>2. CASE ReadStep(t)
  BY <1>2 DEF ReadStep, AttemptLoad, FastScan, FastTake, AttemptConfirm, AttemptPay,
     HelpingAnnounce,
     FallbackCandidate, ConfirmSlot, FallbackUnpay, FallbackUndec, LoadReturns, Pay,
     helpVars, Goto, Shapes
<1>3. CASE HelpStep(t)
  <2>1. CASE HelpControl(t) \/ HelpAddr(t) \/ HelpReconfirm(t) \/ HelpTheirSpace(t)
    BY <2>1 DEF HelpControl, HelpAddr, HelpReconfirm, HelpTheirSpace, HelpMatch, LoadEntry,
       helpVars, Goto, Shapes
  <2>2. CASE HelpStore(t)
    BY <2>2 DEF HelpStore, helpVars, Goto, Shapes
  <2>3. CASE HelpDrop(t)
    BY <2>3 DEF HelpDrop, HelpMatch, LoadEntry, helpVars, Goto, Shapes
  <2>4. CASE HelpCas(t)
    BY <2>4 DEF HelpCas, helpVars, Goto, Shapes
  <2> QED
    BY <1>3, <2>1, <2>2, <2>3, <2>4 DEF HelpStep
<1> QED
  BY <1>1, <1>2, <1>3, ActsCases

\* The steps of the owner of a node leave the node its envelope.
LEMMA OwnerKeeps ==
    ASSUME ListInv, HelpInv, EnvelopeIs, EnvelopeIs', NEW t \in Threads, UNCHANGED listVars,
           \A u \in Threads : u # t => Same(u),
           HelpingOpen(t) \/ ConfirmControl(t) \/ ConfirmHandover(t) \/ ConfirmSpace(t) \/ HelpOffer(t)
    PROVE  \A n \in Nodes : Envelope(n)' = Envelope(n)
<1> Shape /\ Shapes /\ Local(t) /\ node'[t] = node[t]
  BY DEF ListInv, HelpInv, listVars
<1> DEFINE m == node[t]
<1>1. pc[t] \in {"fb_ctl", "fb_confirm", "fb_hand", "fb_space", "hp_offer"}
  BY DEF HelpingOpen, ConfirmControl, ConfirmHandover, ConfirmSpace, HelpOffer
<1>2. m \in Nodes /\ Owned(t) = m
  BY <1>1, OwnsNode DEF VisitLabels, OpenLabels, HelpedLabels
<1>3. \A n \in Nodes : n # m => control'[n] = control[n] /\ space_offer'[n] = space_offer[n]
  BY <1>2 DEF HelpingOpen, ConfirmControl, ConfirmHandover, ConfirmSpace, HelpOffer,
     helpVars, Shapes
<1>4. \A n \in Nodes : n # m => Envelope(n)' = Envelope(n)
  BY <1>3, EnvelopeStays
<1>5. \A u \in Threads : u # t => ~(node[u] = m /\ pc[u] \in Turning)
  <2>1. \A u \in Threads : pc[u] \in Turning => Owned(u) = node[u]
    BY OwnsNode DEF Turning
  <2> QED
    BY <1>2, <2>1, NodesFacts DEF ListInv, ExclusiveOwnership
<1>6. \A u \in Threads : u # t => ~(node'[u] = m /\ pc'[u] \in Turning)
  BY <1>5 DEF Same
<1>7. ASSUME pc[t] \notin Turning, Tag(control[m]) # REPLACEMENT_TAG
      PROVE  Envelope(m) = space_offer[m]
  BY <1>2, <1>5, <1>7 DEF EnvelopeIs, Turning
<1>8. ASSUME pc'[t] \notin Turning, Tag(control'[m]) # REPLACEMENT_TAG
      PROVE  Envelope(m)' = space_offer'[m]
  BY <1>2, <1>6, <1>8 DEF EnvelopeIs, Turning
<1>9. pc[t] \notin OpenLabels => Tag(control[m]) # REPLACEMENT_TAG
  BY <1>2, AtRest, ControlFacts DEF REPLACEMENT_TAG
<1>10. CASE HelpingOpen(t)
  <2>1. pc[t] = "fb_ctl" /\ pc'[t] \in {"fb_cand", "fb_discard"} /\ space_offer' = space_offer
    BY <1>10 DEF HelpingOpen, Goto, Shapes
  <2>2. control'[m] = GEN(generation[t]) /\ generation[t] \in Generations
    BY <1>2, <1>10 DEF HelpingOpen, Shapes
  <2>3. Tag(control'[m]) # REPLACEMENT_TAG
    BY <2>2, ControlFacts DEF GEN_TAG, REPLACEMENT_TAG
  <2> QED
    BY <1>4, <1>7, <1>8, <1>9, <2>1, <2>3 DEF Turning, OpenLabels
<1>11. CASE ConfirmControl(t)
  <2>1. pc[t] = "fb_confirm" /\ control'[m] = IDLE /\ space_offer' = space_offer
    BY <1>2, <1>11 DEF ConfirmControl, Shapes
  <2>2. Tag(control'[m]) # REPLACEMENT_TAG
    BY <2>1, ControlFacts DEF REPLACEMENT_TAG
  <2>3. CASE control[m] = GEN(generation[t])
    <3>1. pc'[t] = "in_inc"
      BY <1>11, <2>3 DEF ConfirmControl, Goto, Shapes
    <3>2. Tag(control[m]) # REPLACEMENT_TAG
      <4>1. generation[t] \in Generations
        BY DEF Shapes
      <4> QED
        BY <2>3, <4>1, ControlFacts DEF GEN_TAG, REPLACEMENT_TAG
    <3> QED
      BY <1>4, <1>7, <1>8, <2>1, <2>2, <3>1, <3>2 DEF Turning
  <2>4. CASE control[m] # GEN(generation[t])
    <3>1. pc'[t] = "fb_hand" /\ ld'[t].env = EnvelopeIn(control[m])
      BY <1>11, <2>4 DEF ConfirmControl, Goto, Shapes, LoadType
    <3>2. Tag(control[m]) = REPLACEMENT_TAG
      BY <2>1, <2>4, AnswerValid, ControlCases DEF OpenLabels
    <3> QED
      BY <1>2, <1>4, <3>1, <3>2 DEF EnvelopeIs
  <2> QED
    BY <2>3, <2>4
<1>12. CASE ConfirmHandover(t)
  <2>1. pc[t] = "fb_hand" /\ pc'[t] = "fb_space" /\ ld'[t].env = ld[t].env
    BY <1>12 DEF ConfirmHandover, Goto, Shapes, LoadType
  <2> QED
    BY <1>2, <1>4, <2>1 DEF EnvelopeIs
<1>13. CASE ConfirmSpace(t)
  <2>1. /\ pc[t] = "fb_space" /\ pc'[t] = "fb_unpay" /\ space_offer'[m] = ld[t].env
        /\ control' = control
    BY <1>2, <1>13 DEF ConfirmSpace, Goto, Shapes
  <2>2. Envelope(m) = ld[t].env
    BY <1>2, <2>1 DEF EnvelopeIs
  <2> QED
    BY <1>4, <1>8, <1>9, <2>1, <2>2 DEF Turning, OpenLabels
<1>14. CASE HelpOffer(t)
  <2>1. /\ pc[t] = "hp_offer" /\ pc'[t] \in {"hp_addr", "pa_slot"}
        /\ space_offer'[m] = wr[t].env /\ control' = control
    BY <1>2, <1>14 DEF HelpOffer, HelpMatch, Goto, Shapes
  <2>2. Envelope(m) = wr[t].env
    BY <1>2, <2>1 DEF EnvelopeIs
  <2> QED
    BY <1>4, <1>8, <1>9, <2>1, <2>2 DEF Turning, OpenLabels
<1> QED
  BY <1>10, <1>11, <1>12, <1>13, <1>14

\* The exchange: the reader's node gets the helper's envelope, the helper's the
\* one of the reader.
LEMMA HelpExchanges ==
    ASSUME ListInv, HelpInv, EnvelopeIs, EnvelopeIs', NEW t \in Threads, UNCHANGED listVars,
           \A u \in Threads : u # t => Same(u), HelpCas(t), pc'[t] = "hp_offer"
    PROVE  \E m, c \in Nodes :
              /\ m # c
              /\ Envelope(c)' = Envelope(m)
              /\ Envelope(m)' = Envelope(c)
              /\ \A n \in Nodes : n # c /\ n # m => Envelope(n)' = Envelope(n)
<1> /\ Shape /\ Locals /\ Shapes /\ Local(t) /\ node'[t] = node[t]
    /\ cursor'[t] = cursor[t] /\ Instances
  BY DEF ListInv, HelpInv, listVars
<1> DEFINE m == node[t]
           c == cursor[t]
<1>1. pc[t] = "hp_cas"
  BY DEF HelpCas
<1>2. m \in Nodes /\ Owned(t) = m /\ c \in Nodes
  BY <1>1, OwnsNode, AtHand DEF VisitLabels
<1>3. c # m
  BY <1>1 DEF HelpInv, Generational, Pending
<1>4. /\ control[c] = wr[t].ctl /\ control'[c] = REPLACEMENT(space_offer[m])
      /\ \A n \in Nodes : n # c => control'[n] = control[n]
      /\ space_offer' = space_offer /\ wr'[t].env = wr[t].env
  BY <1>1, <1>2 DEF HelpCas, Goto, Shapes, WriteType
<1>5. space_offer[m] \in Nodes /\ space_offer[c] = wr[t].env /\ wr[t].ctl \in Words
  BY <1>1, <1>2, <1>4 DEF HelpInv, Exchanges, Shapes, Local, Registers
<1>6. \A u \in Threads : pc[u] \in Turning \cup OpenLabels => Owned(u) = node[u]
  BY OwnsNode DEF Turning, HelpedLabels, VisitLabels
<1>7. Envelope(m) = space_offer[m]
  <2>1. control[m] = IDLE
    BY <1>1, <1>2, AtRest DEF OpenLabels
  <2>2. ~\E u \in Threads : node[u] = m /\ pc[u] \in Turning
    BY <1>1, <1>2, <1>6, NodesFacts DEF ListInv, ExclusiveOwnership, Turning
  <2> QED
    BY <1>2, <2>1, <2>2, ControlFacts DEF EnvelopeIs, Turning, REPLACEMENT_TAG
<1>8. Envelope(c) = space_offer[c]
  <2>1. control[c] \in Controls /\ control[c] \in Words
    BY <1>2, <1>4, <1>5 DEF Shapes
  <2>2. Tag(control[c]) # REPLACEMENT_TAG /\ control[c] # IDLE
    BY <2>1, ControlCases DEF GEN_TAG, REPLACEMENT_TAG
  <2>3. PICK v \in Threads : node[v] = c /\ pc[v] \in OpenLabels
    BY <1>2, <2>2 DEF HelpInv, Announced
  <2>4. ~\E u \in Threads : node[u] = c /\ pc[u] \in Turning
    BY <1>2, <1>6, <2>3, NodesFacts DEF ListInv, ExclusiveOwnership, Turning, OpenLabels
  <2> QED
    BY <1>2, <2>2, <2>4 DEF EnvelopeIs, Turning
<1>9. Envelope(c)' = space_offer[m]
  BY <1>2, <1>4, <1>5, ControlFacts DEF EnvelopeIs
<1>10. Envelope(m)' = wr[t].env
  BY <1>2, <1>4 DEF EnvelopeIs
<1>11. \A n \in Nodes : n # c /\ n # m => Envelope(n)' = Envelope(n)
  BY <1>4, EnvelopeStays
<1> QED
  BY <1>2, <1>3, <1>5, <1>7, <1>8, <1>9, <1>10, <1>11

\* Envelopes stay distinct.
LEMMA NextEnvelopes ==
    ASSUME ListInv, HelpInv, Orderly', NEW t \in Threads, Acts(t)
    PROVE  EnvelopesUnique'
<1> Shape /\ Shapes /\ EnvelopesUnique
  BY DEF ListInv, HelpInv
<1>1. EnvelopeIs /\ EnvelopeIs'
  BY EnvelopeCases, EnvelopeCasesNext DEF Orderly, HelpInv
<1>2. \A u \in Threads : u # t => Same(u)
  BY OthersSame
<1>3. CASE UNCHANGED <<control, space_offer>> /\ pc[t] \notin Turning /\ pc'[t] \notin Turning
  <2>1. \A n \in Nodes : Envelope(n)' = Envelope(n)
    BY <1>1, <1>2, <1>3, EnvelopeStays
  <2> QED
    BY <2>1 DEF EnvelopesUnique
<1>4. HelpingOpen(t) \/ ConfirmControl(t) \/ ConfirmHandover(t) \/ ConfirmSpace(t) \/ HelpCas(t) \/ HelpOffer(t)
      => UNCHANGED listVars
  <2>1. ASSUME Neutral(t)
        PROVE  pc[t] \notin {"fb_ctl", "fb_confirm", "fb_hand", "fb_space", "hp_cas", "hp_offer"}
    BY <2>1, NeutralEffect DEF BusyLabels, OpenLabels, HelpedLabels
  <2> QED
    BY <2>1, ActsCases DEF HelpingOpen, ConfirmControl, ConfirmHandover, ConfirmSpace,
       HelpCas, HelpOffer
<1>5. CASE HelpingOpen(t) \/ ConfirmControl(t) \/ ConfirmHandover(t) \/ ConfirmSpace(t) \/ HelpOffer(t)
  <2>1. \A n \in Nodes : Envelope(n)' = Envelope(n)
    BY <1>1, <1>2, <1>4, <1>5, OwnerKeeps
  <2> QED
    BY <2>1 DEF EnvelopesUnique
<1>6. CASE HelpCas(t) /\ pc'[t] = "hp_offer"
  <2>1. PICK m, c \in Nodes :
              /\ m # c
              /\ Envelope(c)' = Envelope(m)
              /\ Envelope(m)' = Envelope(c)
              /\ \A n \in Nodes : n # c /\ n # m => Envelope(n)' = Envelope(n)
    BY <1>1, <1>2, <1>4, <1>6, HelpExchanges
  <2> QED
    BY <2>1 DEF EnvelopesUnique
<1> QED
  BY <1>3, <1>5, <1>6, TurningSteps

-----------------------------------------------------------------------------
(* Answers.                                                                  *)

\* Words are neither IDLE nor replacements.
LEMMA WordsApart ==
    /\ IDLE \notin Words
    /\ \A e \in Nodes : REPLACEMENT(e) \notin Words
<1>1. IDLE \in Controls /\ \A e \in Nodes : REPLACEMENT(e) \in Controls
  BY ControlFacts
<1> QED
  BY <1>1, ControlCases, ControlFacts DEF GEN_TAG, REPLACEMENT_TAG

\* A helper has an envelope of its own to put the answer into.
LEMMA HelperEnvelope ==
    ASSUME ListInv, HelpInv, NEW u \in Threads, pc[u] \in {"hp_store", "hp_cas"}
    PROVE  /\ node[u] \in Nodes /\ Owned(u) = node[u] /\ cursor[u] \in Nodes
           /\ wr[u].ctl \in Words
           /\ Envelope(node[u]) = space_offer[node[u]]
<1> Shape /\ Locals /\ Shapes /\ Instances /\ Local(u)
  BY DEF ListInv, HelpInv
<1>1. node[u] \in Nodes /\ Owned(u) = node[u] /\ cursor[u] \in Nodes
  BY OwnsNode, AtHand DEF VisitLabels
<1>2. control[node[u]] = IDLE
  BY <1>1, AtRest DEF OpenLabels
<1>3. ~\E v \in Threads : node[v] = node[u] /\ pc[v] \in Turning
  <2>1. \A v \in Threads : pc[v] \in Turning => Owned(v) = node[v]
    BY OwnsNode DEF Turning
  <2> QED
    BY <1>1, <2>1, NodesFacts DEF ListInv, ExclusiveOwnership, Turning
<1>4. EnvelopeIs
  BY EnvelopeCases DEF Orderly, HelpInv
<1>5. Envelope(node[u]) = space_offer[node[u]]
  BY <1>1, <1>2, <1>3, <1>4, ControlFacts DEF EnvelopeIs, Turning, REPLACEMENT_TAG
<1> QED
  BY <1>1, <1>5 DEF Local, Registers

\* The helper has seen the reader's envelope and puts the answer into its own.
LEMMA HelperExchanges ==
    ASSUME ListInv, HelpInv, NEW t \in Threads, Acts(t)
    PROVE  /\ pc'[t] \in {"hp_store", "hp_cas"} /\ control'[cursor'[t]] = wr'[t].ctl =>
                 space_offer'[cursor'[t]] = wr'[t].env
           /\ pc'[t] = "hp_cas" => handover'[space_offer'[node'[t]]] = wr'[t].repl
<1> Shape /\ Locals /\ Shapes /\ Instances /\ Local(t)
  BY DEF ListInv, HelpInv
<1> SUFFICES ASSUME pc'[t] \in {"hp_store", "hp_cas"}
             PROVE  /\ control'[cursor'[t]] = wr'[t].ctl => space_offer'[cursor'[t]] = wr'[t].env
                    /\ pc'[t] = "hp_cas" => handover'[space_offer'[node'[t]]] = wr'[t].repl
  OBVIOUS
<1>1. ~Neutral(t)
  BY NeutralEffect DEF BusyLabels
<1>2. ~ReadStep(t)
  BY DEF ReadStep, AttemptLoad, FastScan, FastTake, AttemptConfirm, AttemptPay,
     HelpingAnnounce, HelpingOpen,
     FallbackCandidate, ConfirmSlot, ConfirmControl, ConfirmHandover, ConfirmSpace,
     FallbackUnpay, FallbackUndec,
     LoadReturns, Pay, Goto, Shapes
<1>3. HelpStep(t) /\ node'[t] = node[t] /\ cursor'[t] = cursor[t]
  BY <1>1, <1>2, ActsCases DEF listVars
<1>4. HelpTheirSpace(t) \/ HelpStore(t)
  BY <1>3 DEF HelpStep, HelpControl, HelpAddr, HelpReconfirm, HelpCas, HelpDrop, HelpOffer,
     HelpMatch, LoadEntry,
     Goto, Shapes
<1>5. CASE HelpTheirSpace(t)
  BY <1>3, <1>5 DEF HelpTheirSpace, Goto, Shapes, WriteType, helpVars
<1>6. CASE HelpStore(t)
  <2>1. pc[t] = "hp_store" /\ UNCHANGED <<control, space_offer, wr>>
    BY <1>6 DEF HelpStore
  <2>2. node[t] \in Nodes /\ space_offer[node[t]] \in Nodes
    BY <2>1, HelperEnvelope DEF Shapes
  <2>3. handover'[space_offer[node[t]]] = wr[t].repl
    BY <1>6, <2>2 DEF HelpStore, Shapes
  <2> QED
    BY <1>3, <2>1, <2>3 DEF HelpInv, Exchanges
<1> QED
  BY <1>4, <1>5, <1>6

\* An answer is only put into the own envelope.
LEMMA HandoverSteps ==
    ASSUME NEW t \in Threads, Acts(t)
    PROVE  HelpStore(t) \/ UNCHANGED handover
<1>1. CASE Neutral(t)
  <2>1. CASE CallStep(t)
    BY <2>1, CallEffect DEF helpVars
  <2> QED
    BY <1>1, <2>1 DEF Neutral, NodeOnly, NodeStep, TmpNodeDrop, ExitStep, debtVars,
       helpVars, PayStep, WalkStep,
         PayAllInc, PayAllWalk, PayAllReserve, PayAllSlot, PayAllIncMore, PayAllRelease,
         ResultStep, IntoInnerInc, IntoInnerPay, IntoInnerDec, GuardDropPay, GuardDropDec,
         ReturnGuard, ReturnFull, ReturnCas, ReturnRcu, RcuApply, CasExchange, CasDec,
         CasDropNew, PayAllDec, OldDec
<1>2. CASE ReadStep(t)
  BY <1>2 DEF ReadStep, AttemptLoad, FastScan, FastTake, AttemptConfirm, AttemptPay,
     HelpingAnnounce, HelpingOpen,
     FallbackCandidate, ConfirmSlot, ConfirmControl, ConfirmHandover, ConfirmSpace,
     FallbackUnpay, FallbackUndec,
     helpVars
<1>3. CASE HelpStep(t)
  BY <1>3 DEF HelpStep, HelpControl, HelpAddr, HelpReconfirm, HelpTheirSpace, HelpCas,
     HelpDrop, HelpOffer, helpVars
<1> QED
  BY <1>1, <1>2, <1>3, ActsCases

\* The step of another thread does not come between.
LEMMA OtherExchanges ==
    ASSUME ListInv, HelpInv, CooldownWaitsForWriters, NEW t \in Threads, Acts(t),
           NEW u \in Threads, u # t, pc[u] \in {"hp_store", "hp_cas"}
    PROVE  /\ control'[cursor[u]] = wr[u].ctl => space_offer'[cursor[u]] = wr[u].env
           /\ pc[u] = "hp_cas" => handover'[space_offer'[node[u]]] = wr[u].repl
<1> Shape /\ Locals /\ Shapes /\ Instances /\ Local(t)
  BY DEF ListInv, HelpInv
<1> DEFINE c == cursor[u]
           w == wr[u].ctl
<1>1. node[u] \in Nodes /\ Owned(u) = node[u] /\ c \in Nodes /\ w \in Words
  BY HelperEnvelope
<1>2. control[c] = w => space_offer[c] = wr[u].env
  BY DEF HelpInv, Exchanges
<1>3. pc[u] = "hp_cas" => handover[space_offer[node[u]]] = wr[u].repl
  BY DEF HelpInv, Exchanges
<1>4. pc[t] \in {"fb_ctl", "fb_confirm", "fb_space", "hp_offer", "hp_cas", "hp_store"} =>
         node[t] \in Nodes /\ Owned(t) = node[t] /\ node[t] # node[u]
  <2>1. SUFFICES ASSUME pc[t] \in {"fb_ctl", "fb_confirm", "fb_space", "hp_offer", "hp_cas", "hp_store"}
                 PROVE  node[t] \in Nodes /\ Owned(t) = node[t] /\ node[t] # node[u]
    OBVIOUS
  <2>2. node[t] \in Nodes /\ Owned(t) = node[t]
    BY <2>1, OwnsNode DEF OpenLabels, HelpedLabels, VisitLabels
  <2> QED
    BY <1>1, <2>2, NodesFacts DEF ListInv, ExclusiveOwnership
<1>5. CASE HelpStore(t)
  <2>1. UNCHANGED <<control, space_offer>> /\ pc[t] = "hp_store"
    BY <1>5 DEF HelpStore
  <2>2. space_offer[node[t]] # space_offer[node[u]]
    BY <1>1, <1>4, <2>1, HelperEnvelope DEF HelpInv, EnvelopesUnique
  <2>3. space_offer[node[t]] \in Nodes /\ space_offer[node[u]] \in Nodes
    BY <1>1, <1>4, <2>1 DEF Shapes
  <2>4. handover'[space_offer[node[u]]] = handover[space_offer[node[u]]]
    BY <1>5, <2>2, <2>3 DEF HelpStore, Shapes
  <2> QED
    BY <1>2, <1>3, <2>1, <2>4
<1>6. CASE UNCHANGED <<control, space_offer, handover>>
  BY <1>2, <1>3, <1>6
<1>7. CASE HelpingOpen(t)
  <2>1. pc[t] = "fb_ctl" /\ UNCHANGED <<space_offer, handover>>
    BY <1>7 DEF HelpingOpen
  <2>2. node[t] \in Nodes /\ Owned(t) = node[t]
    BY <1>4, <2>1
  <2>3. control'[node[t]] = GEN(generation[t]) /\ \A n \in Nodes : n # node[t] => control'[n] = control[n]
    BY <1>7, <2>2 DEF HelpingOpen, Shapes
  <2>4. CASE c = node[t]
    <3>1. u \notin stale[c]
      BY <1>1, <2>2, <2>4, NodesFacts DEF ListInv, ExclusiveOwnership,
         CooldownWaitsForWriters
    <3>2. PICK v \in Threads : Owned(v) = c /\ (pc[v] = "fb_ctl" => w < GEN(generation[v]))
      BY <3>1 DEF HelpInv, Generational, Pending
    <3>3. v = t
      BY <2>2, <2>4, <3>2, NodesFacts DEF ListInv, ExclusiveOwnership
    <3>4. w \in Nat /\ GEN(generation[t]) \in Nat
      BY <1>1, ControlFacts DEF Shapes, Words
    <3>5. control'[c] # w
      BY <2>1, <2>3, <2>4, <3>2, <3>3, <3>4
    <3> QED
      BY <1>3, <2>1, <3>5
  <2>5. CASE c # node[t]
    BY <1>1, <1>2, <1>3, <2>1, <2>3, <2>5
  <2> QED
    BY <2>4, <2>5
<1>8. CASE ConfirmControl(t)
  <2>1. pc[t] = "fb_confirm" /\ UNCHANGED <<space_offer, handover>>
    BY <1>8 DEF ConfirmControl
  <2>2. node[t] \in Nodes
    BY <1>4, <2>1
  <2>3. control'[node[t]] = IDLE /\ \A n \in Nodes : n # node[t] => control'[n] = control[n]
    BY <1>8, <2>2 DEF ConfirmControl, Shapes
  <2> QED
    BY <1>1, <1>2, <1>3, <2>1, <2>3, WordsApart
<1>9. CASE ConfirmSpace(t) \/ HelpOffer(t)
  <2>1. pc[t] \in {"fb_space", "hp_offer"} /\ UNCHANGED <<control, handover>>
    BY <1>9 DEF ConfirmSpace, HelpOffer
  <2>2. node[t] \in Nodes /\ Owned(t) = node[t] /\ node[t] # node[u]
    BY <1>4, <2>1
  <2>3. control[node[t]] = IDLE
    BY <2>1, <2>2, AtRest DEF OpenLabels
  <2>4. \A n \in Nodes : n # node[t] => space_offer'[n] = space_offer[n]
    BY <1>9, <2>2 DEF ConfirmSpace, HelpOffer, Shapes
  <2> QED
    BY <1>1, <1>2, <1>3, <2>1, <2>2, <2>3, <2>4, WordsApart
<1>10. CASE HelpCas(t)
  <2>1. pc[t] = "hp_cas" /\ UNCHANGED <<space_offer, handover>>
    BY <1>10 DEF HelpCas
  <2>2. cursor[t] \in Nodes /\ node[t] \in Nodes /\ space_offer[node[t]] \in Nodes
    BY <2>1, HelperEnvelope DEF Shapes
  <2>3. \/ UNCHANGED control
        \/ /\ control'[cursor[t]] = REPLACEMENT(space_offer[node[t]])
           /\ \A n \in Nodes : n # cursor[t] => control'[n] = control[n]
    BY <1>10, <2>2 DEF HelpCas, Shapes
  <2> QED
    BY <1>1, <1>2, <1>3, <2>1, <2>2, <2>3, WordsApart
<1>11. CASE ConfirmHandover(t)
  BY <1>6, <1>11 DEF ConfirmHandover, helpVars
<1> QED
  BY <1>5, <1>6, <1>7, <1>8, <1>9, <1>10, <1>11, TurningSteps, HandoverSteps

\* What a helper has seen and prepared holds until its answer can arrive.
LEMMA NextExchanges ==
    ASSUME ListInv, HelpInv, CooldownWaitsForWriters, NEW t \in Threads, Acts(t)
    PROVE  Exchanges'
<1> Shape /\ Shapes
  BY DEF ListInv, HelpInv
<1>1. \A u \in Threads : u # t => /\ pc'[u] = pc[u] /\ node'[u] = node[u] /\ cursor'[u] = cursor[u]
                                  /\ wr'[u] = wr[u]
  BY OthersSame DEF Same
<1>2. ASSUME NEW u \in Threads
      PROVE  /\ pc'[u] \in {"hp_store", "hp_cas"} /\ control'[cursor'[u]] = wr'[u].ctl =>
                 space_offer'[cursor'[u]] = wr'[u].env
             /\ pc'[u] = "hp_cas" => handover'[space_offer'[node'[u]]] = wr'[u].repl
  <2>1. CASE u = t
    BY <2>1, HelperExchanges
  <2>2. CASE u # t /\ pc[u] \in {"hp_store", "hp_cas"}
    BY <1>1, <2>2, OtherExchanges
  <2>3. CASE u # t /\ pc[u] \notin {"hp_store", "hp_cas"}
    BY <1>1, <2>3
  <2> QED
    BY <2>1, <2>2, <2>3
<1> QED
  BY <1>2 DEF Exchanges

-----------------------------------------------------------------------------
(* The invariant, and what follows from it.                                  *)

\* In the beginning nobody is in a call.
LEMMA InitHelp == Init => HelpInv
<1> SUFFICES ASSUME Init PROVE HelpInv
  OBVIOUS
<1> USE DEF Init, DebtInit
<1>0. ListInv /\ \A t \in Threads : pc[t] = "idle" /\ lpc[t] = "off"
  BY InitInv DEF ListInit
<1>1. Shapes
  <2>1. /\ slots \in [Nodes -> [SlotIds -> Ptrs \cup {NONE}]]
        /\ control \in [Nodes -> Controls]
        /\ active_addr \in [Nodes -> Storages \cup {NoStorage}]
        /\ handover \in [Nodes -> Ptrs]
        /\ space_offer \in [Nodes -> Nodes]
        /\ generation \in [Threads -> Generations]
        /\ owned \in [Addrs -> Nat]
        /\ strong \in [Addrs -> Int]
        /\ storage \in [Storages -> Ptrs \cup {Dead}]
    BY Consts, ControlFacts, ApiAssumption
  <2>2. offset \in [Threads -> 0 .. SlotCnt]
    BY Consts
  <2>3. pc \in [Threads -> HybridLabels]
    BY DEF HybridLabels
  <2>4. /\ op \in [Threads -> OpType] /\ ld \in [Threads -> LoadType]
        /\ wr \in [Threads -> WriteType]
    BY RecordTypes
  <2>5. IsABag(guards) /\ BagToSet(guards) \subseteq GuardType
    BY DEF EmptyBag, SetToBag, IsABag, BagToSet
  <2> QED
    BY <2>1, <2>2, <2>3, <2>4, <2>5 DEF Shapes
<1>2. ASSUME NEW t \in Threads PROVE Local(t)
  <2>1. pc[t] = "idle" /\ lpc[t] = "off" /\ op[t] = NoOp /\ ld[t] = NoLoad /\ wr[t] = NoWrite
    BY <1>0
  <2>2. op[t].kind = "none" /\ op[t].new = NULL /\ wr[t].repl = NULL
    BY <2>1 DEF NoOp, Operation, NoWrite
  <2>3. Places(t)
    BY <2>1 DEF Places, VisitLabels, OpenLabels, HelpedLabels
  <2>4. Calls(t)
    BY <2>1, <2>2 DEF Calls, Waiting, InHelp, LoadSteps, LoadLabels, IntoInnerLabels
  <2>5. Pointers(t)
    BY <2>1, <2>2 DEF Pointers, Waiting, InCas
  <2>6. Registers(t)
    BY <2>1 DEF Registers, InHelp, LoadSteps, LoadLabels, IntoInnerLabels, HelpedLabels
  <2> QED
    BY <2>3, <2>4, <2>5, <2>6 DEF Local
<1>3. Instances
  BY DEF Instances, NoOp, Operation
<1>4. Announced
  BY DEF Announced, OpenLabels
<1>5. Generational
  BY <1>0 DEF Generational, Pending, InHelp
<1>6. SlotsFree
  BY Consts DEF SlotsFree
<1>7. EnvelopesUnique
  <2>1. \A n \in Nodes : Envelope(n) = n
    BY ControlFacts DEF Envelope, REPLACEMENT_TAG
  <2> QED
    BY <2>1 DEF EnvelopesUnique
<1>8. Exchanges
  BY DEF Exchanges
<1> QED
  BY <1>1, <1>2, <1>3, <1>4, <1>5, <1>6, <1>7, <1>8 DEF HelpInv

\* A step that changes nothing keeps the invariant.
LEMMA StutterHelp == HelpInv /\ UNCHANGED vars => HelpInv'
<1> SUFFICES ASSUME HelpInv, UNCHANGED vars PROVE HelpInv'
  OBVIOUS
<1> UNCHANGED <<listVars, debtVars, storage, guards, owned>>
  BY DEF vars
<1> USE DEF HelpInv, listVars, debtVars, helpVars, localVars
<1>1. Shapes'
  BY DEF Shapes
<1>2. \A t \in Threads : Local(t)'
  BY SameLocal DEF Same
<1>3. Instances'
  BY DEF Instances
<1>4. Announced'
  BY DEF Announced
<1>5. Generational'
  <2>1. \A t \in Threads : (Pending(t)' <=> Pending(t)) /\ Owned(t)' = Owned(t)
    BY DEF Pending, InHelp, Owned
  <2> QED
    BY <2>1 DEF Generational
<1>6. SlotsFree'
  BY DEF SlotsFree
<1>7. EnvelopesUnique'
  <2>1. \A n \in Nodes : Envelope(n)' = Envelope(n)
    BY DEF Envelope
  <2> QED
    BY <2>1 DEF EnvelopesUnique
<1>8. Exchanges'
  BY DEF Exchanges
<1> QED
  BY <1>1, <1>2, <1>3, <1>4, <1>5, <1>6, <1>7, <1>8

\* The invariant is inductive together with that of the list, as long as no
\* generation wraps around and no cooldown is cut short.
LEMMA NextHelp ==
    ASSUME ListInv, ListInv', HelpInv, NoWrap, NoWrap', CooldownWaitsForWriters, [Next]_vars
    PROVE  HelpInv'
<1>1. CASE UNCHANGED vars
  BY <1>1, StutterHelp
<1>2. ASSUME NEW t \in Threads, Acts(t) PROVE HelpInv'
  <2>1. Shapes' /\ (\A u \in Threads : Local(u)') /\ Instances' /\ Announced'
    BY <1>2, NextShapes, NextLocal, NextInstances, NextAnnounced
  <2>2. Generational' /\ SlotsFree'
    BY <1>2, NextGenerational, NextSlotsFree
  <2>3. Orderly'
    BY <2>1 DEF Orderly
  <2>4. EnvelopesUnique' /\ Exchanges'
    BY <1>2, <2>3, NextEnvelopes, NextExchanges
  <2> QED
    BY <2>1, <2>2, <2>4 DEF HelpInv
<1>3. \A t \in Threads : Places(t)
  BY DEF HelpInv, Local
<1> QED
  BY <1>1, <1>2, <1>3, NextActs

\* Both invariants hold all the time.
LEMMA AlwaysHelp == Spec /\ []NoWrap /\ []NoCooldownRace => [](ListInv /\ HelpInv)
<1>1. Init => ListInv /\ HelpInv
  BY InitInv, InitHelp DEF Init
<1>2. ListInv /\ HelpInv /\ NoWrap /\ NoWrap' /\ CooldownWaitsForWriters /\ [Next]_vars
        => (ListInv /\ HelpInv)'
  BY NextInv, StepList, NextHelp
<1> QED
  BY <1>1, <1>2, ImplementsList, CooldownWaits, PTL DEF Spec

\* However many readers are helped at once, by whomever, and whichever answers
\* come too late: what help and confirm do with the envelopes is an exchange, and
\* no two nodes ever offer the same one.  It takes that no generation counter
\* wraps around, and that no node leaves its cooldown with a helper in it.
THEOREM EnvelopesAreUnique == Spec /\ []NoWrap /\ []NoCooldownRace => []EnvelopesUnique
<1>1. HelpInv => EnvelopesUnique
  BY DEF HelpInv
<1> QED
  BY <1>1, AlwaysHelp, PTL

\* The assertions hold in every state that satisfies the invariant.
LEMMA AssertsHold == ListInv /\ HelpInv => DebugAsserts
<1> SUFFICES ASSUME ListInv, HelpInv, NEW t \in Threads
             PROVE  LET n == node[t]
                    IN  /\ pc[t] = "take" => slots[n][ld[t].idx] = NONE
                        /\ pc[t] = "fb_slot" => slots[n][HelpingSlot] = NONE
                        /\ pc[t] = "fb_ctl" => control[n] = IDLE
                        /\ pc[t] = "hp_ctl" => control[n] = IDLE
                        /\ pc[t] = "hp_addr" => cursor[t] # n
                        /\ pc[t] = "fb_confirm" => \/ control[n] = GEN(generation[t])
                                                   \/ Tag(control[n]) = REPLACEMENT_TAG
                        /\ pc[t] \in {"scan", "fb_ctl", "fb_slot", "hp_ctl"} => in_use[n] = "NODE_USED"
                        /\ lpc[t] = "cd_swap" => in_use[n] = "NODE_USED"
  BY DEF DebugAsserts
<1> DEFINE n == node[t]
<1>1. pc[t] = "take" => slots[n][ld[t].idx] = NONE
  BY DEF HelpInv, SlotsFree
<1>2. pc[t] \in {"scan", "fb_ctl", "fb_slot", "hp_ctl"} => n \in Nodes /\ Owned(t) = n
  BY OwnsNode DEF OpenLabels, VisitLabels
<1>3. pc[t] = "fb_slot" => slots[n][HelpingSlot] = NONE
  <2>1. SUFFICES ASSUME pc[t] = "fb_slot", slots[n][HelpingSlot] # NONE PROVE FALSE
    OBVIOUS
  <2>2. PICK u \in Threads : node[u] = n /\ Holds(u)
    BY <1>2, <2>1 DEF HelpInv, SlotsFree, Holds
  <2>3. Owned(u) = node[u] /\ u # t
    BY <2>1, <2>2, OwnsNode DEF Holds
  <2> QED
    BY <1>2, <2>1, <2>2, <2>3, NodesFacts DEF ListInv, ExclusiveOwnership
<1>4. pc[t] \in {"fb_ctl", "hp_ctl"} => control[n] = IDLE
  BY <1>2, AtRest DEF OpenLabels
<1>5. pc[t] = "hp_addr" => cursor[t] # n
  BY DEF HelpInv, Generational, Pending
<1>6. pc[t] = "fb_confirm" => control[n] = GEN(generation[t]) \/ Tag(control[n]) = REPLACEMENT_TAG
  BY AnswerValid DEF OpenLabels
<1>7. pc[t] \in {"scan", "fb_ctl", "fb_slot", "hp_ctl"} => in_use[n] = "NODE_USED"
  BY <1>2, NodesFacts DEF ListInv, ExclusiveOwnership
<1>8. lpc[t] = "cd_swap" => in_use[n] = "NODE_USED"
  BY NodesFacts DEF ListInv, Locals, Owned, ExclusiveOwnership
<1> QED
  BY <1>1, <1>3, <1>4, <1>5, <1>6, <1>7, <1>8

\* The assertions in get_debt, new_helping, confirm and help hold under the same
\* conditions: a slot is free when it is taken, the control IDLE when a
\* transaction or a help begins, every answer in time, and nobody helps himself.
THEOREM AssertsNeverFail == Spec /\ []NoWrap /\ []NoCooldownRace => []DebugAsserts
BY AlwaysHelp, AssertsHold, PTL

\* Under these conditions confirm finds the node of its thread where it expects
\* it: no load panics.
THEOREM PanicsNeedAWrap == Spec /\ []NoWrap /\ []NoCooldownRace => []LoadsDoNotPanic
<1>1. HelpInv => LoadsDoNotPanic
  BY DEF HelpInv, Local, Places, LoadsDoNotPanic
<1> QED
  BY <1>1, AlwaysHelp, PTL
=============================================================================
