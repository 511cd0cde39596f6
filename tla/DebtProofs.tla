----------------------------- MODULE DebtProofs -----------------------------
(***************************************************************************)
(* Proofs about the debts, for any number of threads, nodes, Arcs and      *)
(* instances: every debt has its debtor, and what somebody relies on       *)
(* through a debt is not freed, whichever writers replaced it and paid in  *)
(* the meantime. The counts are therefore natural numbers, and the state   *)
(* is well typed.                                                          *)
(***************************************************************************)
EXTENDS RefCountProofs

-----------------------------------------------------------------------------
(* The loads that are announced, the debts of a load, and where they are.  *)

\* Thread t is in a call that takes the instance apart: drop or into_inner.
Destroys(t) == op[t].kind \in Destroyers

\* A load in the helping slot has announced the storage it loads from.
Addressed ==
    \A u \in Threads : pc[u] \in {"fb_ctl"} \cup OpenLabels => active_addr[node[u]] = op[u].s

\* Who destroys an instance finds nobody to help.
NoneToHelp ==
    \A t \in Threads : Destroys(t) =>
        /\ pc[t] \notin LoadSteps \cup {"hp_theirs", "hp_store", "hp_cas", "hp_drop", "hp_offer"}
        /\ pc[t] \in {"hp_addr", "hp_reconf"} => active_addr[cursor[t]] # op[t].s

\* The debt of a load that has not confirmed it is in its slot, or has been paid.
OwnDebts ==
    \A t \in Threads : pc[t] \in {"ld_confirm", "ld_pay"} =>
        /\ ld[t].debt[1] = node[t]
        /\ slots[node[t]][ld[t].debt[2]] \in {ld[t].ptr, NONE}

\* A writer gets to every debt.
DebtsLinked ==
    \A n \in Nodes, k \in SlotIds : slots[n][k] # NONE => n \in ChainFrom(LIST_HEAD)

\* The steps of a load, inside of help or not.
LEMMA ReadPlace ==
    ASSUME Shapes, NEW t \in Threads, ReadStep(t), Places(t)'
    PROVE  /\ pc[t] \in LoadSteps /\ pc'[t] \in LoadSteps
           /\ pc[t] # "ret" /\ pc'[t] \notin {"ld_ptr", "in_pay", "in_dec"}
           /\ UNCHANGED <<wr, op, strong>> \/ UNCHANGED <<wr, op, slots>>
<1> USE DEF LoadSteps, LoadLabels, IntoInnerLabels, Goto, LoadReturns, Pay, Shapes
<1>1. CASE AttemptLoad(t) \/ FastScan(t) \/ FastTake(t) \/ AttemptConfirm(t) \/ AttemptPay(t)
  BY <1>1 DEF AttemptLoad, FastScan, FastTake, AttemptConfirm, AttemptPay
<1>2. CASE HelpingAnnounce(t) \/ HelpingOpen(t) \/ FallbackCandidate(t) \/ ConfirmSlot(t)
  BY <1>2 DEF HelpingAnnounce, HelpingOpen, FallbackCandidate, ConfirmSlot, Places
<1>3. CASE ConfirmControl(t) \/ ConfirmHandover(t) \/ ConfirmSpace(t) \/ FallbackUnpay(t) \/ FallbackUndec(t)
  BY <1>3 DEF ConfirmControl, ConfirmHandover, ConfirmSpace, FallbackUnpay, FallbackUndec
<1> QED
  BY <1>1, <1>2, <1>3 DEF ReadStep

\* Where the steps of help lead.
LEMMA HelpPlace ==
    ASSUME ListInv, HelpInv, NEW t \in Threads, HelpStep(t)
    PROVE  /\ pc[t] \in VisitLabels \ {"pa_slot", "pa_inc2", "pa_release"}
           /\ \/ pc'[t] \in (VisitLabels \ {"hp_ctl", "pa_slot", "pa_inc2", "pa_release"}) \cup {LoadEntry}
              \/ pc'[t] = "pa_slot" /\ wr'[t].idx = 1
<1> Shape /\ Locals /\ Shapes /\ Instances /\ Local(t)
  BY DEF ListInv, HelpInv
<1>1. ASSUME NEW c \in Controls, HelpMatch(t, c)
      PROVE  pc'[t] = "hp_addr" \/ (pc'[t] = "pa_slot" /\ wr'[t].idx = 1)
  BY <1>1, MatchEffect
<1>2. CASE HelpControl(t) \/ HelpReconfirm(t) \/ HelpDrop(t) \/ HelpOffer(t)
  <2>1. pc[t] \in {"hp_ctl", "hp_reconf", "hp_drop", "hp_offer"}
    BY <1>2 DEF HelpControl, HelpReconfirm, HelpDrop, HelpOffer
  <2>2. control[cursor[t]] \in Controls /\ wr[t].ctl \in Controls /\ IDLE \in Controls
    BY <2>1, AtHand, Fields, ControlFacts DEF Shapes, VisitLabels
  <2>3. \E c \in Controls : HelpMatch(t, c)
    BY <1>2, <2>2 DEF HelpControl, HelpReconfirm, HelpDrop, HelpOffer
  <2> QED
    BY <1>1, <2>1, <2>3 DEF VisitLabels
<1>3. CASE HelpAddr(t) \/ HelpTheirSpace(t) \/ HelpStore(t) \/ HelpCas(t)
  BY <1>3 DEF HelpAddr, HelpTheirSpace, HelpStore, HelpCas, VisitLabels, Goto, Shapes
<1> QED
  BY <1>2, <1>3 DEF HelpStep

\* The one step that changes the address a node has announced.
LEMMA AddressSteps ==
    ASSUME ListInv, HelpInv, NEW t \in Threads, Acts(t)
    PROVE  HelpingAnnounce(t) \/ UNCHANGED active_addr
<1> Shapes
  BY DEF HelpInv
<1>1. CASE Neutral(t)
  BY <1>1, NeutralEffect DEF helpVars
<1>2. CASE ReadStep(t)
  BY <1>2 DEF ReadStep, AttemptLoad, FastScan, FastTake, AttemptConfirm, AttemptPay, HelpingOpen,
         FallbackCandidate, ConfirmSlot, ConfirmControl, ConfirmHandover, ConfirmSpace, FallbackUnpay,
         FallbackUndec, helpVars
<1>3. CASE HelpStep(t)
  BY <1>3 DEF HelpStep, HelpControl, HelpAddr, HelpReconfirm, HelpTheirSpace, HelpStore, HelpCas,
         HelpDrop, HelpOffer, helpVars
<1> QED
  BY <1>1, <1>2, <1>3, ActsCases

\* Which steps announce a load and go on with it.
LEMMA OpenSteps ==
    ASSUME ListInv, HelpInv, NEW t \in Threads, Acts(t), pc'[t] \in {"fb_ctl"} \cup OpenLabels
    PROVE  /\ UNCHANGED <<listVars, op, storage, guards, owned, wr>>
           /\ \/ HelpingAnnounce(t) /\ pc'[t] = "fb_ctl"
              \/ HelpingOpen(t) \/ FallbackCandidate(t) \/ ConfirmSlot(t)
<1> Shapes /\ Places(t)
  BY DEF HelpInv, Local
<1>1. ~Neutral(t)
  BY NeutralEffect DEF BusyLabels
<1>2. ~HelpStep(t)
  BY HelpPlace DEF VisitLabels, LoadEntry, OpenLabels
<1>3. ReadStep(t) /\ UNCHANGED <<listVars, storage, guards, owned>>
  BY <1>1, <1>2, ActsCases
<1>4. HelpingAnnounce(t) \/ HelpingOpen(t) \/ FallbackCandidate(t) \/ ConfirmSlot(t)
  BY <1>3 DEF ReadStep, AttemptLoad, FastScan, FastTake, AttemptConfirm, AttemptPay, ConfirmControl,
         ConfirmHandover, ConfirmSpace, FallbackUnpay, FallbackUndec, LoadReturns, Pay, Goto, Shapes,
         OpenLabels
<1> QED
  BY <1>3, <1>4 DEF HelpingAnnounce, HelpingOpen, FallbackCandidate, ConfirmSlot, Goto, Shapes

\* What is announced stays announced.
LEMMA NextAddressed ==
    ASSUME ListInv, HelpInv, Addressed, NEW t \in Threads, Acts(t)
    PROVE  Addressed'
<1> Shape /\ Shapes
  BY DEF ListInv, HelpInv
<1> SUFFICES ASSUME NEW u \in Threads, pc'[u] \in {"fb_ctl"} \cup OpenLabels
             PROVE  active_addr'[node'[u]] = op'[u].s
  BY DEF Addressed
<1>1. CASE u = t
  <2>1. UNCHANGED <<listVars, op>>
    BY <1>1, OpenSteps
  <2>2. CASE HelpingAnnounce(t)
    <3>1. node[t] \in Nodes
      BY <2>2 DEF HelpingAnnounce, Shape
    <3> QED
      BY <1>1, <2>1, <2>2, <3>1 DEF HelpingAnnounce, Shapes, listVars
  <2>3. CASE HelpingOpen(t) \/ FallbackCandidate(t) \/ ConfirmSlot(t)
    BY <1>1, <2>1, <2>3 DEF HelpingOpen, FallbackCandidate, ConfirmSlot, helpVars, listVars, Addressed,
          OpenLabels
  <2> QED
    BY <1>1, <2>2, <2>3, OpenSteps
<1>2. CASE u # t
  <2>1. pc'[u] = pc[u] /\ node'[u] = node[u] /\ op'[u] = op[u]
    BY <1>2, OthersSame DEF Same
  <2>2. Owned(u) = node[u] /\ node[u] \in Nodes
    BY <2>1, OwnsNode DEF OpenLabels
  <2>3. CASE HelpingAnnounce(t)
    <3>1. Owned(t) = node[t]
      BY <2>3, OwnsNode DEF HelpingAnnounce
    <3>2. node[t] # node[u]
      BY <1>2, <2>2, <3>1, NodesFacts DEF ListInv, ExclusiveOwnership
    <3> QED
      BY <2>1, <2>2, <2>3, <3>2 DEF HelpingAnnounce, Shapes, Addressed
  <2> QED
    BY <2>1, <2>3, AddressSteps DEF Addressed
<1> QED
  BY <1>1, <1>2

-----------------------------------------------------------------------------
(* Who destroys an instance helps nobody.                                  *)

\* An open control at the node that a destroyer visits is about another instance.
LEMMA OthersAnnounce ==
    ASSUME ListInv, HelpInv, Addressed, NEW t \in Threads, Destroys(t), pc[t] \in {"hp_ctl", "hp_reconf"},
           control[cursor[t]] \in Words
    PROVE  active_addr[cursor[t]] # op[t].s
<1> Shape /\ Locals /\ Shapes /\ Instances /\ Local(t) /\ Announced
  BY DEF ListInv, HelpInv
<1>1. cursor[t] \in Nodes
  BY AtHand DEF VisitLabels
<1>2. control[cursor[t]] # IDLE
  BY <1>1, ControlCases DEF Shapes
<1>3. PICK u \in Threads : node[u] = cursor[t] /\ pc[u] \in OpenLabels
  BY <1>1, <1>2 DEF Announced
<1>4. u # t
  BY <1>3 DEF OpenLabels
<1>5. op[u].s # op[t].s
  BY <1>4 DEF Instances, Destroys, Destroyers
<1> QED
  BY <1>3, <1>5 DEF Addressed

\* The steps of a destroyer.
LEMMA OwnNoneToHelp ==
    ASSUME ListInv, HelpInv, Addressed, NoneToHelp, NEW t \in Threads, Acts(t), Destroys(t)'
    PROVE  /\ pc'[t] \notin LoadSteps \cup {"hp_theirs", "hp_store", "hp_cas", "hp_drop", "hp_offer"}
           /\ pc'[t] \in {"hp_addr", "hp_reconf"} => active_addr'[cursor'[t]] # op'[t].s
<1> Shape /\ Locals /\ Shapes /\ Instances /\ Local(t)
  BY DEF ListInv, HelpInv
<1> DEFINE Busy == LoadSteps \cup {"hp_theirs", "hp_store", "hp_cas", "hp_drop", "hp_offer"}
<1>1. CASE CallStep(t)
  <2>1. pc'[t] = "pa_inc" \/ pc'[t] = "idle"
    BY <1>1, CallEffect DEF LoadBegins, WriteBegins, GuardEnds, AtOnce, LoadCalls, WriteCalls, GuardCalls,
          Destroys, Destroyers, Operation, Shapes
  <2> QED
    BY <2>1 DEF LoadSteps, LoadLabels, IntoInnerLabels
<1>2. CASE NodeOnly(t)
  <2>1. UNCHANGED <<pc, op>>
    BY <1>2 DEF NodeOnly, NodeStep, TmpNodeDrop, ExitStep, debtVars
  <2>2. pc[t] \notin {"hp_addr", "hp_reconf"}
    BY <1>2 DEF NodeOnly, NodeStep, TmpNodeDrop, ExitStep, LoadEntry
  <2> QED
    BY <2>1, <2>2 DEF NoneToHelp, Destroys
<1>3. CASE ReadStep(t) /\ UNCHANGED <<listVars, storage, guards, owned>>
  <2>1. pc[t] \in LoadSteps
    BY <1>3 DEF ReadStep, AttemptLoad, FastScan, FastTake, AttemptConfirm, AttemptPay, HelpingAnnounce, HelpingOpen,
           FallbackCandidate, ConfirmSlot, ConfirmControl, ConfirmHandover, ConfirmSpace, FallbackUnpay,
           FallbackUndec, LoadSteps, LoadLabels
  <2>2. Destroys(t)
    BY <1>3, OtherOn DEF Destroys
  <2> QED
    BY <2>1, <2>2 DEF NoneToHelp
<1>4. CASE ResultStep(t) /\ UNCHANGED listVars
  <2>1. Destroys(t)
    BY <1>4, ResultOn DEF GoesOn, IsOver, Destroys, Destroyers, NoOp, Operation
  <2>2. pc[t] \notin LoadSteps
    BY <2>1 DEF NoneToHelp
  <2>3. pc[t] \notin {"gd_pay", "gd_dec", "cas_x", "cas_dec", "cas_drop_new", "rcu_f"}
    BY <2>1 DEF Local, Calls, Destroys, Destroyers
  <2>4. PayAllDec(t) \/ OldDec(t)
    BY <1>4, <2>2, <2>3 DEF ResultStep, IntoInnerInc, IntoInnerPay, IntoInnerDec, GuardDropPay, GuardDropDec,
           ReturnGuard, ReturnFull, ReturnCas, ReturnRcu, RcuApply, CasExchange, CasDec, CasDropNew,
           LoadSteps, LoadLabels, IntoInnerLabels
  <2>5. pc'[t] \in {"old_dec", "cas_dec", "idle"}
    BY <2>4 DEF PayAllDec, OldDec, Finish, Goto, Shapes
  <2> QED
    BY <2>5 DEF LoadSteps, LoadLabels, IntoInnerLabels
<1>5. CASE HelpStep(t) /\ UNCHANGED <<listVars, storage, guards, owned>>
  <2>1. Destroys(t) /\ op'[t] = op[t]
    BY <1>5, OtherOn DEF Destroys
  <2>2. pc[t] \in {"hp_ctl", "hp_addr", "hp_reconf"}
    BY <1>5, <2>1, HelpPlace DEF NoneToHelp, VisitLabels
  <2>3. UNCHANGED active_addr /\ cursor'[t] = cursor[t]
    BY <1>5, <2>2 DEF HelpStep, HelpControl, HelpAddr, HelpReconfirm, HelpTheirSpace, HelpStore, HelpCas,
           HelpDrop, HelpOffer, helpVars, listVars
  <2>4. control[cursor[t]] \in Controls /\ IDLE \in Controls /\ IDLE \notin Words
    BY <2>2, AtHand, ControlFacts, ControlCases DEF Shapes, VisitLabels
  <2>5. CASE HelpAddr(t)
    <3>1. active_addr[cursor[t]] # op[t].s /\ pc'[t] = "hp_reconf"
      BY <2>1, <2>5 DEF HelpAddr, NoneToHelp, Goto, Shapes
    <3> QED
      BY <2>1, <2>3, <3>1 DEF LoadSteps, LoadLabels, IntoInnerLabels
  <2>6. CASE HelpControl(t) \/ HelpReconfirm(t)
    <3>1. PICK c \in {control[cursor[t]], IDLE} : HelpMatch(t, c)
      BY <2>6 DEF HelpControl, HelpReconfirm
    <3>2. (pc'[t] = "hp_addr" /\ c \in Words) \/ pc'[t] = "pa_slot"
      BY <2>4, <3>1, MatchEffect
    <3>3. pc'[t] = "hp_addr" => active_addr[cursor[t]] # op[t].s
      <4>1. pc[t] \in {"hp_ctl", "hp_reconf"}
        BY <2>6 DEF HelpControl, HelpReconfirm
      <4> QED
        BY <2>1, <2>4, <3>1, <3>2, <4>1, OthersAnnounce
    <3> QED
      BY <2>1, <2>3, <3>2, <3>3 DEF LoadSteps, LoadLabels, IntoInnerLabels
  <2> QED
    BY <1>5, <2>2, <2>5, <2>6 DEF HelpStep, HelpTheirSpace, HelpStore, HelpCas, HelpDrop, HelpOffer
<1>6. CASE PayStep(t) /\ UNCHANGED <<listVars, storage, guards, owned>>
  <2>1. pc'[t] \in {"pa_walk", "pa_inc2", "pa_slot", "pa_release"}
    BY <1>6 DEF PayStep, PayAllInc, PayAllSlot, PayAllIncMore, Pay, NextSlot, Goto, Shapes
  <2> QED
    BY <2>1 DEF LoadSteps, LoadLabels, IntoInnerLabels
<1>7. CASE WalkStep(t)
  <2>1. pc'[t] \in {"pa_reserve", "hp_ctl", "pa_dec"}
    BY <1>7 DEF WalkStep, PayAllWalk, PayAllReserve, PayAllRelease, Goto, Shapes
  <2> QED
    BY <2>1 DEF LoadSteps, LoadLabels, IntoInnerLabels
<1> QED
  BY <1>1, <1>2, <1>3, <1>4, <1>5, <1>6, <1>7 DEF Acts

\* Nobody comes to be helped by a destroyer.
LEMMA NextNoneToHelp ==
    ASSUME ListInv, HelpInv, Addressed, NoneToHelp, NEW t \in Threads, Acts(t)
    PROVE  NoneToHelp'
<1> Shape /\ Locals /\ Shapes /\ Instances /\ (\A v \in Threads : Local(v))
  BY DEF ListInv, HelpInv
<1> SUFFICES ASSUME NEW u \in Threads, Destroys(u)'
             PROVE  /\ pc'[u] \notin LoadSteps \cup {"hp_theirs", "hp_store", "hp_cas", "hp_drop", "hp_offer"}
                    /\ pc'[u] \in {"hp_addr", "hp_reconf"} => active_addr'[cursor'[u]] # op'[u].s
  BY DEF NoneToHelp, LoadSteps, LoadLabels, IntoInnerLabels
<1>1. CASE u = t
  BY <1>1, OwnNoneToHelp
<1>2. CASE u # t
  <2>1. pc'[u] = pc[u] /\ op'[u] = op[u] /\ cursor'[u] = cursor[u]
    BY <1>2, OthersSame DEF Same
  <2>2. Destroys(u)
    BY <2>1 DEF Destroys
  <2>3. CASE UNCHANGED active_addr
    BY <2>1, <2>2, <2>3 DEF NoneToHelp
  <2>4. CASE HelpingAnnounce(t)
    <3>1. op[t].s # op[u].s
      BY <1>2, <2>2 DEF Instances, Destroys, Destroyers
    <3>2. pc[u] \in {"hp_addr", "hp_reconf"} => cursor[u] \in Nodes
      BY AtHand DEF VisitLabels
    <3>3. pc[u] \in {"hp_addr", "hp_reconf"} => active_addr'[cursor[u]] \in {active_addr[cursor[u]], op[t].s}
      BY <2>4, <3>2 DEF HelpingAnnounce, Shapes
    <3> QED
      BY <2>1, <2>2, <3>1, <3>3 DEF NoneToHelp
  <2> QED
    BY <2>3, <2>4, AddressSteps
<1> QED
  BY <1>1, <1>2

-----------------------------------------------------------------------------
(* Every debt is in a node that a writer gets to.                          *)

\* Where the steps that end calls lead.
ResultPlaces ==
    {LoadEntry, "ret", "in_inc", "in_pay", "in_dec", "hp_theirs", "idle", "gd_pay", "gd_dec",
     "rcu_f", "cas_x", "cas_drop_new", "cas_dec", "old_dec", "pa_inc"}

\* They lead to one of these.
LEMMA ResultPlace ==
    ASSUME Shapes, NEW t \in Threads, ResultStep(t)
    PROVE  pc'[t] \in ResultPlaces
<1> USE DEF Shapes, Goto, ResultPlaces
<1>1. \A p : FullReference(t, p) => pc'[t] \in {"hp_theirs", "idle", "gd_pay", "gd_dec"}
  BY FullTo
<1>2. CASE IntoInnerInc(t) \/ IntoInnerPay(t) \/ IntoInnerDec(t)
  BY <1>1, <1>2 DEF IntoInnerInc, IntoInnerPay, IntoInnerDec, Pay, IntoInnerDone, LoadReturns
<1>3. CASE GuardDropPay(t) \/ GuardDropDec(t)
  BY <1>3 DEF GuardDropPay, GuardDropDec, Pay, GuardDropDone, BeginLoad, Finish
<1>4. CASE ReturnGuard(t) \/ ReturnFull(t) \/ ReturnCas(t) \/ ReturnRcu(t) \/ RcuApply(t)
  BY <1>1, <1>4 DEF ReturnGuard, ReturnFull, ReturnCas, ReturnRcu, RcuApply, BeginLoad, Finish
<1>5. CASE CasExchange(t) \/ PayAllDec(t) \/ OldDec(t)
  BY <1>5 DEF CasExchange, PayAllDec, OldDec, BeginGuardDrop, Finish
<1>6. CASE CasDec(t) \/ CasDropNew(t)
  BY <1>1, <1>6 DEF CasDec, CasDropNew, CasReturns, RcuPrev, RcuSwapped, RcuRetry, BeginGuardDrop, Finish
<1> QED
  BY <1>2, <1>3, <1>4, <1>5, <1>6 DEF ResultStep

\* Which steps lead to an unconfirmed debt in a fast slot.
LEMMA DebtSteps ==
    ASSUME ListInv, HelpInv, NEW t \in Threads, Acts(t), pc'[t] \in {"ld_confirm", "ld_pay"}
    PROVE  /\ UNCHANGED <<listVars, storage, guards, owned, op, wr>>
           /\ FastTake(t) \/ (AttemptConfirm(t) /\ pc'[t] = "ld_pay" /\ UNCHANGED <<slots, ld>>)
<1> Shapes
  BY DEF HelpInv
<1>1. ~CallStep(t)
  BY CallEffect DEF LoadBegins, WriteBegins, GuardEnds, AtOnce, Shapes, LoadEntry
<1>2. ~NodeOnly(t)
  BY DEF NodeOnly, NodeStep, TmpNodeDrop, ExitStep, debtVars, LoadEntry
<1>3. ~ResultStep(t)
  BY ResultPlace DEF ResultPlaces, LoadEntry
<1>4. ~HelpStep(t)
  BY HelpPlace DEF VisitLabels, LoadEntry
<1>5. ~PayStep(t) /\ ~WalkStep(t)
  BY DEF PayStep, PayAllInc, PayAllSlot, PayAllIncMore, Pay, NextSlot, Goto, Shapes,
         WalkStep, PayAllWalk, PayAllReserve, PayAllRelease
<1>6. ReadStep(t) /\ UNCHANGED <<listVars, storage, guards, owned>>
  BY <1>1, <1>2, <1>3, <1>4, <1>5 DEF Acts
<1>7. FastTake(t) \/ AttemptConfirm(t)
  BY <1>6 DEF ReadStep, AttemptLoad, FastScan, AttemptPay, HelpingAnnounce, HelpingOpen,
         FallbackCandidate, ConfirmSlot, ConfirmControl, ConfirmHandover, ConfirmSpace, FallbackUnpay,
         FallbackUndec, LoadReturns, Pay, Goto, Shapes
<1> QED
  BY <1>6, <1>7 DEF FastTake, AttemptConfirm, LoadReturns, Goto, Shapes

\* How a step changes a slot: it puts a debt into one of its own, or pays one.
LEMMA SlotSteps ==
    ASSUME ListInv, HelpInv, NEW t \in Threads, Acts(t)
    PROVE  \/ /\ FastTake(t) \/ ConfirmSlot(t)
              /\ node[t] \in Nodes /\ Owned(t) = node[t]
              /\ \E k \in SlotIds :
                    /\ slots[node[t]][k] = NONE /\ ld[t].ptr # NONE
                    /\ IF FastTake(t) THEN k = ld[t].idx ELSE k = HelpingSlot
                    /\ slots' = [slots EXCEPT ![node[t]][k] = ld[t].ptr]
                    /\ \A n \in Nodes, j \in SlotIds :
                          slots'[n][j] = IF n = node[t] /\ j = k THEN ld[t].ptr ELSE slots[n][j]
           \/ \A n \in Nodes, j \in SlotIds : slots'[n][j] \in {slots[n][j], NONE}
<1> Shape /\ Locals /\ Shapes /\ Instances /\ Local(t) /\ SlotsFree
  BY DEF ListInv, HelpInv
<1>1. CASE FastTake(t)
  <2>1. pc[t] = "take" /\ slots' = [slots EXCEPT ![node[t]][ld[t].idx] = ld[t].ptr]
    BY <1>1 DEF FastTake
  <2>2. node[t] \in Nodes /\ Owned(t) = node[t]
    BY <2>1, OwnsNode
  <2>3. ld[t].idx \in SlotIds /\ ld[t].ptr # NONE
    BY Fields, Consts
  <2>4. slots[node[t]][ld[t].idx] = NONE
    BY <2>1 DEF SlotsFree
  <2> QED
    BY <1>1, <2>1, <2>2, <2>3, <2>4 DEF Shapes
<1>2. CASE ConfirmSlot(t)
  <2>1. pc[t] = "fb_slot" /\ slots' = [slots EXCEPT ![node[t]][HelpingSlot] = ld[t].ptr] /\ ~FastTake(t)
    BY <1>2 DEF ConfirmSlot, FastTake
  <2>2. node[t] \in Nodes /\ Owned(t) = node[t]
    BY <2>1, OwnsNode DEF OpenLabels
  <2>3. HelpingSlot \in SlotIds /\ ld[t].ptr # NONE
    BY Fields, Consts
  <2>4. slots[node[t]][HelpingSlot] = NONE
    BY <2>1, AssertsHold DEF DebugAsserts
  <2> QED
    BY <1>2, <2>1, <2>2, <2>3, <2>4 DEF Shapes
<1>3. CASE ~FastTake(t) /\ ~ConfirmSlot(t)
  BY <1>3, SlotsDrain
<1> QED
  BY <1>1, <1>2, <1>3

\* The debts that are not confirmed are where they were put until they are paid.
LEMMA NextOwnDebts ==
    ASSUME ListInv, HelpInv, OwnDebts, NEW t \in Threads, Acts(t)
    PROVE  OwnDebts'
<1> Shape /\ Locals /\ Shapes /\ Instances /\ \A v \in Threads : Local(v)
  BY DEF ListInv, HelpInv
<1> SUFFICES ASSUME NEW u \in Threads, pc'[u] \in {"ld_confirm", "ld_pay"}
             PROVE  /\ ld'[u].debt[1] = node'[u]
                    /\ slots'[node'[u]][ld'[u].debt[2]] \in {ld'[u].ptr, NONE}
  BY DEF OwnDebts
<1>1. CASE u = t
  <2>1. node'[t] = node[t]
    BY <1>1, DebtSteps DEF listVars
  <2>2. CASE FastTake(t)
    <3>1. pc[t] = "take" /\ ld' = [ld EXCEPT ![t].debt = <<node[t], ld[t].idx>>, ![t].idx = 0]
          /\ slots' = [slots EXCEPT ![node[t]][ld[t].idx] = ld[t].ptr]
      BY <2>2 DEF FastTake
    <3>2. node[t] \in Nodes /\ ld[t].idx \in SlotIds
      BY <3>1, OwnsNode, Fields, Consts
    <3>3. ld'[t].debt = <<node[t], ld[t].idx>> /\ ld'[t].ptr = ld[t].ptr
      BY <3>1 DEF Shapes, LoadType
    <3> QED
      BY <1>1, <2>1, <3>1, <3>2, <3>3 DEF Shapes
  <2>3. CASE AttemptConfirm(t) /\ pc'[t] = "ld_pay" /\ UNCHANGED <<slots, ld>>
    BY <1>1, <2>1, <2>3 DEF AttemptConfirm, OwnDebts
  <2> QED
    BY <1>1, <2>2, <2>3, DebtSteps
<1>2. CASE u # t
  <2>1. pc'[u] = pc[u] /\ node'[u] = node[u] /\ ld'[u] = ld[u]
    BY <1>2, OthersSame DEF Same
  <2>2. ld[u].debt[1] = node[u] /\ slots[node[u]][ld[u].debt[2]] \in {ld[u].ptr, NONE}
    BY <2>1 DEF OwnDebts
  <2>3. ld[u].debt[1] \in Nodes /\ ld[u].debt[2] \in SlotIds
    BY <2>1, DebtFacts DEF Local, Registers
  <2>4. Owned(u) = node[u]
    BY <2>1, OwnsNode
  <2>5. Owned(t) = node[t] => node[t] # node[u]
    BY <1>2, <2>2, <2>3, <2>4, NodesFacts DEF ListInv, ExclusiveOwnership
  <2>6. slots'[node[u]][ld[u].debt[2]] \in {slots[node[u]][ld[u].debt[2]], NONE}
    BY <2>2, <2>3, <2>5, SlotSteps
  <2> QED
    BY <2>1, <2>2, <2>6
<1> QED
  BY <1>1, <1>2

\* Debts are put into nodes of the list only, and these stay in it.
LEMMA NextDebtsLinked ==
    ASSUME ListInv, HelpInv, Linked, DebtsLinked, NEW t \in Threads, Acts(t), [ListNext]_listVars
    PROVE  DebtsLinked'
<1> SUFFICES ASSUME NEW n \in Nodes, NEW k \in SlotIds, slots'[n][k] # NONE
             PROVE  n \in ChainFrom(LIST_HEAD)
  BY NextLinked DEF DebtsLinked, ChainFrom
<1>1. CASE slots[n][k] # NONE
  BY <1>1 DEF DebtsLinked
<1>2. CASE slots[n][k] = NONE
  <2>1. n = node[t]
    BY <1>2, SlotSteps
  <2> QED
    BY <2>1, NodesFacts DEF Linked
<1> QED
  BY <1>1, <1>2

-----------------------------------------------------------------------------
(* A writer on its way.                                                    *)

\* The place of slot k in the order of pay_all.
Turn(k) == IF k = HelpingSlot THEN SlotCnt + 1 ELSE k

\* Writer t has still to visit node n.
ComesTo(t, n) ==
    \/ pc[t] \in {"pa_inc", "pa_walk"}
    \/ lpc[t] = "reserve" /\ n \in ChainFrom(cursor[t])
    \/ lpc[t] = "visit" /\ n \in ChainFrom(next[cursor[t]])

\* Writer t has still to look at slot k of the node n where it is.
Pays(t, n, k) ==
    /\ lpc[t] = "visit" /\ cursor[t] = n
    /\ pc[t] # "pa_release"
    /\ pc[t] = "pa_slot" => wr[t].idx <= Turn(k)
    /\ pc[t] = "pa_inc2" => wr[t].idx < Turn(k)

\* Writer t is at the node of u and is going to answer its load.
Helps(t, u) ==
    /\ lpc[t] = "visit" /\ cursor[t] = node[u]
    /\ \/ pc[t] = "hp_ctl"
       \/ /\ pc[t] \in {"hp_addr", "hp_theirs", "hp_store", "hp_cas"} \cup LoadSteps
          /\ wr[t].ctl = GEN(generation[u])

\* Writer t has still to pay the debt in slot k of node n, if there is one by then.
WillPay(t, n, k) == ComesTo(t, n) \/ Pays(t, n, k)
\* Writer t has still to answer the load of u, if it is open by then.
WillHelp(t, u) == ComesTo(t, node[u]) \/ Helps(t, u)

\* A chain that is part of the list stays as it is.
LEMMA ChainKept ==
    ASSUME ListInv, Linked, [ListNext]_listVars, NEW m \in ChainFrom(LIST_HEAD) \cup {NoNode}
    PROVE  ChainFrom(m)' = Chain(next', m') /\ Chain(next', m) = ChainFrom(m)
<1>1. next \in Links /\ next' \in Links
  BY NextInv DEF ListInv, Shape, Links
<1>2. ChainFrom(m) \subseteq ChainFrom(LIST_HEAD)
  BY <1>1, ChainWithin DEF ChainFrom
<1>3. \A k \in Chain(next, m) : next'[k] = next[k]
  BY <1>2, NextLinked DEF ChainFrom
<1> QED
  BY <1>1, <1>3, ChainSame DEF ChainFrom

\* The way of a writer that does nothing stays the same.
LEMMA OthersCome ==
    ASSUME ListInv, Linked, [ListNext]_listVars, NEW u \in Threads, Same(u), NEW n, ComesTo(u, n)
    PROVE  ComesTo(u, n)'
<1> Shape /\ Locals
  BY DEF ListInv
<1>1. cursor[u] \in ChainFrom(LIST_HEAD) \cup {NoNode}
  BY DEF Linked
<1>2. pc'[u] = pc[u] /\ lpc'[u] = lpc[u] /\ cursor'[u] = cursor[u]
  BY DEF Same
<1>3. CASE pc[u] \in {"pa_inc", "pa_walk"}
  BY <1>2, <1>3 DEF ComesTo
<1>4. CASE lpc[u] = "reserve" /\ n \in ChainFrom(cursor[u])
  <2>1. Chain(next', cursor[u]) = ChainFrom(cursor[u])
    BY <1>1, ChainKept
  <2> QED
    BY <1>2, <1>4, <2>1 DEF ComesTo, ChainFrom
<1>5. CASE lpc[u] = "visit" /\ n \in ChainFrom(next[cursor[u]])
  <2>1. cursor[u] \in ChainFrom(LIST_HEAD)
    BY <1>1, <1>5, NodesFacts DEF Locals
  <2>2. next \in Links
    BY DEF Shape, Links
  <2>3. next[cursor[u]] \in ChainFrom(LIST_HEAD) \cup {NoNode}
    BY <2>1, <2>2, ChainNext DEF ChainFrom
  <2>4. next'[cursor[u]] = next[cursor[u]]
    BY <2>1, NextLinked DEF ChainFrom
  <2>5. Chain(next', next[cursor[u]]) = ChainFrom(next[cursor[u]])
    BY <2>3, ChainKept
  <2> QED
    BY <1>2, <1>5, <2>4, <2>5 DEF ComesTo, ChainFrom
<1> QED
  BY <1>3, <1>4, <1>5 DEF ComesTo

\* So do its plans.
LEMMA OthersPlan ==
    ASSUME ListInv, Linked, [ListNext]_listVars, NEW u \in Threads, Same(u)
    PROVE  /\ \A n \in Nodes, k \in SlotIds : WillPay(u, n, k) => WillPay(u, n, k)'
           /\ \A v \in Threads : Same(v) /\ WillHelp(u, v) => WillHelp(u, v)'
<1>1. \A n : ComesTo(u, n) => ComesTo(u, n)'
  BY OthersCome
<1>2. ASSUME NEW n \in Nodes, NEW k \in SlotIds, Pays(u, n, k)
      PROVE  Pays(u, n, k)'
  BY <1>2 DEF Pays, Same, Turn
<1>3. ASSUME NEW v \in Threads, Same(v), Helps(u, v)
      PROVE  Helps(u, v)'
  BY <1>3 DEF Helps, Same, GEN, LoadSteps, LoadLabels, IntoInnerLabels
<1>4. ASSUME NEW v \in Threads, Same(v), ComesTo(u, node[v])
      PROVE  ComesTo(u, node[v])'
  <2>1. node'[v] = node[v]
    BY <1>4 DEF Same
  <2> DEFINE m == node[v]
  <2>2. PICK n : n = node[v]
    OBVIOUS
  <2>3. ComesTo(u, n)'
    BY <1>1, <1>4, <2>2
  <2> QED
    BY <2>1, <2>2, <2>3 DEF ComesTo
<1> QED
  BY <1>1, <1>2, <1>3, <1>4 DEF WillPay, WillHelp

\* A result inside of help.
LEMMA NestedResult ==
    ASSUME ListInv, HelpInv, NEW t \in Threads, lpc[t] = "visit", ResultStep(t), UNCHANGED listVars
    PROVE  /\ op'[t] = op[t] /\ UNCHANGED <<storage, guards, owned>>
           /\ wr'[t].old = wr[t].old /\ wr'[t].debt = wr[t].debt /\ wr'[t].ctl = wr[t].ctl
           /\ pc[t] \in LoadSteps /\ pc'[t] \in LoadSteps \cup {"hp_theirs"}
<1> Shape /\ Locals /\ Shapes /\ Instances /\ Local(t)
  BY DEF ListInv, HelpInv
<1>1. pc[t] \in VisitLabels \cup LoadSteps /\ Waiting(t)
  BY DEF Local, Places, Waiting
<1>2. op[t].kind \in WriteKinds
  BY <1>1 DEF Local, Calls
<1>3. IntoInnerInc(t) \/ IntoInnerPay(t) \/ IntoInnerDec(t) \/ ReturnFull(t)
  BY <1>1, <1>2 DEF ResultStep, GuardDropPay, GuardDropDec, ReturnGuard, ReturnCas, ReturnRcu, RcuApply,
         CasExchange, CasDec, CasDropNew, PayAllDec, OldDec, InHelp, VisitLabels, LoadSteps, LoadLabels,
         IntoInnerLabels, WriteKinds
<1>4. pc[t] \in LoadSteps
  BY <1>3 DEF IntoInnerInc, IntoInnerPay, IntoInnerDec, ReturnFull, LoadSteps, LoadLabels, IntoInnerLabels
<1>5. ASSUME FullReference(t, ld[t].ptr)
      PROVE  /\ UNCHANGED <<op, owned>> /\ wr' = [wr EXCEPT ![t].repl = ld[t].ptr] /\ pc'[t] = "hp_theirs"
  BY <1>5 DEF FullReference, InHelp, Goto, Shapes
<1>6. /\ UNCHANGED <<op, owned>>
      /\ UNCHANGED wr \/ wr' = [wr EXCEPT ![t].repl = ld[t].ptr]
      /\ pc'[t] \in {"ret", "in_inc", "in_pay", "in_dec", "hp_theirs"}
  BY <1>3, <1>5 DEF IntoInnerInc, IntoInnerPay, IntoInnerDec, ReturnFull, Pay, IntoInnerDone, LoadReturns,
         Goto, Shapes
<1>7. UNCHANGED <<storage, guards>>
  BY <1>3 DEF IntoInnerInc, IntoInnerPay, IntoInnerDec, ReturnFull
<1>8. wr'[t].old = wr[t].old /\ wr'[t].debt = wr[t].debt /\ wr'[t].ctl = wr[t].ctl
  BY <1>6 DEF Shapes, WriteType
<1> QED
  BY <1>4, <1>6, <1>7, <1>8 DEF LoadSteps, LoadLabels, IntoInnerLabels

\* What a writer does at a node.
LEMMA VisitSteps ==
    ASSUME ListInv, HelpInv, NoWrap, NEW t \in Threads, Acts(t), lpc[t] = "visit"
    PROVE  /\ op'[t] = op[t] /\ wr'[t].old = wr[t].old /\ UNCHANGED storage
           /\ \/ PayAllRelease(t)
              \/ /\ UNCHANGED listVars /\ pc[t] \in LoadSteps
                 /\ pc'[t] \in LoadSteps \cup {"hp_theirs"} /\ wr'[t].ctl = wr[t].ctl
              \/ UNCHANGED listVars /\ HelpStep(t)
              \/ UNCHANGED listVars /\ (PayAllSlot(t) \/ PayAllIncMore(t))
<1> Shape /\ Locals /\ Shapes /\ Instances /\ Local(t) /\ Local(t)'
  BY NextLocal DEF ListInv, HelpInv
<1>1. pc[t] \in VisitLabels \cup LoadSteps
  BY DEF Local, Places
<1>2. ~CallStep(t)
  BY CallEffect
<1>3. ~NodeOnly(t)
  BY NodeOff
<1>4. CASE ReadStep(t) /\ UNCHANGED <<listVars, storage, guards, owned>>
  <2>1. op'[t] = op[t] /\ wr'[t].old = wr[t].old
    BY <1>4, OtherOn
  <2>2. pc[t] \in LoadSteps /\ pc'[t] \in LoadSteps /\ UNCHANGED wr
    BY <1>4, ReadPlace DEF Local
  <2> QED
    BY <1>4, <2>1, <2>2
<1>5. CASE ResultStep(t) /\ UNCHANGED listVars
  BY <1>5, NestedResult
<1>6. CASE HelpStep(t) /\ UNCHANGED <<listVars, storage, guards, owned>>
  BY <1>6, OtherOn
<1>7. CASE PayStep(t) /\ UNCHANGED <<listVars, storage, guards, owned>>
  <2>1. ~PayAllInc(t)
    BY <1>1 DEF PayAllInc, VisitLabels, LoadSteps, LoadLabels, IntoInnerLabels
  <2> QED
    BY <1>7, <2>1, OtherOn DEF PayStep
<1>8. CASE WalkStep(t) /\ UNCHANGED <<storage, guards, owned>>
  <2>1. PayAllRelease(t)
    BY <1>8, <1>1 DEF WalkStep, PayAllWalk, PayAllReserve, VisitLabels, LoadSteps, LoadLabels, IntoInnerLabels
  <2> QED
    BY <1>8, <2>1, OtherOn
<1> QED
  BY <1>2, <1>3, <1>4, <1>5, <1>6, <1>7, <1>8 DEF Acts

\* The accesses of pay_all before it is at a node.
LEMMA WalkSteps ==
    ASSUME ListInv, HelpInv, NEW t \in Threads, Acts(t), pc[t] \in {"pa_inc", "pa_walk", "pa_reserve"}
    PROVE  /\ op'[t] = op[t] /\ wr'[t].old = wr[t].old /\ UNCHANGED storage
           /\ \/ pc[t] = "pa_inc" /\ pc'[t] \in {"pa_inc", "pa_walk"}
              \/ pc[t] = "pa_walk" /\ PayAllWalk(t)
              \/ pc[t] = "pa_reserve" /\ PayAllReserve(t)
<1> Shapes
  BY DEF HelpInv
<1>1. ~CallStep(t)
  BY CallEffect
<1>2. ~ReadStep(t) /\ ~ResultStep(t)
  BY DEF ReadStep, AttemptLoad, FastScan, FastTake, AttemptConfirm, AttemptPay, HelpingAnnounce, HelpingOpen,
         FallbackCandidate, ConfirmSlot, ConfirmControl, ConfirmHandover, ConfirmSpace, FallbackUnpay,
         FallbackUndec, ResultStep, IntoInnerInc, IntoInnerPay, IntoInnerDec, GuardDropPay, GuardDropDec,
         ReturnGuard, ReturnFull, ReturnCas, ReturnRcu, RcuApply, CasExchange, CasDec, CasDropNew,
         PayAllDec, OldDec
<1>3. ~HelpStep(t)
  BY HelpPlace DEF VisitLabels
<1>4. CASE NodeOnly(t)
  <2>1. UNCHANGED pc /\ pc[t] = "pa_inc"
    BY <1>4 DEF NodeOnly, NodeStep, TmpNodeDrop, ExitStep, debtVars, LoadEntry
  <2> QED
    BY <1>4, <2>1, OtherOn
<1>5. CASE PayStep(t) /\ UNCHANGED <<listVars, storage, guards, owned>>
  <2>1. pc[t] = "pa_inc" /\ pc'[t] = "pa_walk"
    BY <1>5 DEF PayStep, PayAllInc, PayAllSlot, PayAllIncMore, Goto, Shapes
  <2> QED
    BY <1>5, <2>1, OtherOn
<1>6. CASE WalkStep(t) /\ UNCHANGED <<storage, guards, owned>>
  <2>1. \/ pc[t] = "pa_walk" /\ PayAllWalk(t)
        \/ pc[t] = "pa_reserve" /\ PayAllReserve(t)
    BY <1>6 DEF WalkStep, PayAllWalk, PayAllReserve, PayAllRelease
  <2> QED
    BY <1>6, <2>1, OtherOn
<1> QED
  BY <1>1, <1>2, <1>3, <1>4, <1>5, <1>6 DEF Acts

\* A writer that has to come to a node does, or is on its way.
LEMMA WriterComes ==
    ASSUME ListInv, HelpInv, NoWrap, NEW t \in Threads, Acts(t), NEW n \in ChainFrom(LIST_HEAD), ComesTo(t, n)
    PROVE  /\ op'[t] = op[t] /\ wr'[t].old = wr[t].old /\ UNCHANGED storage
           /\ \/ ComesTo(t, n)'
              \/ lpc'[t] = "visit" /\ cursor'[t] = n /\ pc'[t] = "hp_ctl"
<1> Shape /\ Locals /\ Shapes /\ Instances /\ Local(t)
  BY DEF ListInv, HelpInv
<1>0. next \in Links
  BY DEF Shape, Links
<1>1. CASE pc[t] = "pa_inc"
  BY <1>1, WalkSteps DEF ComesTo
<1>2. CASE pc[t] = "pa_walk"
  <2>1. op'[t] = op[t] /\ wr'[t].old = wr[t].old /\ UNCHANGED storage /\ PayAllWalk(t)
    BY <1>2, WalkSteps
  <2>2. lpc'[t] = "reserve" /\ cursor'[t] = LIST_HEAD /\ next' = next
    BY <2>1 DEF PayAllWalk, TraverseStart, Enter, Shape
  <2> QED
    BY <2>1, <2>2 DEF ComesTo, ChainFrom
<1>3. CASE lpc[t] = "reserve" /\ n \in ChainFrom(cursor[t])
  <2>1. pc[t] = "pa_reserve" /\ cursor[t] \in Nodes
    BY <1>3 DEF Local, Places, Locals
  <2>2. op'[t] = op[t] /\ wr'[t].old = wr[t].old /\ UNCHANGED storage /\ PayAllReserve(t)
    BY <2>1, WalkSteps
  <2>3. lpc'[t] = "visit" /\ cursor' = cursor /\ next' = next /\ pc'[t] = "hp_ctl"
    BY <2>2 DEF PayAllReserve, ReserveWriter, Enter, Goto, Shape, Shapes
  <2>4. ChainFrom(cursor[t]) = {cursor[t]} \cup ChainFrom(next[cursor[t]])
    BY <1>0, <2>1, ChainStep DEF ChainFrom
  <2>5. n = cursor[t] \/ n \in ChainFrom(next[cursor[t]])
    BY <1>3, <2>4
  <2> QED
    BY <2>2, <2>3, <2>5 DEF ComesTo, ChainFrom
<1>4. CASE lpc[t] = "visit" /\ n \in ChainFrom(next[cursor[t]])
  <2>1. op'[t] = op[t] /\ wr'[t].old = wr[t].old /\ UNCHANGED storage
    BY <1>4, VisitSteps
  <2>2. CASE UNCHANGED listVars
    BY <1>4, <2>1, <2>2 DEF ComesTo, ChainFrom, listVars
  <2>3. CASE PayAllRelease(t)
    <3>1. next[cursor[t]] # NoNode
      BY <1>4, ChainEmpty DEF ChainFrom
    <3>2. lpc'[t] = "reserve" /\ cursor'[t] = next[cursor[t]] /\ next' = next
      BY <2>3, <3>1 DEF PayAllRelease, ReleaseWriter, Enter, Shape
    <3> QED
      BY <1>4, <2>1, <3>2 DEF ComesTo, ChainFrom
  <2> QED
    BY <1>4, <2>2, <2>3, VisitSteps
<1> QED
  BY <1>1, <1>2, <1>3, <1>4 DEF ComesTo

\* The slots of a node and their places.
LEMMA TurnFacts ==
    \A k \in SlotIds : /\ Turn(k) \in 1 .. SlotCnt + 1
                       /\ \A i \in 1 .. SlotCnt + 1 : i = Turn(k) => NthSlot(i) = k
BY Consts DEF Turn, NthSlot

\* A writer at a node gets to its slots.
LEMMA WriterPays ==
    ASSUME ListInv, HelpInv, NoWrap, NEW t \in Threads, Acts(t), NEW n \in Nodes, NEW k \in SlotIds, Pays(t, n, k),
           slots[n][k] = wr[t].old, slots'[n][k] = slots[n][k]
    PROVE  op'[t] = op[t] /\ wr'[t].old = wr[t].old /\ UNCHANGED storage /\ Pays(t, n, k)'
<1> Shape /\ Locals /\ Shapes /\ Instances /\ Local(t)
  BY DEF ListInv, HelpInv
<1>0. lpc[t] = "visit" /\ cursor[t] = n
  BY DEF Pays
<1>1. op'[t] = op[t] /\ wr'[t].old = wr[t].old /\ UNCHANGED storage
  BY <1>0, VisitSteps
<1>2. Turn(k) \in 1 .. SlotCnt + 1 /\ SlotCnt \in Nat /\ Turn(k)' = Turn(k)
  BY TurnFacts, Consts DEF Turn
<1>3. ~PayAllRelease(t)
  BY DEF Pays, PayAllRelease
<1>4. UNCHANGED listVars => lpc'[t] = "visit" /\ cursor'[t] = n
  BY <1>0 DEF listVars
<1>5. CASE UNCHANGED listVars /\ pc'[t] \in LoadSteps \cup {"hp_theirs"}
  BY <1>1, <1>4, <1>5 DEF Pays, LoadSteps, LoadLabels, IntoInnerLabels
<1>6. CASE UNCHANGED listVars /\ HelpStep(t)
  <2>1. \/ pc'[t] \in (VisitLabels \ {"hp_ctl", "pa_slot", "pa_inc2", "pa_release"}) \cup {LoadEntry}
        \/ pc'[t] = "pa_slot" /\ wr'[t].idx = 1
    BY <1>6, HelpPlace
  <2>2. CASE pc'[t] \notin {"pa_slot", "pa_inc2", "pa_release"}
    BY <1>1, <1>4, <1>6, <2>2 DEF Pays
  <2>3. CASE pc'[t] = "pa_slot" /\ wr'[t].idx = 1
    BY <1>1, <1>2, <1>4, <1>6, <2>3 DEF Pays
  <2> QED
    BY <2>1, <2>2, <2>3 DEF LoadEntry
<1>7. CASE UNCHANGED listVars /\ (PayAllSlot(t) \/ PayAllIncMore(t))
  <2>1. wr[t].idx \in 0 .. SlotCnt + 1 /\ wr[t].idx > 0 /\ wr[t].old \in Ptrs /\ wr[t].old # NONE
    BY <1>7, Fields, Consts DEF PayAllSlot, PayAllIncMore, Local, Registers
  <2>2. wr[t].idx <= Turn(k)
    BY <1>2, <1>7, <2>1 DEF Pays, PayAllSlot, PayAllIncMore
  <2>3. PayAllSlot(t) => wr[t].idx # Turn(k)
    <3>1. SUFFICES ASSUME PayAllSlot(t), wr[t].idx = Turn(k) PROVE FALSE
      OBVIOUS
    <3>2. NthSlot(wr[t].idx) = k
      BY <2>1, <3>1, TurnFacts
    <3>3. IsOwed(<<n, k>>, wr[t].old) /\ <<n, k>>[1] = n /\ <<n, k>>[2] = k
      BY DEF IsOwed
    <3>4. slots' = [slots EXCEPT ![n][k] = NONE]
      BY <1>0, <3>1, <3>2, <3>3 DEF PayAllSlot, Pay
    <3>5. slots'[n][k] = NONE
      BY <3>4 DEF Shapes
    <3> QED
      BY <2>1, <3>5
  <2>4. PayAllIncMore(t) => wr[t].idx < Turn(k)
    BY DEF Pays, PayAllIncMore
  <2>5. wr[t].idx < Turn(k) /\ wr[t].idx <= SlotCnt
    BY <1>2, <1>7, <2>1, <2>2, <2>3, <2>4
  <2>6. NextSlot(t) \/ (pc'[t] = "pa_inc2" /\ UNCHANGED wr)
    BY <1>7 DEF PayAllSlot, PayAllIncMore, Pay, Goto, Shapes
  <2>7. CASE NextSlot(t)
    <3>1. wr' = [wr EXCEPT ![t].idx = @ + 1] /\ pc'[t] = "pa_slot"
      BY <1>2, <2>1, <2>5, <2>7 DEF NextSlot, Goto, Shapes
    <3>2. wr'[t].idx = wr[t].idx + 1
      BY <3>1 DEF Shapes, WriteType
    <3> QED
      BY <1>1, <1>2, <1>4, <1>7, <2>1, <2>5, <3>1, <3>2 DEF Pays
  <2>8. CASE pc'[t] = "pa_inc2" /\ UNCHANGED wr
    BY <1>1, <1>2, <1>4, <1>7, <2>5, <2>8 DEF Pays
  <2> QED
    BY <2>6, <2>7, <2>8
<1> QED
  BY <1>0, <1>3, <1>5, <1>6, <1>7, VisitSteps

\* Together: the debt is paid or the writer will still come to it.
LEMMA WriterWillPay ==
    ASSUME ListInv, HelpInv, NoWrap, DebtsLinked, NEW t \in Threads, Acts(t), NEW n \in Nodes, NEW k \in SlotIds,
           WillPay(t, n, k), slots[n][k] = wr[t].old, slots'[n][k] = slots[n][k]
    PROVE  op'[t] = op[t] /\ wr'[t].old = wr[t].old /\ UNCHANGED storage /\ WillPay(t, n, k)'
<1>1. CASE Pays(t, n, k)
  BY <1>1, WriterPays DEF WillPay
<1>2. CASE ComesTo(t, n)
  <2>1. wr[t].old # NONE
    BY Fields, Consts DEF HelpInv
  <2>2. n \in ChainFrom(LIST_HEAD)
    BY <2>1 DEF DebtsLinked
  <2> QED
    BY <1>2, <2>2, WriterComes DEF WillPay, Pays
<1> QED
  BY <1>1, <1>2 DEF WillPay

\* A writer at the node of a load goes on helping it, until the control changes.
LEMMA WriterHelps ==
    ASSUME ListInv, HelpInv, NoWrap, Addressed, NEW t \in Threads, Acts(t), NEW u \in Threads, u # t, Helps(t, u),
           pc[u] \in OpenLabels, op[t].s = op[u].s,
           control[node[u]] = GEN(generation[u]), control'[node[u]] = GEN(generation[u])
    PROVE  op'[t] = op[t] /\ wr'[t].old = wr[t].old /\ UNCHANGED storage /\ Helps(t, u)'
<1> Shape /\ Locals /\ Shapes /\ Instances /\ Local(t)
  BY DEF ListInv, HelpInv
<1>0. lpc[t] = "visit" /\ cursor[t] = node[u] /\ node[u] \in Nodes /\ generation[u] \in Generations
  BY DEF Helps, Locals, Shapes
<1>1. op'[t] = op[t] /\ wr'[t].old = wr[t].old /\ UNCHANGED storage
  BY <1>0, VisitSteps
<1>2. node'[u] = node[u] /\ generation'[u] = generation[u]
  BY OthersSame DEF Same
<1>3. ~PayAllRelease(t)
  BY DEF Helps, PayAllRelease, LoadSteps, LoadLabels, IntoInnerLabels
<1>4. ~PayAllSlot(t) /\ ~PayAllIncMore(t)
  BY DEF Helps, PayAllSlot, PayAllIncMore, LoadSteps, LoadLabels, IntoInnerLabels
<1>5. UNCHANGED listVars => lpc'[t] = "visit" /\ cursor'[t] = node[u]
  BY <1>0 DEF listVars
<1>6. CASE /\ UNCHANGED listVars /\ pc[t] \in LoadSteps
           /\ pc'[t] \in LoadSteps \cup {"hp_theirs"} /\ wr'[t].ctl = wr[t].ctl
  <2>1. wr[t].ctl = GEN(generation[u])
    BY <1>6 DEF Helps, LoadSteps, LoadLabels, IntoInnerLabels
  <2> QED
    BY <1>1, <1>2, <1>5, <1>6, <2>1 DEF Helps, GEN
<1>7. CASE UNCHANGED listVars /\ HelpStep(t)
  <2>0. pc[t] \in VisitLabels /\ pc[t] \notin LoadSteps
    BY <1>7, HelpPlace DEF VisitLabels, LoadSteps, LoadLabels, IntoInnerLabels
  <2>1. CASE HelpControl(t)
    <3>1. HelpMatch(t, GEN(generation[u])) /\ GEN(generation[u]) \in Controls /\ GEN(generation[u]) \in Words
      BY <1>0, <2>1, ControlFacts DEF HelpControl
    <3>2. pc'[t] = "hp_addr" /\ wr'[t].ctl = GEN(generation[u])
      BY <3>1, MatchEffect
    <3> QED
      BY <1>1, <1>2, <1>5, <1>7, <3>2 DEF Helps, GEN
  <2>2. CASE HelpAddr(t)
    <3>1. active_addr[node[u]] = op[t].s
      BY DEF Addressed
    <3>2. pc'[t] = LoadEntry /\ UNCHANGED wr /\ wr[t].ctl = GEN(generation[u])
      BY <1>0, <2>2, <3>1 DEF HelpAddr, Goto, Shapes, Helps
    <3> QED
      BY <1>1, <1>2, <1>5, <1>7, <3>2 DEF Helps, GEN, LoadEntry, LoadSteps, LoadLabels
  <2>3. CASE HelpTheirSpace(t) \/ HelpStore(t)
    <3>1. wr[t].ctl = GEN(generation[u])
      BY <2>3 DEF HelpTheirSpace, HelpStore, Helps
    <3>2. pc'[t] \in {"hp_store", "hp_cas"} /\ wr'[t].ctl = wr[t].ctl
      BY <2>3 DEF HelpTheirSpace, HelpStore, Goto, Shapes, WriteType
    <3> QED
      BY <1>1, <1>2, <1>5, <1>7, <3>1, <3>2 DEF Helps, GEN
  <2>4. ~HelpCas(t)
    <3>1. SUFFICES ASSUME HelpCas(t) PROVE FALSE
      OBVIOUS
    <3>2. wr[t].ctl = GEN(generation[u])
      BY <2>0, <3>1 DEF HelpCas, Helps
    <3>3. control'[node[u]] = REPLACEMENT(space_offer[node[t]])
      BY <1>0, <3>1, <3>2 DEF HelpCas, Shapes
    <3>4. space_offer[node[t]] \in Nodes
      BY <1>0, AtHand DEF Shapes
    <3> QED
      BY <1>0, <3>3, <3>4, WordsApart, ControlFacts
  <2>5. ~HelpReconfirm(t) /\ ~HelpDrop(t) /\ ~HelpOffer(t)
    BY <2>0 DEF HelpReconfirm, HelpDrop, HelpOffer, Helps
  <2> QED
    BY <1>7, <2>1, <2>2, <2>3, <2>4, <2>5 DEF HelpStep
<1> QED
  BY <1>0, <1>3, <1>4, <1>6, <1>7, VisitSteps

\* Together: the load has got an answer or the writer will still give it one.
LEMMA WriterWillHelp ==
    ASSUME ListInv, HelpInv, NoWrap, Linked, Addressed, NEW t \in Threads, Acts(t), NEW u \in Threads, u # t,
           WillHelp(t, u), pc[u] \in OpenLabels, op[t].s = op[u].s,
           control[node[u]] = GEN(generation[u]), control'[node[u]] = GEN(generation[u])
    PROVE  op'[t] = op[t] /\ wr'[t].old = wr[t].old /\ UNCHANGED storage /\ WillHelp(t, u)'
<1>1. CASE Helps(t, u)
  BY <1>1, WriterHelps DEF WillHelp
<1>2. CASE ComesTo(t, node[u])
  <2>1. node[u] \in Nodes
    BY OwnsNode
  <2>2. node[u] \in ChainFrom(LIST_HEAD)
    BY <2>1, NodesFacts DEF Linked
  <2>3. node'[u] = node[u]
    BY OthersSame DEF Same, ListInv, HelpInv
  <2>4. PICK n \in ChainFrom(LIST_HEAD) : n = node[u]
    BY <2>2
  <2>5. /\ op'[t] = op[t] /\ wr'[t].old = wr[t].old /\ UNCHANGED storage
        /\ \/ ComesTo(t, n)'
           \/ lpc'[t] = "visit" /\ cursor'[t] = n /\ pc'[t] = "hp_ctl"
    BY <1>2, <2>4, WriterComes
  <2> QED
    BY <2>3, <2>4, <2>5 DEF WillHelp, Helps, ComesTo
<1> QED
  BY <1>1, <1>2 DEF WillHelp

-----------------------------------------------------------------------------
(* What a debt is on stays where it is, or a writer will come to the debt. *)

\* A load with a debt that it does not rely on, not yet or not any more: it has to
\* confirm the debt, or another writer has given it the answer.
Unconfirmed == {"ld_confirm", "ld_pay", "fb_hand", "fb_space", "fb_unpay"}
\* Thread t only tries the debt in slot k of node n.
Tries(t, n, k) ==
    \/ pc[t] \in Unconfirmed /\ ld[t].debt = <<n, k>>
    \/ pc[t] = "fb_confirm" /\ node[t] = n /\ k = HelpingSlot

\* Nobody relies on the debt in slot k of node n yet.
Tentative(n, k) == \E t \in Threads : Tries(t, n, k)

\* Instance s holds p and nobody has taken it over to destroy it.
InStorage(s, p) == storage[s] = p /\ \A t \in Threads : op[t].s = s => ~Destroys(t)

\* What the debt is on stays alive: it is stored in an instance, or with the writer
\* that took it out and that has still to come to the slot.
Pin(n, k) ==
    \/ \E s \in Storages : InStorage(s, slots[n][k])
    \/ \E t \in Threads : wr[t].old = slots[n][k] /\ WillPay(t, n, k)

\* A debt that is relied on is pinned.
Pinned ==
    \A n \in Nodes, k \in SlotIds : slots[n][k] # NONE /\ ~Tentative(n, k) => Pin(n, k)

\* So is the candidate of a load in the helping slot: it is in the storage, or the
\* writer that replaced it has still to help this load.
CandidatePinned ==
    \A u \in Threads :
        pc[u] \in {"fb_slot", "fb_confirm"} /\ control[node[u]] = GEN(generation[u]) =>
            \/ storage[op[u].s] = ld[u].ptr
            \/ \E t \in Threads : op[t].s = op[u].s /\ wr[t].old = ld[u].ptr /\ WillHelp(t, u)

\* Who takes a pointer out of an instance, or the instance, begins to wait for readers.
LEMMA StorageMoves ==
    ASSUME ListInv, HelpInv, NEW t \in Threads, Acts(t), NEW s \in Storages, NEW p \in Ptrs, InStorage(s, p)
    PROVE  \/ InStorage(s, p)'
           \/ op'[t].s = s /\ wr'[t].old = p /\ pc'[t] = "pa_inc"
<1> Shape /\ Locals /\ Shapes /\ Instances /\ Local(t)
  BY DEF ListInv, HelpInv
<1>0. \A u \in Threads : u # t => op'[u] = op[u]
  BY OthersSame DEF Same
<1>1. storage[s] = p /\ (op[t].s = s => ~Destroys(t)) /\ Dead # p
  BY Consts DEF InStorage
<1>2. SUFFICES ASSUME ~(op'[t].s = s /\ wr'[t].old = p /\ pc'[t] = "pa_inc")
               PROVE  storage'[s] = p /\ (op'[t].s = s => ~Destroys(t)')
  <2>1. ASSUME NEW u \in Threads, u # t, op'[u].s = s
        PROVE  ~Destroys(u)'
    BY <1>0, <2>1 DEF InStorage, Destroys
  <2> QED
    BY <1>2, <2>1 DEF InStorage
<1>3. CASE CallStep(t)
  <2>1. CASE \E kind \in LoadCalls, z \in Storages, new, cur \in Ptrs : LoadBegins(t, kind, z, new, cur)
    BY <1>1, <2>1 DEF LoadBegins, LoadCalls, Operation, Destroys, Destroyers, Shapes
  <2>2. CASE \E kind \in WriteCalls, z \in Storages : WriteBegins(t, kind, z)
    <3>1. PICK kind \in WriteCalls, z \in Storages : WriteBegins(t, kind, z)
      BY <2>2
    <3>2. op'[t].s = z /\ wr'[t].old = storage[z] /\ pc'[t] = "pa_inc"
      BY <3>1 DEF WriteBegins, Operation, Shapes, WriteType
    <3>3. z # s
      BY <1>1, <1>2, <3>2
    <3>4. storage'[s] = storage[s]
      BY <3>1, <3>3 DEF WriteBegins, Shapes
    <3> QED
      BY <1>1, <3>2, <3>3, <3>4
  <2>3. CASE \E kind \in GuardCalls, g \in BagToSet(guards) : GuardEnds(t, kind, g)
    BY <1>1, <2>3 DEF GuardEnds, GuardCalls, Operation, Destroys, Destroyers, Shapes
  <2>4. CASE AtOnce
    BY <1>1, <2>4 DEF AtOnce, Destroys, Shapes
  <2> QED
    BY <1>3, <2>1, <2>2, <2>3, <2>4, CallEffect
<1>4. CASE \/ NodeOnly(t)
           \/ (ReadStep(t) \/ HelpStep(t) \/ PayStep(t) \/ WalkStep(t)) /\ UNCHANGED <<storage, guards, owned>>
  BY <1>1, <1>4, OtherOn DEF Destroys
<1>5. CASE ResultStep(t) /\ UNCHANGED listVars
  <2>1. CASE CasExchange(t)
    <3>1. op[t].kind \in {"cas", "rcu"} /\ wr[t].old = op[t].cur /\ op[t].s \in Storages
      BY <2>1 DEF CasExchange, Local, Calls, Pointers, InCas
    <3>2. op'[t].kind = op[t].kind /\ op'[t].s = op[t].s
      BY <2>1 DEF CasExchange, Shapes, OpType
    <3>3. CASE UNCHANGED storage
      BY <1>1, <3>1, <3>2, <3>3 DEF Destroys, Destroyers
    <3>4. CASE /\ storage[op[t].s] = op[t].cur /\ storage' = [storage EXCEPT ![op[t].s] = op[t].new]
               /\ pc'[t] = "pa_inc" /\ UNCHANGED wr
      BY <1>1, <1>2, <3>1, <3>2, <3>4 DEF Destroys, Destroyers, Shapes
    <3> QED
      BY <2>1, <3>3, <3>4 DEF CasExchange, Goto, Shapes
  <2>2. CASE UNCHANGED storage
    BY <1>1, <1>5, <2>2, ResultOn DEF GoesOn, IsOver, NoOp, Operation, Destroys, Destroyers
  <2>3. CASE PayAllDec(t) \/ OldDec(t)
    <3>1. \/ UNCHANGED storage
          \/ /\ storage' = [storage EXCEPT ![op[t].s] = Dead] /\ Destroys(t)
             /\ op' = [op EXCEPT ![t] = NoOp]
      BY <2>3 DEF PayAllDec, OldDec, Finish, Destroys, Destroyers
    <3>2. CASE Destroys(t) /\ storage' = [storage EXCEPT ![op[t].s] = Dead] /\ op' = [op EXCEPT ![t] = NoOp]
      <4>1. op[t].s # s
        BY <1>1, <3>2
      <4> QED
        BY <1>1, <3>2, <4>1 DEF NoOp, Operation, Shapes, Destroys, Destroyers
    <3> QED
      BY <2>2, <3>1, <3>2
  <2> QED
    BY <1>5, <2>1, <2>2, <2>3 DEF ResultStep, IntoInnerInc, IntoInnerPay, IntoInnerDec, GuardDropPay, GuardDropDec,
           ReturnGuard, ReturnFull, ReturnCas, ReturnRcu, RcuApply, CasDec, CasDropNew
<1> QED
  BY <1>3, <1>4, <1>5 DEF Acts

\* Who reads from an instance is not destroying it, and nobody else is.
LEMMA ReadersKeep ==
    ASSUME HelpInv, NoneToHelp, NEW u \in Threads, pc[u] \in LoadSteps, op[u].s \in Storages
    PROVE  InStorage(op[u].s, storage[op[u].s])
BY DEF InStorage, NoneToHelp, HelpInv, Instances, Destroys, Destroyers

\* The pin of a debt holds as long as the debt is not paid.
LEMMA PinKept ==
    ASSUME ListInv, HelpInv, NoWrap, Linked, DebtsLinked, [ListNext]_listVars, NEW t \in Threads, Acts(t),
           NEW n \in Nodes, NEW k \in SlotIds, slots[n][k] # NONE, slots'[n][k] = slots[n][k], Pin(n, k)
    PROVE  Pin(n, k)'
<1>0. Shape /\ Shapes /\ slots[n][k] \in Ptrs
  BY DEF ListInv, HelpInv, Shapes
<1>1. ASSUME NEW u \in Threads, wr'[u].old = slots[n][k], WillPay(u, n, k)'
      PROVE  Pin(n, k)'
  BY <1>1 DEF Pin
<1>2. CASE \E s \in Storages : InStorage(s, slots[n][k])
  <2>1. PICK s \in Storages : InStorage(s, slots[n][k])
    BY <1>2
  <2>2. PICK p \in Ptrs : p = slots[n][k]
    BY <1>0
  <2>3. \/ InStorage(s, p)'
        \/ op'[t].s = s /\ wr'[t].old = p /\ pc'[t] = "pa_inc"
    BY <2>1, <2>2, StorageMoves
  <2>4. CASE InStorage(s, p)'
    BY <2>2, <2>4 DEF Pin, InStorage
  <2>5. CASE wr'[t].old = p /\ pc'[t] = "pa_inc"
    BY <1>1, <2>2, <2>5 DEF WillPay, ComesTo
  <2> QED
    BY <2>3, <2>4, <2>5
<1>3. CASE \E u \in Threads : wr[u].old = slots[n][k] /\ WillPay(u, n, k)
  <2>1. PICK u \in Threads : wr[u].old = slots[n][k] /\ WillPay(u, n, k)
    BY <1>3
  <2>2. CASE u = t
    <3>1. wr'[t].old = wr[t].old /\ WillPay(t, n, k)'
      BY <2>1, <2>2, WriterWillPay
    <3> QED
      BY <1>1, <2>1, <2>2, <3>1
  <2>3. CASE u # t
    <3>1. Same(u)
      BY <1>0, <2>3, OthersSame
    <3>2. WillPay(u, n, k)' /\ wr'[u].old = wr[u].old
      BY <2>1, <3>1, OthersPlan DEF Same
    <3> QED
      BY <1>1, <2>1, <3>2
  <2> QED
    BY <2>2, <2>3
<1> QED
  BY <1>2, <1>3 DEF Pin

\* The steps of a load whose debt is not confirmed.
LEMMA TrialSteps ==
    ASSUME ListInv, HelpInv, NEW t \in Threads, Acts(t), pc[t] \in Unconfirmed \cup {"fb_confirm"}
    PROVE  /\ UNCHANGED <<listVars, storage, guards, owned, op, wr>>
           /\ \/ pc[t] = "ld_confirm" /\ AttemptConfirm(t)
              \/ pc[t] = "ld_pay" /\ AttemptPay(t)
              \/ pc[t] = "fb_confirm" /\ ConfirmControl(t)
              \/ pc[t] = "fb_hand" /\ ConfirmHandover(t)
              \/ pc[t] = "fb_space" /\ ConfirmSpace(t)
              \/ pc[t] = "fb_unpay" /\ FallbackUnpay(t)
<1>1. ~CallStep(t)
  BY CallEffect DEF Unconfirmed
<1>2. ~NodeOnly(t)
  BY DEF NodeOnly, NodeStep, TmpNodeDrop, ExitStep, LoadEntry, Unconfirmed
<1>3. ~ResultStep(t)
  BY DEF Unconfirmed, ResultStep, IntoInnerInc, IntoInnerPay, IntoInnerDec, GuardDropPay, GuardDropDec,
         ReturnGuard, ReturnFull, ReturnCas, ReturnRcu, RcuApply, CasExchange, CasDec, CasDropNew,
         PayAllDec, OldDec
<1>4. ~HelpStep(t)
  BY HelpPlace DEF VisitLabels, Unconfirmed
<1>5. ~PayStep(t) /\ ~WalkStep(t)
  BY DEF Unconfirmed, PayStep, PayAllInc, PayAllSlot, PayAllIncMore, WalkStep, PayAllWalk, PayAllReserve, PayAllRelease
<1>6. ReadStep(t) /\ UNCHANGED <<listVars, storage, guards, owned>>
  BY <1>1, <1>2, <1>3, <1>4, <1>5 DEF Acts
<1>7. \/ pc[t] = "ld_confirm" /\ AttemptConfirm(t)
      \/ pc[t] = "ld_pay" /\ AttemptPay(t)
      \/ pc[t] = "fb_confirm" /\ ConfirmControl(t)
      \/ pc[t] = "fb_hand" /\ ConfirmHandover(t)
      \/ pc[t] = "fb_space" /\ ConfirmSpace(t)
      \/ pc[t] = "fb_unpay" /\ FallbackUnpay(t)
  <2>1. ~AttemptLoad(t) /\ ~FastScan(t) /\ ~FastTake(t) /\ ~HelpingAnnounce(t) /\ ~HelpingOpen(t)
    BY DEF Unconfirmed, AttemptLoad, FastScan, FastTake, HelpingAnnounce, HelpingOpen
  <2>2. ~FallbackCandidate(t) /\ ~ConfirmSlot(t) /\ ~FallbackUndec(t)
    BY DEF Unconfirmed, FallbackCandidate, ConfirmSlot, FallbackUndec
  <2>3. /\ AttemptConfirm(t) => pc[t] = "ld_confirm"
        /\ AttemptPay(t) => pc[t] = "ld_pay"
        /\ ConfirmControl(t) => pc[t] = "fb_confirm"
        /\ ConfirmHandover(t) => pc[t] = "fb_hand"
        /\ ConfirmSpace(t) => pc[t] = "fb_space"
        /\ FallbackUnpay(t) => pc[t] = "fb_unpay"
    BY DEF AttemptConfirm, AttemptPay, ConfirmControl, ConfirmHandover, ConfirmSpace, FallbackUnpay
  <2> QED
    BY <1>6, <2>1, <2>2, <2>3 DEF ReadStep
<1>8. UNCHANGED <<op, wr>>
  BY <1>7 DEF AttemptConfirm, AttemptPay, ConfirmControl, ConfirmHandover, ConfirmSpace, FallbackUnpay
<1> QED
  BY <1>6, <1>7, <1>8

\* What is in the slot of an unconfirmed debt.
LEMMA TrialSlot ==
    ASSUME ListInv, HelpInv, OwnDebts, NEW t \in Threads, NEW n \in Nodes, NEW k \in SlotIds, Tries(t, n, k),
           slots[n][k] # NONE
    PROVE  /\ slots[n][k] = ld[t].ptr
           /\ pc[t] \notin {"ld_confirm", "ld_pay"} => node[t] = n /\ k = HelpingSlot
<1> Shapes /\ Local(t) /\ SlotsFree
  BY DEF HelpInv
<1>1. CASE pc[t] \in {"ld_confirm", "ld_pay"}
  BY <1>1 DEF OwnDebts, Tries, Unconfirmed
<1>2. CASE pc[t] \in {"fb_confirm", "fb_hand", "fb_space", "fb_unpay"}
  <2>1. node[t] = n /\ k = HelpingSlot
    BY <1>2 DEF Tries, Unconfirmed, Local, Registers, HelpedLabels
  <2>2. PICK u \in Threads : /\ node[u] = n
                             /\ pc[u] \in {"fb_confirm", "fb_hand", "fb_space", "fb_unpay", "in_inc", "in_pay"}
                             /\ ld[u].ptr = slots[n][HelpingSlot]
    BY <2>1 DEF SlotsFree
  <2>3. Owned(u) = n /\ Owned(t) = n
    BY <1>2, <2>1, <2>2, OwnsNode
  <2>4. u = t
    BY <2>3, NodesFacts DEF ListInv, ExclusiveOwnership
  <2> QED
    BY <1>2, <2>1, <2>2, <2>4
<1> QED
  BY <1>1, <1>2 DEF Tries, Unconfirmed

\* A writer that will help a load will also look at its helping slot.
LEMMA HelpPays ==
    ASSUME NEW t \in Threads, NEW u \in Threads, WillHelp(t, u)
    PROVE  WillPay(t, node[u], HelpingSlot)
BY DEF WillHelp, WillPay, Helps, Pays, LoadSteps, LoadLabels, IntoInnerLabels

\* A debt that gets confirmed is pinned by then.
LEMMA ConfirmedPin ==
    ASSUME ListInv, HelpInv, NoneToHelp, OwnDebts, CandidatePinned,
           NEW t \in Threads, Acts(t), NEW n \in Nodes, NEW k \in SlotIds, slots[n][k] # NONE,
           slots'[n][k] = slots[n][k], Tries(t, n, k), ~Tries(t, n, k)'
    PROVE  Pin(n, k)
<1> Shape /\ Locals /\ Shapes /\ Instances /\ Local(t)
  BY DEF ListInv, HelpInv
<1>1. /\ slots[n][k] = ld[t].ptr /\ pc[t] \in Unconfirmed \cup {"fb_confirm"}
      /\ pc[t] \notin {"ld_confirm", "ld_pay"} => node[t] = n /\ k = HelpingSlot
  BY TrialSlot DEF Tries
<1>2. pc[t] # "fb_confirm" => ld[t].debt = <<n, k>>
  BY DEF Tries
<1>3. op[t].s \in Storages /\ pc[t] \in LoadSteps
  BY <1>1, AtHand DEF Unconfirmed, LoadSteps, LoadLabels
<1>4. InStorage(op[t].s, storage[op[t].s])
  BY <1>3, ReadersKeep
<1>5. storage[op[t].s] = ld[t].ptr => Pin(n, k)
  BY <1>1, <1>3, <1>4 DEF Pin
<1>6. CASE pc[t] = "ld_confirm" /\ AttemptConfirm(t)
  <2>1. CASE storage[op[t].s] = ld[t].ptr
    BY <1>5, <2>1
  <2>2. CASE storage[op[t].s] # ld[t].ptr
    <3>1. pc'[t] = "ld_pay" /\ ld' = ld
      BY <1>6, <2>2 DEF AttemptConfirm, Goto, Shapes
    <3> QED
      BY <1>2, <1>6, <3>1 DEF Tries, Unconfirmed
  <2> QED
    BY <2>1, <2>2
<1>7. CASE (pc[t] = "ld_pay" /\ AttemptPay(t)) \/ (pc[t] = "fb_unpay" /\ FallbackUnpay(t))
  <2>1. IsOwed(<<n, k>>, ld[t].ptr) /\ <<n, k>>[1] = n /\ <<n, k>>[2] = k
    BY <1>1 DEF IsOwed
  <2>2. slots' = [slots EXCEPT ![n][k] = NONE]
    BY <1>2, <1>7, <2>1 DEF AttemptPay, FallbackUnpay, Pay
  <2>3. slots'[n][k] = NONE
    BY <2>2 DEF Shapes
  <2> QED
    BY <2>3
<1>8. CASE (pc[t] = "fb_hand" /\ ConfirmHandover(t)) \/ (pc[t] = "fb_space" /\ ConfirmSpace(t))
  <2>1. pc'[t] \in {"fb_space", "fb_unpay"} /\ ld'[t].debt = ld[t].debt
    BY <1>8 DEF ConfirmHandover, ConfirmSpace, Goto, Shapes, LoadType
  <2> QED
    BY <1>2, <1>8, <2>1 DEF Tries, Unconfirmed
<1>9. CASE pc[t] = "fb_confirm" /\ ConfirmControl(t)
  <2>1. node[t] = n /\ k = HelpingSlot
    BY <1>1, <1>9
  <2>2. ld'[t].debt = <<n, k>>
    BY <1>9, <2>1 DEF ConfirmControl, Shapes, LoadType
  <2>3. control[node[t]] = GEN(generation[t])
    <3>1. SUFFICES ASSUME control[node[t]] # GEN(generation[t]) PROVE FALSE
      OBVIOUS
    <3>2. pc'[t] = "fb_hand"
      BY <1>9, <3>1 DEF ConfirmControl, Goto, Shapes
    <3> QED
      BY <2>2, <3>2 DEF Tries, Unconfirmed
  <2>4. CASE storage[op[t].s] = ld[t].ptr
    BY <1>5, <2>4
  <2>5. CASE \E w \in Threads : op[w].s = op[t].s /\ wr[w].old = ld[t].ptr /\ WillHelp(w, t)
    BY <1>1, <2>1, <2>5, HelpPays DEF Pin
  <2> QED
    BY <1>9, <2>3, <2>4, <2>5 DEF CandidatePinned
<1> QED
  BY <1>1, <1>6, <1>7, <1>8, <1>9, TrialSteps

\* Whatever a step does, the debts that count are pinned.
LEMMA NextPinned ==
    ASSUME ListInv, HelpInv, NoWrap, Linked, NoneToHelp, OwnDebts, DebtsLinked, Pinned, CandidatePinned,
           [ListNext]_listVars, NEW t \in Threads, Acts(t)
    PROVE  Pinned'
<1> Shape /\ Locals /\ Shapes /\ Instances /\ Local(t)
  BY DEF ListInv, HelpInv
<1> SUFFICES ASSUME NEW n \in Nodes, NEW k \in SlotIds, slots'[n][k] # NONE, ~Tentative(n, k)'
             PROVE  Pin(n, k)'
  BY DEF Pinned
<1>0. ~Tries(t, n, k)'
  BY DEF Tentative
<1>1. slots'[n][k] = slots[n][k]
  <2>1. CASE FastTake(t)
    <3>1. pc'[t] = "ld_confirm" /\ ld'[t].debt = <<node[t], ld[t].idx>>
      BY <2>1 DEF FastTake, Goto, Shapes, LoadType
    <3>2. ~(n = node[t] /\ k = ld[t].idx)
      BY <1>0, <3>1 DEF Tries, Unconfirmed
    <3> QED
      BY <2>1, <3>2, SlotSteps
  <2>2. CASE ConfirmSlot(t)
    <3>1. pc'[t] = "fb_confirm" /\ node'[t] = node[t] /\ ~FastTake(t)
      BY <2>2, OpenSteps DEF ConfirmSlot, FastTake, Goto, Shapes, OpenLabels, listVars
    <3>2. ~(n = node[t] /\ k = HelpingSlot)
      BY <1>0, <3>1 DEF Tries
    <3> QED
      BY <3>1, <3>2, SlotSteps
  <2> QED
    BY <2>1, <2>2, SlotSteps
<1>2. Pin(n, k)
  <2>1. CASE Tentative(n, k)
    <3>1. PICK u \in Threads : Tries(u, n, k)
      BY <2>1 DEF Tentative
    <3>2. u = t
      <4>1. SUFFICES ASSUME u # t PROVE FALSE
        OBVIOUS
      <4>2. Same(u)
        BY <4>1, OthersSame
      <4>3. Tries(u, n, k)'
        BY <3>1, <4>2 DEF Tries, Same
      <4> QED
        BY <4>3 DEF Tentative
    <3> QED
      BY <1>0, <1>1, <3>1, <3>2, ConfirmedPin
  <2>2. CASE ~Tentative(n, k)
    BY <1>1, <2>2 DEF Pinned
  <2> QED
    BY <2>1, <2>2
<1> QED
  BY <1>1, <1>2, PinKept

\* The control of a load that is open is changed by an answer only.
LEMMA ControlKept ==
    ASSUME ListInv, HelpInv, NEW t \in Threads, Acts(t), NEW u \in Threads, u # t, pc[u] \in OpenLabels
    PROVE  control'[node[u]] = control[node[u]] \/ \E e \in Nodes : control'[node[u]] = REPLACEMENT(e)
<1> Shape /\ Locals /\ Shapes /\ Instances /\ Local(t)
  BY DEF ListInv, HelpInv
<1>1. node[u] \in Nodes /\ Owned(u) = node[u]
  BY OwnsNode
<1>2. Owned(t) = node[t] => node[t] # node[u]
  BY <1>1, NodesFacts DEF ListInv, ExclusiveOwnership
<1>3. CASE HelpingOpen(t) \/ ConfirmControl(t)
  <2>1. pc[t] \in {"fb_ctl", "fb_confirm"}
    BY <1>3 DEF HelpingOpen, ConfirmControl
  <2>2. Owned(t) = node[t]
    BY <2>1, OwnsNode
  <2> QED
    BY <1>1, <1>2, <1>3, <2>2 DEF HelpingOpen, ConfirmControl, Shapes
<1>4. CASE HelpCas(t)
  <2>1. space_offer[node[t]] \in Nodes /\ cursor[t] \in Nodes
    BY <1>4, AtHand DEF HelpCas, VisitLabels, Shapes
  <2>2. UNCHANGED control \/ control' = [control EXCEPT ![cursor[t]] = REPLACEMENT(space_offer[node[t]])]
    BY <1>4 DEF HelpCas
  <2>3. control'[node[u]] \in {control[node[u]], REPLACEMENT(space_offer[node[t]])}
    BY <1>1, <2>1, <2>2 DEF Shapes
  <2> QED
    BY <2>1, <2>3
<1>5. CASE Neutral(t)
  BY <1>5, NeutralEffect DEF helpVars
<1>6. CASE ReadStep(t) /\ UNCHANGED <<listVars, storage, guards, owned>>
  <2>1. HelpingAnnounce(t) => UNCHANGED control
    BY DEF HelpingAnnounce
  <2> QED
    BY <1>3, <1>6, <2>1, ReadOpen
<1>7. CASE HelpStep(t) /\ UNCHANGED <<listVars, storage, guards, owned>>
  BY <1>4, <1>7, HelpOpen
<1> QED
  BY <1>5, <1>6, <1>7, ActsCases

\* The step of the load itself.
LEMMA OwnCandidate ==
    ASSUME ListInv, HelpInv, CandidatePinned, NEW t \in Threads, Acts(t), pc'[t] \in {"fb_slot", "fb_confirm"},
           control'[node'[t]] = GEN(generation'[t])
    PROVE  \/ storage'[op'[t].s] = ld'[t].ptr
           \/ \E w \in Threads : op'[w].s = op'[t].s /\ wr'[w].old = ld'[t].ptr /\ WillHelp(w, t)'
<1> Shape /\ Locals /\ Shapes /\ Instances /\ Local(t)
  BY DEF ListInv, HelpInv
<1>1. UNCHANGED <<listVars, op, storage, wr>>
  BY OpenSteps DEF OpenLabels
<1>2. FallbackCandidate(t) \/ ConfirmSlot(t)
  <2>1. HelpingOpen(t) => pc'[t] \in {"fb_discard", "fb_cand"}
    BY DEF HelpingOpen, Goto, Shapes
  <2> QED
    BY <2>1, OpenSteps DEF OpenLabels
<1>3. CASE FallbackCandidate(t)
  BY <1>1, <1>3 DEF FallbackCandidate, Shapes, LoadType
<1>4. CASE ConfirmSlot(t)
  <2>1. UNCHANGED <<control, generation, ld>> /\ pc[t] = "fb_slot" /\ node' = node /\ pc'[t] = "fb_confirm"
    BY <1>1, <1>4 DEF ConfirmSlot, helpVars, localVars, listVars, Goto, Shapes
  <2>2. CASE storage[op[t].s] = ld[t].ptr
    BY <1>1, <2>1, <2>2
  <2>3. CASE \E w \in Threads : op[w].s = op[t].s /\ wr[w].old = ld[t].ptr /\ WillHelp(w, t)
    <3>1. PICK w \in Threads : op[w].s = op[t].s /\ wr[w].old = ld[t].ptr /\ WillHelp(w, t)
      BY <2>3
    <3>2. lpc' = lpc /\ cursor' = cursor /\ next' = next /\ wr' = wr /\ op' = op
      BY <1>1 DEF listVars
    <3>3. w # t => pc'[w] = pc[w]
      BY OthersSame DEF Same
    <3>4. ComesTo(w, node[t]) => ComesTo(w, node[t])'
      <4>1. pc[w] \in {"pa_inc", "pa_walk"} => w # t
        BY <2>1
      <4> QED
        BY <2>1, <3>2, <3>3, <4>1 DEF ComesTo, ChainFrom
    <3>5. Helps(w, t) => Helps(w, t)'
      <4>1. CASE w # t
        BY <2>1, <3>2, <3>3, <4>1 DEF Helps, GEN
      <4>2. CASE w = t
        BY <2>1, <3>2, <4>2 DEF Helps, GEN, LoadSteps, LoadLabels
      <4> QED
        BY <4>1, <4>2
    <3>6. WillHelp(w, t)'
      BY <3>1, <3>4, <3>5 DEF WillHelp
    <3> QED
      BY <2>1, <3>1, <3>2, <3>6
  <2> QED
    BY <2>1, <2>2, <2>3 DEF CandidatePinned
<1> QED
  BY <1>2, <1>3, <1>4

\* The candidate of a load that nobody has answered is pinned.
LEMMA NextCandidatePinned ==
    ASSUME ListInv, HelpInv, NoWrap, Linked, Addressed, NoneToHelp, CandidatePinned,
           [ListNext]_listVars, NEW t \in Threads, Acts(t)
    PROVE  CandidatePinned'
<1> Shape /\ Locals /\ Shapes /\ Instances /\ \A v \in Threads : Local(v)
  BY DEF ListInv, HelpInv
<1> SUFFICES ASSUME NEW u \in Threads, pc'[u] \in {"fb_slot", "fb_confirm"},
                    control'[node'[u]] = GEN(generation'[u])
             PROVE  \/ storage'[op'[u].s] = ld'[u].ptr
                    \/ \E w \in Threads : op'[w].s = op'[u].s /\ wr'[w].old = ld'[u].ptr /\ WillHelp(w, u)'
  <2>1. \A u \in Threads : GEN(generation[u])' = GEN(generation'[u])
    BY DEF GEN
  <2> QED
    BY <2>1 DEF CandidatePinned
<1>1. CASE u = t
  BY <1>1, OwnCandidate
<1>2. CASE u # t
  <2>1. Same(u) /\ pc[u] \in {"fb_slot", "fb_confirm"} /\ pc[u] \in OpenLabels /\ pc[u] \in LoadSteps
    BY <1>2, OthersSame DEF Same, OpenLabels, LoadSteps, LoadLabels
  <2>2. control'[node[u]] = GEN(generation[u]) /\ generation[u] \in Generations
    BY <2>1 DEF Same, Shapes
  <2>3. control[node[u]] = GEN(generation[u])
    <3>1. \A e \in Nodes : REPLACEMENT(e) # GEN(generation[u])
      BY <2>2, WordsApart, ControlFacts
    <3> QED
      BY <1>2, <2>1, <2>2, <3>1, ControlKept
  <2>4. op'[u] = op[u] /\ ld'[u] = ld[u]
    BY <2>1 DEF Same
  <2>5. op[u].s \in Storages /\ ld[u].ptr \in Ptrs
    BY <2>1, AtHand, Fields DEF LoadLabels
  <2>6. ASSUME NEW w \in Threads, op'[w].s = op[u].s, wr'[w].old = ld[u].ptr, WillHelp(w, u)'
        PROVE  \E z \in Threads : op'[z].s = op'[u].s /\ wr'[z].old = ld'[u].ptr /\ WillHelp(z, u)'
    BY <2>4, <2>6
  <2>7. CASE storage[op[u].s] = ld[u].ptr
    <3>1. PICK s \in Storages, p \in Ptrs : s = op[u].s /\ p = ld[u].ptr
      BY <2>5
    <3>2. InStorage(s, p)
      BY <2>1, <2>7, <3>1, ReadersKeep
    <3>3. CASE InStorage(s, p)'
      BY <2>4, <3>1, <3>3 DEF InStorage
    <3>4. CASE op'[t].s = s /\ wr'[t].old = p /\ pc'[t] = "pa_inc"
      BY <2>6, <3>1, <3>4 DEF WillHelp, ComesTo
    <3> QED
      BY <3>2, <3>3, <3>4, StorageMoves
  <2>8. CASE \E w \in Threads : op[w].s = op[u].s /\ wr[w].old = ld[u].ptr /\ WillHelp(w, u)
    <3>1. PICK w \in Threads : op[w].s = op[u].s /\ wr[w].old = ld[u].ptr /\ WillHelp(w, u)
      BY <2>8
    <3>2. CASE w = t
      <4>1. op'[t] = op[t] /\ wr'[t].old = wr[t].old /\ WillHelp(t, u)'
        BY <1>2, <2>1, <2>2, <2>3, <3>1, <3>2, WriterWillHelp
      <4> QED
        BY <2>6, <3>1, <3>2, <4>1
    <3>3. CASE w # t
      <4>1. Same(w)
        BY <3>3, OthersSame
      <4>2. WillHelp(w, u)'
        BY <2>1, <3>1, <4>1, OthersPlan
      <4> QED
        BY <2>6, <3>1, <4>1, <4>2 DEF Same
    <3> QED
      BY <3>2, <3>3
  <2> QED
    BY <2>1, <2>3, <2>7, <2>8 DEF CandidatePinned
<1> QED
  BY <1>1, <1>2

-----------------------------------------------------------------------------
(* Debts and debtors.                                                      *)

\* Where a load has a debt that may not have been paid yet.
OwingLabels == Unconfirmed \cup {"ret", "gd_pay", "in_inc", "in_pay"}
\* Thread t has the debt d on p in its load ...
OwesLoad(t, p, d) ==
    \/ pc[t] \in OwingLabels /\ ld[t].ptr = p /\ ld[t].debt = d
    \/ pc[t] = "fb_confirm" /\ ld[t].ptr = p /\ d = <<node[t], HelpingSlot>>

\* ... in the guard `old` of compare_and_swap ...
OwesCas(t, p, d) == CasGuard(t) /\ wr[t].old = p /\ wr[t].debt = d

\* ... or in the guard `cur` of rcu.
OwesRcu(t, p, d) == RcuGuard(t) /\ op[t].cur = p /\ op[t].debt = d

\* Thread t has the debt d on p.
Owes(t, p, d) == OwesLoad(t, p, d) \/ OwesCas(t, p, d) \/ OwesRcu(t, p, d)

\* DebtsHaveDebtors, but for those who have found out that their debt was paid.
Debtors ==
    \A n \in Nodes, k \in SlotIds :
        slots[n][k] # NONE =>
            \/ Guard(slots[n][k], <<n, k>>) \in BagToSet(guards)
            \/ \E t \in Threads : Owes(t, slots[n][k], <<n, k>>)

\* A bag keeps its elements when one is added, and all but the one that is removed.
LEMMA BagKeeps ==
    ASSUME NEW B, IsABag(B), NEW g \in BagToSet(B), NEW h
    PROVE  /\ g \in BagToSet(BagAdd(B, h)) /\ h \in BagToSet(BagAdd(B, h))
           /\ g # h => g \in BagToSet(BagRemove(B, h))
BY DEF IsABag, BagToSet, BagAdd, BagRemove

\* What is added is there.
LEMMA BagHas ==
    ASSUME NEW B, NEW h
    PROVE  h \in BagToSet(BagAdd(B, h))
BY DEF BagToSet, BagAdd

\* The drop of a guard with a debt takes it over.
LEMMA DropTakes ==
    ASSUME Shapes, NEW t \in Threads, NEW p, NEW d, d # NoDebt, BeginGuardDrop(t, Guard(p, d))
    PROVE  OwesLoad(t, p, d)'
BY DEF BeginGuardDrop, Guard, Protection, Goto, Shapes, OwesLoad, OwingLabels

\* So does whoever takes a guard from the users.
LEMMA GuardTaken ==
    ASSUME ListInv, HelpInv, NEW t \in Threads, Acts(t), NEW g \in BagToSet(guards), g.debt # NoDebt,
           g \notin BagToSet(guards')
    PROVE  OwesLoad(t, g.ptr, g.debt)'
<1> Shapes
  BY DEF HelpInv
<1>1. CASE CallGuard(t)
  <2>1. PICK kind \in {"guard_drop", "guard_into_inner"}, h \in BagToSet(guards) :
           /\ guards' = BagRemove(guards, h)
           /\ \/ kind = "guard_drop" /\ BeginGuardDrop(t, h)
              \/ ld' = [ld EXCEPT ![t] = Protection(h.ptr, h.debt)] /\ Goto(t, "in_inc")
              \/ h.debt = NoDebt
    BY <1>1 DEF CallGuard
  <2>2. h = g
    BY <2>1, BagKeeps DEF Shapes
  <2>3. CASE BeginGuardDrop(t, g)
    BY <2>3 DEF BeginGuardDrop, Protection, Goto, Shapes, OwesLoad, OwingLabels
  <2>4. CASE ld' = [ld EXCEPT ![t] = Protection(g.ptr, g.debt)] /\ Goto(t, "in_inc")
    BY <2>4 DEF Protection, Goto, Shapes, OwesLoad, OwingLabels
  <2> QED
    BY <2>1, <2>2, <2>3, <2>4
<1>2. CASE ~CallGuard(t)
  <2>1. UNCHANGED guards \/ \E h : guards' = BagAdd(guards, h)
    <3>1. CASE CallStep(t)
      BY <1>2, <3>1 DEF CallStep, CallLoad, CallSwap, CallCas, CallRcu, CallDestroy, CallNew, CallDropArc,
             CallFromInner, GiveGuard
    <3>2. CASE NodeOnly(t)
      BY <3>2 DEF NodeOnly, NodeStep, TmpNodeDrop, ExitStep
    <3>3. CASE ResultStep(t)
      BY <3>3 DEF ResultStep, IntoInnerInc, IntoInnerPay, IntoInnerDec, GuardDropPay, GuardDropDec,
             ReturnGuard, ReturnFull, ReturnCas, ReturnRcu, RcuApply, CasExchange, PayAllDec, OldDec,
             CasDec, CasDropNew, CasReturns, RcuPrev, RcuSwapped, RcuRetry, GiveGuard
    <3> QED
      BY <3>1, <3>2, <3>3 DEF Acts
  <2> QED
    BY <2>1, BagKeeps DEF Shapes
<1> QED
  BY <1>1, <1>2

\* A load goes on with its debt until it knows whether it relies on it.
LEMMA TrialOwes ==
    ASSUME ListInv, HelpInv, NEW t \in Threads, Acts(t), pc[t] \in Unconfirmed \cup {"fb_confirm"},
           NEW n \in Nodes, NEW k \in SlotIds, slots[n][k] # NONE, slots'[n][k] = slots[n][k],
           OwesLoad(t, slots[n][k], <<n, k>>)
    PROVE  OwesLoad(t, slots[n][k], <<n, k>>)'
<1> Shape /\ Shapes /\ Local(t)
  BY DEF ListInv, HelpInv
<1>1. node'[t] = node[t]
  BY TrialSteps DEF listVars
<1>2. ld[t].ptr = slots[n][k] /\ (pc[t] # "fb_confirm" => ld[t].debt = <<n, k>>)
  BY DEF OwesLoad, OwingLabels, Unconfirmed
<1>3. pc[t] = "fb_confirm" => <<n, k>> = <<node[t], HelpingSlot>>
  BY DEF OwesLoad, OwingLabels, Unconfirmed
<1>4. ~(slots' = [slots EXCEPT ![n][k] = NONE])
  BY DEF Shapes
<1>5. ~AttemptPay(t) /\ ~FallbackUnpay(t)
  BY <1>2, <1>4 DEF AttemptPay, FallbackUnpay, Pay, IsOwed
<1>6. CASE AttemptConfirm(t)
  <2>1. ld'[t].ptr = ld[t].ptr /\ ld'[t].debt = ld[t].debt /\ pc'[t] \in {"ret", "ld_pay"}
    BY <1>6 DEF AttemptConfirm, LoadReturns, Protection, Goto, Shapes, LoadType
  <2> QED
    BY <1>2, <1>6, <2>1 DEF AttemptConfirm, OwesLoad, OwingLabels, Unconfirmed
<1>7. CASE ConfirmControl(t)
  <2>1. ld'[t].ptr = ld[t].ptr /\ ld'[t].debt = <<node[t], HelpingSlot>> /\ pc'[t] \in {"in_inc", "fb_hand"}
    BY <1>7 DEF ConfirmControl, Goto, Shapes, LoadType
  <2> QED
    BY <1>2, <1>3, <1>7, <2>1 DEF ConfirmControl, OwesLoad, OwingLabels, Unconfirmed
<1>8. CASE ConfirmHandover(t) \/ ConfirmSpace(t)
  <2>1. /\ ld'[t].ptr = ld[t].ptr /\ ld'[t].debt = ld[t].debt /\ pc'[t] \in {"fb_space", "fb_unpay"}
        /\ pc[t] # "fb_confirm"
    BY <1>8 DEF ConfirmHandover, ConfirmSpace, Goto, Shapes, LoadType
  <2> QED
    BY <1>2, <2>1 DEF OwesLoad, OwingLabels, Unconfirmed
<1> QED
  BY <1>5, <1>6, <1>7, <1>8, TrialSteps

\* The guards `old` and `cur` are left alone inside of a load and of wait_for_readers.
LEMMA CallerOwes ==
    ASSUME ListInv, HelpInv, NoWrap, NEW t \in Threads, Acts(t), NEW p, NEW d,
           OwesCas(t, p, d) \/ OwesRcu(t, p, d),
           \/ NodeOnly(t)
           \/ (ReadStep(t) \/ HelpStep(t) \/ PayStep(t)) /\ UNCHANGED <<listVars, storage, guards, owned>>
           \/ WalkStep(t) /\ UNCHANGED <<storage, guards, owned>>
           \/ ResultStep(t) /\ UNCHANGED listVars /\ lpc[t] = "visit"
    PROVE  OwesCas(t, p, d)' \/ OwesRcu(t, p, d)'
<1> Shape /\ Shapes /\ Local(t) /\ Local(t)'
  BY NextLocal DEF ListInv, HelpInv
<1> USE DEF OwesCas, OwesRcu, CasGuard, RcuGuard, InCas
<1>1. op'[t] = op[t] /\ wr'[t].old = wr[t].old /\ wr'[t].debt = wr[t].debt
  BY OtherOn, NestedResult
<1>2. SUFFICES /\ pc[t] \notin {"cas_x", "cas_dec", "cas_drop_new", "rcu_f"}
               /\ Waiting(t) => Waiting(t)'
  BY <1>1
<1>3. CASE NodeOnly(t)
  <2>1. pc'[t] = pc[t] /\ pc[t] \in {"idle", "ret", LoadEntry, "pa_inc"}
    BY <1>3 DEF NodeOnly, NodeStep, TmpNodeDrop, ExitStep, debtVars
  <2> QED
    BY <1>3, <2>1, NodeOff DEF Waiting, LoadEntry
<1>4. CASE ReadStep(t) /\ UNCHANGED <<listVars, storage, guards, owned>>
  <2>1. pc[t] \in LoadSteps /\ pc'[t] \in LoadSteps
    BY <1>4, ReadPlace DEF Local
  <2>2. lpc'[t] = lpc[t]
    BY <1>4 DEF listVars
  <2> QED
    BY <2>1, <2>2 DEF Waiting, LoadSteps, LoadLabels, IntoInnerLabels
<1>5. CASE HelpStep(t) /\ UNCHANGED <<listVars, storage, guards, owned>>
  <2>1. pc[t] \in VisitLabels
    BY <1>5, HelpPlace
  <2>2. lpc[t] = "visit" /\ lpc'[t] = lpc[t]
    BY <1>5, <2>1 DEF listVars, Local, Places
  <2> QED
    BY <2>1, <2>2 DEF Waiting, VisitLabels
<1>6. CASE PayStep(t) /\ UNCHANGED <<listVars, storage, guards, owned>>
  <2>1. /\ pc[t] \in {"pa_inc", "pa_slot", "pa_inc2"} /\ pc'[t] \in {"pa_walk", "pa_inc2", "pa_slot", "pa_release"}
    BY <1>6 DEF PayStep, PayAllInc, PayAllSlot, PayAllIncMore, Pay, NextSlot, Goto, Shapes
  <2> QED
    BY <2>1 DEF Waiting, Local, Places, VisitLabels
<1>7. CASE WalkStep(t)
  <2>1. pc[t] \in {"pa_walk", "pa_reserve", "pa_release"} /\ pc'[t] \in {"pa_reserve", "hp_ctl", "pa_dec"}
    BY <1>7 DEF WalkStep, PayAllWalk, PayAllReserve, PayAllRelease, Goto, Shapes
  <2> QED
    BY <2>1 DEF Waiting, Local, Places, VisitLabels
<1>8. CASE ResultStep(t) /\ UNCHANGED listVars /\ lpc[t] = "visit"
  <2>1. pc[t] \in LoadSteps /\ lpc'[t] = "visit"
    BY <1>8, NestedResult DEF listVars
  <2> QED
    BY <2>1 DEF Waiting, LoadSteps, LoadLabels, IntoInnerLabels
<1> QED
  BY <1>3, <1>4, <1>5, <1>6, <1>7, <1>8

\* The result of a load goes on with its debt, or gives it back.
LEMMA ResultOwesLoad ==
    ASSUME ListInv, HelpInv, NEW t \in Threads, ResultStep(t), UNCHANGED listVars,
           NEW n \in Nodes, NEW k \in SlotIds, slots[n][k] # NONE, slots'[n][k] = slots[n][k],
           OwesLoad(t, slots[n][k], <<n, k>>)
    PROVE  \/ Owes(t, slots[n][k], <<n, k>>)'
           \/ Guard(slots[n][k], <<n, k>>) \in BagToSet(guards')
<1> Shape /\ Shapes /\ Local(t)
  BY DEF ListInv, HelpInv
<1>1. pc[t] \notin Unconfirmed \cup {"fb_confirm"}
  BY DEF ResultStep, IntoInnerInc, IntoInnerPay, IntoInnerDec, GuardDropPay, GuardDropDec, ReturnGuard, ReturnFull,
         ReturnCas, ReturnRcu, RcuApply, CasExchange, CasDec, CasDropNew, PayAllDec, OldDec, Unconfirmed
<1>2. ld[t].ptr = slots[n][k] /\ ld[t].debt = <<n, k>> /\ pc[t] \in {"ret", "gd_pay", "in_inc", "in_pay"}
  BY <1>1 DEF OwesLoad, OwingLabels
<1>3. <<n, k>> # NoDebt
  BY DebtFacts
<1>4. ~(slots' = [slots EXCEPT ![n][k] = NONE])
  BY DEF Shapes
<1>5. ~(IntoInnerPay(t) \/ GuardDropPay(t))
  BY <1>2, <1>4 DEF IntoInnerPay, GuardDropPay, Pay, IsOwed
<1>6. CASE IntoInnerInc(t) \/ ReturnFull(t)
  <2>1. ld'[t] = ld[t] /\ pc'[t] \in {"in_inc", "in_pay"}
    BY <1>2, <1>3, <1>6 DEF IntoInnerInc, ReturnFull, Goto, Shapes
  <2> QED
    BY <1>2, <2>1 DEF Owes, OwesLoad, OwingLabels
<1>7. CASE ReturnGuard(t)
  BY <1>2, <1>7, BagHas DEF ReturnGuard, GiveGuard
<1>8. CASE ReturnCas(t)
  <2>1. /\ op'[t] = op[t] /\ InCas(t) /\ wr'[t].old = ld[t].ptr /\ wr'[t].debt = ld[t].debt
        /\ pc'[t] \in {"cas_x", "cas_drop_new"}
    BY <1>8 DEF ReturnCas, Goto, Shapes, WriteType
  <2> QED
    BY <1>2, <2>1 DEF Owes, OwesCas, CasGuard, InCas
<1>9. CASE ReturnRcu(t)
  <2>1. op'[t].cur = ld[t].ptr /\ op'[t].debt = ld[t].debt /\ pc'[t] = "rcu_f"
    BY <1>9 DEF ReturnRcu, Goto, Shapes, OpType
  <2> QED
    BY <1>2, <2>1 DEF Owes, OwesRcu, RcuGuard
<1> QED
  BY <1>2, <1>5, <1>6, <1>7, <1>8, <1>9
     DEF ResultStep, IntoInnerDec, GuardDropDec, RcuApply, CasExchange, CasDec, CasDropNew, PayAllDec, OldDec

\* So do compare_and_swap with `old` ...
LEMMA ResultOwesCas ==
    ASSUME ListInv, HelpInv, NEW t \in Threads, ResultStep(t), UNCHANGED listVars, lpc[t] # "visit",
           NEW p, NEW d, d # NoDebt, OwesCas(t, p, d)
    PROVE  Owes(t, p, d)' \/ Guard(p, d) \in BagToSet(guards')
<1> Shape /\ Shapes /\ Local(t)
  BY DEF ListInv, HelpInv
<1>1. /\ wr[t].old = p /\ wr[t].debt = d /\ op[t].kind \in {"cas", "rcu"}
      /\ pc[t] \in {"pa_inc", "pa_walk", "pa_dec", "pa_reserve", "cas_x", "cas_dec", "cas_drop_new"}
  BY DEF OwesCas, CasGuard, InCas, Waiting, Local, Places
<1>2. CASE CasExchange(t)
  <2>1. CASE BeginGuardDrop(t, Guard(wr[t].old, wr[t].debt))
    BY <1>1, <2>1, DropTakes DEF Owes
  <2>2. CASE op' = [op EXCEPT ![t].new = NULL] /\ Goto(t, "pa_inc") /\ UNCHANGED <<ld, wr>>
    <3>1. op'[t].kind = op[t].kind /\ pc'[t] = "pa_inc" /\ wr'[t] = wr[t]
      BY <2>2 DEF Goto, Shapes, OpType
    <3> QED
      BY <1>1, <3>1 DEF Owes, OwesCas, CasGuard, InCas, Waiting
  <2> QED
    BY <1>2, <2>1, <2>2 DEF CasExchange
<1>3. CASE CasDec(t) \/ CasDropNew(t)
  <2>1. CasReturns(t) \/ RcuSwapped(t) \/ RcuRetry(t)
    BY <1>3 DEF CasDec, CasDropNew, RcuPrev
  <2>2. CASE CasReturns(t)
    BY <1>1, <2>2, BagHas DEF CasReturns, GiveGuard
  <2>3. CASE RcuSwapped(t)
    <3>1. ld'[t].ptr = wr[t].old /\ ld'[t].debt = wr[t].debt /\ pc'[t] = "in_inc"
      BY <1>1, <2>3 DEF RcuSwapped, Goto, Shapes, LoadType
    <3> QED
      BY <1>1, <3>1 DEF Owes, OwesLoad, OwingLabels
  <2>4. CASE RcuRetry(t)
    <3>1. op'[t].kind = "rcu_retry" /\ op'[t].cur = wr[t].old /\ op'[t].debt = wr[t].debt
      BY <2>4 DEF RcuRetry, Shapes, OpType
    <3> QED
      BY <1>1, <3>1 DEF Owes, OwesRcu, RcuGuard
  <2> QED
    BY <2>1, <2>2, <2>3, <2>4
<1>4. CASE PayAllDec(t)
  <2>1. op'[t] = op[t] /\ wr'[t] = wr[t] /\ pc'[t] = "cas_dec"
    BY <1>1, <1>4 DEF PayAllDec, Goto, Shapes
  <2> QED
    BY <1>1, <2>1 DEF Owes, OwesCas, CasGuard, InCas
<1> QED
  BY <1>1, <1>2, <1>3, <1>4 DEF ResultStep, IntoInnerInc, IntoInnerPay, IntoInnerDec, GuardDropPay, GuardDropDec,
         ReturnGuard, ReturnFull, ReturnCas, ReturnRcu, RcuApply, OldDec

\* ... and rcu with `cur`.
LEMMA ResultOwesRcu ==
    ASSUME ListInv, HelpInv, NEW t \in Threads, ResultStep(t), UNCHANGED listVars, lpc[t] # "visit",
           NEW p, NEW d, d # NoDebt, OwesRcu(t, p, d)
    PROVE  Owes(t, p, d)'
<1> Shape /\ Shapes /\ Local(t)
  BY DEF ListInv, HelpInv
<1>1. op[t].cur = p /\ op[t].debt = d /\ RcuGuard(t) /\ ~InHelp(t)
  BY DEF OwesRcu, InHelp
<1>2. ASSUME op'[t].kind \in {"rcu", "rcu_retry"}, op'[t].cur = op[t].cur, op'[t].debt = op[t].debt
      PROVE  Owes(t, p, d)'
  BY <1>1, <1>2 DEF Owes, OwesRcu, RcuGuard
<1>3. ASSUME FullReference(t, ld[t].ptr) \/ FullReference(t, wr[t].old), op[t].kind = "rcu"
      PROVE  Owes(t, p, d)'
  BY <1>1, <1>3, DropTakes DEF FullReference, Owes
<1>4. op[t].kind \in {"rcu", "rcu_retry"} \/ pc[t] = "rcu_f"
  BY <1>1 DEF RcuGuard
<1>5. CASE IntoInnerInc(t) \/ IntoInnerPay(t) \/ IntoInnerDec(t)
  <2>1. op[t].kind = "rcu"
    BY <1>1, <1>4, <1>5 DEF IntoInnerInc, IntoInnerPay, IntoInnerDec, Local, Calls, LoadSteps, IntoInnerLabels, ReadKinds
  <2>2. op'[t] = op[t] \/ FullReference(t, ld[t].ptr)
    BY <1>5 DEF IntoInnerInc, IntoInnerPay, IntoInnerDec, Pay, IntoInnerDone
  <2> QED
    BY <1>2, <1>3, <2>1, <2>2
<1>6. CASE GuardDropPay(t) \/ GuardDropDec(t)
  <2>1. op'[t] = op[t] /\ pc[t] # "rcu_f"
    BY <1>4, <1>6 DEF GuardDropPay, GuardDropDec, Pay, GuardDropDone
  <2> QED
    BY <1>2, <1>4, <2>1
<1>7. CASE ReturnCas(t) \/ RcuApply(t) \/ CasExchange(t) \/ PayAllDec(t)
  <2>1. CASE ReturnCas(t)
    <3>1. op'[t] = op[t] /\ pc[t] # "rcu_f"
      BY <2>1 DEF ReturnCas
    <3> QED
      BY <1>2, <1>4, <3>1
  <2>2. CASE RcuApply(t)
    <3>1. op'[t].kind = "rcu" /\ op'[t].cur = op[t].cur /\ op'[t].debt = op[t].debt
      BY <2>2 DEF RcuApply, Shapes, OpType
    <3> QED
      BY <1>2, <3>1
  <2>3. CASE CasExchange(t)
    <3>1. op'[t].kind = op[t].kind /\ op'[t].cur = op[t].cur /\ op'[t].debt = op[t].debt /\ pc[t] # "rcu_f"
      BY <2>3 DEF CasExchange, Shapes, OpType
    <3> QED
      BY <1>2, <1>4, <3>1
  <2>4. CASE PayAllDec(t)
    <3>1. op'[t] = op[t] /\ pc[t] # "rcu_f"
      BY <1>4, <2>4 DEF PayAllDec, InCas
    <3> QED
      BY <1>2, <1>4, <3>1
  <2> QED
    BY <1>7, <2>1, <2>2, <2>3, <2>4
<1>8. CASE CasDec(t) \/ CasDropNew(t)
  <2>1. /\ CasReturns(t) \/ RcuSwapped(t) \/ RcuRetry(t)
        /\ op[t].kind = "rcu" /\ ~CasReturns(t)
    BY <1>4, <1>8 DEF CasDec, CasDropNew, RcuPrev, Local, Calls, CasReturns
  <2>2. CASE RcuSwapped(t)
    BY <1>2, <1>3, <2>1, <2>2 DEF RcuSwapped
  <2>3. CASE RcuRetry(t)
    BY <1>1, <2>3, DropTakes DEF RcuRetry, Owes
  <2> QED
    BY <2>1, <2>2, <2>3
<1>9. ~(ReturnGuard(t) \/ ReturnFull(t) \/ ReturnRcu(t) \/ OldDec(t))
  BY <1>1, <1>4 DEF ReturnGuard, ReturnFull, ReturnRcu, OldDec, Local, Calls
<1> QED
  BY <1>5, <1>6, <1>7, <1>8, <1>9 DEF ResultStep

\* Who has a debt that stays has it after the step, or has given it to the users.
LEMMA OwesOn ==
    ASSUME ListInv, HelpInv, NoWrap, NEW t \in Threads, Acts(t),
           NEW n \in Nodes, NEW k \in SlotIds, slots[n][k] # NONE, slots'[n][k] = slots[n][k],
           Owes(t, slots[n][k], <<n, k>>)
    PROVE  \/ Owes(t, slots[n][k], <<n, k>>)'
           \/ Guard(slots[n][k], <<n, k>>) \in BagToSet(guards')
<1> Shape /\ Shapes /\ Local(t)
  BY DEF ListInv, HelpInv
<1>0. <<n, k>> # NoDebt
  BY DebtFacts
<1>1. ~CallStep(t)
  <2>1. SUFFICES ASSUME CallStep(t) PROVE FALSE
    OBVIOUS
  <2>2. pc[t] = "idle" /\ lpc[t] = "off"
    BY <2>1, CallEffect
  <2>3. op[t] = NoOp
    BY <2>2 DEF Local, Calls
  <2> QED
    BY <2>2, <2>3 DEF Owes, OwesLoad, OwesCas, OwesRcu, CasGuard, RcuGuard, Waiting, InCas, NoOp, Operation,
           OwingLabels, Unconfirmed
<1>2. CASE ResultStep(t) /\ UNCHANGED listVars /\ lpc[t] # "visit"
  BY <1>0, <1>2, ResultOwesLoad, ResultOwesCas, ResultOwesRcu DEF Owes
<1>3. CASE OwesLoad(t, slots[n][k], <<n, k>>)
  <2>1. CASE pc[t] \in Unconfirmed \cup {"fb_confirm"}
    BY <1>3, <2>1, TrialOwes DEF Owes
  <2>2. CASE pc[t] \notin Unconfirmed \cup {"fb_confirm"}
    <3>1. pc[t] \in {"ret", "gd_pay", "in_inc", "in_pay"} /\ ld[t].ptr = slots[n][k] /\ ld[t].debt = <<n, k>>
      BY <1>3, <2>2 DEF OwesLoad, OwingLabels
    <3>2. CASE NodeOnly(t)
      <4>1. pc'[t] = pc[t] /\ ld'[t] = ld[t]
        BY <3>2 DEF NodeOnly, NodeStep, TmpNodeDrop, ExitStep, debtVars
      <4> QED
        BY <3>1, <4>1 DEF Owes, OwesLoad, OwingLabels
    <3>3. CASE ResultStep(t) /\ UNCHANGED listVars
      BY <1>3, <3>3, ResultOwesLoad
    <3>4. ~(ReadStep(t) \/ HelpStep(t) \/ PayStep(t) \/ WalkStep(t))
      <4>1. ~ReadStep(t)
        BY <3>1 DEF ReadStep, AttemptLoad, FastScan, FastTake, AttemptConfirm, AttemptPay, HelpingAnnounce, HelpingOpen,
               FallbackCandidate, ConfirmSlot, ConfirmControl, ConfirmHandover, ConfirmSpace, FallbackUnpay, FallbackUndec
      <4>2. ~HelpStep(t)
        BY <3>1, HelpPlace DEF VisitLabels
      <4>3. ~(PayStep(t) \/ WalkStep(t))
        BY <3>1 DEF PayStep, WalkStep, PayAllInc, PayAllSlot, PayAllIncMore, PayAllWalk, PayAllReserve, PayAllRelease
      <4> QED
        BY <4>1, <4>2, <4>3
    <3> QED
      BY <1>1, <3>2, <3>3, <3>4 DEF Acts
  <2> QED
    BY <2>1, <2>2
<1>4. CASE OwesCas(t, slots[n][k], <<n, k>>) \/ OwesRcu(t, slots[n][k], <<n, k>>)
  <2>1. PICK p : p = slots[n][k]
    OBVIOUS
  <2>2. CASE ~(ResultStep(t) /\ UNCHANGED listVars /\ lpc[t] # "visit")
    <3>1. OwesCas(t, p, <<n, k>>)' \/ OwesRcu(t, p, <<n, k>>)'
      BY <1>1, <1>4, <2>1, <2>2, CallerOwes DEF Acts
    <3> QED
      BY <2>1, <3>1 DEF Owes, OwesCas, OwesRcu
  <2> QED
    BY <1>2, <2>2
<1> QED
  BY <1>3, <1>4 DEF Owes

\* Debts keep their debtors.
LEMMA NextDebtors ==
    ASSUME ListInv, HelpInv, NoWrap, Debtors, NEW t \in Threads, Acts(t)
    PROVE  Debtors'
<1> Shape /\ Shapes /\ Local(t) /\ Shapes'
  BY NextShapes DEF ListInv, HelpInv
<1> SUFFICES ASSUME NEW n \in Nodes, NEW k \in SlotIds, slots'[n][k] # NONE
             PROVE  \/ Guard(slots'[n][k], <<n, k>>) \in BagToSet(guards')
                    \/ \E u \in Threads : Owes(u, slots[n][k], <<n, k>>)'
  BY DEF Debtors
<1>1. CASE slots'[n][k] = slots[n][k]
  <2>1. CASE Guard(slots[n][k], <<n, k>>) \in BagToSet(guards)
    <3>1. PICK g \in BagToSet(guards) : g = Guard(slots[n][k], <<n, k>>)
      BY <2>1
    <3>2. g.ptr = slots[n][k] /\ g.debt = <<n, k>> /\ g.debt # NoDebt
      BY <3>1, DebtFacts DEF Guard
    <3>3. CASE g \notin BagToSet(guards')
      <4>1. OwesLoad(t, g.ptr, g.debt)'
        BY <3>2, <3>3, GuardTaken
      <4> QED
        BY <1>1, <3>2, <4>1 DEF Owes, OwesLoad
    <3> QED
      BY <1>1, <3>1, <3>3
  <2>2. CASE \E u \in Threads : Owes(u, slots[n][k], <<n, k>>)
    <3>1. PICK u \in Threads : Owes(u, slots[n][k], <<n, k>>)
      BY <2>2
    <3>2. CASE u = t
      BY <1>1, <3>1, <3>2, OwesOn
    <3>3. CASE u # t
      <4>1. Same(u)
        BY <3>3, OthersSame
      <4> QED
        BY <1>1, <3>1, <4>1 DEF Same, Owes, OwesLoad, OwesCas, OwesRcu, CasGuard, RcuGuard, Waiting, InCas
    <3> QED
      BY <3>2, <3>3
  <2> QED
    BY <1>1, <2>1, <2>2 DEF Debtors
<1>2. CASE slots'[n][k] # slots[n][k]
  <2>1. PICK j \in SlotIds :
            /\ FastTake(t) \/ ConfirmSlot(t)
            /\ IF FastTake(t) THEN j = ld[t].idx ELSE j = HelpingSlot
            /\ \A m \in Nodes, i \in SlotIds :
                  slots'[m][i] = IF m = node[t] /\ i = j THEN ld[t].ptr ELSE slots[m][i]
    BY <1>2, SlotSteps
  <2>2. n = node[t] /\ k = j /\ slots'[n][k] = ld[t].ptr
    BY <1>2, <2>1
  <2>3. CASE FastTake(t)
    <3>1. ld'[t].debt = <<n, k>> /\ ld'[t].ptr = ld[t].ptr /\ pc'[t] = "ld_confirm"
      BY <2>1, <2>2, <2>3 DEF FastTake, Goto, Shapes, LoadType
    <3> QED
      BY <2>2, <3>1 DEF Owes, OwesLoad, OwingLabels, Unconfirmed
  <2>4. CASE ~FastTake(t)
    <3>1. ld'[t].ptr = ld[t].ptr /\ pc'[t] = "fb_confirm" /\ k = HelpingSlot
      BY <2>1, <2>2, <2>4 DEF ConfirmSlot, Goto, Shapes
    <3>2. pc[t] = "fb_slot"
      BY <2>1, <2>4 DEF ConfirmSlot
    <3>3. node'[t] = node[t]
      BY <3>1, OpenSteps DEF OpenLabels, listVars
    <3> QED
      BY <2>2, <3>1, <3>3 DEF Owes, OwesLoad
  <2> QED
    BY <2>3, <2>4
<1> QED
  BY <1>1, <1>2

-----------------------------------------------------------------------------
(* From debtors to counts: no two debts have the same debtor.              *)

\* The loads, the guards `old` and the guards `cur` that have a claim on a.
Loading(a) == {t \in Threads : Protects(t) /\ ld[t].ptr = a}
Comparing(a) == {t \in Threads : CasGuard(t) /\ wr[t].old = a}
Updating(a) == {t \in Threads : RcuGuard(t) /\ op[t].cur = a}

\* Every debt on a has a debtor in one of these sets: copies of guards, loads, `old`s
\* and `cur`s.
Backed(a, G, P, C, R) ==
    \A d \in OwedOn(a) :
        \/ <<Guard(a, d), 1>> \in G
        \/ \E t \in P : OwesLoad(t, a, d)
        \/ \E t \in C : OwesCas(t, a, d)
        \/ \E t \in R : OwesRcu(t, a, d)

\* There is a reference to a that is no debt.
Firm(a) ==
    \/ \E s \in Storages : storage[s] = a
    \/ owned[a] > 0
    \/ \E t \in Threads :
          \/ op[t].new = a
          \/ TookOld(t) /\ wr[t].old = a
          \/ wr[t].repl = a
          \/ pc[t] \in {"in_pay", "in_dec"} /\ ld[t].ptr = a
          \/ Received(t) = a

\* There are no more debts than debtors.
LEMMA OwedAtMost ==
    ASSUME NEW a, IsFiniteSet(GuardCopies(a)), NEW G \in SUBSET GuardCopies(a), NEW P \in SUBSET Threads,
           NEW C \in SUBSET Threads, NEW R \in SUBSET Threads, Backed(a, G, P, C, R)
    PROVE  /\ Cardinality(G) \in Nat /\ Cardinality(P) \in Nat /\ Cardinality(C) \in Nat /\ Cardinality(R) \in Nat
           /\ Owed(a) \in Nat
           /\ Owed(a) <= Cardinality(G) + Cardinality(P) + Cardinality(C) + Cardinality(R)
<1> DEFINE e == [x \in G |-> x[1].debt]
           f == [t \in P |-> IF pc[t] = "fb_confirm" THEN <<node[t], HelpingSlot>> ELSE ld[t].debt]
           g == [t \in C |-> wr[t].debt]
           h == [t \in R |-> op[t].debt]
<1>1. ASSUME NEW d \in OwedOn(a)
      PROVE  \/ \E x \in G : d = e[x]
             \/ \E x \in P : d = f[x]
             \/ \E x \in C : d = g[x]
             \/ \E x \in R : d = h[x]
  <2>1. CASE <<Guard(a, d), 1>> \in G
    <3>1. e[<<Guard(a, d), 1>>] = d
      BY <2>1 DEF Guard
    <3> QED
      BY <2>1, <3>1
  <2>2. CASE \E t \in P : OwesLoad(t, a, d)
    <3>1. PICK t \in P : OwesLoad(t, a, d)
      BY <2>2
    <3>2. f[t] = d
      BY <3>1 DEF OwesLoad, OwingLabels, Unconfirmed
    <3> QED
      BY <3>2
  <2>3. CASE \E t \in C : OwesCas(t, a, d)
    <3>1. PICK t \in C : OwesCas(t, a, d)
      BY <2>3
    <3>2. g[t] = d
      BY <3>1 DEF OwesCas
    <3> QED
      BY <3>2
  <2>4. CASE \E t \in R : OwesRcu(t, a, d)
    <3>1. PICK t \in R : OwesRcu(t, a, d)
      BY <2>4
    <3>2. h[t] = d
      BY <3>1 DEF OwesRcu
    <3> QED
      BY <3>2
  <2> QED
    BY <2>1, <2>2, <2>3, <2>4 DEF Backed
<1> HIDE DEF e, f, g, h
<1>2. Covered(OwedOn(a), G, P, C, R, e, f, g, h)
  BY <1>1 DEF Covered
<1>3. IsFiniteSet(G) /\ IsFiniteSet(P) /\ IsFiniteSet(C) /\ IsFiniteSet(R)
  BY FiniteSubset, ThreadsFinite
<1>4. /\ Cardinality(G) \in Nat /\ Cardinality(P) \in Nat /\ Cardinality(C) \in Nat /\ Cardinality(R) \in Nat
      /\ Cardinality(OwedOn(a)) \in Nat
      /\ Cardinality(OwedOn(a)) <= Cardinality(G) + Cardinality(P) + Cardinality(C) + Cardinality(R)
  BY <1>2, <1>3, CoverCount
<1>5. Owed(a) = Cardinality(OwedOn(a))
  BY DEF Owed, OwedOn
<1> QED
  BY <1>4, <1>5

\* A count is what remains of the references when each debt has taken one away.
LEMMA Surplus ==
    ASSUME Shapes, CopiesFinite, RefCountExact, NEW a \in Addrs,
           NEW G \in SUBSET GuardCopies(a), NEW P \in SUBSET Loading(a), NEW C \in SUBSET Comparing(a),
           NEW R \in SUBSET Updating(a), Backed(a, G, P, C, R)
    PROVE  /\ strong[a] \in Int /\ strong[a] >= 0
           /\ Firm(a) => strong[a] > 0
           /\ (G # GuardCopies(a) \/ P # Loading(a) \/ C # Comparing(a) \/ R # Updating(a)) => strong[a] > 0
<1>1. IsFiniteSet(GuardCopies(a)) /\ strong[a] \in Int /\ owned[a] \in Nat
  BY DEF Shapes, CopiesFinite
<1> DEFINE cG == Cardinality(G)
           cP == Cardinality(P)
           cC == Cardinality(C)
           cR == Cardinality(R)
           nG == Cardinality(GuardCopies(a))
           nP == Cardinality(Loading(a))
           nC == Cardinality(Comparing(a))
           nR == Cardinality(Updating(a))
           nS == Cardinality(StoragesOn(a))
           nA == Cardinality(AnswersOn(a))
           n1 == Cardinality({t \in Threads : op[t].new = a})
           n2 == Cardinality({t \in Threads : TookOld(t) /\ wr[t].old = a})
           n3 == Cardinality({t \in Threads : Prepaid(t) /\ wr[t].old = a})
           n4 == Cardinality({t \in Threads : wr[t].repl = a})
           n5 == Cardinality({t \in Threads : pc[t] \in {"in_pay", "in_dec"} /\ ld[t].ptr = a})
           n6 == Cardinality({t \in Threads : Received(t) = a})
<1>2. /\ cG \in Nat /\ cP \in Nat /\ cC \in Nat /\ cR \in Nat /\ Owed(a) \in Nat
      /\ Owed(a) <= cG + cP + cC + cR
  BY <1>1, OwedAtMost DEF Loading, Comparing, Updating
<1>3. /\ nG \in Nat /\ cG <= nG /\ (G # GuardCopies(a) => cG < nG)
  BY <1>1, SmallerSubset
<1>4. IsFiniteSet(Loading(a)) /\ IsFiniteSet(Comparing(a)) /\ IsFiniteSet(Updating(a))
  BY ThreadsFinite, FiniteSubset DEF Loading, Comparing, Updating
<1>5. /\ nP \in Nat /\ cP <= nP /\ (P # Loading(a) => cP < nP)
      /\ nC \in Nat /\ cC <= nC /\ (C # Comparing(a) => cC < nC)
      /\ nR \in Nat /\ cR <= nR /\ (R # Updating(a) => cR < nR)
  BY <1>4, SmallerSubset
<1>6. IsFiniteSet(StoragesOn(a)) /\ IsFiniteSet(AnswersOn(a))
  BY ApiAssumption, FiniteSubset, OwedFinite DEF StoragesOn
<1>7. nS \in Nat /\ nA \in Nat /\ ((\E s \in Storages : storage[s] = a) => nS > 0)
  <2>1. nS \in Nat /\ nA \in Nat
    BY <1>6, FiniteSubset
  <2>2. ASSUME NEW s \in Storages, storage[s] = a PROVE nS > 0
    <3>1. s \in StoragesOn(a)
      BY <2>2 DEF StoragesOn
    <3> QED
      BY <1>6, <3>1, CardinalityPositive
  <2> QED
    BY <2>1, <2>2
<1>8. \A S \in SUBSET Threads : Cardinality(S) \in Nat /\ (\A t \in S : Cardinality(S) > 0)
  BY ThreadsFinite, FiniteSubset, CardinalityPositive
<1>9. /\ n1 \in Nat /\ n2 \in Nat /\ n3 \in Nat /\ n4 \in Nat /\ n5 \in Nat /\ n6 \in Nat
      /\ \A t \in Threads : /\ op[t].new = a => n1 > 0
                            /\ TookOld(t) /\ wr[t].old = a => n2 > 0
                            /\ wr[t].repl = a => n4 > 0
                            /\ pc[t] \in {"in_pay", "in_dec"} /\ ld[t].ptr = a => n5 > 0
                            /\ Received(t) = a => n6 > 0
  BY <1>8
<1>10. Claims(a) = nS + owned[a] + nG + CallClaims(a) + nA
  <2>1. GuardsOn(a) = nG
    BY DEF GuardsOn, GuardCopies
  <2> QED
    BY <2>1, ClaimsAre
<1>11. CallClaims(a) = n1 + n2 + n3 + nC + nR + n4 + nP + n5 + n6
  BY DEF CallClaims, Loading, Comparing, Updating
<1>12. strong[a] + Owed(a) = Claims(a)
  BY DEF RefCountExact
<1>13. Firm(a) => nS > 0 \/ owned[a] > 0 \/ n1 > 0 \/ n2 > 0 \/ n4 > 0 \/ n5 > 0 \/ n6 > 0
  BY <1>7, <1>9 DEF Firm
<1>14. /\ n1 \in Nat /\ n2 \in Nat /\ n3 \in Nat /\ n4 \in Nat /\ n5 \in Nat /\ n6 \in Nat
  BY <1>9
<1> HIDE DEF cG, cP, cC, cR, nG, nP, nC, nR, nS, nA, n1, n2, n3, n4, n5, n6
<1> DEFINE rest == n1 + n2 + n3 + n4 + n5 + n6 + nS + nA + owned[a]
           all == nG + nP + nC + nR
           used == cG + cP + cC + cR
<1>15. rest \in Nat /\ (Firm(a) => rest > 0)
  BY <1>1, <1>7, <1>13, <1>14
<1>16. /\ all \in Nat /\ used \in Nat /\ used <= all
       /\ (G # GuardCopies(a) \/ P # Loading(a) \/ C # Comparing(a) \/ R # Updating(a)) => used < all
  BY <1>2, <1>3, <1>5
<1>17. Claims(a) = rest + all
  <2>1. nP \in Nat /\ nC \in Nat /\ nR \in Nat
    BY <1>5
  <2>2. CallClaims(a) \in Nat
    BY <1>11, <1>14, <2>1
  <2> QED
    BY <1>1, <1>3, <1>7, <1>10, <1>11, <1>14, <2>1, <2>2
<1>18. Owed(a) <= used
  BY <1>2
<1> HIDE DEF rest, all, used
<1> QED
  BY <1>1, <1>2, <1>12, <1>15, <1>16, <1>17, <1>18

\* Everybody who owes a debt is in one of the sets.
LEMMA AllBacked ==
    ASSUME Shapes, Debtors, NEW a \in Addrs
    PROVE  Backed(a, GuardCopies(a), Loading(a), Comparing(a), Updating(a))
<1> SUFFICES ASSUME NEW d \in OwedOn(a)
             PROVE  \/ <<Guard(a, d), 1>> \in GuardCopies(a)
                    \/ \E t \in Loading(a) : OwesLoad(t, a, d)
                    \/ \E t \in Comparing(a) : OwesCas(t, a, d)
                    \/ \E t \in Updating(a) : OwesRcu(t, a, d)
  BY DEF Backed
<1>1. PICK n \in Nodes, k \in SlotIds : d = <<n, k>> /\ slots[n][k] = a
  BY DEF OwedOn
<1>2. a # NONE
  BY Consts
<1>3. CASE Guard(a, d) \in BagToSet(guards)
  <2>1. guards[Guard(a, d)] \in Nat /\ guards[Guard(a, d)] > 0 /\ Guard(a, d).ptr = a
    BY <1>3 DEF Shapes, IsABag, BagToSet, Guard
  <2>2. 1 \in 1 .. guards[Guard(a, d)]
    BY <2>1
  <2> QED
    BY <1>3, <2>1, <2>2 DEF GuardCopies
<1>4. ASSUME NEW t \in Threads, Owes(t, a, d)
      PROVE  \/ t \in Loading(a) /\ OwesLoad(t, a, d)
             \/ t \in Comparing(a) /\ OwesCas(t, a, d)
             \/ t \in Updating(a) /\ OwesRcu(t, a, d)
  BY <1>4 DEF Owes, OwesLoad, OwesCas, OwesRcu, Loading, Comparing, Updating, Protects, OwingLabels, Unconfirmed,
         IntoInnerLabels
<1> QED
  BY <1>1, <1>2, <1>3, <1>4 DEF Debtors

-----------------------------------------------------------------------------
(* What somebody relies on has not been freed.                             *)

\* The inductive invariant of the debts.
DebtInv == Addressed /\ NoneToHelp /\ OwnDebts /\ DebtsLinked /\ Pinned /\ CandidatePinned /\ Debtors

\* A writer that waits for readers has the reference that was in the storage, or
\* the storage itself.
LEMMA WaitingFirm ==
    ASSUME HelpInv, NEW t \in Threads, Waiting(t) \/ pc[t] \in {"old_dec", "cas_dec"}
    PROVE  Firm(wr[t].old)
<1> Shapes /\ Local(t) /\ Instances
  BY DEF HelpInv
<1>1. op[t].kind \in WriteKinds
  BY DEF Local, Calls, WriteKinds
<1>2. CASE op[t].kind \in {"store", "swap", "cas", "rcu"}
  BY <1>2 DEF Firm, TookOld
<1>3. CASE op[t].kind \in {"drop", "into_inner"}
  <2>1. storage[op[t].s] = wr[t].old /\ op[t].s \in Storages
    BY <1>3 DEF Instances, Local, Calls
  <2> QED
    BY <2>1 DEF Firm
<1> QED
  BY <1>1, <1>2, <1>3 DEF WriteKinds

\* A debt that is relied on is on something that is in a storage or with a writer.
LEMMA PinFirm ==
    ASSUME HelpInv, Pinned, NEW n \in Nodes, NEW k \in SlotIds, slots[n][k] # NONE
    PROVE  Firm(slots[n][k]) \/ \E u \in Threads : Tries(u, n, k)
<1>1. CASE ~Tentative(n, k)
  <2>1. Pin(n, k)
    BY <1>1 DEF Pinned
  <2>2. ASSUME NEW s \in Storages, InStorage(s, slots[n][k])
        PROVE  Firm(slots[n][k])
    BY <2>2 DEF InStorage, Firm
  <2>3. ASSUME NEW t \in Threads, wr[t].old = slots[n][k], WillPay(t, n, k)
        PROVE  Firm(slots[n][k])
    <3>1. Waiting(t)
      BY <2>3 DEF WillPay, ComesTo, Pays, Waiting
    <3>2. Firm(wr[t].old)
      BY <3>1, WaitingFirm
    <3> QED
      BY <2>3, <3>2
  <2> QED
    BY <2>1, <2>2, <2>3 DEF Pin
<1> QED
  BY <1>1 DEF Tentative

\* The load that tries a debt is its debtor too.
LEMMA TrialBacks ==
    ASSUME ListInv, HelpInv, OwnDebts, NEW u \in Threads, NEW n \in Nodes, NEW k \in SlotIds, Tries(u, n, k),
           NEW a, slots[n][k] = a, a # NONE
    PROVE  u \in Loading(a) /\ OwesLoad(u, a, <<n, k>>)
<1>1. ld[u].ptr = a
  BY TrialSlot
<1> QED
  BY <1>1 DEF Tries, Loading, OwesLoad, OwingLabels, Unconfirmed, Protects

\* The loads of a that only try it.
Trying(a) == {t \in Loading(a) : pc[t] \in Unconfirmed \cup {"fb_confirm"}}

\* If there is nothing but debts on a, they are those of loads that only try them.
LEMMA OnlyTrials ==
    ASSUME ListInv, HelpInv, OwnDebts, Pinned, NEW a \in Addrs, ~Firm(a)
    PROVE  Backed(a, {}, Trying(a), {}, {})
<1> SUFFICES ASSUME NEW d \in OwedOn(a)
             PROVE  \E t \in Trying(a) : OwesLoad(t, a, d)
  BY DEF Backed
<1>1. a # NONE
  BY Consts
<1>2. PICK n \in Nodes, k \in SlotIds : d = <<n, k>> /\ slots[n][k] = a
  BY DEF OwedOn
<1>3. PICK u \in Threads : Tries(u, n, k)
  BY <1>1, <1>2, PinFirm
<1>4. u \in Loading(a) /\ OwesLoad(u, a, d)
  BY <1>1, <1>2, <1>3, TrialBacks
<1>5. u \in Trying(a)
  BY <1>3, <1>4 DEF Tries, Trying
<1> QED
  BY <1>4, <1>5

\* Whoever has a claim on a and does not only try it can count on a reference.
LEMMA ClaimsGood ==
    ASSUME ListInv, HelpInv, OwnDebts, Pinned, Debtors, CopiesFinite, RefCountExact, NEW a \in Addrs
    PROVE  /\ strong[a] \in Int /\ strong[a] >= 0
           /\ (\/ Firm(a) \/ GuardCopies(a) # {} \/ Loading(a) # Trying(a)
               \/ Comparing(a) # {} \/ Updating(a) # {}) => strong[a] > 0
<1> Shapes
  BY DEF HelpInv
<1>1. Backed(a, GuardCopies(a), Loading(a), Comparing(a), Updating(a))
  BY AllBacked
<1>2. strong[a] \in Int /\ strong[a] >= 0 /\ (Firm(a) => strong[a] > 0)
  BY <1>1, Surplus
<1>3. CASE ~Firm(a)
  <2>1. Backed(a, {}, Trying(a), {}, {})
    BY <1>3, OnlyTrials
  <2>2. Trying(a) \in SUBSET Loading(a)
    BY DEF Trying
  <2>3. (\/ GuardCopies(a) # {} \/ Loading(a) # Trying(a)
         \/ Comparing(a) # {} \/ Updating(a) # {}) => strong[a] > 0
    BY <2>1, <2>2, Surplus
  <2> QED
    BY <1>2, <1>3, <2>3
<1> QED
  BY <1>2, <1>3

\* Nothing that is relied on has been freed.
LEMMA NothingFreed ==
    ListInv /\ HelpInv /\ DebtInv /\ CopiesFinite /\ RefCountExact => NoUseAfterFree
<1> SUFFICES ASSUME ListInv, HelpInv, DebtInv, CopiesFinite, RefCountExact, NEW a \in Addrs,
                    \/ \E s \in Storages : storage[s] = a
                    \/ \E g \in BagToSet(guards) : g.ptr = a
                    \/ owned[a] > 0
                    \/ \E t \in Threads : a \in ReliesOn(t)
             PROVE  strong[a] > 0
  BY DEF NoUseAfterFree
<1> Shapes /\ OwnDebts /\ Pinned /\ Debtors
  BY DEF HelpInv, DebtInv
<1>1. (\/ Firm(a) \/ GuardCopies(a) # {} \/ Loading(a) # Trying(a)
       \/ Comparing(a) # {} \/ Updating(a) # {}) => strong[a] > 0
  BY ClaimsGood
<1>2. CASE (\E s \in Storages : storage[s] = a) \/ owned[a] > 0
  BY <1>1, <1>2 DEF Firm
<1>3. ASSUME NEW g \in BagToSet(guards), g.ptr = a
      PROVE  strong[a] > 0
  <2>1. guards[g] \in Nat /\ guards[g] > 0
    BY DEF Shapes, IsABag, BagToSet
  <2>2. 1 \in 1 .. guards[g]
    BY <2>1
  <2>3. <<g, 1>> \in GuardCopies(a)
    BY <1>3, <2>2 DEF GuardCopies
  <2> QED
    BY <1>1, <2>3
<1>4. ASSUME NEW t \in Threads, a \in ReliesOn(t)
      PROVE  strong[a] > 0
  <2> DEFINE inLoad == pc[t] \in {"ret", "fb_undec", "gd_pay", "gd_dec"} \cup IntoInnerLabels
             inWrite == Waiting(t) \/ pc[t] \in {"old_dec", "cas_x", "cas_dec", "cas_drop_new"}
  <2>1. \/ inLoad /\ ld[t].ptr = a
        \/ inWrite /\ wr[t].old = a
        \/ RcuGuard(t) /\ op[t].cur = a
        \/ op[t].new = a \/ wr[t].repl = a \/ Received(t) = a
    BY <1>4 DEF ReliesOn
  <2>2. CASE inLoad /\ ld[t].ptr = a
    <3>1. t \in Loading(a) /\ t \notin Trying(a)
      BY <2>2 DEF Loading, Trying, Protects, Unconfirmed, IntoInnerLabels
    <3> QED
      BY <1>1, <3>1
  <2>3. CASE inWrite /\ wr[t].old = a
    <3>1. CASE Waiting(t) \/ pc[t] \in {"old_dec", "cas_dec"}
      BY <1>1, <2>3, <3>1, WaitingFirm
    <3>2. CASE pc[t] \in {"cas_x", "cas_drop_new"}
      <4>1. InCas(t)
        BY <3>2 DEF HelpInv, Local, Calls, InCas
      <4>2. t \in Comparing(a)
        BY <2>3, <3>2, <4>1 DEF Comparing, CasGuard
      <4> QED
        BY <1>1, <4>2
    <3> QED
      BY <2>3, <3>1, <3>2
  <2>4. CASE RcuGuard(t) /\ op[t].cur = a
    <3>1. t \in Updating(a)
      BY <2>4 DEF Updating
    <3> QED
      BY <1>1, <3>1
  <2>5. CASE op[t].new = a \/ wr[t].repl = a \/ Received(t) = a
    BY <1>1, <2>5 DEF Firm
  <2> QED
    BY <2>1, <2>2, <2>3, <2>4, <2>5
<1> QED
  BY <1>2, <1>3, <1>4

\* No count is below 0.
LEMMA CountsNatural ==
    ListInv /\ HelpInv /\ DebtInv /\ CopiesFinite /\ RefCountExact => strong \in [Addrs -> Nat]
<1> SUFFICES ASSUME ListInv, HelpInv, DebtInv, CopiesFinite, RefCountExact
             PROVE  strong \in [Addrs -> Nat]
  OBVIOUS
<1>1. \A a \in Addrs : strong[a] \in Int /\ strong[a] >= 0
  BY ClaimsGood DEF DebtInv
<1>2. strong \in [Addrs -> Int]
  BY DEF HelpInv, Shapes
<1> QED
  BY <1>1, <1>2

\* The debtors of DebtsHaveDebtors.
LEMMA DebtorsThere ==
    ListInv /\ HelpInv /\ Debtors => DebtsHaveDebtors
<1> SUFFICES ASSUME ListInv, HelpInv, Debtors, NEW n \in Nodes, NEW k \in SlotIds, slots[n][k] # NONE
             PROVE  \/ BagIn(Guard(slots[n][k], <<n, k>>), guards)
                    \/ \E t \in Threads :
                          \/ Protects(t) /\ ld[t].ptr = slots[n][k] /\ ld[t].debt = <<n, k>>
                          \/ CasGuard(t) /\ wr[t].old = slots[n][k] /\ wr[t].debt = <<n, k>>
                          \/ RcuGuard(t) /\ op[t].cur = slots[n][k] /\ op[t].debt = <<n, k>>
                          \/ pc[t] = "fb_confirm" /\ node[t] = n /\ k = HelpingSlot
  BY DEF DebtsHaveDebtors
<1>1. CASE Guard(slots[n][k], <<n, k>>) \in BagToSet(guards)
  BY <1>1 DEF BagIn
<1>2. ASSUME NEW t \in Threads, Owes(t, slots[n][k], <<n, k>>)
      PROVE  \/ Protects(t) /\ ld[t].ptr = slots[n][k] /\ ld[t].debt = <<n, k>>
             \/ CasGuard(t) /\ wr[t].old = slots[n][k] /\ wr[t].debt = <<n, k>>
             \/ RcuGuard(t) /\ op[t].cur = slots[n][k] /\ op[t].debt = <<n, k>>
             \/ pc[t] = "fb_confirm" /\ node[t] = n /\ k = HelpingSlot
  <2>1. OwingLabels \subseteq {"ld_confirm", "ld_pay", "fb_confirm", "fb_hand", "fb_space", "fb_unpay",
                               "fb_undec", "ret", "gd_pay", "gd_dec"} \cup IntoInnerLabels
    BY DEF OwingLabels, Unconfirmed, IntoInnerLabels
  <2> QED
    BY <1>2, <2>1 DEF Owes, OwesLoad, OwesCas, OwesRcu, Protects
<1> QED
  BY <1>1, <1>2 DEF Debtors

-----------------------------------------------------------------------------
(* The invariant of the debts, in every state.                             *)

\* It holds at the beginning: nobody owes anything.
LEMMA InitDebt == Init => DebtInv
<1> SUFFICES ASSUME Init PROVE DebtInv
  OBVIOUS
<1>1. /\ \A t \in Threads : pc[t] = "idle" /\ op[t].kind = "none"
      /\ \A n \in Nodes, k \in SlotIds : slots[n][k] = NONE
  BY DEF Init, DebtInit, NoOp, Operation
<1>2. Addressed /\ OwnDebts /\ CandidatePinned
  BY <1>1 DEF Addressed, OwnDebts, CandidatePinned, OpenLabels
<1>3. NoneToHelp
  BY <1>1 DEF NoneToHelp, Destroys, Destroyers
<1>4. DebtsLinked /\ Pinned /\ Debtors
  BY <1>1 DEF DebtsLinked, Pinned, Debtors
<1> QED
  BY <1>2, <1>3, <1>4 DEF DebtInv

\* And after a step that changes nothing.
LEMMA StutterDebt == DebtInv /\ UNCHANGED vars => DebtInv'
<1> SUFFICES ASSUME DebtInv, UNCHANGED vars PROVE DebtInv'
  OBVIOUS
<1> USE DEF vars, listVars, debtVars, helpVars, localVars
<1>1. Addressed' /\ NoneToHelp' /\ OwnDebts'
  BY DEF DebtInv, Addressed, NoneToHelp, OwnDebts, Destroys
<1>2. \A m : ChainFrom(m)' = ChainFrom(m')
  BY DEF ChainFrom
<1>3. ChainFrom(LIST_HEAD)' = ChainFrom(LIST_HEAD)
  BY DEF ChainFrom
<1>4. DebtsLinked'
  BY <1>3 DEF DebtInv, DebtsLinked
<1>5. \A t \in Threads, n \in Nodes : ComesTo(t, n)' <=> ComesTo(t, n)
  BY DEF ComesTo, ChainFrom
<1>6. \A t \in Threads, n \in Nodes, k \in SlotIds : WillPay(t, n, k)' <=> WillPay(t, n, k)
  BY <1>5 DEF WillPay, Pays
<1>7. \A t, u \in Threads : WillHelp(t, u)' <=> WillHelp(t, u)
  BY DEF WillHelp, Helps, ComesTo, ChainFrom
<1>8. Pinned'
  <2>1. \A n \in Nodes, k \in SlotIds : Tentative(n, k)' <=> Tentative(n, k)
    BY DEF Tentative, Tries
  <2>2. \A n \in Nodes, k \in SlotIds : Pin(n, k) => Pin(n, k)'
    BY <1>6 DEF Pin, InStorage, Destroys
  <2> QED
    BY <2>1, <2>2 DEF DebtInv, Pinned
<1>9. CandidatePinned'
  BY <1>7 DEF DebtInv, CandidatePinned
<1>10. Debtors'
  <2>1. \A t \in Threads : \A p, d : Owes(t, p, d)' <=> Owes(t, p, d)
    BY DEF Owes, OwesLoad, OwesCas, OwesRcu, CasGuard, RcuGuard, Waiting, InCas
  <2>2. slots' = slots /\ guards' = guards
    OBVIOUS
  <2> QED
    BY <2>1, <2>2 DEF DebtInv, Debtors
<1> QED
  BY <1>1, <1>4, <1>8, <1>9, <1>10 DEF DebtInv

\* And after every step.
LEMMA NextDebt ==
    ASSUME ListInv, HelpInv, NoWrap, Linked, DebtInv, [Next]_vars
    PROVE  DebtInv'
<1>1. [ListNext]_listVars
  BY StepList
<1>2. ASSUME NEW t \in Threads, Acts(t) PROVE DebtInv'
  <2>1. Addressed /\ NoneToHelp /\ OwnDebts /\ DebtsLinked /\ Pinned /\ CandidatePinned /\ Debtors
    BY DEF DebtInv
  <2>2. Addressed' /\ NoneToHelp'
    BY <1>2, <2>1, NextAddressed, NextNoneToHelp
  <2>3. OwnDebts' /\ DebtsLinked'
    BY <1>1, <1>2, <2>1, NextOwnDebts, NextDebtsLinked
  <2>4. Pinned'
    BY <1>1, <1>2, <2>1, NextPinned
  <2>5. CandidatePinned'
    BY <1>1, <1>2, <2>1, NextCandidatePinned
  <2>6. Debtors'
    BY <1>2, <2>1, NextDebtors
  <2> QED
    BY <2>2, <2>3, <2>4, <2>5, <2>6 DEF DebtInv
<1>3. \A t \in Threads : Places(t)
  BY DEF HelpInv, Local
<1> QED
  BY <1>2, <1>3, NextActs, StutterDebt

\* All the invariants together.
Books == ListInv /\ HelpInv /\ DebtInv /\ CopiesFinite /\ RefCountExact

\* They hold in every state.
LEMMA AlwaysBooks == Spec /\ []NoWrap /\ []NoCooldownRace => []Books
<1>1. Init => DebtInv /\ CopiesFinite /\ RefCountExact
  BY InitDebt, InitCount
<1>2. /\ ListInv /\ HelpInv /\ HelpInv' /\ Linked /\ NoWrap /\ [Next]_vars
      /\ (DebtInv /\ CopiesFinite /\ RefCountExact)
      => (DebtInv /\ CopiesFinite /\ RefCountExact)'
  BY NextDebt, NextCount
<1> QED
  BY <1>1, <1>2, AlwaysHelp, ImplementsList, AlwaysLinked, PTL DEF Spec, Books

\* Every debt has its debtor: as long as there is a pointer in a slot, a guard or a call
\* has that debt and will pay it back, also when the guard was given to another thread,
\* the thread that loaded has exited and its node has been taken by another one
\* (Debt::pay, HybridProtection::drop and into_inner, Node::get).
THEOREM DebtsAreRemembered == Spec /\ []NoWrap /\ []NoCooldownRace => []DebtsHaveDebtors
<1>1. Books => DebtsHaveDebtors
  BY DebtorsThere DEF Books, DebtInv
<1> QED
  BY <1>1, AlwaysBooks, PTL

\* What an instance stores, a guard or an Arc of the users points to, or a call relies on
\* has a count above 0: whichever writers replace it, pay_all gets to every confirmed debt
\* on it before the writer gives up its own reference, and help gives out only what is
\* still counted (Debt::pay_all, Slots::help, HybridProtection::attempt and fallback).
THEOREM NothingUsedAfterFree == Spec /\ []NoWrap /\ []NoCooldownRace => []NoUseAfterFree
<1>1. Books => NoUseAfterFree
  BY NothingFreed DEF Books
<1> QED
  BY <1>1, AlwaysBooks, PTL

-----------------------------------------------------------------------------
(* Types.                                                                  *)

\* A call that takes no argument leaves the stamps alone.
LEMMA StampSteps ==
    ASSUME [Next]_vars
    PROVE  UNCHANGED stamp \/ \E p \in Ptrs : Argument(p)
<1>1. ASSUME NEW t \in Threads, Call(t) PROVE UNCHANGED stamp \/ \E p \in Ptrs : Argument(p)
  BY <1>1 DEF Call, CallLoad, CallSwap, CallCas, CallRcu, CallDestroy, CallNew, CallGuard, CallDropArc, CallFromInner
<1>2. ASSUME NEW t \in Threads, Step(t) PROVE UNCHANGED stamp \/ \E p \in Ptrs : Argument(p)
  <2>1. CASE RcuApply(t)
    BY <2>1 DEF RcuApply
  <2>2. CASE ~RcuApply(t)
    BY <1>2, <2>2 DEF Step, Inside, SlotsOnly, WalkOnly
  <2> QED
    BY <2>1, <2>2
<1>3. ASSUME NEW t \in Threads, ExitStep(t) /\ Inside PROVE UNCHANGED stamp
  BY <1>3 DEF Inside
<1>4. CASE Done \/ UNCHANGED vars
  BY <1>4 DEF Done, vars
<1> QED
  BY <1>1, <1>2, <1>3, <1>4 DEF Next

\* A thread makes only as many calls as it may.
LEMMA BudgetSteps ==
    ASSUME budget \in [Threads -> Nat], [Next]_vars
    PROVE  budget' \in [Threads -> Nat]
<1>1. ASSUME NEW t \in Threads, NEW kind, Invoke(t, kind) PROVE budget' \in [Threads -> Nat]
  BY <1>1 DEF Invoke
<1>2. ASSUME NEW t \in Threads, Call(t) PROVE (\E kind : Invoke(t, kind)) \/ UNCHANGED budget
  BY <1>2 DEF Call, CallLoad, CallSwap, CallCas, CallRcu, CallDestroy, CallNew, CallGuard, CallDropArc, CallFromInner
<1>3. ASSUME NEW t \in Threads, Step(t) PROVE UNCHANGED budget
  <2>1. CASE RcuApply(t)
    BY <2>1 DEF RcuApply
  <2>2. CASE ~RcuApply(t)
    BY <1>3, <2>2 DEF Step, Inside, SlotsOnly, WalkOnly
  <2> QED
    BY <2>1, <2>2
<1>4. ASSUME NEW t \in Threads, ExitStep(t) /\ Inside PROVE UNCHANGED budget
  BY <1>4 DEF Inside
<1>5. CASE Done \/ UNCHANGED vars
  BY <1>5 DEF Done, vars
<1> QED
  BY <1>1, <1>2, <1>3, <1>4, <1>5 DEF Next

\* Every step is observed.
LEMMA ObserveSteps ==
    ASSUME [Next]_vars
    PROVE  Observe \/ UNCHANGED vars
<1>1. ASSUME NEW t \in Threads, Call(t) PROVE Observe
  BY <1>1 DEF Call
<1>2. ASSUME NEW t \in Threads, Step(t) PROVE Observe
  BY <1>2 DEF Step, Inside, SlotsOnly, WalkOnly
<1> QED
  BY <1>1, <1>2 DEF Next, Done, Inside

\* A count that goes up was not 0, but for a new Arc.
LEMMA CountSteps ==
    ASSUME ListInv, HelpInv, NoUseAfterFree, NEW t \in Threads, Acts(t)
    PROVE  \/ \A a \in Addrs : strong'[a] > 0 => strong[a] > 0
           \/ \E p \in Ptrs : Argument(p)
<1> Shapes /\ Local(t)
  BY DEF HelpInv
<1>0. \A a \in Addrs : strong[a] \in Int
  BY DEF Shapes
<1>1. ASSUME NEW p, strong' = Dec(strong, p), NEW a \in Addrs, strong'[a] > 0 PROVE strong[a] > 0
  BY <1>0, <1>1 DEF Dec
<1>2. ASSUME NEW p, strong' = Inc(strong, p), p \in ReliesOn(t), NEW a \in Addrs, strong'[a] > 0 PROVE strong[a] > 0
  BY <1>0, <1>2 DEF Inc, NoUseAfterFree
<1>3. SUFFICES \/ UNCHANGED strong
               \/ \E p : strong' = Dec(strong, p)
               \/ \E p : strong' = Inc(strong, p) /\ p \in ReliesOn(t)
               \/ \E p \in Ptrs : Argument(p)
  BY <1>1, <1>2
<1>4. CASE CallStep(t)
  BY <1>4 DEF CallStep, CallLoad, CallSwap, CallCas, CallRcu, CallDestroy, CallNew, CallGuard, CallDropArc, CallFromInner
<1>5. CASE NodeOnly(t) \/ WalkStep(t)
  BY <1>5 DEF NodeOnly, NodeStep, TmpNodeDrop, ExitStep, debtVars, WalkStep, PayAllWalk, PayAllReserve, PayAllRelease
<1>6. CASE ReadStep(t)
  BY <1>6 DEF ReadStep, AttemptLoad, FastScan, FastTake, AttemptConfirm, AttemptPay, HelpingAnnounce, HelpingOpen,
         FallbackCandidate, ConfirmSlot, ConfirmControl, ConfirmHandover, ConfirmSpace, FallbackUnpay, FallbackUndec
<1>7. CASE HelpStep(t)
  BY <1>7 DEF HelpStep, HelpControl, HelpAddr, HelpReconfirm, HelpTheirSpace, HelpStore, HelpCas, HelpDrop, HelpOffer
<1>8. CASE PayStep(t)
  <2>1. PayAllInc(t) \/ PayAllIncMore(t) => wr[t].old \in ReliesOn(t)
    BY DEF PayAllInc, PayAllIncMore, ReliesOn, Waiting, Local, Places, VisitLabels
  <2> QED
    BY <1>8, <2>1 DEF PayStep, PayAllInc, PayAllIncMore, PayAllSlot
<1>9. CASE ResultStep(t)
  <2>1. IntoInnerInc(t) => ld[t].ptr \in ReliesOn(t)
    BY DEF IntoInnerInc, ReliesOn, IntoInnerLabels
  <2> QED
    BY <1>9, <2>1 DEF ResultStep, IntoInnerInc, IntoInnerPay, IntoInnerDec, GuardDropPay, GuardDropDec,
           ReturnGuard, ReturnFull, ReturnCas, ReturnRcu, RcuApply, CasExchange, PayAllDec, OldDec,
           CasDec, CasDropNew
<1> QED
  BY <1>4, <1>5, <1>6, <1>7, <1>8, <1>9 DEF Acts

\* An Arc that is alive has a stamp.
Stamped ==
    /\ stamp \in [Addrs -> 0 .. MaxStamp]
    /\ \A a \in Addrs : strong[a] > 0 => stamp[a] > 0

\* It keeps it: who counts a reference up relies on it.
LEMMA NextStamped ==
    ASSUME ListInv, HelpInv, NoUseAfterFree, Stamped, [Next]_vars
    PROVE  Stamped'
<1>0. /\ \A a \in Addrs : strong[a] \in Int /\ stamp[a] \in 0 .. MaxStamp
      /\ MaxStamp \in Nat
  BY ApiAssumption DEF HelpInv, Shapes, Stamped
<1>1. ASSUME NEW p \in Ptrs, Argument(p) PROVE Stamped'
  <2>1. CASE /\ p \in Addrs /\ strong[p] = 0 /\ stamp[p] < MaxStamp /\ strong' = Inc(strong, p)
             /\ stamp' = [stamp EXCEPT ![p] = @ + 1]
    <3>1. stamp' \in [Addrs -> 0 .. MaxStamp] /\ stamp'[p] > 0
      BY <1>0, <2>1 DEF Stamped
    <3>2. ASSUME NEW a \in Addrs, strong'[a] > 0, a # p PROVE stamp'[a] > 0
      BY <2>1, <3>2 DEF Inc, Stamped
    <3> QED
      BY <3>1, <3>2 DEF Stamped
  <2>2. CASE p \in Held /\ strong' = Inc(strong, p) /\ UNCHANGED stamp
    <3>1. strong[p] > 0
      BY <2>2 DEF Held, NoUseAfterFree, ReliesOn, RcuGuard
    <3>2. \A a \in Addrs : strong'[a] > 0 => strong[a] > 0
      BY <1>0, <2>2, <3>1 DEF Inc
    <3> QED
      BY <2>2, <3>2 DEF Stamped
  <2>3. CASE UNCHANGED <<strong, stamp>>
    BY <2>3 DEF Stamped
  <2> QED
    BY <1>1, <2>1, <2>2, <2>3 DEF Argument
<1>2. ASSUME UNCHANGED stamp, \A a \in Addrs : strong'[a] > 0 => strong[a] > 0
      PROVE  Stamped'
  BY <1>2 DEF Stamped
<1>3. \/ UNCHANGED vars
      \/ \A a \in Addrs : strong'[a] > 0 => strong[a] > 0
      \/ \E p \in Ptrs : Argument(p)
  BY CountSteps, NextActs DEF HelpInv, Local
<1>4. CASE UNCHANGED vars
  BY <1>4 DEF Stamped, vars, debtVars
<1> QED
  BY <1>1, <1>2, <1>3, <1>4, StampSteps

\* A call that reads an instance sees an Arc there.
LEMMA ReadingSees ==
    HelpInv /\ NoUseAfterFree /\ Stamped =>
        \A t \in Threads : Reading(t) => Value(storage[op[t].s]) \in Values
<1> SUFFICES ASSUME HelpInv, NoUseAfterFree, Stamped, NEW t \in Threads, Reading(t)
             PROVE  Value(storage[op[t].s]) \in Values
  OBVIOUS
<1> Shapes /\ Local(t) /\ Instances
  BY DEF HelpInv
<1>1. op[t].kind \notin {"none", "guard_drop", "guard_into_inner"}
  <2>1. CASE pc[t] \in LoadLabels \/ (pc[t] \in IntoInnerLabels /\ ld[t].debt[2] = HelpingSlot)
    <3>1. op[t].kind \in ReadKinds
      BY <2>1 DEF Reading, Local, Calls, LoadSteps, Converts, LoadLabels, IntoInnerLabels
    <3> QED
      BY <3>1 DEF ReadKinds
  <2>2. CASE ~(pc[t] \in LoadLabels \/ (pc[t] \in IntoInnerLabels /\ ld[t].debt[2] = HelpingSlot))
    BY <2>2 DEF Reading, Local, Calls, Places
  <2> QED
    BY <2>1, <2>2
<1>2. op[t].s \in Storages /\ op[t].s # NoStorage
  BY <1>1, Consts DEF Local, Calls
<1>3. storage[op[t].s] \in Ptrs
  BY <1>2 DEF Instances, Shapes
<1>4. PICK p \in Ptrs : p = storage[op[t].s]
  BY <1>3
<1>5. CASE p \in Addrs
  <2>1. strong[p] > 0
    BY <1>2, <1>4, <1>5 DEF NoUseAfterFree
  <2>2. stamp[p] \in 1 .. MaxStamp
    BY <1>5, <2>1, ApiAssumption DEF Stamped
  <2> QED
    BY <1>4, <1>5, <2>2 DEF Value, Values
<1>6. CASE p \notin Addrs
  BY <1>4, <1>6 DEF Value, Values, Ptrs
<1> QED
  BY <1>5, <1>6

\* So do all those that observe it.
LEMMA NextSeen ==
    ASSUME seen \in [Threads -> SUBSET Values], HelpInv', NoUseAfterFree', Stamped', [Next]_vars
    PROVE  seen' \in [Threads -> SUBSET Values]
<1>1. (\A t \in Threads : Reading(t) => Value(storage[op[t].s]) \in Values)'
  BY ReadingSees, PTL
<1>2. CASE UNCHANGED vars
  BY <1>2 DEF vars
<1>3. CASE Observe
  BY <1>1, <1>3 DEF Observe
<1> QED
  BY <1>2, <1>3, ObserveSteps

\* What is left of the type invariant.
Typings == budget \in [Threads -> Nat] /\ Stamped /\ seen \in [Threads -> SUBSET Values]

\* At the beginning.
LEMMA InitTypings == Init => Typings
<1> SUFFICES ASSUME Init PROVE Typings
  OBVIOUS
<1>1. budget \in [Threads -> Nat] /\ seen \in [Threads -> SUBSET Values]
  BY ApiAssumption DEF Init
<1>2. Stamped
  <2>1. strong \in [Addrs -> {0, 1}] /\ stamp = strong
    BY DEF Init
  <2>2. 0 \in 0 .. MaxStamp /\ 1 \in 0 .. MaxStamp
    BY ApiAssumption
  <2> QED
    BY <2>1, <2>2 DEF Stamped
<1> QED
  BY <1>1, <1>2 DEF Typings

\* The whole of it.
LEMMA TypesFollow == Books /\ ListTypeOK /\ Typings => TypeOK
<1> SUFFICES ASSUME Books, ListTypeOK, Typings PROVE TypeOK
  OBVIOUS
<1> Shapes
  BY DEF Books, HelpInv
<1>1. strong \in [Addrs -> Nat]
  BY CountsNatural DEF Books
<1>2. GuardDebts \subseteq AllDebts
  BY DebtFacts
<1>3. /\ OpType \subseteq [kind : OpKinds, s : Storages \cup {NoStorage}, new : Ptrs, cur : Ptrs, debt : AllDebts]
      /\ WriteType \subseteq [old : Ptrs, debt : AllDebts, idx : 0 .. SlotCnt + 1,
                              ctl : Controls, env : Nodes \cup {NoNode}, repl : Ptrs]
      /\ GuardType \subseteq [ptr : Ptrs, debt : AllDebts]
  BY <1>2 DEF OpType, WriteType, GuardType
<1>4. DebtTypeOK
  BY <1>1, <1>3 DEF Shapes, DebtTypeOK, LoadType
<1>5. HybridTypeOK
  BY <1>3 DEF Shapes, HybridTypeOK
<1> QED
  BY <1>4, <1>5 DEF TypeOK, Typings, Stamped

\* The state is well typed. The part that takes the invariants above is that of the counts:
\* none of them gets below 0 (dec in RefCnt, which would free the Arc a second time), and
\* what a load gets is an Arc that was created.
THEOREM TypesAreKept == Spec /\ []NoWrap /\ []NoCooldownRace => []TypeOK
<1>1. Init => Typings
  BY InitTypings
<1>2. Books /\ NoUseAfterFree /\ Books' /\ NoUseAfterFree' /\ Typings /\ [Next]_vars => Typings'
  <2> SUFFICES ASSUME Books, NoUseAfterFree, Books', NoUseAfterFree', Typings, [Next]_vars
               PROVE  Typings'
    OBVIOUS
  <2>1. Stamped'
    BY NextStamped DEF Books, Typings
  <2>2. budget' \in [Threads -> Nat]
    BY BudgetSteps DEF Typings
  <2>3. seen' \in [Threads -> SUBSET Values]
    BY <2>1, NextSeen DEF Books, Typings
  <2> QED
    BY <2>1, <2>2, <2>3 DEF Typings
<1> QED
  BY <1>1, <1>2, TypesFollow, AlwaysBooks, NothingUsedAfterFree, ImplementsList, ListTypeCorrect, PTL DEF Spec

=============================================================================
