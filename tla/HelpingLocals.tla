--------------------------- MODULE HelpingLocals ----------------------------
(***************************************************************************)
(* The list inside of the whole, and proofs about the invariant of         *)
(* ArcSwapInv, first part: the steps keep the types and what each thread   *)
(* has at hand.                                                            *)
(***************************************************************************)
EXTENDS ArcSwapInv, DebtListProofs

-----------------------------------------------------------------------------
(* The list inside of the whole.                                             *)

\* Every step of the whole is one of the list or leaves the list alone.
LEMMA StepList == [Next]_vars => [ListNext]_listVars
<1> SUFFICES ASSUME [Next]_vars PROVE [ListNext]_listVars
  OBVIOUS
<1>1. CASE UNCHANGED vars
  BY <1>1 DEF vars
<1>2. ASSUME NEW t \in Threads, Call(t)
      PROVE  UNCHANGED listVars
  BY <1>2 DEF Call, CallLoad, CallSwap, CallCas, CallRcu, CallDestroy, CallNew, CallGuard,
              CallDropArc, CallFromInner
<1>3. ASSUME NEW t \in Threads, Step(t)
      PROVE  ListNext \/ UNCHANGED listVars
  <2>1. CASE NodeStep(t)
    BY <2>1 DEF NodeStep, ListNext
  <2>2. CASE FallbackDiscard(t)
    BY <2>2 DEF FallbackDiscard, ThreadExit, ListNext
  <2>3. CASE TmpNodeDrop(t)
    BY <2>3 DEF TmpNodeDrop, ThreadExit, ListNext
  <2>4. CASE PayAllWalk(t) \/ PayAllReserve(t) \/ PayAllRelease(t)
    BY <2>4 DEF PayAllWalk, PayAllReserve, PayAllRelease, ListNext
  <2>5. CASE SlotsOnly
    BY <2>5 DEF SlotsOnly
  <2>6. CASE \/ AttemptLoad(t) \/ AttemptConfirm(t) \/ AttemptPay(t) \/ FallbackCandidate(t)
             \/ FallbackUnpay(t) \/ FallbackUndec(t) \/ IntoInnerInc(t) \/ IntoInnerPay(t)
             \/ IntoInnerDec(t) \/ GuardDropPay(t) \/ GuardDropDec(t) \/ ReturnGuard(t)
             \/ ReturnFull(t) \/ ReturnCas(t) \/ ReturnRcu(t) \/ RcuApply(t) \/ CasExchange(t)
             \/ CasDec(t) \/ CasDropNew(t) \/ PayAllDec(t) \/ OldDec(t)
    BY <2>6 DEF AttemptLoad, AttemptConfirm, AttemptPay, FallbackCandidate, FallbackUnpay,
                FallbackUndec, IntoInnerInc, IntoInnerPay, IntoInnerDec, GuardDropPay,
                GuardDropDec, ReturnGuard, ReturnFull, ReturnCas, ReturnRcu, RcuApply,
                CasExchange, CasDec, CasDropNew, PayAllDec, OldDec
  <2> QED
    BY <1>3, <2>1, <2>2, <2>3, <2>4, <2>5, <2>6 DEF Step
<1>4. ASSUME NEW t \in Threads, ExitStep(t)
      PROVE  ListNext
  BY <1>4 DEF ExitStep, ListNext
<1>5. CASE Done
  BY <1>5 DEF Done, vars
<1> QED
  BY <1>1, <1>2, <1>3, <1>4, <1>5 DEF Next

\* Whatever calls are made, with what else they change, the nodes are used the
\* way list.rs means it: the composed system implements the specification of
\* the list, and what is proved of the list holds in it.
THEOREM ImplementsList == Spec => ListSpec
<1>1. Init => ListInit
  BY DEF Init
<1> QED
  BY <1>1, StepList, PTL DEF Spec, ListSpec

\* Whatever calls threads are in, and after exits, overflows and temporary nodes,
\* a node belongs to one thread at most and is NODE_USED as long as it does.
THEOREM NodesHaveOneOwner == Spec => []ExclusiveOwnership
BY ImplementsList, OwnershipIsExclusive, PTL

-----------------------------------------------------------------------------
(* Constants.                                                                *)

\* The special pointers are no addresses, the special nodes and slots no others.
LEMMA Consts ==
    /\ NULL \in Ptrs /\ NULL \notin Addrs /\ NONE \notin Ptrs /\ Dead \notin Ptrs
    /\ Addrs \subseteq Ptrs
    /\ NoStorage \notin Storages
    /\ SlotCnt \in Nat /\ SlotCnt > 0 /\ SlotIds = 0 .. SlotCnt /\ HelpingSlot = 0
    /\ MaxNodes \in Nat /\ Nodes = 1 .. MaxNodes /\ NoNode = 0
BY SlotAssumption, DeadAssumption, BoundsAssumption
   DEF Ptrs, SlotIds, HelpingSlot, Nodes, NoNode

\* Debts are told apart by their parts.
LEMMA DebtFacts ==
    /\ NoDebt \in AllDebts /\ NoDebt \in GuardDebts
    /\ \A n \in Nodes, k \in SlotIds : <<n, k>> \in AllDebts /\ <<n, k>> # NoDebt
    /\ \A d \in AllDebts : d # NoDebt => d[1] \in Nodes /\ d[2] \in SlotIds
    /\ \A d \in FastDebts : /\ d \in AllDebts /\ d \in GuardDebts /\ d # NoDebt
                            /\ d[1] \in Nodes /\ d[2] \in 1 .. SlotCnt
                            /\ d[2] \in SlotIds /\ d[2] # HelpingSlot
    /\ \A d \in GuardDebts : d # NoDebt => d \in FastDebts
    /\ GuardDebts \subseteq AllDebts
    /\ NoDebt[2] = HelpingSlot
BY Consts DEF NoDebt, AllDebts, FastDebts, GuardDebts

\* The tags tell the three kinds of control words apart.
LEMMA ControlFacts ==
    /\ IDLE \in Controls /\ Tag(IDLE) = 0
    /\ \A g \in Generations : /\ GEN(g) \in Controls /\ GEN(g) \in Words /\ GEN(g) \in Nat
                              /\ Tag(GEN(g)) = GEN_TAG
    /\ \A e \in Nodes : /\ REPLACEMENT(e) \in Controls /\ REPLACEMENT(e) \in Nat
                        /\ Tag(REPLACEMENT(e)) = REPLACEMENT_TAG
                        /\ EnvelopeIn(REPLACEMENT(e)) = e
<1> USE SlotAssumption, Consts
<1>1. IDLE \in Controls /\ Tag(IDLE) = 0
  BY DEF IDLE, Controls, Tag
<1>2. ASSUME NEW g \in Generations
      PROVE  /\ GEN(g) \in Controls /\ GEN(g) \in Words /\ GEN(g) \in Nat
             /\ Tag(GEN(g)) = GEN_TAG
  <2>1. PICK k \in 0 .. GenMod - 1 : g = 4 * k
    BY DEF Generations
  <2>2. k \in Nat
    BY <2>1
  <2>3. GEN(g) \in Nat /\ (4 * k + 2) % 4 = 2
    BY <2>1, <2>2 DEF GEN, GEN_TAG
  <2> QED
    BY <2>1, <2>3 DEF Controls, Words, GEN, Tag, GEN_TAG
<1>3. ASSUME NEW e \in Nodes
      PROVE  /\ REPLACEMENT(e) \in Controls /\ REPLACEMENT(e) \in Nat
             /\ Tag(REPLACEMENT(e)) = REPLACEMENT_TAG
             /\ EnvelopeIn(REPLACEMENT(e)) = e
  <2>1. e \in Nat
    OBVIOUS
  <2>2. (4 * e + 1) % 4 = 1 /\ (4 * e + 1) \div 4 = e
    BY <2>1
  <2> QED
    BY <2>1, <2>2 DEF Controls, REPLACEMENT, Tag, REPLACEMENT_TAG, EnvelopeIn
<1> QED
  BY <1>1, <1>2, <1>3

\* A control word is IDLE, a generation or a replacement.
LEMMA ControlCases ==
    ASSUME NEW c \in Controls
    PROVE  /\ c = IDLE \/ c \in Words \/ \E e \in Nodes : c = REPLACEMENT(e)
           /\ Tag(c) = GEN_TAG <=> c \in Words
           /\ Tag(c) = REPLACEMENT_TAG <=> \E e \in Nodes : c = REPLACEMENT(e)
           /\ c \in Words => c # IDLE /\ \E g \in Generations : c = GEN(g)
           /\ (\E e \in Nodes : c = REPLACEMENT(e)) => c # IDLE
<1>1. c = IDLE \/ (\E g \in Generations : c = GEN(g)) \/ \E e \in Nodes : c = REPLACEMENT(e)
  BY DEF Controls
<1> QED
  BY <1>1, ControlFacts DEF GEN_TAG, REPLACEMENT_TAG, Words

\* The next generation is later, unless the counter wraps around.
LEMMA NextGeneration ==
    ASSUME NEW g \in Generations
    PROVE  /\ (g + 4) % GenLimit \in Generations
           /\ (g + 4) % GenLimit # 0 => (g + 4) % GenLimit = g + 4
<1>1. PICK k \in 0 .. GenMod - 1 : g = 4 * k
  BY DEF Generations
<1>2. /\ GenMod \in Nat /\ GenMod > 0 /\ GenLimit \in Nat /\ GenLimit = 4 * GenMod
      /\ k \in Nat /\ k + 1 <= GenMod
  BY <1>1, SlotAssumption DEF GenLimit
<1>3. CASE k + 1 = GenMod
  <2>1. g + 4 = GenLimit
    BY <1>1, <1>2, <1>3
  <2>2. GenLimit % GenLimit = 0
    BY <1>2
  <2>3. 0 \in Generations
    <3>1. 0 \in 0 .. GenMod - 1 /\ 0 = 4 * 0
      BY <1>2
    <3> QED
      BY <3>1 DEF Generations
  <2> QED
    BY <2>1, <2>2, <2>3
<1>4. CASE k + 1 < GenMod
  <2>1. g + 4 < GenLimit /\ g + 4 \in Nat
    BY <1>1, <1>2, <1>4
  <2>2. (g + 4) % GenLimit = g + 4
    BY <1>2, <2>1
  <2>3. k + 1 \in 0 .. GenMod - 1 /\ g + 4 = 4 * (k + 1)
    BY <1>1, <1>2, <1>4
  <2> QED
    BY <2>2, <2>3 DEF Generations
<1> QED
  BY <1>2, <1>3, <1>4

-----------------------------------------------------------------------------
(* The steps, by what they are part of.                                      *)

CallStep(t) ==
    \/ CallLoad(t) \/ CallSwap(t) \/ CallCas(t) \/ CallRcu(t) \/ CallDestroy(t) \/ CallNew(t)
    \/ CallGuard(t) \/ CallDropArc(t) \/ CallFromInner(t)
NodeOnly(t) == NodeStep(t) \/ TmpNodeDrop(t) \/ ExitStep(t)
ReadStep(t) ==
    \/ AttemptLoad(t) \/ FastScan(t) \/ FastTake(t) \/ AttemptConfirm(t) \/ AttemptPay(t)
    \/ HelpingAnnounce(t) \/ HelpingOpen(t) \/ FallbackCandidate(t) \/ ConfirmSlot(t)
    \/ ConfirmControl(t) \/ ConfirmHandover(t) \/ ConfirmSpace(t) \/ FallbackUnpay(t)
    \/ FallbackUndec(t)
ResultStep(t) ==
    \/ IntoInnerInc(t) \/ IntoInnerPay(t) \/ IntoInnerDec(t) \/ GuardDropPay(t) \/ GuardDropDec(t)
    \/ ReturnGuard(t) \/ ReturnFull(t) \/ ReturnCas(t) \/ ReturnRcu(t) \/ RcuApply(t)
    \/ CasExchange(t) \/ CasDec(t) \/ CasDropNew(t) \/ PayAllDec(t) \/ OldDec(t)
HelpStep(t) ==
    \/ HelpControl(t) \/ HelpAddr(t) \/ HelpReconfirm(t) \/ HelpTheirSpace(t) \/ HelpStore(t)
    \/ HelpCas(t) \/ HelpDrop(t) \/ HelpOffer(t)
PayStep(t) == PayAllInc(t) \/ PayAllSlot(t) \/ PayAllIncMore(t)
WalkStep(t) == PayAllWalk(t) \/ PayAllReserve(t) \/ PayAllRelease(t)

\* One of them, with what it leaves alone.
Acts(t) ==
    \/ CallStep(t)
    \/ NodeOnly(t)
    \/ ReadStep(t) /\ UNCHANGED <<listVars, storage, guards, owned>>
    \/ ResultStep(t) /\ UNCHANGED listVars
    \/ HelpStep(t) /\ UNCHANGED <<listVars, storage, guards, owned>>
    \/ PayStep(t) /\ UNCHANGED <<listVars, storage, guards, owned>>
    \/ WalkStep(t) /\ UNCHANGED <<storage, guards, owned>>

\* A thread whose counter has not wrapped around does not give up its node.
LEMMA NextActs ==
    ASSUME \A t \in Threads : Places(t), [Next]_vars
    PROVE  UNCHANGED vars \/ \E t \in Threads : Acts(t)
<1>1. CASE Done
  BY <1>1 DEF Done
<1>2. ASSUME NEW t \in Threads, Call(t) PROVE CallStep(t)
  BY <1>2 DEF Call, CallStep
<1>3. ASSUME NEW t \in Threads, Step(t) PROVE Acts(t)
  <2>1. ~FallbackDiscard(t)
    BY DEF Places, FallbackDiscard
  <2>2. CASE NodeStep(t) \/ TmpNodeDrop(t)
    BY <2>2 DEF Acts, NodeOnly
  <2>3. CASE HelpStep(t) /\ SlotsOnly
    BY <2>3 DEF Acts, SlotsOnly, WalkOnly
  <2>4. CASE ReadStep(t) /\ SlotsOnly
    BY <2>4 DEF Acts, SlotsOnly, WalkOnly
  <2>5. CASE (PayStep(t) /\ SlotsOnly) \/ (WalkStep(t) /\ WalkOnly)
    BY <2>5 DEF Acts, SlotsOnly, WalkOnly
  <2>6. CASE \/ AttemptLoad(t) \/ AttemptConfirm(t) \/ AttemptPay(t) \/ FallbackCandidate(t)
             \/ FallbackUnpay(t) \/ FallbackUndec(t)
    BY <2>6 DEF Acts, ReadStep, AttemptLoad, AttemptConfirm, AttemptPay, FallbackCandidate,
                FallbackUnpay, FallbackUndec
  <2>7. CASE ResultStep(t)
    <3>1. UNCHANGED listVars
      BY <2>7 DEF ResultStep, IntoInnerInc, IntoInnerPay, IntoInnerDec, GuardDropPay,
         GuardDropDec,
                  ReturnGuard, ReturnFull, ReturnCas, ReturnRcu, RcuApply, CasExchange,
                  CasDec,
                  CasDropNew, PayAllDec, OldDec
    <3> QED
      BY <2>7, <3>1 DEF Acts
  <2> QED
    BY <1>3, <2>1, <2>2, <2>3, <2>4, <2>5, <2>6, <2>7
       DEF Step, HelpStep, ReadStep, PayStep, WalkStep, ResultStep, SlotsOnly
<1>4. ASSUME NEW t \in Threads, ExitStep(t) PROVE NodeOnly(t)
  BY <1>4 DEF NodeOnly
<1> QED
  BY <1>1, <1>2, <1>3, <1>4 DEF Next, Acts

-----------------------------------------------------------------------------
(* A step of t changes what belongs to t.                                    *)

Same(u) ==
    /\ pc'[u] = pc[u] /\ lpc'[u] = lpc[u] /\ op'[u] = op[u] /\ ld'[u] = ld[u] /\ wr'[u] = wr[u]
    /\ node'[u] = node[u] /\ cursor'[u] = cursor[u] /\ boxed'[u] = boxed[u]
    /\ generation'[u] = generation[u] /\ offset'[u] = offset[u]

\* The locals of a thread are what it says they are as long as it does nothing.
LEMMA SameLocal ==
    ASSUME NEW u \in Threads, Local(u), Same(u)
    PROVE  Local(u)'
<1> USE DEF Same, Local
<1>1. Places(u)'
  BY DEF Places, OpenLabels, HelpedLabels
<1>2. Converts(u)' <=> Converts(u)
  BY DEF Converts
<1>3. /\ Waiting(u)' <=> Waiting(u)
      /\ InHelp(u)' <=> InHelp(u)
      /\ InCas(u)' <=> InCas(u)
  BY DEF Waiting, InHelp, InCas
<1>4. Calls(u)'
  BY <1>2, <1>3 DEF Calls
<1>5. Pointers(u)'
  BY <1>2, <1>3 DEF Pointers
<1>6. Registers(u)'
  BY <1>3 DEF Registers
<1> QED
  BY <1>1, <1>4, <1>5, <1>6

\* The variables of the list, one thread at a time.
LEMMA ListAlone ==
    ASSUME Shape, NEW t \in Threads,
           \/ GetStep(t) \/ CooldownReserve(t) \/ CooldownSwap(t) \/ CooldownRelease(t)
           \/ TraverseStart(t) \/ ReserveWriter(t) \/ ReleaseWriter(t)
           \/ UNCHANGED listVars
    PROVE  \A u \in Threads : u # t => /\ lpc'[u] = lpc[u] /\ node'[u] = node[u]
                                       /\ cursor'[u] = cursor[u] /\ boxed'[u] = boxed[u]
BY DEF Shape, GetStep, GetStart, CheckCooldownLoad, CheckCooldownWriters, CheckCooldownCas,
   GetClaim,
       GetAlloc, GetPush, GetVisit, Enter, CooldownReserve, CooldownSwap, CooldownRelease,
       TraverseStart, ReserveWriter, ReleaseWriter, listVars

\* A step of t leaves the other threads alone.
LEMMA OthersSame ==
    ASSUME Shape, Shapes, NEW t \in Threads, Acts(t)
    PROVE  \A u \in Threads : u # t => Same(u)
<1> USE DEF Shapes, Goto, Finish, BeginLoad, LoadReturns, BeginGuardDrop, localVars
<1>1. \A u \in Threads : u # t => /\ lpc'[u] = lpc[u] /\ node'[u] = node[u]
                                  /\ cursor'[u] = cursor[u] /\ boxed'[u] = boxed[u]
  <2>1. \/ GetStep(t) \/ CooldownReserve(t) \/ CooldownSwap(t) \/ CooldownRelease(t)
        \/ TraverseStart(t) \/ ReserveWriter(t) \/ ReleaseWriter(t)
        \/ UNCHANGED listVars
    <3>1. CallStep(t) => UNCHANGED listVars
      BY DEF CallStep, CallLoad, CallSwap, CallCas, CallRcu, CallDestroy, CallNew,
         CallGuard,
             CallDropArc, CallFromInner
    <3>2. NodeOnly(t) => GetStep(t) \/ CooldownReserve(t) \/ CooldownSwap(t) \/ CooldownRelease(t)
      BY DEF NodeOnly, NodeStep, TmpNodeDrop, ExitStep, ThreadExit
    <3>3. WalkStep(t) => TraverseStart(t) \/ ReserveWriter(t) \/ ReleaseWriter(t)
      BY DEF WalkStep, PayAllWalk, PayAllReserve, PayAllRelease
    <3> QED
      BY <3>1, <3>2, <3>3 DEF Acts
  <2> QED
    BY <2>1, ListAlone
<1>2. \A u \in Threads : u # t => /\ pc'[u] = pc[u] /\ op'[u] = op[u] /\ ld'[u] = ld[u]
                                  /\ wr'[u] = wr[u] /\ generation'[u] = generation[u]
                                  /\ offset'[u] = offset[u]
  <2>1. CASE CallStep(t)
    BY <2>1 DEF CallStep, CallLoad, CallSwap, CallCas, CallRcu, CallDestroy, CallNew,
       CallGuard,
                CallDropArc, CallFromInner, Enters
  <2>2. CASE NodeOnly(t)
    BY <2>2 DEF NodeOnly, NodeStep, TmpNodeDrop, ExitStep, debtVars
  <2>3. CASE ReadStep(t)
    BY <2>3, ZenonT(60) DEF ReadStep, AttemptLoad, FastScan, FastTake, AttemptConfirm, AttemptPay,
                HelpingAnnounce, HelpingOpen, FallbackCandidate, ConfirmSlot,
                ConfirmControl,
                ConfirmHandover, ConfirmSpace, FallbackUnpay, FallbackUndec, Pay
  <2>4. CASE ResultStep(t)
    <3>1. CASE IntoInnerInc(t) \/ IntoInnerPay(t) \/ IntoInnerDec(t) \/ ReturnFull(t)
      BY <3>1 DEF IntoInnerInc, IntoInnerPay, IntoInnerDec, IntoInnerDone, FullReference,
         Pay,
                  ReturnFull
    <3>2. CASE GuardDropPay(t) \/ GuardDropDec(t)
      BY <3>2 DEF GuardDropPay, GuardDropDec, GuardDropDone, Pay
    <3>3. CASE ReturnGuard(t) \/ ReturnCas(t) \/ ReturnRcu(t) \/ RcuApply(t) \/ CasExchange(t)
      BY <3>3 DEF ReturnGuard, ReturnCas, ReturnRcu, RcuApply, CasExchange
    <3>4. CASE CasDec(t) \/ CasDropNew(t)
      BY <3>4, ZenonT(60) DEF CasDec, CasDropNew, CasReturns, RcuPrev, RcuSwapped, RcuRetry,
         FullReference
    <3>5. CASE PayAllDec(t) \/ OldDec(t)
      BY <3>5 DEF PayAllDec, OldDec
    <3> QED
      BY <2>4, <3>1, <3>2, <3>3, <3>4, <3>5 DEF ResultStep
  <2>5. CASE HelpStep(t)
    BY <2>5, ZenonT(60) DEF HelpStep, HelpControl, HelpAddr, HelpReconfirm, HelpTheirSpace, HelpStore,
       HelpCas,
                HelpDrop, HelpOffer, HelpMatch
  <2>6. CASE PayStep(t) \/ WalkStep(t)
    BY <2>6 DEF PayStep, WalkStep, PayAllInc, PayAllWalk, PayAllReserve, PayAllSlot,
       PayAllIncMore,
                PayAllRelease, NextSlot, Pay
  <2> QED
    BY <2>1, <2>2, <2>3, <2>4, <2>5, <2>6 DEF Acts
<1> QED
  BY <1>1, <1>2 DEF Same

-----------------------------------------------------------------------------
(* Types.                                                                    *)

\* The records of calls, loads, writes and guards are of their types.
LEMMA RecordTypes ==
    /\ \A kind \in OpKinds, s \in Storages \cup {NoStorage}, new, cur \in Ptrs :
          Operation(kind, s, new, cur) \in OpType
    /\ \A p \in Ptrs, d \in AllDebts : Protection(p, d) \in LoadType
    /\ \A p \in Ptrs, d \in GuardDebts : Guard(p, d) \in GuardType
    /\ NoOp \in OpType /\ NoLoad \in LoadType /\ NoWrite \in WriteType
<1> USE Consts, DebtFacts, ControlFacts
<1>1. \A kind \in OpKinds, s \in Storages \cup {NoStorage}, new, cur \in Ptrs :
          Operation(kind, s, new, cur) \in OpType
  BY DEF Operation, OpType
<1>2. \A p \in Ptrs, d \in AllDebts : Protection(p, d) \in LoadType
  BY DEF Protection, LoadType
<1>3. \A p \in Ptrs, d \in GuardDebts : Guard(p, d) \in GuardType
  BY DEF Guard, GuardType
<1>4. NoOp \in OpType /\ NoLoad \in LoadType
  BY <1>1, <1>2 DEF NoOp, NoLoad, OpKinds
<1>5. NoWrite \in WriteType
  BY DEF NoWrite, WriteType
<1> QED
  BY <1>1, <1>2, <1>3, <1>4, <1>5

\* Counts that go up and down stay numbers.
LEMMA CountTypes ==
    /\ \A p : \A c \in [Addrs -> Int] : Inc(c, p) \in [Addrs -> Int] /\ Dec(c, p) \in [Addrs -> Int]
    /\ \A p : \A c \in [Addrs -> Nat] : Inc(c, p) \in [Addrs -> Nat]
    /\ \A p \in Addrs : \A c \in [Addrs -> Nat] : c[p] > 0 => Dec(c, p) \in [Addrs -> Nat]
BY DEF Inc, Dec

\* Guards come and go one at a time.
LEMMA BagTypes ==
    ASSUME NEW B, IsABag(B), NEW S, BagToSet(B) \subseteq S
    PROVE  /\ \A g \in S : IsABag(BagAdd(B, g)) /\ BagToSet(BagAdd(B, g)) \subseteq S
           /\ \A g \in BagToSet(B) : IsABag(BagRemove(B, g)) /\ BagToSet(BagRemove(B, g)) \subseteq S
<1> USE DEF IsABag, BagToSet
<1>1. \A e \in DOMAIN B : B[e] \in Nat /\ B[e] > 0
  OBVIOUS
<1>2. ASSUME NEW g \in S PROVE IsABag(BagAdd(B, g)) /\ BagToSet(BagAdd(B, g)) \subseteq S
  BY <1>1 DEF BagAdd
<1>3. ASSUME NEW g \in BagToSet(B) PROVE IsABag(BagRemove(B, g)) /\ BagToSet(BagRemove(B, g)) \subseteq S
  BY <1>1 DEF BagRemove
<1> QED
  BY <1>2, <1>3

\* An argument is a pointer.
LEMMA ArgumentType ==
    ASSUME Shapes, NEW p, Argument(p)
    PROVE  p \in Ptrs /\ strong' \in [Addrs -> Int]
<1>1. p \in Ptrs
  BY ApiAssumption, Consts DEF Argument, Held
<1> QED
  BY <1>1, CountTypes DEF Argument, Shapes

\* What calls do, by the way they begin: with a load, with wait_for_readers, with
\* a guard, or not at all since they are over at once.
LoadBegins(t, kind, s, new, cur) ==
    /\ Shared(s)
    /\ kind # "cas" => new = NULL
    /\ t \in LateThreads => kind \in {"load", "load_full"}
    /\ op' = [op EXCEPT ![t] = Operation(kind, s, new, cur)]
    /\ ld' = [ld EXCEPT ![t] = NoLoad]
    /\ pc' = [pc EXCEPT ![t] = LoadEntry]
    /\ UNCHANGED <<wr, storage, guards, owned>>
WriteBegins(t, kind, s) ==
    /\ t \notin LateThreads
    /\ storage[s] # Dead
    /\ \/ /\ kind \in {"store", "swap"} /\ Shared(s)
          /\ \E new \in Ptrs : storage' = [storage EXCEPT ![s] = new]
       \/ kind \in {"drop", "into_inner"} /\ Exclusive(s) /\ UNCHANGED storage
    /\ op' = [op EXCEPT ![t] = Operation(kind, s, NULL, NULL)]
    /\ wr' = [wr EXCEPT ![t].old = storage[s]]
    /\ pc' = [pc EXCEPT ![t] = "pa_inc"]
    /\ UNCHANGED <<ld, guards, owned>>
GuardEnds(t, kind, g) ==
    /\ kind = "guard_into_inner" => g.debt # NoDebt
    /\ t \in LateThreads => kind = "guard_drop"
    /\ guards' = BagRemove(guards, g)
    /\ op' = [op EXCEPT ![t] = Operation(kind, NoStorage, NULL, NULL)]
    /\ ld' = [ld EXCEPT ![t] = Protection(g.ptr, g.debt)]
    /\ pc' = [pc EXCEPT ![t] = IF kind = "guard_into_inner" THEN "in_inc"
                              ELSE IF g.debt = NoDebt THEN "gd_dec" ELSE "gd_pay"]
    /\ UNCHANGED <<wr, storage, owned>>
AtOnce ==
    /\ UNCHANGED <<pc, op, ld, wr>>
    /\ \/ /\ \E s \in Storages, p \in Ptrs :
                storage[s] = Dead /\ storage' = [storage EXCEPT ![s] = p]
          /\ UNCHANGED <<guards, owned>>
       \/ /\ \E g \in BagToSet(guards) :
                guards' = BagRemove(guards, g) /\ owned' = Inc(owned, g.ptr)
          /\ UNCHANGED storage
       \/ /\ \E a \in Addrs : /\ owned[a] > 0
                              /\ owned' = Dec(owned, a)
                              /\ UNCHANGED guards \/ guards' = BagAdd(guards, Guard(a, NoDebt))
          /\ UNCHANGED storage

LoadCalls == {"load", "load_full", "cas", "rcu_load"}
WriteCalls == {"store", "swap", "drop", "into_inner"}
GuardCalls == {"guard_drop", "guard_into_inner"}

\* Every call begins in one of these ways.
LEMMA CallEffect ==
    ASSUME NEW t \in Threads, CallStep(t)
    PROVE  /\ UNCHANGED <<listVars, slots, helpVars, localVars>>
           /\ pc[t] = "idle" /\ lpc[t] = "off"
           /\ \/ \E kind \in LoadCalls, s \in Storages, new, cur \in Ptrs :
                    LoadBegins(t, kind, s, new, cur)
              \/ \E kind \in WriteCalls, s \in Storages : WriteBegins(t, kind, s)
              \/ \E kind \in GuardCalls, g \in BagToSet(guards) : GuardEnds(t, kind, g)
              \/ AtOnce
<1> USE DEF Goto, Enters, BeginLoad, BeginGuardDrop, Invoke
<1>1. CASE CallLoad(t)
  <2>1. PICK kind \in {"load", "load_full"}, s \in Storages :
           /\ Shared(s) /\ Invoke(t, kind)
           /\ op' = [op EXCEPT ![t] = Operation(kind, s, NULL, NULL)]
    BY <1>1 DEF CallLoad
  <2>2. LoadBegins(t, kind, s, NULL, NULL)
    BY <1>1, <2>1 DEF CallLoad, LoadBegins
  <2> QED
    BY <1>1, <2>1, <2>2, Consts DEF CallLoad, LoadCalls
<1>2. CASE CallCas(t)
  <2>1. PICK s \in Storages, new \in Ptrs, cur \in Ptrs :
           /\ Shared(s) /\ Invoke(t, "cas")
           /\ op' = [op EXCEPT ![t] = Operation("cas", s, new, cur)]
    BY <1>2, ZenonT(60) DEF CallCas
  <2>2. t \notin LateThreads
    BY <2>1, ApiAssumption
  <2>3. LoadBegins(t, "cas", s, new, cur)
    BY <1>2, <2>1, <2>2 DEF CallCas, LoadBegins
  <2> QED
    BY <1>2, <2>1, <2>3 DEF CallCas, LoadCalls
<1>3. CASE CallRcu(t)
  <2>1. PICK s \in Storages :
           /\ Shared(s) /\ Invoke(t, "rcu")
           /\ op' = [op EXCEPT ![t] = Operation("rcu_load", s, NULL, NULL)]
    BY <1>3 DEF CallRcu
  <2>2. t \notin LateThreads
    BY <2>1, ApiAssumption
  <2>3. LoadBegins(t, "rcu_load", s, NULL, NULL)
    BY <1>3, <2>1, <2>2 DEF CallRcu, LoadBegins
  <2> QED
    BY <1>3, <2>1, <2>3, Consts DEF CallRcu, LoadCalls
<1>4. CASE CallSwap(t)
  <2>1. PICK kind \in {"store", "swap"}, s \in Storages, new \in Ptrs :
           /\ Shared(s) /\ Invoke(t, kind)
           /\ op' = [op EXCEPT ![t] = Operation(kind, s, NULL, NULL)]
           /\ storage' = [storage EXCEPT ![s] = new]
           /\ wr' = [wr EXCEPT ![t].old = storage[s]]
    BY <1>4 DEF CallSwap
  <2>2. t \notin LateThreads
    BY <2>1, ApiAssumption
  <2>3. WriteBegins(t, kind, s)
    BY <1>4, <2>1, <2>2 DEF CallSwap, WriteBegins, Shared
  <2> QED
    BY <1>4, <2>1, <2>3 DEF CallSwap, WriteCalls
<1>5. CASE CallDestroy(t)
  <2>1. PICK kind \in {"drop", "into_inner"}, s \in Storages :
           /\ storage[s] # Dead /\ Exclusive(s) /\ Invoke(t, kind)
           /\ op' = [op EXCEPT ![t] = Operation(kind, s, NULL, NULL)]
           /\ wr' = [wr EXCEPT ![t].old = storage[s]]
    BY <1>5 DEF CallDestroy
  <2>2. t \notin LateThreads
    BY <2>1, ApiAssumption
  <2>3. WriteBegins(t, kind, s)
    BY <1>5, <2>1, <2>2 DEF CallDestroy, WriteBegins
  <2> QED
    BY <1>5, <2>1, <2>3 DEF CallDestroy, WriteCalls
<1>6. CASE CallGuard(t)
  <2>1. PICK kind \in GuardCalls, g \in BagToSet(guards) :
        /\ kind \in Kinds[t]
        /\ guards' = BagRemove(guards, g)
        /\ \/ /\ kind = "guard_drop"
              /\ Enters(t, kind, NoStorage, NULL, NULL)
              /\ BeginGuardDrop(t, g)
              /\ UNCHANGED owned
           \/ /\ kind = "guard_into_inner"
              /\ g.debt # NoDebt
              /\ Enters(t, kind, NoStorage, NULL, NULL)
              /\ ld' = [ld EXCEPT ![t] = Protection(g.ptr, g.debt)]
              /\ Goto(t, "in_inc")
              /\ UNCHANGED owned
           \/ /\ owned' = Inc(owned, g.ptr)
              /\ UNCHANGED <<pc, op, ld>>
    BY <1>6 DEF CallGuard, GuardCalls
  <2>2. t \in LateThreads => kind # "guard_into_inner"
    BY <2>1, ApiAssumption
  <2>3. GuardEnds(t, kind, g) \/ AtOnce
    BY <1>6, <2>1, <2>2 DEF CallGuard, GuardEnds, AtOnce, GuardCalls
  <2> QED
    BY <1>6, <2>3 DEF CallGuard
<1>7. CASE CallNew(t)
  <2>1. AtOnce
    BY <1>7 DEF CallNew, AtOnce
  <2> QED
    BY <1>7, <2>1 DEF CallNew
<1>8. CASE CallDropArc(t)
  <2>1. AtOnce
    BY <1>8 DEF CallDropArc, AtOnce
  <2> QED
    BY <1>8, <2>1 DEF CallDropArc
<1>9. CASE CallFromInner(t)
  <2>1. AtOnce
    BY <1>9 DEF CallFromInner, GiveGuard, AtOnce
  <2> QED
    BY <1>9, <2>1 DEF CallFromInner
<1> QED
  BY <1>1, <1>2, <1>3, <1>4, <1>5, <1>6, <1>7, <1>8, <1>9 DEF CallStep

\* The round robin of get_debt stays within the slots.
LEMMA RoundRobin ==
    ASSUME NEW i \in Nat, NEW o \in Nat
    PROVE  ((i + o) % SlotCnt) + 1 \in 1 .. SlotCnt
BY SlotAssumption

\* Fields of the locals change within their types.
LEMMA WriteFields ==
    ASSUME NEW f \in [Threads -> WriteType], NEW t \in Threads
    PROVE  /\ \A p \in Ptrs : /\ [f EXCEPT ![t].old = p] \in [Threads -> WriteType]
                              /\ [f EXCEPT ![t].repl = p] \in [Threads -> WriteType]
           /\ \A p \in Ptrs, d \in GuardDebts :
                 [f EXCEPT ![t].old = p, ![t].debt = d] \in [Threads -> WriteType]
           /\ \A n \in Nodes \cup {NoNode} : [f EXCEPT ![t].env = n] \in [Threads -> WriteType]
           /\ \A c \in Controls : [f EXCEPT ![t].ctl = c] \in [Threads -> WriteType]
           /\ \A i \in 0 .. SlotCnt + 1 : [f EXCEPT ![t].idx = i] \in [Threads -> WriteType]
           /\ \A c \in Controls, p \in Ptrs, n \in Nodes \cup {NoNode} :
                 [f EXCEPT ![t].ctl = c, ![t].repl = p, ![t].env = n] \in [Threads -> WriteType]
           /\ \A c \in Controls, p \in Ptrs, n \in Nodes \cup {NoNode}, i \in 0 .. SlotCnt + 1 :
                 [f EXCEPT ![t].ctl = c, ![t].repl = p, ![t].env = n, ![t].idx = i]
                    \in [Threads -> WriteType]
<1>1. \A p \in Ptrs : [f EXCEPT ![t].old = p] \in [Threads -> WriteType]
  BY DEF WriteType
<1>2. \A p \in Ptrs : [f EXCEPT ![t].repl = p] \in [Threads -> WriteType]
  BY DEF WriteType
<1>3. \A p \in Ptrs, d \in GuardDebts :
         [f EXCEPT ![t].old = p, ![t].debt = d] \in [Threads -> WriteType]
  BY DEF WriteType
<1>4. \A n \in Nodes \cup {NoNode} : [f EXCEPT ![t].env = n] \in [Threads -> WriteType]
  BY DEF WriteType
<1>5. \A c \in Controls : [f EXCEPT ![t].ctl = c] \in [Threads -> WriteType]
  BY DEF WriteType
<1>6. \A i \in 0 .. SlotCnt + 1 : [f EXCEPT ![t].idx = i] \in [Threads -> WriteType]
  BY DEF WriteType
<1>7. \A c \in Controls, p \in Ptrs, n \in Nodes \cup {NoNode} :
         [f EXCEPT ![t].ctl = c, ![t].repl = p, ![t].env = n] \in [Threads -> WriteType]
  BY ZenonT(60) DEF WriteType
<1>8. ASSUME NEW c \in Controls, NEW p \in Ptrs, NEW n \in Nodes \cup {NoNode}, NEW i \in 0 .. SlotCnt + 1
      PROVE  [f EXCEPT ![t].ctl = c, ![t].repl = p, ![t].env = n, ![t].idx = i] \in [Threads -> WriteType]
  <2>1. f[t] \in WriteType
    OBVIOUS
  <2>2. [f[t] EXCEPT !.ctl = c, !.repl = p, !.env = n, !.idx = i] \in WriteType
    BY <2>1 DEF WriteType
  <2> QED
    BY <2>2
<1> QED
  BY <1>1, <1>2, <1>3, <1>4, <1>5, <1>6, <1>7, <1>8

\* The same for the locals of a load.
LEMMA LoadFields ==
    ASSUME NEW f \in [Threads -> LoadType], NEW t \in Threads
    PROVE  /\ \A p \in Ptrs : /\ [f EXCEPT ![t].ptr = p] \in [Threads -> LoadType]
                              /\ [f EXCEPT ![t].repl = p] \in [Threads -> LoadType]
           /\ \A p \in Ptrs, d \in AllDebts :
                 [f EXCEPT ![t].ptr = p, ![t].debt = d] \in [Threads -> LoadType]
           /\ \A i \in 0 .. SlotCnt : [f EXCEPT ![t].idx = i] \in [Threads -> LoadType]
           /\ \A d \in AllDebts, i \in 0 .. SlotCnt :
                 [f EXCEPT ![t].debt = d, ![t].idx = i] \in [Threads -> LoadType]
           /\ \A n \in Nodes \cup {NoNode} : [f EXCEPT ![t].env = n] \in [Threads -> LoadType]
           /\ \A d \in AllDebts, n \in Nodes \cup {NoNode} :
                 [f EXCEPT ![t].debt = d, ![t].env = n] \in [Threads -> LoadType]
BY DEF LoadType

\* The same for the call.
LEMMA OpFields ==
    ASSUME NEW f \in [Threads -> OpType], NEW t \in Threads
    PROVE  /\ \A p \in Ptrs : [f EXCEPT ![t].new = p] \in [Threads -> OpType]
           /\ \A p \in Ptrs, k \in OpKinds :
                 [f EXCEPT ![t].kind = k, ![t].new = p] \in [Threads -> OpType]
           /\ \A p \in Ptrs, d \in GuardDebts :
                 [f EXCEPT ![t].cur = p, ![t].debt = d] \in [Threads -> OpType]
           /\ \A k \in OpKinds, p, q \in Ptrs, d \in GuardDebts :
                 [f EXCEPT ![t].kind = k, ![t].new = p, ![t].cur = q, ![t].debt = d]
                    \in [Threads -> OpType]
<1>1. \A p \in Ptrs : [f EXCEPT ![t].new = p] \in [Threads -> OpType]
  BY DEF OpType
<1>2. \A p \in Ptrs, k \in OpKinds :
         [f EXCEPT ![t].kind = k, ![t].new = p] \in [Threads -> OpType]
  BY DEF OpType
<1>3. \A p \in Ptrs, d \in GuardDebts :
         [f EXCEPT ![t].cur = p, ![t].debt = d] \in [Threads -> OpType]
  BY DEF OpType
<1>4. ASSUME NEW k \in OpKinds, NEW p \in Ptrs, NEW q \in Ptrs, NEW d \in GuardDebts
      PROVE  [f EXCEPT ![t].kind = k, ![t].new = p, ![t].cur = q, ![t].debt = d] \in [Threads -> OpType]
  BY ZenonT(60) DEF OpType
<1> QED
  BY <1>1, <1>2, <1>3, <1>4

-----------------------------------------------------------------------------
(* Types: calls.                                                             *)

\* Counts stay numbers.
LEMMA CallCounts ==
    ASSUME Shapes, NEW t \in Threads, CallStep(t)
    PROVE  strong' \in [Addrs -> Int]
<1>1. strong \in [Addrs -> Int]
  BY DEF Shapes
<1>2. CASE CallSwap(t) \/ CallCas(t) \/ CallNew(t)
  <2>1. PICK p \in Ptrs : Argument(p)
    BY <1>2 DEF CallSwap, CallCas, CallNew
  <2> QED
    BY <2>1, ArgumentType
<1>3. CASE CallDropArc(t)
  <2>1. PICK a \in Addrs : strong' = Dec(strong, a)
    BY <1>3 DEF CallDropArc
  <2> QED
    BY <1>1, <2>1, CountTypes
<1>4. CASE ~(CallSwap(t) \/ CallCas(t) \/ CallNew(t) \/ CallDropArc(t))
  BY <1>1, <1>4 DEF CallStep, CallLoad, CallRcu, CallDestroy, CallGuard, CallFromInner
<1> QED
  BY <1>2, <1>3, <1>4

\* Calls keep the types.
LEMMA CallShapes ==
    ASSUME Shapes, NEW t \in Threads, CallStep(t)
    PROVE  Shapes'
<1>1. /\ slots' \in [Nodes -> [SlotIds -> Ptrs \cup {NONE}]]
      /\ control' \in [Nodes -> Controls]
      /\ active_addr' \in [Nodes -> Storages \cup {NoStorage}]
      /\ handover' \in [Nodes -> Ptrs]
      /\ space_offer' \in [Nodes -> Nodes]
      /\ generation' \in [Threads -> Generations]
      /\ offset' \in [Threads -> 0 .. SlotCnt]
  BY CallEffect DEF helpVars, localVars, Shapes
<1>2. strong' \in [Addrs -> Int]
  BY CallCounts
<1>3. LoadEntry \in HybridLabels /\ "pa_inc" \in HybridLabels
  BY DEF LoadEntry, HybridLabels, DebtLabels
<1>4. ASSUME NEW kind \in LoadCalls, NEW s \in Storages, NEW new \in Ptrs, NEW cur \in Ptrs,
             LoadBegins(t, kind, s, new, cur)
      PROVE  Shapes'
  <2>1. kind \in OpKinds
    BY DEF LoadCalls, OpKinds
  <2> QED
    BY <1>1, <1>2, <1>3, <1>4, <2>1, RecordTypes DEF LoadBegins, Shapes
<1>5. ASSUME NEW kind \in WriteCalls, NEW s \in Storages, WriteBegins(t, kind, s)
      PROVE  Shapes'
  <2>1. kind \in OpKinds
    BY DEF WriteCalls, OpKinds
  <2>2. storage[s] \in Ptrs
    BY <1>5 DEF WriteBegins, Shapes
  <2>3. op' \in [Threads -> OpType]
    BY <1>5, <2>1, RecordTypes, Consts DEF WriteBegins, Shapes
  <2>4. wr' \in [Threads -> WriteType]
    BY <1>5, <2>2, WriteFields DEF WriteBegins, Shapes
  <2>5. storage' \in [Storages -> Ptrs \cup {Dead}]
    BY <1>5 DEF WriteBegins, Shapes
  <2> QED
    BY <1>1, <1>2, <1>3, <1>5, <2>3, <2>4, <2>5 DEF WriteBegins, Shapes
<1>6. ASSUME NEW kind \in GuardCalls, NEW g \in BagToSet(guards), GuardEnds(t, kind, g)
      PROVE  Shapes'
  <2>1. kind \in OpKinds /\ g.ptr \in Ptrs /\ g.debt \in AllDebts
    BY DebtFacts DEF GuardCalls, OpKinds, GuardType, Shapes
  <2>2. op' \in [Threads -> OpType] /\ ld' \in [Threads -> LoadType]
    BY <1>6, <2>1, RecordTypes, Consts DEF GuardEnds, Shapes
  <2>3. pc' \in [Threads -> HybridLabels]
    BY <1>6 DEF GuardEnds, HybridLabels, Shapes
  <2>4. IsABag(guards') /\ BagToSet(guards') \subseteq GuardType
    BY <1>6, BagTypes DEF GuardEnds, Shapes
  <2> QED
    BY <1>1, <1>2, <1>6, <2>2, <2>3, <2>4 DEF GuardEnds, Shapes
<1>7. CASE AtOnce
  <2> DEFINE Kept == /\ storage' \in [Storages -> Ptrs \cup {Dead}]
                     /\ owned' \in [Addrs -> Nat]
                     /\ IsABag(guards') /\ BagToSet(guards') \subseteq GuardType
  <2>1. ASSUME NEW s \in Storages, NEW p \in Ptrs, storage' = [storage EXCEPT ![s] = p],
               UNCHANGED <<guards, owned>>
        PROVE  Kept
    BY <2>1 DEF Shapes
  <2>2. ASSUME NEW g \in BagToSet(guards), guards' = BagRemove(guards, g),
               owned' = Inc(owned, g.ptr), UNCHANGED storage
        PROVE  Kept
    <3>1. owned' \in [Addrs -> Nat]
      BY <2>2, CountTypes DEF Shapes
    <3>2. IsABag(guards') /\ BagToSet(guards') \subseteq GuardType
      BY <2>2, BagTypes DEF Shapes
    <3> QED
      BY <2>2, <3>1, <3>2 DEF Shapes
  <2>3. ASSUME NEW a \in Addrs, owned[a] > 0, owned' = Dec(owned, a), UNCHANGED storage,
               UNCHANGED guards \/ guards' = BagAdd(guards, Guard(a, NoDebt))
        PROVE  Kept
    <3>1. owned' \in [Addrs -> Nat]
      BY <2>3, CountTypes DEF Shapes
    <3>2. Guard(a, NoDebt) \in GuardType
      BY DebtFacts, RecordTypes, Consts
    <3>3. IsABag(BagAdd(guards, Guard(a, NoDebt))) /\ BagToSet(BagAdd(guards, Guard(a, NoDebt))) \subseteq GuardType
      BY <3>2, BagTypes DEF Shapes
    <3> QED
      BY <2>3, <3>1, <3>3 DEF Shapes
  <2>4. Kept
    BY <1>7, <2>1, <2>2, <2>3 DEF AtOnce
  <2> QED
    BY <1>1, <1>2, <1>7, <2>4 DEF AtOnce, Shapes
<1> QED
  BY <1>4, <1>5, <1>6, <1>7, CallEffect

-----------------------------------------------------------------------------
(* Types: loads.                                                             *)

\* The locals of a thread, field by field.
LEMMA Fields ==
    ASSUME Shapes, NEW t \in Threads
    PROVE  /\ op[t].kind \in OpKinds /\ op[t].s \in Storages \cup {NoStorage}
           /\ op[t].new \in Ptrs /\ op[t].cur \in Ptrs /\ op[t].debt \in GuardDebts
           /\ ld[t].ptr \in Ptrs /\ ld[t].debt \in AllDebts /\ ld[t].idx \in 0 .. SlotCnt
           /\ ld[t].env \in Nodes \cup {NoNode} /\ ld[t].repl \in Ptrs
           /\ wr[t].old \in Ptrs /\ wr[t].debt \in GuardDebts /\ wr[t].idx \in 0 .. SlotCnt + 1
           /\ wr[t].ctl \in Controls /\ wr[t].env \in Nodes \cup {NoNode} /\ wr[t].repl \in Ptrs
BY DEF Shapes, OpType, LoadType, WriteType

\* What the access of a thread needs is there.
LEMMA AtHand ==
    ASSUME Shape, Locals, Shapes, Instances, NEW t \in Threads, Local(t)
    PROVE  /\ lpc[t] \in {"reserve", "visit"} => cursor[t] \in Nodes /\ node[t] \in Nodes
           /\ pc[t] \in VisitLabels => cursor[t] \in Nodes /\ node[t] \in Nodes
           /\ pc[t] \in {"scan", "take", "fb_ctl", "pa_walk"} \cup OpenLabels \cup HelpedLabels =>
                 node[t] \in Nodes
           /\ Waiting(t) \/ pc[t] \in LoadLabels \cup {"cas_x", "rcu_f", "old_dec"} =>
                 op[t].s \in Storages /\ storage[op[t].s] \in Ptrs
<1>1. lpc[t] \in {"reserve", "visit"} => cursor[t] \in Nodes /\ node[t] \in Nodes
  BY DEF Local, Places, Shape, Locals
<1>2. pc[t] \in VisitLabels => lpc[t] = "visit"
  BY DEF Local, Places
<1>3. pc[t] \in {"scan", "take", "fb_ctl", "pa_walk"} \cup OpenLabels \cup HelpedLabels =>
                 node[t] \in Nodes
  BY DEF Local, Places, Shape
<1>4. op[t].kind \notin {"none", "guard_drop", "guard_into_inner"} =>
         op[t].s \in Storages /\ storage[op[t].s] \in Ptrs
  <2>1. op[t].kind \notin {"none", "guard_drop", "guard_into_inner"} => op[t].s \in Storages
    BY DEF Local, Calls
  <2>2. op[t].s \in Storages => op[t].s # NoStorage
    BY Consts
  <2> QED
    BY <2>1, <2>2 DEF Instances, Shapes
<1>5. Waiting(t) \/ pc[t] \in LoadLabels \cup {"cas_x", "rcu_f", "old_dec"} =>
         op[t].kind \notin {"none", "guard_drop", "guard_into_inner"}
  <2>1. InHelp(t) => Waiting(t)
    BY DEF InHelp, Waiting
  <2>2. Waiting(t) => op[t].kind \notin {"none", "guard_drop", "guard_into_inner"}
    BY DEF Local, Calls, WriteKinds
  <2>3. pc[t] \in {"cas_x", "rcu_f", "old_dec"} =>
           op[t].kind \notin {"none", "guard_drop", "guard_into_inner"}
    BY DEF Local, Calls
  <2>4. pc[t] \in LoadLabels => pc[t] \in LoadSteps /\ ~Converts(t)
    BY DEF LoadSteps, LoadLabels, IntoInnerLabels, Converts
  <2>5. pc[t] \in LoadLabels /\ ~InHelp(t) => op[t].kind \in ReadKinds
    BY <2>4 DEF Local, Calls
  <2> QED
    BY <2>1, <2>2, <2>3, <2>5 DEF ReadKinds
<1> QED
  BY <1>1, <1>2, <1>3, <1>4, <1>5

\* A slot that is paid or taken still holds a pointer or nothing.
LEMMA SlotTypes ==
    ASSUME Shapes
    PROVE  /\ \A n \in Nodes, k \in SlotIds, p \in Ptrs :
                 [slots EXCEPT ![n][k] = p] \in [Nodes -> [SlotIds -> Ptrs \cup {NONE}]]
           /\ \A n \in Nodes, k \in SlotIds :
                 [slots EXCEPT ![n][k] = NONE] \in [Nodes -> [SlotIds -> Ptrs \cup {NONE}]]
BY DEF Shapes

\* Inside of a call a thread with a node owns it.
LEMMA OwnsNode ==
    ASSUME ListInv, HelpInv, NEW t \in Threads
    PROVE  /\ lpc[t] \in {"reserve", "visit"} => node[t] \in Nodes /\ Owned(t) = node[t]
           /\ pc[t] \in VisitLabels \cup {"scan", "take", "fb_ctl", "pa_walk"} \cup OpenLabels \cup HelpedLabels =>
                 node[t] \in Nodes /\ Owned(t) = node[t]
           /\ pc[t] \notin {"idle", "ret"} => Owned(t) = node[t]
<1> Places(t) /\ Shape
  BY DEF HelpInv, Local, ListInv
<1>1. pc[t] \notin {"idle", "ret"} => Owned(t) = node[t]
  BY DEF Places, Owned
<1>2. lpc[t] \in {"reserve", "visit"} => node[t] \in Nodes /\ Owned(t) = node[t]
  BY DEF Places, Owned, Shape
<1>3. pc[t] \in VisitLabels \cup {"scan", "take", "fb_ctl", "pa_walk"} \cup OpenLabels \cup HelpedLabels =>
         node[t] \in Nodes /\ pc[t] \notin {"idle", "ret"}
  BY DEF Places, Shape, VisitLabels, OpenLabels, HelpedLabels
<1> QED
  BY <1>1, <1>2, <1>3

\* What a reader finds in its control word when it confirms: its generation or
\* an envelope.
LEMMA AnswerValid ==
    ASSUME ListInv, HelpInv, NEW t \in Threads, pc[t] \in OpenLabels
    PROVE  /\ node[t] \in Nodes /\ control[node[t]] \in Controls
           /\ \/ control[node[t]] = GEN(generation[t])
              \/ \E e \in Nodes : control[node[t]] = REPLACEMENT(e)
           /\ control[node[t]] # GEN(generation[t]) =>
                 /\ Tag(control[node[t]]) = REPLACEMENT_TAG
                 /\ EnvelopeIn(control[node[t]]) \in Nodes
                 /\ control[node[t]] = REPLACEMENT(EnvelopeIn(control[node[t]]))
<1>1. \A u \in Threads : pc[u] \in OpenLabels => node[u] \in Nodes /\ Owned(u) = node[u]
  BY OwnsNode
<1>2. PICK u \in Threads :
             /\ node[u] = node[t] /\ pc[u] \in OpenLabels
             /\ \/ control[node[t]] = GEN(generation[u])
                \/ \E e \in Nodes : control[node[t]] = REPLACEMENT(e)
  BY <1>1 DEF HelpInv, Announced
<1>3. u = t
  BY <1>1, <1>2, NodesFacts DEF ListInv, ExclusiveOwnership
<1>4. control[node[t]] \in Controls
  BY <1>1 DEF HelpInv, Shapes
<1>5. ASSUME control[node[t]] # GEN(generation[t])
      PROVE  /\ Tag(control[node[t]]) = REPLACEMENT_TAG
             /\ EnvelopeIn(control[node[t]]) \in Nodes
             /\ control[node[t]] = REPLACEMENT(EnvelopeIn(control[node[t]]))
  BY <1>2, <1>3, <1>5, ControlFacts
<1> QED
  BY <1>1, <1>2, <1>3, <1>4, <1>5

\* The steps of a load keep the types.
LEMMA ReadShapes ==
    ASSUME ListInv, HelpInv, NEW t \in Threads, ReadStep(t),
           UNCHANGED <<listVars, storage, guards, owned>>
    PROVE  Shapes'
<1> Shape /\ Locals /\ Shapes /\ Instances /\ Local(t)
  BY DEF ListInv, HelpInv
<1>1. UNCHANGED <<op, wr, storage, guards, owned>>
  BY DEF ReadStep, AttemptLoad, FastScan, FastTake, AttemptConfirm, AttemptPay,
         HelpingAnnounce, HelpingOpen, FallbackCandidate, ConfirmSlot, ConfirmControl,
         ConfirmHandover, ConfirmSpace, FallbackUnpay, FallbackUndec, Pay
<1>2. SUFFICES /\ slots' \in [Nodes -> [SlotIds -> Ptrs \cup {NONE}]]
               /\ control' \in [Nodes -> Controls]
               /\ active_addr' \in [Nodes -> Storages \cup {NoStorage}]
               /\ handover' \in [Nodes -> Ptrs]
               /\ space_offer' \in [Nodes -> Nodes]
               /\ generation' \in [Threads -> Generations]
               /\ offset' \in [Threads -> 0 .. SlotCnt]
               /\ pc' \in [Threads -> HybridLabels]
               /\ ld' \in [Threads -> LoadType]
               /\ strong' \in [Addrs -> Int]
  BY <1>1 DEF Shapes
<1>3. pc' \in [Threads -> HybridLabels]
  <2>1. CASE \/ AttemptLoad(t) \/ FastScan(t) \/ FastTake(t) \/ AttemptConfirm(t) \/ AttemptPay(t)
    BY <2>1 DEF Shapes, HybridLabels, DebtLabels, Goto, LoadReturns, AttemptLoad, FastScan,
       FastTake, AttemptConfirm, AttemptPay, Pay
  <2>2. CASE \/ HelpingAnnounce(t) \/ HelpingOpen(t) \/ FallbackCandidate(t) \/ ConfirmSlot(t)
             \/ ConfirmControl(t)
    BY <2>2, ZenonT(60) DEF Shapes, HybridLabels, DebtLabels, Goto, HelpingAnnounce, HelpingOpen,
       FallbackCandidate, ConfirmSlot, ConfirmControl
  <2>3. {"fb_space", "fb_unpay", "fb_undec", "ret"} \subseteq HybridLabels
    BY DEF HybridLabels, DebtLabels
  <2>4. CASE ConfirmHandover(t) \/ ConfirmSpace(t) \/ FallbackUnpay(t) \/ FallbackUndec(t)
    <3>1. \E l \in {"fb_space", "fb_unpay", "fb_undec", "ret"} : pc' = [pc EXCEPT ![t] = l]
      BY <2>4 DEF Goto, LoadReturns, ConfirmHandover, ConfirmSpace, FallbackUnpay, FallbackUndec,
         Pay
    <3> QED
      BY <2>3, <3>1 DEF Shapes
  <2> QED
    BY <2>1, <2>2, <2>4 DEF ReadStep
<1> ld \in [Threads -> LoadType]
  BY DEF Shapes
<1>4. CASE AttemptLoad(t) \/ FallbackCandidate(t)
  <2>1. storage[op[t].s] \in Ptrs
    BY <1>4, AtHand DEF AttemptLoad, FallbackCandidate, LoadLabels
  <2>2. [ld EXCEPT ![t].ptr = storage[op[t].s]] \in [Threads -> LoadType]
    BY <2>1, LoadFields
  <2>3. ld' \in [Threads -> LoadType]
    BY <1>4, <2>2 DEF AttemptLoad, FallbackCandidate
  <2> QED
    BY <1>3, <1>4, <2>3 DEF AttemptLoad, FallbackCandidate, helpVars, localVars, Shapes
<1>5. CASE FastScan(t)
  <2>0. ld[t].idx \in 0 .. SlotCnt /\ ld[t].idx < SlotCnt
    BY <1>5, Fields DEF FastScan, Local, Registers
  <2>1. ld[t].idx \in 0 .. SlotCnt - 1
    BY <2>0, Consts
  <2>2. offset[t] \in 0 .. SlotCnt
    BY DEF Shapes
  <2>3. /\ ((ld[t].idx + offset[t]) % SlotCnt) + 1 \in 0 .. SlotCnt
        /\ ld[t].idx + 1 \in 0 .. SlotCnt
    <3>1. ld[t].idx \in Nat /\ offset[t] \in Nat
      BY <2>1, <2>2
    <3>2. ((ld[t].idx + offset[t]) % SlotCnt) + 1 \in 1 .. SlotCnt
      BY <3>1, RoundRobin
    <3> QED
      BY <2>0, <3>1, <3>2, SlotAssumption
  <2>4. /\ [ld EXCEPT ![t].idx = ((ld[t].idx + offset[t]) % SlotCnt) + 1] \in [Threads -> LoadType]
        /\ [ld EXCEPT ![t].idx = ld[t].idx + 1] \in [Threads -> LoadType]
        /\ [ld EXCEPT ![t] = NoLoad] \in [Threads -> LoadType]
    BY <2>3, LoadFields, RecordTypes
  <2>5. ld' \in [Threads -> LoadType]
    BY <1>5, <2>4 DEF FastScan
  <2> QED
    BY <1>3, <1>5, <2>5 DEF FastScan, helpVars, localVars, Shapes
<1>6. CASE FastTake(t)
  <2>1. ld[t].idx \in SlotIds /\ ld[t].idx \in 0 .. SlotCnt /\ ld[t].ptr \in Ptrs
    BY Fields, Consts
  <2>2. node[t] \in Nodes
    BY <1>6, AtHand DEF FastTake
  <2>3. [ld EXCEPT ![t].debt = <<node[t], ld[t].idx>>, ![t].idx = 0] \in [Threads -> LoadType]
    <3>1. <<node[t], ld[t].idx>> \in AllDebts /\ 0 \in 0 .. SlotCnt
      BY <2>1, <2>2, DebtFacts, Consts
    <3> QED
      BY <3>1, LoadFields
  <2>4. slots' \in [Nodes -> [SlotIds -> Ptrs \cup {NONE}]]
    BY <1>6, <2>1, <2>2, SlotTypes DEF FastTake
  <2>5. offset' \in [Threads -> 0 .. SlotCnt]
    BY <1>6, <2>1 DEF FastTake, Shapes
  <2> QED
    BY <1>3, <1>6, <2>3, <2>4, <2>5 DEF FastTake, helpVars, Shapes
<1>7. CASE AttemptConfirm(t)
  <2>1. ld' \in [Threads -> LoadType]
    <3>1. [ld EXCEPT ![t] = Protection(ld[t].ptr, ld[t].debt)] \in [Threads -> LoadType]
      BY Fields, RecordTypes
    <3> QED
      BY <1>7, <3>1 DEF AttemptConfirm, LoadReturns
  <2> QED
    BY <1>3, <1>7, <2>1 DEF AttemptConfirm, helpVars, localVars, Shapes
<1>8. CASE AttemptPay(t) \/ FallbackUnpay(t)
  <2>1. ld[t].debt[1] \in Nodes /\ ld[t].debt[2] \in SlotIds
    <3>1. CASE AttemptPay(t)
      BY <3>1, DebtFacts DEF AttemptPay, Local, Registers
    <3>2. CASE FallbackUnpay(t)
      BY <3>2, AtHand, Consts DEF FallbackUnpay, Local, Registers, HelpedLabels
    <3> QED
      BY <1>8, <3>1, <3>2
  <2>2. slots' \in [Nodes -> [SlotIds -> Ptrs \cup {NONE}]]
    <3>1. /\ [slots EXCEPT ![ld[t].debt[1]][ld[t].debt[2]] = NONE]
                \in [Nodes -> [SlotIds -> Ptrs \cup {NONE}]]
          /\ slots \in [Nodes -> [SlotIds -> Ptrs \cup {NONE}]]
      BY <2>1, SlotTypes DEF Shapes
    <3> QED
      BY <1>8, <3>1 DEF AttemptPay, FallbackUnpay, Pay
  <2>3. ld' \in [Threads -> LoadType]
    <3>1. \A p \in Ptrs : [ld EXCEPT ![t] = Protection(p, NoDebt)] \in [Threads -> LoadType]
      BY RecordTypes, DebtFacts
    <3>2. [ld EXCEPT ![t] = NoLoad] \in [Threads -> LoadType]
      BY RecordTypes
    <3>3. ld[t].ptr \in Ptrs /\ ld[t].repl \in Ptrs
      BY Fields
    <3> QED
      BY <1>8, <3>1, <3>2, <3>3 DEF AttemptPay, FallbackUnpay, Pay, LoadReturns
  <2> QED
    BY <1>3, <1>8, <2>2, <2>3 DEF AttemptPay, FallbackUnpay, helpVars, localVars, Shapes
<1>9. CASE HelpingAnnounce(t)
  <2>1. generation' \in [Threads -> Generations]
    BY <1>9, NextGeneration DEF HelpingAnnounce, Shapes
  <2>2. active_addr' \in [Nodes -> Storages \cup {NoStorage}]
    BY <1>9, Fields DEF HelpingAnnounce, Shapes
  <2> QED
    BY <1>3, <1>9, <2>1, <2>2 DEF HelpingAnnounce, Shapes
<1>10. CASE HelpingOpen(t)
  <2>1. control' \in [Nodes -> Controls]
    BY <1>10, ControlFacts DEF HelpingOpen, Shapes
  <2> QED
    BY <1>3, <1>10, <2>1 DEF HelpingOpen, localVars, Shapes
<1>11. CASE ConfirmSlot(t)
  <2>1. slots' \in [Nodes -> [SlotIds -> Ptrs \cup {NONE}]]
    <3>1. node[t] \in Nodes
      BY <1>11, AtHand DEF ConfirmSlot, OpenLabels
    <3>2. ld[t].ptr \in Ptrs /\ HelpingSlot \in SlotIds
      BY Fields, Consts
    <3> QED
      BY <1>11, <3>1, <3>2, SlotTypes DEF ConfirmSlot
  <2> QED
    BY <1>3, <1>11, <2>1 DEF ConfirmSlot, helpVars, localVars, Shapes
<1>12. CASE FallbackUndec(t)
  <2>1. ld' \in [Threads -> LoadType]
    BY <1>12, Fields, RecordTypes, DebtFacts DEF FallbackUndec, LoadReturns
  <2>2. strong' \in [Addrs -> Int]
    BY <1>12, CountTypes DEF FallbackUndec, Shapes
  <2> QED
    BY <1>3, <1>12, <2>1, <2>2 DEF FallbackUndec, helpVars, localVars, Shapes
<1>13. CASE ConfirmHandover(t)
  <2>1. handover[ld[t].env] \in Ptrs
    BY <1>13 DEF ConfirmHandover, Local, Registers, Shapes
  <2>2. [ld EXCEPT ![t].repl = handover[ld[t].env]] \in [Threads -> LoadType]
    BY <2>1, LoadFields
  <2> QED
    BY <1>3, <1>13, <2>2 DEF ConfirmHandover, helpVars, localVars, Shapes
<1>14. CASE ConfirmSpace(t)
  <2>1. ld[t].env \in Nodes
    BY <1>14 DEF ConfirmSpace, Local, Registers
  <2>2. [ld EXCEPT ![t].env = NoNode] \in [Threads -> LoadType]
    BY LoadFields
  <2>3. space_offer' \in [Nodes -> Nodes]
    BY <1>14, <2>1 DEF ConfirmSpace, Shapes
  <2> QED
    BY <1>3, <1>14, <2>2, <2>3 DEF ConfirmSpace, localVars, Shapes
<1>15. CASE ConfirmControl(t)
  <2> DEFINE n == node[t]
             d == <<n, HelpingSlot>>
  <2>1. n \in Nodes /\ d \in AllDebts
    <3>1. n \in Nodes /\ HelpingSlot \in SlotIds
      BY <1>15, AtHand, Consts DEF ConfirmControl, OpenLabels
    <3> QED
      BY <3>1, DebtFacts
  <2>2. control[n] # GEN(generation[t]) => EnvelopeIn(control[n]) \in Nodes
    BY <1>15, AnswerValid DEF ConfirmControl, OpenLabels
  <2>3. /\ [ld EXCEPT ![t].debt = d, ![t].env = NoNode] \in [Threads -> LoadType]
        /\ EnvelopeIn(control[n]) \in Nodes =>
              [ld EXCEPT ![t].debt = d, ![t].env = EnvelopeIn(control[n])] \in [Threads -> LoadType]
    BY <2>1, LoadFields
  <2>4. ld' \in [Threads -> LoadType]
    BY <1>15, <2>2, <2>3 DEF ConfirmControl
  <2>5. control' \in [Nodes -> Controls]
    BY <1>15, ControlFacts DEF ConfirmControl, Shapes
  <2> QED
    BY <1>3, <1>15, <2>4, <2>5 DEF ConfirmControl, localVars, Shapes
<1> QED
  BY <1>4, <1>5, <1>6, <1>7, <1>8, <1>9, <1>10, <1>11, <1>12, <1>13, <1>14,
     <1>15 DEF ReadStep

-----------------------------------------------------------------------------
(* Types: what becomes of the result of a load.                              *)

\* What a step may do to the locals of a thread and to the users' references.
Typed ==
    /\ pc' \in [Threads -> HybridLabels]
    /\ op' \in [Threads -> OpType]
    /\ ld' \in [Threads -> LoadType]
    /\ wr' \in [Threads -> WriteType]
    /\ IsABag(guards')
    /\ BagToSet(guards') \subseteq GuardType
    /\ owned' \in [Addrs -> Nat]

\* The pieces that the ends of calls are made of keep the types.
LEMMA PieceTypes ==
    ASSUME Shapes, NEW t \in Threads
    PROVE  /\ \A l \in HybridLabels : [pc EXCEPT ![t] = l] \in [Threads -> HybridLabels]
           /\ \A p \in Ptrs, d \in AllDebts : [ld EXCEPT ![t] = Protection(p, d)] \in [Threads -> LoadType]
           /\ [op EXCEPT ![t] = NoOp] \in [Threads -> OpType]
           /\ [ld EXCEPT ![t] = NoLoad] \in [Threads -> LoadType]
           /\ [wr EXCEPT ![t] = NoWrite] \in [Threads -> WriteType]
           /\ \A p : Inc(owned, p) \in [Addrs -> Nat]
           /\ \A p \in Ptrs, d \in GuardDebts :
                 IsABag(BagAdd(guards, Guard(p, d))) /\ BagToSet(BagAdd(guards, Guard(p, d))) \subseteq GuardType
<1>1. \A l \in HybridLabels : [pc EXCEPT ![t] = l] \in [Threads -> HybridLabels]
  BY DEF Shapes
<1>2. /\ op \in [Threads -> OpType]
      /\ ld \in [Threads -> LoadType]
      /\ wr \in [Threads -> WriteType]
      /\ owned \in [Addrs -> Nat]
      /\ IsABag(guards) /\ BagToSet(guards) \subseteq GuardType
  BY DEF Shapes
<1>3. /\ \A p \in Ptrs, d \in AllDebts : [ld EXCEPT ![t] = Protection(p, d)] \in [Threads -> LoadType]
      /\ [op EXCEPT ![t] = NoOp] \in [Threads -> OpType]
      /\ [ld EXCEPT ![t] = NoLoad] \in [Threads -> LoadType]
      /\ [wr EXCEPT ![t] = NoWrite] \in [Threads -> WriteType]
  BY <1>2, RecordTypes
<1>4. \A p \in Ptrs, d \in GuardDebts :
         IsABag(BagAdd(guards, Guard(p, d))) /\ BagToSet(BagAdd(guards, Guard(p, d))) \subseteq GuardType
  BY <1>2, RecordTypes, BagTypes
<1> QED
  BY <1>1, <1>2, <1>3, <1>4, CountTypes

\* The end of a call keeps the types.
LEMMA FinishTypes ==
    ASSUME Shapes, NEW t \in Threads, Finish(t)
    PROVE  /\ pc' \in [Threads -> HybridLabels]
           /\ op' \in [Threads -> OpType]
           /\ ld' \in [Threads -> LoadType]
           /\ wr' \in [Threads -> WriteType]
<1>1. "idle" \in HybridLabels
  BY DEF HybridLabels
<1> QED
  BY <1>1, PieceTypes DEF Finish, Goto

\* The beginning of the drop of a guard keeps the types.
LEMMA DropTypes ==
    ASSUME Shapes, NEW t \in Threads, NEW p \in Ptrs, NEW d \in GuardDebts,
           BeginGuardDrop(t, Guard(p, d))
    PROVE  pc' \in [Threads -> HybridLabels] /\ ld' \in [Threads -> LoadType]
<1>1. "gd_dec" \in HybridLabels /\ "gd_pay" \in HybridLabels
  BY DEF HybridLabels
<1>2. Guard(p, d).ptr = p /\ Guard(p, d).debt = d /\ d \in AllDebts
  BY DebtFacts DEF Guard
<1> QED
  BY <1>1, <1>2, PieceTypes DEF BeginGuardDrop, Goto

\* What becomes of a full reference keeps the types.
LEMMA FullTypes ==
    ASSUME Shapes, NEW t \in Threads, NEW p \in Ptrs, FullReference(t, p), UNCHANGED guards
    PROVE  Typed
<1> /\ op \in [Threads -> OpType] /\ wr \in [Threads -> WriteType]
    /\ IsABag(guards) /\ BagToSet(guards) \subseteq GuardType
  BY DEF Shapes
<1>1. CASE InHelp(t) /\ pc' = [pc EXCEPT ![t] = "hp_theirs"]
  <2>1. "hp_theirs" \in HybridLabels
    BY DEF HybridLabels, DebtLabels
  <2>2. /\ wr' = [wr EXCEPT ![t].repl = p] /\ ld' = [ld EXCEPT ![t] = NoLoad]
        /\ UNCHANGED <<op, owned>>
    BY <1>1 DEF FullReference
  <2>3. [wr EXCEPT ![t].repl = p] \in [Threads -> WriteType]
    BY WriteFields
  <2> QED
    BY <1>1, <2>1, <2>2, <2>3, PieceTypes DEF Typed, Shapes
<1>2. CASE owned' = Inc(owned, p) /\ Finish(t)
  BY <1>2, FinishTypes, PieceTypes DEF Typed
<1>3. CASE /\ op' = [op EXCEPT ![t] = Operation("rcu_done", op[t].s, p, NULL)]
           /\ BeginGuardDrop(t, Guard(op[t].cur, op[t].debt))
           /\ wr' = [wr EXCEPT ![t] = NoWrite]
           /\ UNCHANGED owned
  <2>1. Operation("rcu_done", op[t].s, p, NULL) \in OpType
    <3>1. "rcu_done" \in OpKinds
      BY DEF OpKinds
    <3> QED
      BY <3>1, RecordTypes, Fields, Consts
  <2>2. op' \in [Threads -> OpType]
    BY <1>3, <2>1
  <2>3. pc' \in [Threads -> HybridLabels] /\ ld' \in [Threads -> LoadType]
    BY <1>3, DropTypes, Fields
  <2> QED
    BY <1>3, <2>2, <2>3, PieceTypes DEF Typed, Shapes
<1> QED
  BY <1>1, <1>2, <1>3 DEF FullReference, Goto

\* The end of into_inner keeps the types.
LEMMA InnerTypes ==
    ASSUME Shapes, NEW t \in Threads, IntoInnerDone(t), UNCHANGED guards
    PROVE  Typed
<1>1. ld[t].ptr \in Ptrs
  BY Fields
<1>2. CASE LoadReturns(t, ld[t].ptr, NoDebt) /\ UNCHANGED <<op, wr, owned>>
  <2>1. "ret" \in HybridLabels
    BY DEF HybridLabels
  <2> QED
    BY <1>1, <1>2, <2>1, PieceTypes, DebtFacts DEF LoadReturns, Goto, Typed, Shapes
<1>3. CASE FullReference(t, ld[t].ptr)
  BY <1>1, <1>3, FullTypes
<1> QED
  BY <1>2, <1>3 DEF IntoInnerDone

\* The end of the drop of a guard keeps the types.
LEMMA DropDoneTypes ==
    ASSUME Shapes, NEW t \in Threads, GuardDropDone(t), UNCHANGED guards
    PROVE  Typed
<1>1. LoadEntry \in HybridLabels /\ "rcu_f" \in HybridLabels
  BY DEF LoadEntry, HybridLabels, DebtLabels
<1>2. CASE Finish(t) /\ owned' = Inc(owned, op[t].new)
  BY <1>2, FinishTypes, PieceTypes DEF Typed, Shapes
<1>3. CASE BeginLoad(t) /\ UNCHANGED <<op, wr, owned>>
  BY <1>1, <1>3, PieceTypes DEF BeginLoad, Goto, Typed, Shapes
<1>4. CASE ld' = [ld EXCEPT ![t] = NoLoad] /\ Goto(t, "rcu_f") /\ UNCHANGED <<op, wr, owned>>
  BY <1>1, <1>4, PieceTypes DEF Goto, Typed, Shapes
<1> QED
  BY <1>2, <1>3, <1>4 DEF GuardDropDone

\* The end of compare_and_swap keeps the types.
LEMMA CasTypes ==
    ASSUME Shapes, NEW t \in Threads, CasReturns(t) \/ RcuPrev(t)
    PROVE  Typed
<1> /\ op \in [Threads -> OpType] /\ ld \in [Threads -> LoadType]
  BY DEF Shapes
<1>1. /\ wr[t].old \in Ptrs /\ wr[t].debt \in GuardDebts /\ op[t].cur \in Ptrs
      /\ op[t].debt \in GuardDebts
  BY Fields
<1>2. CASE CasReturns(t)
  BY <1>1, <1>2, FinishTypes, PieceTypes DEF CasReturns, GiveGuard, Typed, Shapes
<1>3. CASE UNCHANGED guards /\ FullReference(t, wr[t].old)
  BY <1>1, <1>3, FullTypes
<1>4. CASE /\ ld' = [ld EXCEPT ![t].ptr = wr[t].old, ![t].debt = wr[t].debt]
           /\ wr' = [wr EXCEPT ![t] = NoWrite]
           /\ Goto(t, "in_inc")
           /\ UNCHANGED <<op, owned, guards>>
  <2>1. "in_inc" \in HybridLabels
    BY DEF HybridLabels
  <2>2. [ld EXCEPT ![t].ptr = wr[t].old, ![t].debt = wr[t].debt] \in [Threads -> LoadType]
    BY <1>1, LoadFields, DebtFacts
  <2> QED
    BY <1>4, <2>1, <2>2, PieceTypes DEF Goto, Typed, Shapes
<1>5. CASE RcuRetry(t)
  <2>1. [op EXCEPT ![t].kind = "rcu_retry", ![t].new = NULL,
                   ![t].cur = wr[t].old, ![t].debt = wr[t].debt] \in [Threads -> OpType]
    <3>1. "rcu_retry" \in OpKinds /\ NULL \in Ptrs
      BY Consts DEF OpKinds
    <3> QED
      BY <1>1, <3>1, OpFields, ZenonT(60)
  <2>2. pc' \in [Threads -> HybridLabels] /\ ld' \in [Threads -> LoadType]
    BY <1>1, <1>5, DropTypes DEF RcuRetry
  <2> QED
    BY <1>5, <2>1, <2>2, PieceTypes DEF RcuRetry, Typed, Shapes
<1> QED
  BY <1>2, <1>3, <1>4, <1>5 DEF RcuPrev, RcuSwapped

\* The pay of a debt keeps the types of the slots.
LEMMA PayTypes ==
    ASSUME Shapes, NEW t \in Threads, NEW d, d[1] \in Nodes, d[2] \in SlotIds,
           slots' = [slots EXCEPT ![d[1]][d[2]] = NONE] \/ UNCHANGED slots
    PROVE  slots' \in [Nodes -> [SlotIds -> Ptrs \cup {NONE}]]
<1>1. slots \in [Nodes -> [SlotIds -> Ptrs \cup {NONE}]]
  BY DEF Shapes
<1>2. [slots EXCEPT ![d[1]][d[2]] = NONE] \in [Nodes -> [SlotIds -> Ptrs \cup {NONE}]]
  BY SlotTypes
<1> QED
  BY <1>1, <1>2

\* A thread that converts or drops a protection has a debt to look at.
LEMMA DebtAtHand ==
    ASSUME Shapes, NEW t \in Threads, Local(t), pc[t] \in IntoInnerLabels \cup {"gd_pay"}
    PROVE  /\ ld[t].debt[1] \in Nodes /\ ld[t].debt[2] \in SlotIds
           /\ ld[t].debt[2] # HelpingSlot => ld[t].debt \in FastDebts
<1>1. ld[t].debt # NoDebt /\ ld[t].debt \in AllDebts
  BY Fields, DebtFacts DEF Local, Registers
<1>2. ld[t].debt[1] \in Nodes /\ ld[t].debt[2] \in SlotIds
  BY <1>1, DebtFacts
<1>3. ld[t].debt[2] # HelpingSlot => ld[t].debt \in FastDebts
  BY <1>1, Consts DEF AllDebts, FastDebts
<1> QED
  BY <1>2, <1>3

\* The steps that use the result of a load, and those that end calls.
LEMMA ResultShapes ==
    ASSUME ListInv, HelpInv, NEW t \in Threads, ResultStep(t), UNCHANGED listVars
    PROVE  Shapes'
<1> Shape /\ Locals /\ Shapes /\ Instances /\ Local(t)
  BY DEF ListInv, HelpInv
<1>1. UNCHANGED <<helpVars, localVars>>
  BY DEF ResultStep, IntoInnerInc, IntoInnerPay, IntoInnerDec, GuardDropPay, GuardDropDec,
         ReturnGuard, ReturnFull, ReturnCas, ReturnRcu, RcuApply, CasExchange, CasDec,
         CasDropNew, PayAllDec, OldDec
<1>2. SUFFICES /\ slots' \in [Nodes -> [SlotIds -> Ptrs \cup {NONE}]]
               /\ storage' \in [Storages -> Ptrs \cup {Dead}]
               /\ strong' \in [Addrs -> Int]
               /\ Typed
  BY <1>1 DEF Shapes, Typed, helpVars, localVars
<1>3. /\ slots \in [Nodes -> [SlotIds -> Ptrs \cup {NONE}]]
      /\ storage \in [Storages -> Ptrs \cup {Dead}]
      /\ strong \in [Addrs -> Int]
  BY DEF Shapes
<1>4. strong' \in [Addrs -> Int]
  <2>1. CASE RcuApply(t)
    BY <2>1, ArgumentType DEF RcuApply
  <2>2. CASE ~RcuApply(t)
    <3>1. UNCHANGED strong \/ (\E p : strong' = Dec(strong, p)) \/ (\E p : strong' = Inc(strong, p))
      BY <2>2 DEF ResultStep, IntoInnerInc, IntoInnerPay, IntoInnerDec, GuardDropPay,
         GuardDropDec,
         ReturnGuard, ReturnFull, ReturnCas, ReturnRcu, CasExchange, CasDec, CasDropNew,
         PayAllDec, OldDec
    <3> QED
      BY <1>3, <3>1, CountTypes
  <2> QED
    BY <2>1, <2>2
<1>5. CASE IntoInnerInc(t)
  <2>1. "in_pay" \in HybridLabels
    BY DEF HybridLabels
  <2>2. Typed
    BY <1>5, <2>1, PieceTypes DEF IntoInnerInc, Goto, Typed, Shapes
  <2> QED
    BY <1>3, <1>4, <1>5, <2>2 DEF IntoInnerInc
<1>6. CASE IntoInnerPay(t)
  <2>1. "in_dec" \in HybridLabels
    BY DEF HybridLabels
  <2>2. slots' \in [Nodes -> [SlotIds -> Ptrs \cup {NONE}]]
    <3>1. ld[t].debt[1] \in Nodes /\ ld[t].debt[2] \in SlotIds
      BY <1>6, DebtAtHand DEF IntoInnerPay, IntoInnerLabels
    <3> QED
      BY <1>6, <3>1, PayTypes DEF IntoInnerPay, Pay
  <2>3. CASE IntoInnerDone(t)
    BY <1>3, <1>4, <1>6, <2>2, <2>3, InnerTypes DEF IntoInnerPay
  <2>4. CASE Goto(t, "in_dec") /\ UNCHANGED <<op, ld, wr, owned>>
    <3>1. Typed
      BY <1>6, <2>1, <2>4, PieceTypes DEF IntoInnerPay, Goto, Typed, Shapes
    <3> QED
      BY <1>3, <1>4, <1>6, <2>2, <3>1 DEF IntoInnerPay
  <2> QED
    BY <1>6, <2>3, <2>4 DEF IntoInnerPay, Pay
<1>7. CASE IntoInnerDec(t)
  BY <1>3, <1>4, <1>7, InnerTypes DEF IntoInnerDec
<1>8. CASE GuardDropPay(t)
  <2>1. "gd_dec" \in HybridLabels
    BY DEF HybridLabels
  <2>2. slots' \in [Nodes -> [SlotIds -> Ptrs \cup {NONE}]]
    <3>1. ld[t].debt[1] \in Nodes /\ ld[t].debt[2] \in SlotIds
      BY <1>8, DebtAtHand DEF GuardDropPay
    <3> QED
      BY <1>8, <3>1, PayTypes DEF GuardDropPay, Pay
  <2>3. CASE GuardDropDone(t)
    BY <1>3, <1>4, <1>8, <2>2, <2>3, DropDoneTypes DEF GuardDropPay
  <2>4. CASE Goto(t, "gd_dec") /\ UNCHANGED <<op, ld, wr, owned>>
    <3>1. Typed
      BY <1>8, <2>1, <2>4, PieceTypes DEF GuardDropPay, Goto, Typed, Shapes
    <3> QED
      BY <1>3, <1>4, <1>8, <2>2, <3>1 DEF GuardDropPay
  <2> QED
    BY <1>8, <2>3, <2>4 DEF GuardDropPay, Pay
<1>9. CASE GuardDropDec(t)
  BY <1>3, <1>4, <1>9, DropDoneTypes DEF GuardDropDec
<1>10. CASE ReturnGuard(t)
  <2>1. ld[t].ptr \in Ptrs /\ ld[t].debt \in GuardDebts
    BY <1>10, Fields DEF ReturnGuard, Local, Registers
  <2>2. Typed
    BY <1>10, <2>1, FinishTypes, PieceTypes DEF ReturnGuard, GiveGuard, Typed, Shapes
  <2> QED
    BY <1>3, <1>4, <1>10, <2>2 DEF ReturnGuard
<1>11. CASE ReturnFull(t)
  <2>1. "in_inc" \in HybridLabels /\ ld[t].ptr \in Ptrs
    BY Fields DEF HybridLabels
  <2>2. CASE FullReference(t, ld[t].ptr)
    BY <1>3, <1>4, <1>11, <2>1, <2>2, FullTypes DEF ReturnFull
  <2>3. CASE Goto(t, "in_inc") /\ UNCHANGED <<op, ld, wr, owned>>
    <3>1. Typed
      BY <1>11, <2>1, <2>3, PieceTypes DEF ReturnFull, Goto, Typed, Shapes
    <3> QED
      BY <1>3, <1>4, <1>11, <3>1 DEF ReturnFull
  <2> QED
    BY <1>11, <2>2, <2>3 DEF ReturnFull
<1>12. CASE ReturnCas(t)
  <2>1. ld[t].ptr \in Ptrs /\ ld[t].debt \in GuardDebts
    BY <1>12, Fields DEF ReturnCas, Local, Registers
  <2>2. [wr EXCEPT ![t].old = ld[t].ptr, ![t].debt = ld[t].debt] \in [Threads -> WriteType]
    <3>1. wr \in [Threads -> WriteType]
      BY DEF Shapes
    <3> QED
      BY <2>1, <3>1, WriteFields
  <2>3. "cas_x" \in HybridLabels /\ "cas_drop_new" \in HybridLabels
    BY DEF HybridLabels
  <2>4. Typed
    <3>1. pc' \in [Threads -> HybridLabels]
      BY <1>12, <2>3, PieceTypes DEF ReturnCas, Goto
    <3>2. ld' \in [Threads -> LoadType] /\ wr' \in [Threads -> WriteType]
      BY <1>12, <2>2, PieceTypes DEF ReturnCas
    <3> QED
      BY <1>12, <3>1, <3>2 DEF ReturnCas, Typed, Shapes
  <2> QED
    BY <1>3, <1>4, <1>12, <2>4 DEF ReturnCas
<1>13. CASE ReturnRcu(t)
  <2>1. ld[t].ptr \in Ptrs /\ ld[t].debt \in GuardDebts
    BY <1>13, Fields DEF ReturnRcu, Local, Registers
  <2>2. [op EXCEPT ![t].cur = ld[t].ptr, ![t].debt = ld[t].debt] \in [Threads -> OpType]
    BY <2>1, OpFields DEF Shapes
  <2>3. "rcu_f" \in HybridLabels
    BY DEF HybridLabels
  <2>4. Typed
    BY <1>13, <2>2, <2>3, PieceTypes DEF ReturnRcu, Goto, Typed, Shapes
  <2> QED
    BY <1>3, <1>4, <1>13, <2>4 DEF ReturnRcu
<1>14. CASE RcuApply(t)
  <2>1. PICK new \in Ptrs : op' = [op EXCEPT ![t].kind = "rcu", ![t].new = new]
    BY <1>14 DEF RcuApply
  <2>2. "rcu" \in OpKinds
    BY DEF OpKinds
  <2>3. op' \in [Threads -> OpType]
    BY <2>1, <2>2, OpFields DEF Shapes
  <2>4. LoadEntry \in HybridLabels
    BY DEF LoadEntry, HybridLabels, DebtLabels
  <2>5. Typed
    BY <1>14, <2>3, <2>4, PieceTypes DEF RcuApply, BeginLoad, Goto, Typed, Shapes
  <2> QED
    BY <1>3, <1>4, <1>14, <2>5 DEF RcuApply
<1>15. CASE CasExchange(t)
  <2>1. "pa_inc" \in HybridLabels
    BY DEF HybridLabels, DebtLabels
  <2>2. CASE /\ storage' = [storage EXCEPT ![op[t].s] = op[t].new]
             /\ op' = [op EXCEPT ![t].new = NULL]
             /\ Goto(t, "pa_inc")
             /\ UNCHANGED <<ld, wr>>
    <3>1. [op EXCEPT ![t].new = NULL] \in [Threads -> OpType]
      BY OpFields, Consts DEF Shapes
    <3>2. storage' \in [Storages -> Ptrs \cup {Dead}]
      BY <1>3, <2>2, Fields
    <3>3. Typed
      BY <1>15, <2>1, <2>2, <3>1, PieceTypes DEF CasExchange, Goto, Typed, Shapes
    <3> QED
      BY <1>3, <1>4, <1>15, <3>2, <3>3 DEF CasExchange
  <2>3. CASE /\ BeginGuardDrop(t, Guard(wr[t].old, wr[t].debt))
             /\ wr' = [wr EXCEPT ![t] = NoWrite]
             /\ UNCHANGED <<op, storage>>
    <3>1. pc' \in [Threads -> HybridLabels] /\ ld' \in [Threads -> LoadType]
      BY <2>3, DropTypes, Fields
    <3>2. Typed
      BY <1>15, <2>3, <3>1, PieceTypes DEF CasExchange, Typed, Shapes
    <3> QED
      BY <1>3, <1>4, <1>15, <2>3, <3>2 DEF CasExchange
  <2> QED
    BY <1>15, <2>2, <2>3 DEF CasExchange
<1>16. CASE CasDec(t) \/ CasDropNew(t)
  BY <1>3, <1>4, <1>16, CasTypes DEF CasDec, CasDropNew
<1>17. CASE PayAllDec(t)
  <2>1. "old_dec" \in HybridLabels /\ "cas_dec" \in HybridLabels
    BY DEF HybridLabels
  <2>2. storage' \in [Storages -> Ptrs \cup {Dead}]
    BY <1>3, <1>17 DEF PayAllDec
  <2>3. CASE Finish(t) /\ owned' = Inc(owned, wr[t].old)
    <3>1. Typed
      BY <1>17, <2>3, FinishTypes, PieceTypes DEF PayAllDec, Typed, Shapes
    <3> QED
      BY <1>3, <1>4, <1>17, <2>2, <3>1 DEF PayAllDec
  <2>4. CASE /\ Goto(t, "old_dec") \/ Goto(t, "cas_dec")
             /\ UNCHANGED <<op, ld, wr, storage, owned>>
    <3>1. pc' \in [Threads -> HybridLabels]
      BY <2>1, <2>4, PieceTypes DEF Goto
    <3>2. UNCHANGED guards
      BY <1>17 DEF PayAllDec
    <3>3. Typed
      BY <2>4, <3>1, <3>2 DEF Typed, Shapes
    <3> QED
      BY <1>3, <1>4, <1>17, <2>2, <3>3 DEF PayAllDec
  <2> QED
    BY <1>17, <2>3, <2>4 DEF PayAllDec
<1>18. CASE OldDec(t)
  <2>1. Typed
    BY <1>18, FinishTypes DEF OldDec, Typed, Shapes
  <2>2. storage' \in [Storages -> Ptrs \cup {Dead}]
    BY <1>3, <1>18 DEF OldDec
  <2> QED
    BY <1>3, <1>4, <1>18, <2>1, <2>2 DEF OldDec
<1> QED
  BY <1>5, <1>6, <1>7, <1>8, <1>9, <1>10, <1>11, <1>12, <1>13, <1>14, <1>15, <1>16, <1>17,
     <1>18
     DEF ResultStep

-----------------------------------------------------------------------------
(* Types: help and pay_all.                                                  *)

\* What help does next, by the control word it has seen.
LEMMA MatchTypes ==
    ASSUME Shapes, NEW t \in Threads, NEW c \in Controls, HelpMatch(t, c)
    PROVE  pc' \in [Threads -> HybridLabels] /\ wr' \in [Threads -> WriteType]
<1>1. "hp_addr" \in HybridLabels /\ "pa_slot" \in HybridLabels
  BY DEF HybridLabels, DebtLabels
<1>2. /\ IDLE \in Controls /\ NULL \in Ptrs /\ NoNode \in Nodes \cup {NoNode}
      /\ 1 \in 0 .. SlotCnt + 1
  BY ControlFacts, Consts
<1>3. wr \in [Threads -> WriteType]
  BY DEF Shapes
<1>4. [wr EXCEPT ![t].ctl = c, ![t].repl = NULL, ![t].env = NoNode] \in [Threads -> WriteType]
  BY <1>2, <1>3, WriteFields
<1>5. [wr EXCEPT ![t].ctl = IDLE, ![t].repl = NULL, ![t].env = NoNode, ![t].idx = 1]
         \in [Threads -> WriteType]
  BY <1>2, <1>3, WriteFields
<1>6. CASE Tag(c) = GEN_TAG
  <2>1. /\ wr' = [wr EXCEPT ![t].ctl = c, ![t].repl = NULL, ![t].env = NoNode]
        /\ pc' = [pc EXCEPT ![t] = "hp_addr"]
    BY <1>6 DEF HelpMatch, Goto
  <2> QED
    BY <1>1, <1>4, <2>1, PieceTypes
<1>7. CASE Tag(c) # GEN_TAG
  <2>1. /\ wr' = [wr EXCEPT ![t].ctl = IDLE, ![t].repl = NULL, ![t].env = NoNode, ![t].idx = 1]
        /\ pc' = [pc EXCEPT ![t] = "pa_slot"]
    BY <1>7 DEF HelpMatch, Goto
  <2> QED
    BY <1>1, <1>5, <2>1, PieceTypes
<1> QED
  BY <1>6, <1>7

\* The steps of help keep the types.
LEMMA HelpShapes ==
    ASSUME ListInv, HelpInv, NEW t \in Threads, HelpStep(t),
           UNCHANGED <<listVars, storage, guards, owned>>
    PROVE  Shapes'
<1> Shape /\ Locals /\ Shapes /\ Instances /\ Local(t)
  BY DEF ListInv, HelpInv
<1>1. UNCHANGED <<slots, active_addr, localVars, op, ld>>
  BY DEF HelpStep, HelpControl, HelpAddr, HelpReconfirm, HelpTheirSpace, HelpStore, HelpCas,
         HelpDrop, HelpOffer, helpVars
<1>2. SUFFICES /\ control' \in [Nodes -> Controls]
               /\ handover' \in [Nodes -> Ptrs]
               /\ space_offer' \in [Nodes -> Nodes]
               /\ pc' \in [Threads -> HybridLabels]
               /\ wr' \in [Threads -> WriteType]
               /\ strong' \in [Addrs -> Int]
  BY <1>1 DEF Shapes, localVars
<1>3. /\ control \in [Nodes -> Controls]
      /\ handover \in [Nodes -> Ptrs]
      /\ space_offer \in [Nodes -> Nodes]
      /\ pc \in [Threads -> HybridLabels]
      /\ wr \in [Threads -> WriteType]
      /\ strong \in [Addrs -> Int]
  BY DEF Shapes
<1>4. pc[t] \in VisitLabels /\ cursor[t] \in Nodes /\ node[t] \in Nodes
  <2>1. pc[t] \in VisitLabels
    BY DEF HelpStep, HelpControl, HelpAddr, HelpReconfirm, HelpTheirSpace, HelpStore,
       HelpCas,
           HelpDrop, HelpOffer, VisitLabels
  <2> QED
    BY <2>1, AtHand
<1>5. wr[t].ctl \in Controls /\ control[cursor[t]] \in Controls /\ IDLE \in Controls
  BY <1>3, <1>4, Fields, ControlFacts
<1>6. CASE HelpControl(t)
  BY <1>3, <1>5, <1>6, MatchTypes DEF HelpControl, helpVars
<1>7. CASE HelpReconfirm(t)
  <2>1. PICK c \in Controls : HelpMatch(t, c)
    BY <1>5, <1>7 DEF HelpReconfirm
  <2> QED
    BY <1>3, <1>7, <2>1, MatchTypes DEF HelpReconfirm, helpVars
<1>8. CASE HelpAddr(t)
  <2>1. LoadEntry \in HybridLabels /\ "hp_reconf" \in HybridLabels
    BY DEF LoadEntry, HybridLabels, DebtLabels
  <2>2. pc' \in [Threads -> HybridLabels]
    BY <1>8, <2>1, PieceTypes DEF HelpAddr, Goto
  <2> QED
    BY <1>3, <1>8, <2>2 DEF HelpAddr, helpVars
<1>9. CASE HelpTheirSpace(t)
  <2>1. "hp_store" \in HybridLabels
    BY DEF HybridLabels, DebtLabels
  <2>2. [wr EXCEPT ![t].env = space_offer[cursor[t]]] \in [Threads -> WriteType]
    BY <1>3, <1>4, WriteFields
  <2> QED
    BY <1>3, <1>9, <2>1, <2>2, PieceTypes DEF HelpTheirSpace, Goto, helpVars
<1>10. CASE HelpStore(t)
  <2>1. "hp_cas" \in HybridLabels
    BY DEF HybridLabels, DebtLabels
  <2>2. handover' \in [Nodes -> Ptrs]
    BY <1>3, <1>10, Fields DEF HelpStore
  <2> QED
    BY <1>3, <1>10, <2>1, <2>2, PieceTypes DEF HelpStore, Goto
<1>11. CASE HelpCas(t)
  <2>1. "hp_offer" \in HybridLabels /\ "hp_drop" \in HybridLabels
    BY DEF HybridLabels, DebtLabels
  <2>2. /\ [wr EXCEPT ![t].repl = NULL] \in [Threads -> WriteType]
        /\ [wr EXCEPT ![t].ctl = control[cursor[t]]] \in [Threads -> WriteType]
    <3>1. NULL \in Ptrs
      BY Consts
    <3> QED
      BY <1>3, <1>5, <3>1, WriteFields
  <2>3. REPLACEMENT(space_offer[node[t]]) \in Controls
    BY <1>3, <1>4, ControlFacts
  <2>4. control' \in [Nodes -> Controls]
    BY <1>3, <1>11, <2>3 DEF HelpCas
  <2>5. pc' \in [Threads -> HybridLabels] /\ wr' \in [Threads -> WriteType]
    BY <1>11, <2>1, <2>2, PieceTypes DEF HelpCas, Goto
  <2> QED
    BY <1>3, <1>11, <2>4, <2>5 DEF HelpCas
<1>12. CASE HelpDrop(t)
  <2>1. strong' \in [Addrs -> Int]
    BY <1>3, <1>12, CountTypes DEF HelpDrop
  <2> QED
    BY <1>3, <1>5, <1>12, <2>1, MatchTypes DEF HelpDrop, helpVars
<1>13. CASE HelpOffer(t)
  <2>1. space_offer' \in [Nodes -> Nodes]
    BY <1>3, <1>13 DEF HelpOffer, Local, Registers
  <2> QED
    BY <1>3, <1>5, <1>13, <2>1, MatchTypes DEF HelpOffer
<1> QED
  BY <1>6, <1>7, <1>8, <1>9, <1>10, <1>11, <1>12, <1>13 DEF HelpStep

\* The steps of pay_all and those on the list.
LEMMA OtherShapes ==
    ASSUME ListInv, HelpInv, NEW t \in Threads,
           \/ PayStep(t) /\ UNCHANGED <<listVars, storage, guards, owned>>
           \/ WalkStep(t) /\ UNCHANGED <<storage, guards, owned>>
           \/ NodeOnly(t)
    PROVE  Shapes'
<1> Shape /\ Locals /\ Shapes /\ Instances /\ Local(t)
  BY DEF ListInv, HelpInv
<1>1. CASE NodeOnly(t)
  <2>1. UNCHANGED <<strong, slots, helpVars, pc, op, ld, wr, storage, guards, owned>>
    BY <1>1 DEF NodeOnly, NodeStep, TmpNodeDrop, ExitStep, debtVars
  <2>2. UNCHANGED localVars \/ (generation' = [generation EXCEPT ![t] = 0] /\ offset' = [offset EXCEPT ![t] = 0])
    BY <1>1 DEF NodeOnly, NodeStep, TmpNodeDrop, ExitStep, debtVars
  <2>3. 0 \in Generations /\ 0 \in 0 .. SlotCnt
    <3>1. 0 \in 0 .. GenMod - 1 /\ 0 = 4 * 0
      BY SlotAssumption
    <3> QED
      BY <3>1, Consts DEF Generations
  <2>4. generation' \in [Threads -> Generations] /\ offset' \in [Threads -> 0 .. SlotCnt]
    BY <2>2, <2>3, ZenonT(60) DEF localVars, Shapes
  <2> QED
    BY <2>1, <2>4 DEF Shapes, helpVars
<1>2. CASE WalkStep(t) /\ UNCHANGED <<storage, guards, owned>>
  <2>1. UNCHANGED <<strong, slots, helpVars, localVars, op, ld, wr>>
    BY <1>2 DEF WalkStep, PayAllWalk, PayAllReserve, PayAllRelease
  <2>2. pc' \in [Threads -> HybridLabels]
    BY <1>2, ZenonT(60) DEF WalkStep, PayAllWalk, PayAllReserve, PayAllRelease, Goto, Shapes,
       HybridLabels, DebtLabels
  <2> QED
    BY <1>2, <2>1, <2>2 DEF Shapes, helpVars, localVars
<1>3. CASE PayStep(t) /\ UNCHANGED <<listVars, storage, guards, owned>>
  <2>1. UNCHANGED <<helpVars, localVars, op, ld>>
    BY <1>3 DEF PayStep, PayAllInc, PayAllSlot, PayAllIncMore
  <2>2. /\ "pa_walk" \in HybridLabels /\ "pa_inc2" \in HybridLabels
        /\ "pa_release" \in HybridLabels
        /\ "pa_slot" \in HybridLabels
    BY DEF HybridLabels, DebtLabels
  <2>3. pc' \in [Threads -> HybridLabels]
    BY <1>3, <2>2, PieceTypes DEF PayStep, PayAllInc, PayAllSlot, PayAllIncMore, Pay,
       NextSlot, Goto
  <2>4. wr' \in [Threads -> WriteType]
    <3>1. wr \in [Threads -> WriteType] /\ [wr EXCEPT ![t].idx = 0] \in [Threads -> WriteType]
      <4>1. wr \in [Threads -> WriteType] /\ 0 \in 0 .. SlotCnt + 1
        BY Consts DEF Shapes
      <4> QED
        BY <4>1, WriteFields
    <3>2. ~(wr[t].idx > SlotCnt) => wr[t].idx + 1 \in 0 .. SlotCnt + 1
      BY Fields, Consts
    <3>3. ~(wr[t].idx > SlotCnt) => [wr EXCEPT ![t].idx = wr[t].idx + 1] \in [Threads -> WriteType]
      BY <3>1, <3>2, WriteFields
    <3> QED
      BY <1>3, <3>1, <3>3 DEF PayStep, PayAllInc, PayAllSlot, PayAllIncMore, Pay, NextSlot
  <2>5. strong' \in [Addrs -> Int]
    BY <1>3, CountTypes DEF PayStep, PayAllInc, PayAllSlot, PayAllIncMore, Shapes
  <2>6. slots' \in [Nodes -> [SlotIds -> Ptrs \cup {NONE}]]
    <3>1. CASE PayAllSlot(t)
      <4>1. cursor[t] \in Nodes
        BY <3>1, AtHand DEF PayAllSlot, VisitLabels
      <4>2. NthSlot(wr[t].idx) \in SlotIds
        BY <3>1, Fields, Consts DEF NthSlot
      <4> QED
        BY <3>1, <4>1, <4>2, PayTypes DEF PayAllSlot, Pay
    <3>2. CASE PayAllInc(t) \/ PayAllIncMore(t)
      BY <3>2 DEF PayAllInc, PayAllIncMore, Shapes
    <3> QED
      BY <1>3, <3>1, <3>2 DEF PayStep
  <2> QED
    BY <1>3, <2>1, <2>3, <2>4, <2>5, <2>6 DEF Shapes, helpVars, localVars
<1> QED
  BY <1>1, <1>2, <1>3

\* Every step keeps the types.
LEMMA NextShapes ==
    ASSUME ListInv, HelpInv, NEW t \in Threads, Acts(t)
    PROVE  Shapes'
<1> Shapes
  BY DEF HelpInv
<1> QED
  BY CallShapes, ReadShapes, ResultShapes, HelpShapes, OtherShapes DEF Acts

-----------------------------------------------------------------------------
(* What a thread has at hand: loads.                                         *)

\* The steps of a load keep what the thread has at hand.
LEMMA ReadLocal ==
    ASSUME ListInv, HelpInv, NoWrap, NEW t \in Threads, ReadStep(t),
           UNCHANGED <<listVars, storage, guards, owned>>
    PROVE  Local(t)'
<1> USE DEF InHelp, LoadSteps, LoadLabels, IntoInnerLabels, VisitLabels, OpenLabels,
   HelpedLabels, LoadEntry, Protection, NoLoad
<1> Shape /\ Locals /\ Shapes /\ Instances /\ Local(t)
  BY DEF ListInv, HelpInv
<1>0. /\ lpc'[t] = lpc[t] /\ node'[t] = node[t] /\ op'[t] = op[t] /\ wr'[t] = wr[t]
  BY DEF ReadStep, AttemptLoad, FastScan, FastTake, AttemptConfirm, AttemptPay,
         HelpingAnnounce, HelpingOpen, FallbackCandidate, ConfirmSlot, ConfirmControl,
         ConfirmHandover, ConfirmSpace, FallbackUnpay, FallbackUndec, Pay, listVars
<1>1. CASE AttemptLoad(t)
  <2>1. Places(t)'
    BY <1>0, <1>1, Consts DEF Local, Places, NoWrap, Locals, AttemptLoad, Goto, Shapes
  <2>2. Calls(t)'
    BY <1>0, <1>1, Consts DEF Local, Calls, Converts, Waiting, AttemptLoad, Goto, Shapes
  <2>3. Pointers(t)'
    BY <1>0, <1>1, Consts DEF Local, Pointers, Calls, Converts, Waiting, InCas,
       AttemptLoad, Goto, Shapes
  <2>4. Registers(t)'
    BY <1>0, <1>1, Fields, Consts, DebtFacts, AtHand DEF Local, Registers, Places,
       Converts, AttemptLoad, Goto, Shapes
  <2> QED
    BY <2>1, <2>2, <2>3, <2>4 DEF Local
<1>2. CASE FastScan(t)
  <2>1. Places(t)'
    BY <1>0, <1>2, Consts DEF Local, Places, NoWrap, FastScan, Goto, Shapes
  <2>2. Calls(t)'
    BY <1>0, <1>2, Consts DEF Local, Calls, Converts, Waiting, FastScan, Goto, Shapes
  <2>3. Pointers(t)'
    BY <1>0, <1>2, Consts DEF Local, Pointers, Calls, Converts, Waiting, InCas, FastScan,
       Goto, Shapes
  <2>4. Registers(t)'
    <3>1. ld[t].idx \in 0 .. SlotCnt - 1 /\ offset[t] \in 0 .. SlotCnt
      <4>1. ld[t].idx \in 0 .. SlotCnt /\ ld[t].idx < SlotCnt /\ offset[t] \in 0 .. SlotCnt
        BY <1>2, Fields DEF FastScan, Local, Registers, Shapes
      <4> QED
        BY <4>1, Consts
    <3>2. ((ld[t].idx + offset[t]) % SlotCnt) + 1 \in 1 .. SlotCnt
      <4>1. ld[t].idx \in Nat /\ offset[t] \in Nat
        BY <3>1
      <4> QED
        BY <4>1, RoundRobin
    <3>3. CASE pc'[t] = "take" /\ ld' = [ld EXCEPT ![t].idx = ((ld[t].idx + offset[t]) % SlotCnt) + 1]
      BY <1>0, <1>2, <3>2, <3>3, Consts DEF Local, Registers, FastScan, Shapes
    <3>4. CASE pc' = pc /\ ld[t].idx + 1 < SlotCnt /\ ld' = [ld EXCEPT ![t].idx = @ + 1]
      BY <1>0, <1>2, <3>1, <3>4, Consts DEF Local, Registers, FastScan, Shapes
    <3>5. CASE pc'[t] = "fb_addr" /\ ld'[t] = NoLoad
      BY <1>0, <1>2, <3>5, Consts DEF Local, Registers, FastScan
    <3> QED
      BY <1>2, <3>3, <3>4, <3>5 DEF FastScan, Goto, Shapes
  <2> QED
    BY <2>1, <2>2, <2>3, <2>4 DEF Local
<1>3. CASE FastTake(t)
  <2>1. Places(t)'
    BY <1>0, <1>3, Consts DEF Local, Places, NoWrap, FastTake, Goto, Shapes
  <2>2. Calls(t)'
    BY <1>0, <1>3, Consts DEF Local, Calls, Converts, Waiting, FastTake, Goto, Shapes
  <2>3. Pointers(t)'
    BY <1>0, <1>3, Consts DEF Local, Pointers, Calls, Converts, Waiting, InCas, FastTake,
       Goto, Shapes
  <2>4. Registers(t)'
    <3>1. <<node[t], ld[t].idx>> \in FastDebts
      BY <1>3, Fields, AtHand, Consts DEF FastTake, Local, Registers, FastDebts
    <3>2. pc'[t] = "ld_confirm" /\ ld'[t].debt = <<node[t], ld[t].idx>>
      BY <1>3 DEF FastTake, Goto, Shapes
    <3> QED
      BY <1>0, <1>3, <3>1, <3>2 DEF Local, Registers, FastTake
  <2> QED
    BY <2>1, <2>2, <2>3, <2>4 DEF Local
<1>4. CASE AttemptConfirm(t)
  <2>1. Places(t)'
    BY <1>0, <1>4, Consts DEF Local, Places, NoWrap, AttemptConfirm, LoadReturns, Goto,
       Shapes
  <2>2. Calls(t)'
    BY <1>0, <1>4, Consts DEF Local, Calls, Converts, Waiting, AttemptConfirm, LoadReturns,
       Goto, Shapes
  <2>3. Pointers(t)'
    BY <1>0, <1>4, Consts DEF Local, Pointers, Calls, Converts, Waiting, InCas,
       AttemptConfirm, LoadReturns, Goto, Shapes
  <2>4. Registers(t)'
    BY <1>0, <1>4, Fields, Consts, DebtFacts, AtHand DEF Local, Registers, Places,
       Converts, AttemptConfirm, LoadReturns, Goto, Shapes
  <2> QED
    BY <2>1, <2>2, <2>3, <2>4 DEF Local
<1>5. CASE AttemptPay(t)
  <2>1. Places(t)'
    BY <1>0, <1>5, Consts DEF Local, Places, NoWrap, AttemptPay, LoadReturns, Pay, Goto,
       Shapes
  <2>2. Calls(t)'
    BY <1>0, <1>5, Consts DEF Local, Calls, Converts, Waiting, AttemptPay, LoadReturns,
       Pay, Goto, Shapes
  <2>3. Pointers(t)'
    BY <1>0, <1>5, Consts DEF Local, Pointers, Calls, Converts, Waiting, InCas, AttemptPay,
       LoadReturns, Pay, Goto, Shapes
  <2>0. /\ pc[t] = "ld_pay" /\ op' = op /\ wr' = wr /\ lpc' = lpc /\ node' = node
        /\ \/ pc'[t] = "ret" /\ ld'[t] = Protection(ld[t].ptr, NoDebt)
           \/ pc'[t] = "fb_addr" /\ ld'[t] = NoLoad
    BY <1>5 DEF AttemptPay, LoadReturns, Pay, Goto, Shapes, listVars
  <2>4. Registers(t)'
    BY <1>0, <2>0, Fields, Consts, DebtFacts, AtHand DEF Local, Registers, Places, Converts
  <2> QED
    BY <2>1, <2>2, <2>3, <2>4 DEF Local
<1>6. CASE HelpingAnnounce(t)
  <2>1. Places(t)'
    BY <1>0, <1>6, Consts DEF Local, Places, NoWrap, Locals, HelpingAnnounce, Goto, Shapes
  <2>2. Calls(t)'
    BY <1>0, <1>6, Consts DEF Local, Calls, Converts, Waiting, HelpingAnnounce, Goto, Shapes
  <2>3. Pointers(t)'
    BY <1>0, <1>6, Consts DEF Local, Pointers, Calls, Converts, Waiting, InCas,
       HelpingAnnounce, Goto, Shapes
  <2>4. Registers(t)'
    BY <1>0, <1>6, Fields, Consts, DebtFacts, AtHand DEF Local, Registers, Places,
       Converts, HelpingAnnounce, Goto, Shapes
  <2> QED
    BY <2>1, <2>2, <2>3, <2>4 DEF Local
<1>7. CASE HelpingOpen(t)
  <2>1. Places(t)'
    BY <1>0, <1>7, Consts DEF Local, Places, NoWrap, HelpingOpen, Goto, Shapes
  <2>2. Calls(t)'
    BY <1>0, <1>7, Consts DEF Local, Calls, Converts, Waiting, HelpingOpen, Goto, Shapes
  <2>3. Pointers(t)'
    BY <1>0, <1>7, Consts DEF Local, Pointers, Calls, Converts, Waiting, InCas,
       HelpingOpen, Goto, Shapes
  <2>4. Registers(t)'
    BY <1>0, <1>7, Fields, Consts, DebtFacts, AtHand DEF Local, Registers, Places,
       Converts, HelpingOpen, Goto, Shapes
  <2> QED
    BY <2>1, <2>2, <2>3, <2>4 DEF Local
<1>8. CASE FallbackCandidate(t)
  <2>1. Places(t)'
    BY <1>0, <1>8, Consts DEF Local, Places, NoWrap, FallbackCandidate, Goto, Shapes
  <2>2. Calls(t)'
    BY <1>0, <1>8, Consts DEF Local, Calls, Converts, Waiting, FallbackCandidate, Goto,
       Shapes
  <2>3. Pointers(t)'
    BY <1>0, <1>8, Consts DEF Local, Pointers, Calls, Converts, Waiting, InCas,
       FallbackCandidate, Goto, Shapes
  <2>4. Registers(t)'
    BY <1>0, <1>8, Fields, Consts, DebtFacts, AtHand DEF Local, Registers, Places,
       Converts, FallbackCandidate, Goto, Shapes
  <2> QED
    BY <2>1, <2>2, <2>3, <2>4 DEF Local
<1>9. CASE ConfirmSlot(t)
  <2>1. Places(t)'
    BY <1>0, <1>9, Consts DEF Local, Places, NoWrap, ConfirmSlot, Goto, Shapes
  <2>2. Calls(t)'
    BY <1>0, <1>9, Consts DEF Local, Calls, Converts, Waiting, ConfirmSlot, Goto, Shapes
  <2>3. Pointers(t)'
    BY <1>0, <1>9, Consts DEF Local, Pointers, Calls, Converts, Waiting, InCas,
       ConfirmSlot, Goto, Shapes
  <2>4. Registers(t)'
    BY <1>0, <1>9, Fields, Consts, DebtFacts, AtHand DEF Local, Registers, Places,
       Converts, ConfirmSlot, Goto, Shapes
  <2> QED
    BY <2>1, <2>2, <2>3, <2>4 DEF Local
<1>10. CASE ConfirmControl(t)
  <2>1. Places(t)'
    BY <1>0, <1>10, Consts DEF Local, Places, NoWrap, ConfirmControl, Goto, Shapes
  <2>2. Calls(t)'
    BY <1>0, <1>10, Consts DEF Local, Calls, Converts, Waiting, ConfirmControl, Goto, Shapes
  <2>3. Pointers(t)'
    BY <1>0, <1>10, Consts DEF Local, Pointers, Calls, Converts, Waiting, InCas,
       ConfirmControl, Goto, Shapes
  <2>4. Registers(t)'
    <3>1. pc[t] = "fb_confirm" /\ node[t] \in Nodes
      BY <1>10, AtHand DEF ConfirmControl, OpenLabels
    <3>2. control[node[t]] # GEN(generation[t]) => EnvelopeIn(control[node[t]]) \in Nodes
      BY <3>1, AnswerValid DEF OpenLabels
    <3>3. ld'[t].debt = <<node[t], HelpingSlot>> /\ <<node[t], HelpingSlot>> # NoDebt
      BY <1>10, <3>1, Consts DEF ConfirmControl, Shapes, NoDebt
    <3>4. \/ pc'[t] = "in_inc"
          \/ pc'[t] = "fb_hand" /\ ld'[t].env \in Nodes
      BY <1>10, <3>2 DEF ConfirmControl, Goto, Shapes
    <3>5. <<node[t], HelpingSlot>>[1] = node[t]
      OBVIOUS
    <3> QED
      BY <1>0, <3>1, <3>3, <3>4, <3>5 DEF Local, Registers
  <2> QED
    BY <2>1, <2>2, <2>3, <2>4 DEF Local
<1>11. CASE ConfirmHandover(t)
  <2>1. Places(t)'
    BY <1>0, <1>11, Consts DEF Local, Places, NoWrap, ConfirmHandover, Goto, Shapes
  <2>2. Calls(t)'
    BY <1>0, <1>11, Consts DEF Local, Calls, Converts, Waiting, ConfirmHandover, Goto,
       Shapes
  <2>3. Pointers(t)'
    BY <1>0, <1>11, Consts DEF Local, Pointers, Calls, Converts, Waiting, InCas,
       ConfirmHandover, Goto, Shapes
  <2>4. Registers(t)'
    BY <1>0, <1>11, Fields, Consts, DebtFacts, AtHand DEF Local, Registers, Places,
       Converts, ConfirmHandover, Goto, Shapes
  <2> QED
    BY <2>1, <2>2, <2>3, <2>4 DEF Local
<1>12. CASE ConfirmSpace(t)
  <2>1. Places(t)'
    BY <1>0, <1>12, Consts DEF Local, Places, NoWrap, ConfirmSpace, Goto, Shapes
  <2>2. Calls(t)'
    BY <1>0, <1>12, Consts DEF Local, Calls, Converts, Waiting, ConfirmSpace, Goto, Shapes
  <2>3. Pointers(t)'
    BY <1>0, <1>12, Consts DEF Local, Pointers, Calls, Converts, Waiting, InCas,
       ConfirmSpace, Goto, Shapes
  <2>4. Registers(t)'
    BY <1>0, <1>12, Fields, Consts, DebtFacts, AtHand DEF Local, Registers, Places,
       Converts, ConfirmSpace, Goto, Shapes
  <2> QED
    BY <2>1, <2>2, <2>3, <2>4 DEF Local
<1>13. CASE FallbackUnpay(t)
  <2>1. Places(t)'
    BY <1>0, <1>13, Consts DEF Local, Places, NoWrap, FallbackUnpay, LoadReturns, Pay,
       Goto, Shapes
  <2>2. Calls(t)'
    BY <1>0, <1>13, Consts DEF Local, Calls, Converts, Waiting, FallbackUnpay, LoadReturns,
       Pay, Goto, Shapes
  <2>3. Pointers(t)'
    BY <1>0, <1>13, Consts DEF Local, Pointers, Calls, Converts, Waiting, InCas,
       FallbackUnpay, LoadReturns, Pay, Goto, Shapes
  <2>0. /\ pc[t] = "fb_unpay" /\ op' = op /\ wr' = wr /\ lpc' = lpc /\ node' = node
        /\ \/ pc'[t] = "ret" /\ ld'[t] = Protection(ld[t].repl, NoDebt)
           \/ pc'[t] = "fb_undec" /\ ld' = ld
    BY <1>13 DEF FallbackUnpay, LoadReturns, Pay, Goto, Shapes, listVars
  <2>4. Registers(t)'
    BY <1>0, <2>0, Fields, Consts, DebtFacts, AtHand DEF Local, Registers, Places, Converts
  <2> QED
    BY <2>1, <2>2, <2>3, <2>4 DEF Local
<1>14. CASE FallbackUndec(t)
  <2>1. Places(t)'
    BY <1>0, <1>14, Consts DEF Local, Places, NoWrap, FallbackUndec, LoadReturns, Goto,
       Shapes
  <2>2. Calls(t)'
    BY <1>0, <1>14, Consts DEF Local, Calls, Converts, Waiting, FallbackUndec, LoadReturns,
       Goto, Shapes
  <2>3. Pointers(t)'
    BY <1>0, <1>14, Consts DEF Local, Pointers, Calls, Converts, Waiting, InCas,
       FallbackUndec, LoadReturns, Goto, Shapes
  <2>4. Registers(t)'
    BY <1>0, <1>14, Fields, Consts, DebtFacts, AtHand DEF Local, Registers, Places,
       Converts, FallbackUndec, LoadReturns, Goto, Shapes
  <2> QED
    BY <2>1, <2>2, <2>3, <2>4 DEF Local
<1> QED
  BY <1>1, <1>2, <1>3, <1>4, <1>5, <1>6, <1>7, <1>8, <1>9, <1>10, <1>11, <1>12, <1>13,
     <1>14 DEF ReadStep

-----------------------------------------------------------------------------
(* What a thread has at hand: help, pay_all and its node.                    *)

\* The fields of wr that help and pay_all do not touch.
KeepsOld(t) == wr'[t].old = wr[t].old /\ wr'[t].debt = wr[t].debt

\* Where the match on the control word leads.
LEMMA MatchEffect ==
    ASSUME Shapes, NEW t \in Threads, NEW c \in Controls, HelpMatch(t, c)
    PROVE  /\ KeepsOld(t) /\ wr'[t].repl = NULL
           /\ \/ c \in Words /\ pc'[t] = "hp_addr" /\ wr'[t].ctl = c
              \/ c \notin Words /\ pc'[t] = "pa_slot" /\ wr'[t].ctl = IDLE /\ wr'[t].idx = 1
<1>1. Tag(c) = GEN_TAG <=> c \in Words
  BY ControlCases
<1> QED
  BY <1>1 DEF HelpMatch, Goto, Shapes, WriteType, KeepsOld

\* The steps of help.
LEMMA HelpLocal ==
    ASSUME ListInv, HelpInv, NEW t \in Threads, HelpStep(t),
           UNCHANGED <<listVars, storage, guards, owned>>
    PROVE  Local(t)'
<1> Shape /\ Locals /\ Shapes /\ Instances /\ Local(t)
  BY DEF ListInv, HelpInv
<1>0. /\ lpc'[t] = lpc[t] /\ node'[t] = node[t] /\ op'[t] = op[t] /\ ld'[t] = ld[t]
      /\ pc[t] \in VisitLabels /\ lpc[t] = "visit"
  <2>1. /\ lpc'[t] = lpc[t] /\ node'[t] = node[t] /\ op'[t] = op[t] /\ ld'[t] = ld[t]
        /\ pc[t] \in VisitLabels
    BY DEF HelpStep, HelpControl, HelpAddr, HelpReconfirm, HelpTheirSpace, HelpStore,
       HelpCas,
           HelpDrop, HelpOffer, listVars, VisitLabels
  <2> QED
    BY <2>1 DEF Local, Places
<1>1. /\ cursor[t] \in Nodes /\ wr[t].ctl \in Controls /\ control[cursor[t]] \in Controls
      /\ IDLE \in Controls
  BY <1>0, AtHand, Fields, ControlFacts DEF Shapes
<1> USE DEF InHelp, LoadSteps, LoadLabels, IntoInnerLabels, VisitLabels, OpenLabels,
   HelpedLabels, LoadEntry
<1>2. CASE HelpControl(t) \/ HelpReconfirm(t) \/ HelpDrop(t) \/ HelpOffer(t)
  <2>1. /\ KeepsOld(t) /\ wr'[t].repl = NULL
        /\ \/ pc'[t] = "hp_addr" /\ wr'[t].ctl \in Words
           \/ pc'[t] = "pa_slot" /\ wr'[t].idx = 1
    <3>1. PICK c \in Controls : HelpMatch(t, c)
      BY <1>1, <1>2 DEF HelpControl, HelpReconfirm, HelpDrop, HelpOffer
    <3> QED
      BY <3>1, MatchEffect
  <2>2. Places(t)'
    BY <1>0, <2>1, Consts DEF KeepsOld, Local, Places
  <2>3. Calls(t)'
    BY <1>0, <2>1, Consts DEF KeepsOld, Local, Calls, Places, Converts, Waiting
  <2>4. Pointers(t)'
    BY <1>0, <2>1, Consts DEF KeepsOld, Local, Pointers, Places, Calls, Converts, Waiting,
       InCas
  <2>5. Registers(t)'
    BY <1>0, <2>1, Consts DEF KeepsOld, Local, Registers, Places
  <2> QED
    BY <2>2, <2>3, <2>4, <2>5 DEF Local
<1>3. CASE HelpAddr(t)
  <2>1. pc[t] = "hp_addr" /\ pc'[t] \in {LoadEntry, "hp_reconf"} /\ wr'[t] = wr[t]
    BY <1>3 DEF HelpAddr, Goto, Shapes
  <2>2. Places(t)'
    BY <1>0, <2>1 DEF Local, Places
  <2>3. Calls(t)'
    BY <1>0, <2>1 DEF Local, Calls, Places, Converts, Waiting
  <2>4. Pointers(t)'
    BY <1>0, <2>1 DEF Local, Pointers, Places, Calls, Converts, Waiting, InCas
  <2>5. Registers(t)'
    BY <1>0, <2>1 DEF Local, Registers, Places
  <2> QED
    BY <2>2, <2>3, <2>4, <2>5 DEF Local
<1>4. CASE HelpTheirSpace(t)
  <2>1. /\ pc[t] = "hp_theirs" /\ pc'[t] = "hp_store" /\ KeepsOld(t)
        /\ wr'[t].env \in Nodes /\ wr'[t].repl = wr[t].repl /\ wr'[t].ctl = wr[t].ctl
    BY <1>1, <1>4 DEF HelpTheirSpace, Goto, Shapes, WriteType, KeepsOld
  <2>2. Places(t)'
    BY <1>0, <2>1 DEF KeepsOld, Local, Places
  <2>3. Calls(t)'
    BY <1>0, <2>1 DEF KeepsOld, Local, Calls, Places, Converts, Waiting
  <2>4. Pointers(t)'
    BY <1>0, <2>1 DEF KeepsOld, Local, Pointers, Places, Calls, Converts, Waiting, InCas
  <2>5. Registers(t)'
    BY <1>0, <2>1 DEF KeepsOld, Local, Registers, Places
  <2> QED
    BY <2>2, <2>3, <2>4, <2>5 DEF Local
<1>5. CASE HelpStore(t)
  <2>1. pc[t] = "hp_store" /\ pc'[t] = "hp_cas" /\ wr'[t] = wr[t]
    BY <1>5 DEF HelpStore, Goto, Shapes
  <2>2. Places(t)'
    BY <1>0, <2>1 DEF Local, Places
  <2>3. Calls(t)'
    BY <1>0, <2>1 DEF Local, Calls, Places, Converts, Waiting
  <2>4. Pointers(t)'
    BY <1>0, <2>1 DEF Local, Pointers, Places, Calls, Converts, Waiting, InCas
  <2>5. Registers(t)'
    BY <1>0, <2>1 DEF Local, Registers, Places
  <2> QED
    BY <2>2, <2>3, <2>4, <2>5 DEF Local
<1>6. CASE HelpCas(t)
  <2>1. /\ pc[t] = "hp_cas" /\ KeepsOld(t) /\ wr'[t].env = wr[t].env
        /\ \/ pc'[t] = "hp_offer" /\ wr'[t].repl = NULL
           \/ pc'[t] = "hp_drop" /\ wr'[t].repl = wr[t].repl
    BY <1>1, <1>6 DEF HelpCas, Goto, Shapes, WriteType, KeepsOld
  <2>2. Places(t)'
    BY <1>0, <2>1 DEF KeepsOld, Local, Places
  <2>3. Calls(t)'
    BY <1>0, <2>1 DEF KeepsOld, Local, Calls, Places, Converts, Waiting
  <2>4. Pointers(t)'
    BY <1>0, <2>1 DEF KeepsOld, Local, Pointers, Places, Calls, Converts, Waiting, InCas
  <2>5. Registers(t)'
    BY <1>0, <2>1 DEF KeepsOld, Local, Registers, Places
  <2> QED
    BY <2>2, <2>3, <2>4, <2>5 DEF Local
<1> QED
  BY <1>2, <1>3, <1>4, <1>5, <1>6 DEF HelpStep

\* The steps of pay_all at a node.
LEMMA PayLocal ==
    ASSUME ListInv, HelpInv, NEW t \in Threads, PayStep(t),
           UNCHANGED <<listVars, storage, guards, owned>>
    PROVE  Local(t)'
<1> Shape /\ Locals /\ Shapes /\ Instances /\ Local(t)
  BY DEF ListInv, HelpInv
<1>0. /\ lpc'[t] = lpc[t] /\ node'[t] = node[t] /\ op'[t] = op[t] /\ ld'[t] = ld[t]
  BY DEF PayStep, PayAllInc, PayAllSlot, PayAllIncMore, listVars
<1> USE DEF InHelp, LoadSteps, LoadLabels, IntoInnerLabels, VisitLabels, OpenLabels,
   HelpedLabels, LoadEntry
<1>1. CASE PayAllInc(t)
  <2>1. /\ pc[t] = "pa_inc" /\ pc'[t] = "pa_walk" /\ wr'[t] = wr[t] /\ node[t] # NoNode
        /\ lpc[t] \notin {"reserve", "visit", "cool_load", "cool_writers", "cool_cas", "claim",
                          "alloc", "push", "cd_swap", "cd_release"}
    BY <1>1 DEF PayAllInc, Goto, Shapes, Local, Places, Locals
  <2>2. Places(t)'
    BY <1>0, <2>1 DEF Local, Places
  <2>3. Calls(t)'
    BY <1>0, <2>1 DEF Local, Calls, Places, Converts, Waiting
  <2>4. Pointers(t)'
    BY <1>0, <2>1 DEF Local, Pointers, Places, Calls, Converts, Waiting, InCas
  <2>5. Registers(t)'
    BY <1>0, <2>1 DEF Local, Registers, Places
  <2> QED
    BY <2>2, <2>3, <2>4, <2>5 DEF Local
<1>2. CASE PayAllSlot(t) \/ PayAllIncMore(t)
  <2>1. /\ pc[t] \in {"pa_slot", "pa_inc2"} /\ KeepsOld(t) /\ wr'[t].repl = wr[t].repl
        /\ \/ pc'[t] \in {"pa_slot", "pa_inc2"} /\ wr'[t].idx > 0
           \/ pc'[t] = "pa_release"
    <3>1. wr[t].idx > 0 /\ wr[t].idx \in Nat
      BY <1>2, Fields, Consts DEF PayAllSlot, PayAllIncMore, Local, Registers
    <3> QED
      BY <1>2, <3>1 DEF PayAllSlot, PayAllIncMore, Pay, NextSlot, Goto, Shapes, WriteType,
         KeepsOld
  <2>2. Places(t)'
    BY <1>0, <2>1 DEF KeepsOld, Local, Places
  <2>3. Calls(t)'
    BY <1>0, <2>1 DEF KeepsOld, Local, Calls, Places, Converts, Waiting
  <2>4. Pointers(t)'
    BY <1>0, <2>1 DEF KeepsOld, Local, Pointers, Places, Calls, Converts, Waiting, InCas
  <2>5. Registers(t)'
    BY <1>0, <2>1 DEF KeepsOld, Local, Registers, Places
  <2> QED
    BY <2>2, <2>3, <2>4, <2>5 DEF Local
<1> QED
  BY <1>1, <1>2 DEF PayStep

\* The steps of pay_all along the list.
LEMMA WalkLocal ==
    ASSUME ListInv, HelpInv, NEW t \in Threads, WalkStep(t)
    PROVE  Local(t)'
<1> Shape /\ Locals /\ Shapes /\ Instances /\ Local(t)
  BY DEF ListInv, HelpInv
<1>0. node'[t] = node[t] /\ op'[t] = op[t] /\ ld'[t] = ld[t] /\ wr'[t] = wr[t]
  BY DEF WalkStep, PayAllWalk, PayAllReserve, PayAllRelease, TraverseStart, ReserveWriter,
     ReleaseWriter
<1> USE DEF InHelp, LoadSteps, LoadLabels, IntoInnerLabels, VisitLabels, OpenLabels,
   HelpedLabels, LoadEntry
<1>1. \/ pc[t] = "pa_walk" /\ pc'[t] = "pa_reserve" /\ lpc'[t] = "reserve"
      \/ pc[t] = "pa_reserve" /\ pc'[t] = "hp_ctl" /\ lpc'[t] = "visit"
      \/ pc[t] = "pa_release" /\ pc'[t] = "pa_reserve" /\ lpc'[t] = "reserve"
      \/ pc[t] = "pa_release" /\ pc'[t] = "pa_dec" /\ lpc'[t] = "off"
  BY DEF WalkStep, PayAllWalk, PayAllReserve, PayAllRelease, TraverseStart, ReserveWriter,
     ReleaseWriter,
         Goto, Enter, Shape, Shapes
<1>2. Places(t)'
  BY <1>0, <1>1 DEF Local, Places
<1>3. Calls(t)'
  BY <1>0, <1>1 DEF Local, Calls, Places, Converts, Waiting
<1>4. Pointers(t)'
  BY <1>0, <1>1 DEF Local, Pointers, Places, Calls, Converts, Waiting, InCas
<1>5. Registers(t)'
  BY <1>0, <1>1 DEF Local, Registers, Places
<1> QED
  BY <1>2, <1>3, <1>4, <1>5 DEF Local

\* A thread gets its node before its first access, and gives it back between calls
\* or, a temporary one, at the end of the load.
LEMMA NodeLocal ==
    ASSUME ListInv, HelpInv, NEW t \in Threads, NodeOnly(t)
    PROVE  Local(t)'
<1> USE DEF InHelp, LoadSteps, LoadLabels, IntoInnerLabels, VisitLabels, OpenLabels,
   HelpedLabels, LoadEntry
<1> Shape /\ Locals /\ Shapes /\ Instances /\ Local(t)
  BY DEF ListInv, HelpInv
<1>0. pc'[t] = pc[t] /\ op'[t] = op[t] /\ ld'[t] = ld[t] /\ wr'[t] = wr[t]
  BY DEF NodeOnly, NodeStep, TmpNodeDrop, ExitStep, debtVars
<1>1. CASE NodeStep(t)
  <2> DEFINE Getting == {"off", "cool_load", "cool_writers", "cool_cas", "claim", "alloc", "push"}
  <2>1. /\ pc[t] \in {LoadEntry, "pa_inc"} /\ lpc'[t] \in Getting /\ lpc[t] \in Getting
    <3>1. pc[t] \in {LoadEntry, "pa_inc"} /\ GetStep(t)
      BY <1>1 DEF NodeStep
    <3>2. lpc[t] \in Getting
      BY <3>1 DEF GetStep, GetStart, CheckCooldownLoad, CheckCooldownWriters,
         CheckCooldownCas, GetClaim,
                  GetAlloc, GetPush
    <3>3. lpc'[t] \in Getting
      BY <3>1, <3>2 DEF GetStep, GetStart, CheckCooldownLoad, CheckCooldownWriters,
         CheckCooldownCas, GetClaim,
                  GetAlloc, GetPush, GetVisit, Enter, Shape
    <3> QED
      BY <3>1, <3>2, <3>3
  <2>2. Places(t)'
    BY <1>0, <2>1 DEF Local, Places
  <2>3. Calls(t)'
    BY <1>0, <2>1 DEF Local, Calls, Places, Converts, Waiting
  <2>4. Pointers(t)'
    BY <1>0, <2>1 DEF Local, Pointers, Places, Calls, Converts, Waiting, InCas
  <2>5. Registers(t)'
    BY <1>0, <2>1 DEF Local, Registers, Places
  <2> QED
    BY <2>2, <2>3, <2>4, <2>5 DEF Local
<1>2. CASE TmpNodeDrop(t) \/ ExitStep(t)
  <2>1. /\ pc[t] = "idle" \/ (pc[t] = "ret" /\ t \in LateThreads)
        /\ lpc[t] \in {"off", "cd_swap", "cd_release"} /\ lpc'[t] \in {"off", "cd_swap", "cd_release"}
    BY <1>2 DEF TmpNodeDrop, ExitStep, ThreadExit, CooldownReserve, CooldownSwap,
       CooldownRelease, Enter, Shape
  <2>2. Places(t)'
    BY <1>0, <2>1 DEF Local, Places
  <2>3. Calls(t)'
    BY <1>0, <2>1 DEF Local, Calls, Places, Converts, Waiting
  <2>4. Pointers(t)'
    BY <1>0, <2>1 DEF Local, Pointers, Places, Calls, Converts, Waiting, InCas
  <2>5. Registers(t)'
    BY <1>0, <2>1 DEF Local, Registers, Places
  <2> QED
    BY <2>2, <2>3, <2>4, <2>5 DEF Local
<1> QED
  BY <1>1, <1>2 DEF NodeOnly

-----------------------------------------------------------------------------
(* What a thread has at hand: calls.                                         *)

\* How calls begin.
LEMMA CallLocal ==
    ASSUME ListInv, HelpInv, NEW t \in Threads, CallStep(t)
    PROVE  Local(t)'
<1> USE DEF InHelp, LoadSteps, LoadLabels, IntoInnerLabels, VisitLabels, OpenLabels,
   HelpedLabels, LoadEntry
<1> Shape /\ Locals /\ Shapes /\ Instances /\ Local(t)
  BY DEF ListInv, HelpInv
<1>0. /\ lpc'[t] = lpc[t] /\ node'[t] = node[t] /\ cursor'[t] = cursor[t]
      /\ boxed'[t] = boxed[t]
      /\ generation'[t] = generation[t] /\ offset'[t] = offset[t]
      /\ pc[t] = "idle" /\ lpc[t] = "off" /\ op[t] = NoOp
  <2>1. UNCHANGED <<listVars, localVars>> /\ pc[t] = "idle" /\ lpc[t] = "off"
    BY CallEffect
  <2>2. op[t] = NoOp
    BY <2>1 DEF Local, Calls
  <2> QED
    BY <2>1, <2>2 DEF listVars, localVars
<1>1. ASSUME NEW kind \in LoadCalls, NEW s \in Storages, NEW new \in Ptrs, NEW cur \in Ptrs,
             LoadBegins(t, kind, s, new, cur)
      PROVE  Local(t)'
  <2>1. /\ pc'[t] = LoadEntry /\ ld'[t] = NoLoad /\ wr'[t] = wr[t]
        /\ op'[t].kind = kind /\ op'[t].s = s /\ op'[t].new = new
        /\ kind # "cas" => new = NULL
        /\ t \in LateThreads => kind \in {"load", "load_full"}
    BY <1>1 DEF LoadBegins, Shapes, Operation
  <2>2. Places(t)'
    BY <1>0, <2>1 DEF LoadCalls, ReadKinds, Local, Places
  <2>3. Calls(t)'
    BY <1>0, <2>1 DEF LoadCalls, ReadKinds, Local, Calls, Places, Converts, Waiting
  <2>4. Pointers(t)'
    BY <1>0, <2>1 DEF LoadCalls, ReadKinds, Local, Pointers, Places, Calls, Converts,
       Waiting, InCas
  <2>5. Registers(t)'
    BY <1>0, <2>1 DEF LoadCalls, ReadKinds, Local, Registers, Places
  <2> QED
    BY <2>2, <2>3, <2>4, <2>5 DEF Local
<1>2. ASSUME NEW kind \in WriteCalls, NEW s \in Storages, WriteBegins(t, kind, s)
      PROVE  Local(t)'
  <2>1. /\ pc'[t] = "pa_inc" /\ ld'[t] = ld[t] /\ wr'[t].repl = wr[t].repl
        /\ op'[t].kind = kind /\ op'[t].s = s /\ op'[t].new = NULL
        /\ t \notin LateThreads
    BY <1>2 DEF WriteBegins, Shapes, WriteType, Operation
  <2>2. Places(t)'
    BY <1>0, <2>1 DEF WriteCalls, WriteKinds, Local, Places
  <2>3. Calls(t)'
    BY <1>0, <2>1 DEF WriteCalls, WriteKinds, Local, Calls, Places, Converts, Waiting
  <2>4. Pointers(t)'
    BY <1>0, <2>1 DEF WriteCalls, WriteKinds, Local, Pointers, Places, Calls, Converts,
       Waiting, InCas
  <2>5. Registers(t)'
    BY <1>0, <2>1 DEF WriteCalls, WriteKinds, Local, Registers, Places
  <2> QED
    BY <2>2, <2>3, <2>4, <2>5 DEF Local
<1>3. ASSUME NEW kind \in GuardCalls, NEW g \in BagToSet(guards), GuardEnds(t, kind, g)
      PROVE  Local(t)'
  <2>1. /\ op'[t].kind = kind /\ op'[t].new = NULL /\ wr'[t] = wr[t]
        /\ t \in LateThreads => kind = "guard_drop"
        /\ ld'[t].debt = g.debt /\ g.debt \in GuardDebts
        /\ \/ pc'[t] = "in_inc" /\ kind = "guard_into_inner" /\ g.debt # NoDebt
           \/ pc'[t] = "gd_dec" /\ kind = "guard_drop"
           \/ pc'[t] = "gd_pay" /\ kind = "guard_drop" /\ g.debt # NoDebt
    BY <1>3 DEF GuardEnds, Shapes, Operation, Protection, GuardCalls, GuardType
  <2>a. g.debt # NoDebt => g.debt \in FastDebts /\ g.debt[2] # HelpingSlot
    BY <2>1, DebtFacts
  <2>2. Places(t)'
    BY <1>0, <2>1, <2>a DEF GuardCalls, Local, Places
  <2>3. Calls(t)'
    BY <1>0, <2>1, <2>a DEF GuardCalls, Local, Calls, Places, Converts, Waiting
  <2>4. Pointers(t)'
    BY <1>0, <2>1, <2>a DEF GuardCalls, Local, Pointers, Places, Calls, Converts, Waiting,
       InCas
  <2>5. Registers(t)'
    BY <1>0, <2>1, <2>a DEF GuardCalls, Local, Registers, Places
  <2> QED
    BY <2>2, <2>3, <2>4, <2>5 DEF Local
<1>4. CASE AtOnce
  <2>1. Same(t)
    BY <1>0, <1>4 DEF AtOnce, Same
  <2> QED
    BY <2>1, SameLocal
<1> QED
  BY <1>1, <1>2, <1>3, <1>4, CallEffect

-----------------------------------------------------------------------------
(* What a thread has at hand: what becomes of the result of a load.          *)

\* Where a call can end up: what Local asks of a thread there.
LEMMA IdleLocal ==
    ASSUME NEW t \in Threads, lpc'[t] = "off", pc'[t] = "idle",
           op'[t] = NoOp, ld'[t] = NoLoad, wr'[t] = NoWrite
    PROVE  Local(t)'
<1>1. op'[t].kind = "none" /\ op'[t].new = NULL /\ wr'[t].repl = NULL
  BY DEF NoOp, Operation, NoWrite
<1> USE DEF InHelp, LoadSteps, LoadLabels, IntoInnerLabels, VisitLabels, OpenLabels,
   HelpedLabels, LoadEntry
<1>2. Places(t)'
  BY DEF Places
<1>3. Calls(t)'
  BY <1>1 DEF Calls, Waiting
<1>4. Pointers(t)'
  BY <1>1 DEF Pointers, Waiting
<1>5. Registers(t)'
  BY DEF Registers
<1> QED
  BY <1>2, <1>3, <1>4, <1>5 DEF Local

\* The beginning of the drop of a guard.
LEMMA DropLocal ==
    ASSUME NEW t \in Threads, lpc'[t] = "off",
           NEW d \in GuardDebts, ld'[t].debt = d,
           pc'[t] = IF d = NoDebt THEN "gd_dec" ELSE "gd_pay",
           wr'[t].repl = NULL,
           op'[t].kind \in {"guard_drop", "cas", "rcu", "rcu_retry", "rcu_done"},
           op'[t].kind # "guard_drop" => op'[t].s \in Storages /\ t \notin LateThreads,
           op'[t].new # NULL => op'[t].kind \in {"cas", "rcu", "rcu_done"}
    PROVE  Local(t)'
<1>1. d # NoDebt => d \in FastDebts
  BY DebtFacts
<1> USE DEF InHelp, LoadSteps, LoadLabels, IntoInnerLabels, VisitLabels, OpenLabels,
   HelpedLabels, LoadEntry
<1>2. Places(t)'
  BY DEF Places
<1>3. Calls(t)'
  BY DEF Calls, Waiting
<1>4. Pointers(t)'
  BY DEF Pointers, Waiting, Converts
<1>5. Registers(t)'
  BY <1>1 DEF Registers
<1> QED
  BY <1>2, <1>3, <1>4, <1>5 DEF Local

\* The beginning of a load.
LEMMA BeginLocal ==
    ASSUME NEW t \in Threads, lpc'[t] = "off", pc'[t] = LoadEntry, ld'[t] = NoLoad,
           wr'[t].repl = NULL,
           op'[t].kind \in {"cas", "rcu"}, op'[t].s \in Storages, t \notin LateThreads
    PROVE  Local(t)'
<1> USE DEF InHelp, LoadSteps, LoadLabels, IntoInnerLabels, VisitLabels, OpenLabels,
   HelpedLabels, LoadEntry
<1>2. Places(t)'
  BY DEF Places
<1>3. Calls(t)'
  BY DEF Calls, Waiting, Converts, ReadKinds
<1>4. Pointers(t)'
  BY DEF Pointers, Waiting, Converts
<1>5. Registers(t)'
  BY DEF Registers
<1> QED
  BY <1>2, <1>3, <1>4, <1>5 DEF Local

\* Outside of pay_all: compare_and_swap, rcu and the drop of an old value.
LEMMA OutLocal ==
    ASSUME NEW t \in Threads, lpc'[t] = "off", ld'[t] = NoLoad, wr'[t].repl = NULL,
           op'[t].s \in Storages, t \notin LateThreads,
           \/ pc'[t] = "cas_x" /\ op'[t].kind \in {"cas", "rcu"} /\ wr'[t].old = op'[t].cur
           \/ /\ pc'[t] = "cas_dec" /\ op'[t].kind \in {"cas", "rcu"}
              /\ wr'[t].old = op'[t].cur /\ op'[t].new = NULL
           \/ pc'[t] = "cas_drop_new" /\ op'[t].kind \in {"cas", "rcu"} /\ wr'[t].old # op'[t].cur
           \/ pc'[t] = "rcu_f" /\ op'[t].kind \in {"rcu_load", "rcu_retry"} /\ op'[t].new = NULL
           \/ pc'[t] = "old_dec" /\ op'[t].kind \in {"store", "drop"} /\ op'[t].new = NULL
           \/ /\ pc'[t] = "pa_inc" /\ op'[t].kind \in {"cas", "rcu"}
              /\ wr'[t].old = op'[t].cur /\ op'[t].new = NULL
    PROVE  Local(t)'
<1> USE DEF InHelp, LoadSteps, LoadLabels, IntoInnerLabels, VisitLabels, OpenLabels,
   HelpedLabels, LoadEntry
<1>2. Places(t)'
  BY DEF Places
<1>3. Calls(t)'
  BY DEF Calls, Waiting, Converts, WriteKinds
<1>4. Pointers(t)'
  BY DEF Pointers, Waiting, Converts, InCas
<1>5. Registers(t)'
  BY DEF Registers
<1> QED
  BY <1>2, <1>3, <1>4, <1>5 DEF Local

\* The end of a call.
LEMMA FinishLocal ==
    ASSUME Shapes, NEW t \in Threads, lpc'[t] = "off", Finish(t)
    PROVE  Local(t)'
<1>1. pc'[t] = "idle" /\ op'[t] = NoOp /\ ld'[t] = NoLoad /\ wr'[t] = NoWrite
  BY DEF Finish, Goto, Shapes
<1> QED
  BY <1>1, IdleLocal

\* The result of a load is in full: an answer for help, an Arc for the user, or
\* the end of rcu.
LEMMA FullLocal ==
    ASSUME Shapes, NEW t \in Threads, Local(t), NEW p \in Ptrs, FullReference(t, p),
           lpc'[t] = lpc[t], node'[t] = node[t], lpc[t] \in {"off", "visit"},
           pc[t] \in LoadSteps \cup {"cas_dec"}
    PROVE  Local(t)'
<1>1. CASE lpc[t] = "off" /\ Finish(t)
  BY <1>1, FinishLocal
<1>2. CASE /\ lpc[t] = "off" /\ op[t].kind = "rcu"
           /\ op' = [op EXCEPT ![t] = Operation("rcu_done", op[t].s, p, NULL)]
           /\ BeginGuardDrop(t, Guard(op[t].cur, op[t].debt))
           /\ wr' = [wr EXCEPT ![t] = NoWrite]
  <2>1. op'[t].kind = "rcu_done" /\ op'[t].s = op[t].s /\ wr'[t].repl = NULL
    BY <1>2 DEF Operation, NoWrite, Shapes
  <2>2. /\ ld'[t].debt = op[t].debt /\ op[t].debt \in GuardDebts
        /\ pc'[t] = IF op[t].debt = NoDebt THEN "gd_dec" ELSE "gd_pay"
    BY <1>2, Fields DEF BeginGuardDrop, Guard, Protection, Goto, Shapes
  <2>3. op[t].s \in Storages /\ t \notin LateThreads
    BY <1>2 DEF Local, Calls
  <2> QED
    BY <1>2, <2>1, <2>2, <2>3, DropLocal
<1>3. CASE /\ lpc[t] = "visit"
           /\ wr' = [wr EXCEPT ![t].repl = p]
           /\ ld' = [ld EXCEPT ![t] = NoLoad]
           /\ Goto(t, "hp_theirs")
           /\ UNCHANGED <<op, owned>>
  <2>1. /\ pc'[t] = "hp_theirs" /\ ld'[t] = NoLoad /\ op'[t] = op[t] /\ wr'[t].old = wr[t].old
        /\ wr'[t].ctl = wr[t].ctl
    BY <1>3 DEF Goto, Shapes, WriteType
  <2>2. pc[t] \in LoadSteps /\ wr[t].ctl \in Words
    BY <1>3 DEF Local, Places, Registers, InHelp, VisitLabels
  <2> USE DEF InHelp, LoadSteps, LoadLabels, IntoInnerLabels, VisitLabels, OpenLabels,
     HelpedLabels, LoadEntry
  <2>3. Places(t)'
    BY <1>3, <2>1 DEF Local, Places
  <2>4. Calls(t)'
    BY <1>3, <2>1 DEF Local, Calls, Places, Converts, Waiting
  <2>5. Pointers(t)'
    BY <1>3, <2>1 DEF Local, Pointers, Places, Calls, Converts, Waiting, InCas
  <2>6. Registers(t)'
    BY <1>3, <2>1, <2>2 DEF Local, Registers, Places
  <2> QED
    BY <2>3, <2>4, <2>5, <2>6 DEF Local
<1> QED
  BY <1>1, <1>2, <1>3 DEF FullReference, InHelp

\* into_inner ends: in fallback the result goes back into a protection.
LEMMA InnerLocal ==
    ASSUME Shapes, NEW t \in Threads, Local(t), IntoInnerDone(t),
           lpc'[t] = lpc[t], node'[t] = node[t], lpc[t] \in {"off", "visit"},
           pc[t] \in {"in_pay", "in_dec"}
    PROVE  Local(t)'
<1>1. ld[t].ptr \in Ptrs
  BY Fields
<1>2. CASE FullReference(t, ld[t].ptr)
  BY <1>1, <1>2, FullLocal DEF LoadSteps, IntoInnerLabels
<1>3. CASE /\ ld[t].debt[2] = HelpingSlot
           /\ LoadReturns(t, ld[t].ptr, NoDebt) /\ UNCHANGED <<op, wr, owned>>
  <2>1. /\ pc'[t] = "ret" /\ ld'[t].debt = NoDebt /\ op'[t] = op[t] /\ wr'[t] = wr[t]
        /\ NoDebt \in GuardDebts
    BY <1>3, DebtFacts DEF LoadReturns, Protection, Goto, Shapes
  <2> USE DEF InHelp, LoadSteps, LoadLabels, IntoInnerLabels, VisitLabels, OpenLabels,
     HelpedLabels, LoadEntry
  <2>3. Places(t)'
    BY <2>1 DEF Local, Places
  <2>4. Calls(t)'
    BY <1>3, <2>1 DEF Local, Calls, Places, Converts, Waiting
  <2>5. Pointers(t)'
    BY <1>3, <2>1 DEF Local, Pointers, Places, Calls, Converts, Waiting, InCas
  <2>6. Registers(t)'
    BY <1>3, <2>1 DEF Local, Registers, Places
  <2> QED
    BY <2>3, <2>4, <2>5, <2>6 DEF Local
<1> QED
  BY <1>2, <1>3 DEF IntoInnerDone

\* The drop of a guard ends.
LEMMA DropDoneLocal ==
    ASSUME Shapes, NEW t \in Threads, Local(t), GuardDropDone(t),
           lpc'[t] = lpc[t], node'[t] = node[t], lpc[t] = "off",
           pc[t] \in {"gd_pay", "gd_dec"}
    PROVE  Local(t)'
<1>1. CASE Finish(t)
  BY <1>1, FinishLocal
<1>2. wr[t].repl = NULL
  BY DEF Local, Pointers
<1>3. CASE InCas(t) /\ BeginLoad(t) /\ UNCHANGED <<op, wr, owned>>
  <2>1. pc'[t] = LoadEntry /\ ld'[t] = NoLoad /\ op'[t] = op[t] /\ wr'[t] = wr[t]
    BY <1>3 DEF BeginLoad, Goto, Shapes
  <2>2. op[t].kind \in {"cas", "rcu"} /\ op[t].s \in Storages /\ t \notin LateThreads
    BY <1>3 DEF InCas, Local, Calls
  <2> QED
    BY <1>2, <2>1, <2>2, BeginLocal
<1>4. CASE /\ op[t].kind = "rcu_retry"
           /\ ld' = [ld EXCEPT ![t] = NoLoad]
           /\ Goto(t, "rcu_f")
           /\ UNCHANGED <<op, wr, owned>>
  <2>1. pc'[t] = "rcu_f" /\ ld'[t] = NoLoad /\ op'[t] = op[t] /\ wr'[t] = wr[t]
    BY <1>4 DEF Goto, Shapes
  <2>2. op[t].s \in Storages /\ t \notin LateThreads /\ op[t].new = NULL
    BY <1>4 DEF Local, Calls, Pointers
  <2> QED
    BY <1>2, <1>4, <2>1, <2>2, OutLocal
<1> QED
  BY <1>1, <1>3, <1>4 DEF GuardDropDone

\* compare_and_swap returns.
LEMMA CasEndLocal ==
    ASSUME Shapes, NEW t \in Threads, Local(t), CasReturns(t) \/ RcuPrev(t),
           lpc'[t] = lpc[t], node'[t] = node[t], lpc[t] = "off",
           pc[t] \in {"cas_dec", "cas_drop_new"}
    PROVE  Local(t)'
<1>0. /\ ld[t] = NoLoad /\ wr[t].repl = NULL /\ wr[t].old \in Ptrs
      /\ wr[t].debt \in GuardDebts /\ op[t].debt \in GuardDebts
      /\ op[t].s \in Storages /\ t \notin LateThreads
  <2>1. wr[t].repl = NULL
    BY DEF Local, Pointers
  <2>2. ld[t] = NoLoad
    BY DEF Local, Registers, LoadSteps, LoadLabels, IntoInnerLabels
  <2>3. op[t].s \in Storages /\ t \notin LateThreads
    BY DEF Local, Calls
  <2> QED
    BY <2>1, <2>2, <2>3, Fields
<1>1. CASE CasReturns(t)
  BY <1>1, FinishLocal DEF CasReturns
<1>2. CASE RcuRetry(t) /\ op[t].kind = "rcu"
  <2>1. /\ op'[t].kind = "rcu_retry" /\ op'[t].s = op[t].s /\ op'[t].new = NULL
        /\ wr'[t].repl = NULL
    BY <1>2 DEF RcuRetry, NoWrite, Shapes, OpType
  <2>2. ld'[t].debt = op[t].debt /\ pc'[t] = IF op[t].debt = NoDebt THEN "gd_dec" ELSE "gd_pay"
    BY <1>2, <1>0 DEF RcuRetry, BeginGuardDrop, Guard, Protection, Goto, Shapes
  <2> QED
    BY <1>0, <2>1, <2>2, DropLocal
<1>3. CASE RcuSwapped(t) /\ op[t].kind = "rcu"
  <2>1. pc[t] = "cas_dec"
    BY <1>3 DEF RcuSwapped, ptr_eq, Local, Pointers
  <2>2. CASE FullReference(t, wr[t].old)
    BY <1>0, <2>1, <2>2, FullLocal
  <2>3. CASE /\ wr[t].debt # NoDebt
             /\ ld' = [ld EXCEPT ![t].ptr = wr[t].old, ![t].debt = wr[t].debt]
             /\ wr' = [wr EXCEPT ![t] = NoWrite]
             /\ Goto(t, "in_inc")
             /\ UNCHANGED <<op, owned>>
    <3>1. pc'[t] = "in_inc" /\ ld'[t].debt = wr[t].debt /\ wr'[t].repl = NULL /\ op'[t] = op[t]
      BY <2>3 DEF Goto, NoWrite, Shapes, LoadType
    <3>2. wr[t].debt[2] # HelpingSlot
      BY <1>0, <2>3, DebtFacts
    <3>3. op[t].new = NULL
      BY <2>1 DEF Local, Pointers
    <3> USE DEF InHelp, LoadSteps, LoadLabels, IntoInnerLabels, VisitLabels, OpenLabels,
       HelpedLabels, LoadEntry
    <3>4. Places(t)'
      BY <3>1 DEF Local, Places
    <3>5. Calls(t)'
      BY <1>0, <1>3, <3>1, <3>2 DEF Local, Calls, Converts, Waiting
    <3>6. Pointers(t)'
      BY <1>3, <3>1, <3>3 DEF Local, Pointers, Waiting, InCas
    <3>7. Registers(t)'
      BY <2>3, <3>1, <3>2 DEF Local, Registers
    <3> QED
      BY <3>4, <3>5, <3>6, <3>7 DEF Local
  <2> QED
    BY <1>3, <2>2, <2>3 DEF RcuSwapped
<1> QED
  BY <1>1, <1>2, <1>3 DEF RcuPrev

\* Outside of pay_all and of node changes the list has nothing for the thread.
LEMMA ListOff ==
    ASSUME ListInv, HelpInv, NEW t \in Threads
    PROVE  /\ pc[t] \in {"gd_pay", "gd_dec", "cas_x", "cas_dec", "cas_drop_new", "old_dec", "rcu_f", "pa_dec"} =>
                 lpc[t] = "off"
           /\ pc[t] \in IntoInnerLabels => lpc[t] \in {"off", "visit"}
           /\ pc[t] = "ret" /\ (t \notin LateThreads \/ LeftWith(t)) => lpc[t] \in {"off", "visit"}
<1> Local(t) /\ lpc[t] \in ListLabels /\ (lpc[t] \in {"cd_swap", "cd_release"} => node[t] \in Nodes)
  BY DEF HelpInv, ListInv, Locals, Shape
<1> QED
  BY NodesFacts DEF Local, Places, ListLabels, LeftWith, IntoInnerLabels, VisitLabels,
     LoadSteps, LoadLabels,
     LoadEntry

\* The steps that use the result of a load, and those that end calls.
LEMMA ResultLocal ==
    ASSUME ListInv, HelpInv, NEW t \in Threads, ResultStep(t), UNCHANGED listVars
    PROVE  Local(t)'
<1> Shape /\ Locals /\ Shapes /\ Instances /\ Local(t)
  BY DEF ListInv, HelpInv
<1>0. lpc'[t] = lpc[t] /\ node'[t] = node[t]
  BY DEF listVars
<1>00. pc[t] \notin {"hp_theirs", "hp_store", "hp_cas", "hp_drop"} => wr[t].repl = NULL
  BY DEF Local, Pointers
<1>1. CASE IntoInnerInc(t)
  <2>1. /\ pc[t] = "in_inc" /\ pc'[t] = "in_pay" /\ op'[t] = op[t] /\ ld'[t] = ld[t]
        /\ wr'[t] = wr[t]
    BY <1>1 DEF IntoInnerInc, Goto, Shapes
  <2> USE DEF InHelp, LoadSteps, LoadLabels, IntoInnerLabels, VisitLabels, OpenLabels,
     HelpedLabels, LoadEntry
  <2>2. Places(t)'
    BY <1>0, <2>1 DEF Local, Places
  <2>3. Calls(t)'
    BY <1>0, <2>1 DEF Local, Calls, Places, Converts, Waiting
  <2>4. Pointers(t)'
    BY <1>0, <2>1 DEF Local, Pointers, Places, Calls, Converts, Waiting, InCas
  <2>5. Registers(t)'
    BY <1>0, <2>1 DEF Local, Registers, Places
  <2> QED
    BY <2>2, <2>3, <2>4, <2>5 DEF Local
<1>2. CASE IntoInnerPay(t)
  <2>1. pc[t] = "in_pay" /\ lpc[t] \in {"off", "visit"}
    BY <1>2, ListOff DEF IntoInnerPay, IntoInnerLabels
  <2>2. CASE IntoInnerDone(t)
    BY <1>0, <2>1, <2>2, InnerLocal
  <2>3. CASE Goto(t, "in_dec") /\ UNCHANGED <<op, ld, wr, owned>>
    <3>1. pc'[t] = "in_dec" /\ op'[t] = op[t] /\ ld'[t] = ld[t] /\ wr'[t] = wr[t]
      BY <2>3 DEF Goto, Shapes
    <3> USE DEF InHelp, LoadSteps, LoadLabels, IntoInnerLabels, VisitLabels, OpenLabels,
       HelpedLabels, LoadEntry
    <3>2. Places(t)'
      BY <1>0, <2>1, <3>1 DEF Local, Places
    <3>3. Calls(t)'
      BY <1>0, <2>1, <3>1 DEF Local, Calls, Places, Converts, Waiting
    <3>4. Pointers(t)'
      BY <1>0, <2>1, <3>1 DEF Local, Pointers, Places, Calls, Converts, Waiting, InCas
    <3>5. Registers(t)'
      BY <1>0, <2>1, <3>1 DEF Local, Registers, Places
    <3> QED
      BY <3>2, <3>3, <3>4, <3>5 DEF Local
  <2> QED
    BY <1>2, <2>2, <2>3 DEF IntoInnerPay, Pay
<1>3. CASE IntoInnerDec(t)
  <2>1. pc[t] = "in_dec" /\ lpc[t] \in {"off", "visit"}
    BY <1>3, ListOff DEF IntoInnerDec, IntoInnerLabels
  <2> QED
    BY <1>0, <1>3, <2>1, InnerLocal DEF IntoInnerDec
<1>4. CASE GuardDropPay(t)
  <2>1. pc[t] = "gd_pay" /\ lpc[t] = "off"
    BY <1>4, ListOff DEF GuardDropPay
  <2>2. CASE GuardDropDone(t)
    BY <1>0, <2>1, <2>2, DropDoneLocal
  <2>3. CASE Goto(t, "gd_dec") /\ UNCHANGED <<op, ld, wr, owned>>
    <3>1. pc'[t] = "gd_dec" /\ op'[t] = op[t] /\ ld'[t] = ld[t] /\ wr'[t] = wr[t]
      BY <2>3 DEF Goto, Shapes
    <3>2. ld[t].debt \in GuardDebts
      BY <2>1, DebtFacts DEF Local, Registers
    <3> USE DEF InHelp, LoadSteps, LoadLabels, IntoInnerLabels, VisitLabels, OpenLabels,
       HelpedLabels, LoadEntry
    <3>3. Places(t)'
      BY <1>0, <2>1, <3>1 DEF Local, Places
    <3>4. Calls(t)'
      BY <1>0, <2>1, <3>1 DEF Local, Calls, Places, Converts, Waiting
    <3>5. Pointers(t)'
      BY <1>0, <2>1, <3>1 DEF Local, Pointers, Places, Calls, Converts, Waiting, InCas
    <3>6. Registers(t)'
      BY <1>0, <2>1, <3>1, <3>2 DEF Local, Registers, Places
    <3> QED
      BY <3>3, <3>4, <3>5, <3>6 DEF Local
  <2> QED
    BY <1>4, <2>2, <2>3 DEF GuardDropPay, Pay
<1>5. CASE GuardDropDec(t)
  <2>1. pc[t] = "gd_dec" /\ lpc[t] = "off"
    BY <1>5, ListOff DEF GuardDropDec
  <2> QED
    BY <1>0, <1>5, <2>1, DropDoneLocal DEF GuardDropDec
<1>6. CASE ReturnGuard(t)
  <2>1. lpc[t] = "off"
    BY <1>6, ListOff DEF ReturnGuard, InHelp
  <2> QED
    BY <1>0, <1>6, <2>1, FinishLocal DEF ReturnGuard
<1>7. CASE ReturnFull(t)
  <2>1. lpc[t] \in {"off", "visit"} /\ pc[t] = "ret" /\ (op[t].kind = "load_full" \/ lpc[t] = "visit")
    BY <1>7, ListOff DEF ReturnFull, InHelp
  <2>2. CASE FullReference(t, ld[t].ptr)
    <3>1. ld[t].ptr \in Ptrs /\ pc[t] \in LoadSteps
      BY <2>1, Fields DEF LoadSteps, LoadLabels
    <3> QED
      BY <1>0, <2>1, <2>2, <3>1, FullLocal
  <2>3. CASE ld[t].debt # NoDebt /\ Goto(t, "in_inc") /\ UNCHANGED <<op, ld, wr, owned>>
    <3>1. pc'[t] = "in_inc" /\ op'[t] = op[t] /\ ld'[t] = ld[t] /\ wr'[t] = wr[t]
      BY <2>3 DEF Goto, Shapes
    <3>2. ld[t].debt[2] # HelpingSlot
      BY <2>1, <2>3, DebtFacts DEF Local, Registers
    <3>3. lpc[t] = "visit" => op[t].new = NULL
      BY DEF Local, Pointers, Waiting
    <3>4. op[t].kind = "load_full" => op[t].new = NULL
      BY DEF Local, Pointers
    <3> USE DEF InHelp, LoadSteps, LoadLabels, IntoInnerLabels, VisitLabels, OpenLabels,
       HelpedLabels, LoadEntry
    <3>5. Places(t)'
      BY <1>0, <2>1, <3>1 DEF Local, Places
    <3>6. Calls(t)'
      BY <1>0, <2>1, <3>1, <3>2 DEF Local, Calls, Places, Converts, Waiting
    <3>7. Pointers(t)'
      BY <1>0, <2>1, <3>1, <3>3, <3>4 DEF Local, Pointers, Places, Calls, Converts,
         Waiting, InCas
    <3>8. Registers(t)'
      BY <1>0, <2>1, <2>3, <3>1, <3>2 DEF Local, Registers, Places
    <3> QED
      BY <3>5, <3>6, <3>7, <3>8 DEF Local
  <2> QED
    BY <1>7, <2>2, <2>3 DEF ReturnFull
<1>8. CASE ReturnCas(t)
  <2>1. pc[t] = "ret" /\ op[t].kind \in {"cas", "rcu"} /\ lpc[t] # "visit"
    BY <1>8 DEF ReturnCas, InCas, InHelp
  <2>2. t \notin LateThreads /\ op[t].s \in Storages
    BY <2>1 DEF Local, Calls
  <2>3. lpc[t] = "off"
    BY <2>1, <2>2, ListOff
  <2>4. /\ ld'[t] = NoLoad /\ wr'[t].old = ld[t].ptr /\ wr'[t].repl = wr[t].repl
        /\ op'[t] = op[t]
        /\ pc'[t] = IF ld[t].ptr = op[t].cur THEN "cas_x" ELSE "cas_drop_new"
    BY <1>8 DEF ReturnCas, Goto, Shapes, WriteType
  <2> QED
    BY <1>0, <1>00, <2>1, <2>2, <2>3, <2>4, OutLocal
<1>9. CASE ReturnRcu(t)
  <2>1. pc[t] = "ret" /\ op[t].kind = "rcu_load"
    BY <1>9 DEF ReturnRcu
  <2>2. t \notin LateThreads /\ op[t].s \in Storages
    BY <2>1 DEF Local, Calls
  <2>3. lpc[t] = "off"
    <3>1. lpc[t] # "visit"
      BY <2>1 DEF Local, Calls, Waiting, WriteKinds
    <3> QED
      BY <2>1, <2>2, <3>1, ListOff
  <2>4. /\ ld'[t] = NoLoad /\ wr'[t] = wr[t] /\ op'[t].kind = op[t].kind /\ op'[t].s = op[t].s
        /\ op'[t].new = op[t].new /\ pc'[t] = "rcu_f"
    BY <1>9 DEF ReturnRcu, Goto, Shapes, OpType
  <2>5. op[t].new = NULL
    BY <2>1 DEF Local, Pointers
  <2> QED
    BY <1>0, <1>00, <2>1, <2>2, <2>3, <2>4, <2>5, OutLocal
<1>10. CASE RcuApply(t)
  <2>1. pc[t] = "rcu_f" /\ lpc[t] = "off"
    BY <1>10, ListOff DEF RcuApply
  <2>2. /\ ld'[t] = NoLoad /\ wr'[t] = wr[t] /\ op'[t].kind = "rcu" /\ op'[t].s = op[t].s
        /\ pc'[t] = LoadEntry
    BY <1>10 DEF RcuApply, BeginLoad, Goto, Shapes, OpType
  <2>3. op[t].s \in Storages /\ t \notin LateThreads
    BY <2>1 DEF Local, Calls
  <2> QED
    BY <1>0, <1>00, <2>1, <2>2, <2>3, BeginLocal
<1>11. CASE CasExchange(t)
  <2>1. /\ pc[t] = "cas_x" /\ lpc[t] = "off" /\ op[t].kind \in {"cas", "rcu"}
        /\ op[t].s \in Storages /\ t \notin LateThreads
        /\ wr[t].old = op[t].cur /\ ld[t] = NoLoad
    <3>1. pc[t] = "cas_x" /\ lpc[t] = "off"
      BY <1>11, ListOff DEF CasExchange
    <3>2. op[t].kind \in {"cas", "rcu"} /\ op[t].s \in Storages /\ t \notin LateThreads
      BY <3>1 DEF Local, Calls
    <3>3. wr[t].old = op[t].cur
      BY <3>1, <3>2 DEF Local, Pointers, InCas
    <3>4. ld[t] = NoLoad
      BY <3>1 DEF Local, Registers, LoadSteps, LoadLabels, IntoInnerLabels
    <3> QED
      BY <3>1, <3>2, <3>3, <3>4
  <2>2. CASE /\ op' = [op EXCEPT ![t].new = NULL]
             /\ Goto(t, "pa_inc")
             /\ UNCHANGED <<ld, wr>>
    <3>1. /\ op'[t].kind = op[t].kind /\ op'[t].s = op[t].s /\ op'[t].cur = op[t].cur
          /\ op'[t].new = NULL /\ pc'[t] = "pa_inc" /\ ld'[t] = ld[t] /\ wr'[t] = wr[t]
      BY <2>2 DEF Goto, Shapes, OpType
    <3> QED
      BY <1>0, <1>00, <2>1, <3>1, OutLocal
  <2>3. CASE /\ BeginGuardDrop(t, Guard(wr[t].old, wr[t].debt))
             /\ wr' = [wr EXCEPT ![t] = NoWrite]
             /\ UNCHANGED <<op, storage>>
    <3>1. /\ ld'[t].debt = wr[t].debt /\ wr[t].debt \in GuardDebts
          /\ pc'[t] = IF wr[t].debt = NoDebt THEN "gd_dec" ELSE "gd_pay"
      BY <2>3, Fields DEF BeginGuardDrop, Guard, Protection, Goto, Shapes
    <3>2. op'[t] = op[t] /\ wr'[t].repl = NULL
      BY <2>3 DEF NoWrite, Shapes
    <3> QED
      BY <1>0, <2>1, <3>1, <3>2, DropLocal
  <2> QED
    BY <1>11, <2>2, <2>3 DEF CasExchange
<1>12. CASE CasDec(t) \/ CasDropNew(t)
  <2>1. pc[t] \in {"cas_dec", "cas_drop_new"} /\ lpc[t] = "off"
    BY <1>12, ListOff DEF CasDec, CasDropNew
  <2> QED
    BY <1>0, <1>12, <2>1, CasEndLocal DEF CasDec, CasDropNew
<1>13. CASE PayAllDec(t)
  <2>1. pc[t] = "pa_dec" /\ lpc[t] = "off"
    BY <1>13, ListOff DEF PayAllDec
  <2>2. CASE Finish(t)
    BY <1>0, <2>1, <2>2, FinishLocal
  <2>3. CASE /\ \/ op[t].kind \in {"store", "drop"} /\ Goto(t, "old_dec")
                \/ InCas(t) /\ Goto(t, "cas_dec")
             /\ UNCHANGED <<op, ld, wr>>
    <3>1. /\ op'[t] = op[t] /\ ld'[t] = ld[t] /\ wr'[t] = wr[t]
          /\ \/ pc'[t] = "old_dec" /\ op[t].kind \in {"store", "drop"}
             \/ pc'[t] = "cas_dec" /\ op[t].kind \in {"cas", "rcu"}
      BY <2>3 DEF Goto, Shapes, InCas
    <3>2. ld[t] = NoLoad
      BY <2>1 DEF Local, Registers, LoadSteps, LoadLabels, IntoInnerLabels
    <3>3. op[t].new = NULL /\ (op[t].kind \in {"cas", "rcu"} => wr[t].old = op[t].cur)
      BY <2>1 DEF Local, Pointers, Waiting, InCas
    <3>4. op[t].s \in Storages /\ t \notin LateThreads
      BY <3>1 DEF Local, Calls
    <3> QED
      BY <1>0, <1>00, <2>1, <3>1, <3>2, <3>3, <3>4, OutLocal
  <2> QED
    BY <1>13, <2>2, <2>3 DEF PayAllDec
<1>14. CASE OldDec(t)
  <2>1. lpc[t] = "off"
    BY <1>14, ListOff DEF OldDec
  <2> QED
    BY <1>0, <1>14, <2>1, FinishLocal DEF OldDec
<1> QED
  BY <1>1, <1>2, <1>3, <1>4, <1>5, <1>6, <1>7, <1>8, <1>9, <1>10, <1>11, <1>12, <1>13,
     <1>14 DEF ResultStep

\* Every step keeps what Local says of every thread.
LEMMA NextLocal ==
    ASSUME ListInv, HelpInv, NoWrap, NEW t \in Threads, Acts(t)
    PROVE  \A u \in Threads : Local(u)'
<1> Shape /\ Shapes /\ \A u \in Threads : Local(u)
  BY DEF ListInv, HelpInv
<1>1. Local(t)'
  BY CallLocal, NodeLocal, ReadLocal, ResultLocal, HelpLocal, PayLocal, WalkLocal DEF Acts
<1>2. \A u \in Threads : u # t => Same(u)
  BY OthersSame
<1> QED
  BY <1>1, <1>2, SameLocal
=============================================================================
