----------------------------- MODULE ArcSwapInv -----------------------------
(***************************************************************************)
(* The inductive invariant of ArcSwap: what a thread has at hand at each   *)
(* access, and how the nodes, the envelopes and the generations of threads *)
(* that meet in the helping slots fit together.                            *)
(***************************************************************************)
EXTENDS ArcSwap

\* The generation counter of no thread wraps around.
NoWrap == \A t \in Threads : pc[t] = "fb_ctl" => generation[t] # 0

Words == {GEN(g) : g \in Generations}
FastDebts == Nodes \X (1 .. SlotCnt)
GuardDebts == {NoDebt} \cup FastDebts

OpType == [kind : OpKinds, s : Storages \cup {NoStorage}, new : Ptrs, cur : Ptrs, debt : GuardDebts]
LoadType == [ptr : Ptrs, debt : AllDebts, idx : 0 .. SlotCnt, env : Nodes \cup {NoNode}, repl : Ptrs]
WriteType == [old : Ptrs, debt : GuardDebts, idx : 0 .. SlotCnt + 1, ctl : Controls,
              env : Nodes \cup {NoNode}, repl : Ptrs]
GuardType == [ptr : Ptrs, debt : GuardDebts]

Shapes ==
    /\ slots \in [Nodes -> [SlotIds -> Ptrs \cup {NONE}]]
    /\ control \in [Nodes -> Controls]
    /\ active_addr \in [Nodes -> Storages \cup {NoStorage}]
    /\ handover \in [Nodes -> Ptrs]
    /\ space_offer \in [Nodes -> Nodes]
    /\ generation \in [Threads -> Generations]
    /\ offset \in [Threads -> 0 .. SlotCnt]
    /\ pc \in [Threads -> HybridLabels]
    /\ op \in [Threads -> OpType]
    /\ ld \in [Threads -> LoadType]
    /\ wr \in [Threads -> WriteType]
    /\ storage \in [Storages -> Ptrs \cup {Dead}]
    /\ IsABag(guards)
    /\ BagToSet(guards) \subseteq GuardType
    /\ owned \in [Addrs -> Nat]
    /\ strong \in [Addrs -> Int]

-----------------------------------------------------------------------------
(* What a thread has at hand.                                                *)

VisitLabels == {"hp_ctl", "hp_addr", "hp_reconf", "hp_theirs", "hp_store", "hp_cas",
                "hp_drop", "hp_offer", "pa_slot", "pa_inc2", "pa_release"}
OpenLabels == {"fb_cand", "fb_slot", "fb_confirm"}
HelpedLabels == {"fb_hand", "fb_space", "fb_unpay", "fb_undec"}
LoadSteps == LoadLabels \cup IntoInnerLabels

\* Inside of the conversion of a result, not of the helping slot's debt.
Converts(t) == pc[t] \in IntoInnerLabels /\ ld[t].debt[2] # HelpingSlot

ReadKinds == {"load", "load_full", "cas", "rcu_load", "rcu"}
WriteKinds == {"store", "swap", "cas", "rcu", "drop", "into_inner"}

\* Where the two program counters can be.
Places(t) ==
    /\ pc[t] \notin {"fb_discard", "panicked"}
    /\ lpc[t] = "reserve" <=> pc[t] = "pa_reserve"
    /\ pc[t] \in VisitLabels => lpc[t] = "visit"
    /\ lpc[t] = "visit" => pc[t] \in VisitLabels \cup LoadSteps
    /\ lpc[t] \in {"cool_load", "cool_writers", "cool_cas", "claim", "alloc", "push"} =>
          pc[t] \in {LoadEntry, "pa_inc"}
    /\ lpc[t] \in {"cd_swap", "cd_release"} =>
          pc[t] = "idle" \/ (pc[t] = "ret" /\ t \in LateThreads)
    /\ \/ lpc[t] \in {"reserve", "visit"}
       \/ pc[t] \in {"scan", "take", "fb_ctl", "pa_walk"} \cup OpenLabels \cup HelpedLabels
       => node[t] # NoNode

\* Which calls are where.
Calls(t) ==
    /\ pc[t] = "idle" => op[t] = NoOp
    /\ Waiting(t) => op[t].kind \in WriteKinds
    /\ ~InHelp(t) /\ pc[t] \in LoadSteps =>
          op[t].kind \in IF Converts(t) THEN {"load_full", "guard_into_inner", "rcu"} ELSE ReadKinds
    /\ pc[t] \in {"gd_pay", "gd_dec"} =>
          op[t].kind \in {"guard_drop", "cas", "rcu", "rcu_retry", "rcu_done"}
    /\ pc[t] \in {"cas_x", "cas_dec", "cas_drop_new"} => op[t].kind \in {"cas", "rcu"}
    /\ pc[t] = "rcu_f" => op[t].kind \in {"rcu_load", "rcu_retry"}
    /\ pc[t] = "old_dec" => op[t].kind \in {"store", "drop"}
    /\ t \in LateThreads => op[t].kind \in {"none", "load", "load_full", "guard_drop"}
    /\ op[t].kind \notin {"none", "guard_drop", "guard_into_inner"} => op[t].s \in Storages

\* The pointers of a call that are not there yet, or not any more.
Pointers(t) ==
    /\ op[t].new # NULL =>
          /\ op[t].kind \in {"cas", "rcu", "rcu_done"}
          /\ ~Waiting(t) /\ pc[t] # "cas_dec" /\ ~Converts(t)
    /\ wr[t].repl # NULL => pc[t] \in {"hp_theirs", "hp_store", "hp_cas", "hp_drop"}
    /\ InCas(t) /\ (Waiting(t) \/ pc[t] \in {"cas_x", "cas_dec"}) => wr[t].old = op[t].cur
    /\ pc[t] = "cas_drop_new" => wr[t].old # op[t].cur

\* The locals of a load, of help and of pay_all.
Registers(t) ==
    /\ \/ pc[t] \in {"ld_ptr", "fb_addr"}
       \/ pc[t] \notin LoadSteps \cup {"gd_pay", "gd_dec"}
       => ld[t] = NoLoad
    /\ pc[t] = "scan" => ld[t].idx < SlotCnt
    /\ pc[t] = "take" => ld[t].idx > 0
    /\ pc[t] \in {"ld_confirm", "ld_pay", "gd_pay"} => ld[t].debt \in FastDebts
    /\ pc[t] \in {"ret", "gd_dec"} => ld[t].debt \in GuardDebts
    /\ pc[t] \in HelpedLabels => ld[t].debt = <<node[t], HelpingSlot>>
    /\ pc[t] \in {"fb_hand", "fb_space"} => ld[t].env \in Nodes
    /\ pc[t] \in IntoInnerLabels =>
          /\ ld[t].debt # NoDebt
          /\ ld[t].debt[2] = HelpingSlot => ld[t].debt[1] = node[t]
    /\ \/ pc[t] \in {"hp_addr", "hp_reconf", "hp_theirs", "hp_store", "hp_cas"}
       \/ InHelp(t) /\ pc[t] \in LoadSteps
       => wr[t].ctl \in Words
    /\ pc[t] \in {"hp_store", "hp_cas", "hp_offer"} => wr[t].env \in Nodes
    /\ pc[t] \in {"pa_slot", "pa_inc2"} => wr[t].idx > 0

Local(t) == Places(t) /\ Calls(t) /\ Pointers(t) /\ Registers(t)

-----------------------------------------------------------------------------
(* What threads share.                                                       *)

\* A call runs on an instance that exists; one that destroys it is alone.
Instances ==
    /\ \A t \in Threads : op[t].s # NoStorage => storage[op[t].s] # Dead
    /\ \A t \in Threads : op[t].kind \in {"drop", "into_inner"} =>
          /\ storage[op[t].s] = wr[t].old
          /\ \A u \in Threads : u # t => op[u].s # op[t].s

\* A control that is not IDLE belongs to a load that the owner is in.
Announced ==
    /\ \A n \in Nodes : control[n] # IDLE =>
          \E u \in Threads :
             /\ node[u] = n /\ pc[u] \in OpenLabels
             /\ \/ control[n] = GEN(generation[u])
                \/ \E e \in Nodes : control[n] = REPLACEMENT(e)
    /\ \A u \in Threads : pc[u] \in OpenLabels => control[node[u]] # IDLE

\* Thread t has a control word in mind that it may exchange for an answer.
Pending(t) ==
    \/ pc[t] \in {"hp_addr", "hp_reconf", "hp_theirs", "hp_store", "hp_cas"}
    \/ InHelp(t) /\ pc[t] \in LoadSteps
    \/ pc[t] = "hp_drop" /\ wr[t].ctl \in Words

\* The word is that of another thread, which will not use it again: the owner of
\* the node is in that generation or a later one, or the node waits for t in its
\* cooldown.
Generational ==
    \A t \in Threads : Pending(t) =>
        /\ cursor[t] # node[t]
        /\ \/ t \in stale[cursor[t]]
           \/ \E u \in Threads :
                 /\ Owned(u) = cursor[t]
                 /\ wr[t].ctl <= GEN(generation[u])
                 /\ pc[u] = "fb_ctl" => wr[t].ctl < GEN(generation[u])

\* Only its owner puts debts into a slot, and it has found it free.
SlotsFree ==
    /\ \A t \in Threads : pc[t] = "take" => slots[node[t]][ld[t].idx] = NONE
    /\ \A n \in Nodes : slots[n][HelpingSlot] # NONE =>
          \E u \in Threads :
             /\ node[u] = n
             /\ \/ pc[u] \in {"fb_confirm", "fb_hand", "fb_space", "fb_unpay"}
                \/ pc[u] \in {"in_inc", "in_pay"} /\ ld[u].debt[2] = HelpingSlot
             /\ ld[u].ptr = slots[n][HelpingSlot]

\* The envelope a helper will get is the reader's as long as its answer can
\* arrive; the answer is in the envelope of the helper.
Exchanges ==
    \A t \in Threads :
        /\ pc[t] \in {"hp_store", "hp_cas"} /\ control[cursor[t]] = wr[t].ctl =>
              space_offer[cursor[t]] = wr[t].env
        /\ pc[t] = "hp_cas" => handover[space_offer[node[t]]] = wr[t].repl

HelpInv ==
    /\ Shapes
    /\ \A t \in Threads : Local(t)
    /\ Instances
    /\ Announced
    /\ Generational
    /\ SlotsFree
    /\ EnvelopesUnique
    /\ Exchanges
=============================================================================
