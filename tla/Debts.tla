------------------------------- MODULE Debts --------------------------------
(***************************************************************************)
(* The debt slots of the nodes (src/debt/mod.rs, fast.rs, helping.rs).     *)
(*                                                                         *)
(* A slot holds a pointer whose reference the reader owes, or NONE.  A     *)
(* node has SlotCnt fast slots and a helping slot.  A writer that replaced *)
(* a pointer walks the nodes and pays all the debts on it with references  *)
(* of its own (pay_all); on the way it helps readers that are inside the   *)
(* slow path of a load (help), handing them a protected pointer inside an  *)
(* envelope.                                                               *)
(*                                                                         *)
(* One step is one atomic access by thread t; pc[t] is the access it is    *)
(* about to make.  What it does in between is part of the step before.     *)
(***************************************************************************)
EXTENDS DebtList

CONSTANTS
    Storages,   \* addresses of ArcSwap instances
    Addrs,      \* addresses an Arc can be allocated at
    NULL,       \* the null pointer of an empty Option<Arc<_>>
    NONE,       \* Debt::NONE, no pointer
    NoStorage,  \* the address 0 of active_addr before the first use
    SlotCnt,    \* DEBT_SLOT_CNT
    GenMod,     \* generations before the counter wraps around
    USE_FAST    \* Config::USE_FAST

Ptrs == Addrs \cup {NULL}
HelpingSlot == 0
SlotIds == HelpingSlot .. SlotCnt

NoDebt == <<NoNode, HelpingSlot>>
AllDebts == {NoDebt} \cup (Nodes \X SlotIds)

\* The control word: its two lowest bits are a tag.  Generations count by 4 and
\* an envelope is aligned to 4, so that both leave room for it; the envelope of
\* node n is at address 4 * n.
REPLACEMENT_TAG == 1
GEN_TAG == 2
Tag(word) == word % 4
IDLE == 0
GEN(gen) == gen + GEN_TAG
REPLACEMENT(env) == 4 * env + REPLACEMENT_TAG
EnvelopeIn(word) == word \div 4

GenLimit == 4 * GenMod
Generations == {4 * k : k \in 0 .. GenMod - 1}
Controls == {IDLE} \cup {GEN(g) : g \in Generations} \cup {REPLACEMENT(e) : e \in Nodes}

ASSUME SlotAssumption ==
    /\ SlotCnt \in Nat \ {0}
    /\ GenMod \in Nat \ {0}
    /\ USE_FAST \in BOOLEAN
    /\ NULL \notin Addrs
    /\ NONE \notin Ptrs
    /\ NoStorage \notin Storages

VARIABLES
    strong,         \* reference count at each address; 0: the memory is free
    slots,          \* the Debt slots of each node
    control,        \* helping Slots.control
    active_addr,    \* helping Slots.active_addr
    handover,       \* content of each envelope; envelope n was born in node n
    space_offer,    \* helping Slots.space_offer, the envelope a node has
    generation,     \* helping Local.generation of each thread
    offset,         \* fast Local.offset of each thread
    pc,             \* the next access of each thread
    op,             \* the API call a thread is in
    ld,             \* locals of a load (or of a guard being dropped)
    wr              \* locals of a write: wait_for_readers, compare_and_swap

helpVars == <<control, active_addr, handover, space_offer>>
localVars == <<generation, offset>>
debtVars == <<strong, slots, helpVars, localVars, pc, op, ld, wr>>

OpKinds == {"none", "load", "load_full", "store", "swap", "cas", "drop", "into_inner",
            "guard_drop", "guard_into_inner", "rcu_load", "rcu", "rcu_retry", "rcu_done"}

Operation(kind, s, new, cur) ==
    [kind |-> kind, s |-> s, new |-> new, cur |-> cur, debt |-> NoDebt]
Protection(p, d) == [ptr |-> p, debt |-> d, idx |-> 0, env |-> NoNode, repl |-> NULL]

NoOp == Operation("none", NoStorage, NULL, NULL)
NoLoad == Protection(NULL, NoDebt)
NoWrite == [old |-> NULL, debt |-> NoDebt, idx |-> 0, ctl |-> IDLE, env |-> NoNode,
            repl |-> NULL]

DebtLabels ==
    {"scan", "take", "fb_addr", "fb_ctl", "fb_discard", "fb_slot", "fb_confirm", "fb_hand",
     "fb_space", "pa_inc", "pa_walk", "pa_reserve", "pa_slot", "pa_inc2", "pa_release",
     "pa_dec", "hp_ctl", "hp_addr", "hp_reconf", "hp_theirs", "hp_store", "hp_cas",
     "hp_drop", "hp_offer", "ld_ptr", "ld_confirm", "fb_cand", "fb_unpay"}

DebtTypeOK ==
    /\ strong \in [Addrs -> Nat]
    /\ slots \in [Nodes -> [SlotIds -> Ptrs \cup {NONE}]]
    /\ control \in [Nodes -> Controls]
    /\ active_addr \in [Nodes -> Storages \cup {NoStorage}]
    /\ handover \in [Nodes -> Ptrs]
    /\ space_offer \in [Nodes -> Nodes]
    /\ generation \in [Threads -> Generations]
    /\ offset \in [Threads -> 0 .. SlotCnt]
    /\ op \in [Threads -> [kind : OpKinds, s : Storages \cup {NoStorage},
                           new : Ptrs, cur : Ptrs, debt : AllDebts]]
    /\ ld \in [Threads -> [ptr : Ptrs, debt : AllDebts, idx : 0 .. SlotCnt,
                           env : Nodes \cup {NoNode}, repl : Ptrs]]
    /\ wr \in [Threads -> [old : Ptrs, debt : AllDebts, idx : 0 .. SlotCnt + 1,
                           ctl : Controls, env : Nodes \cup {NoNode}, repl : Ptrs]]

Inc(counts, p) == [a \in Addrs |-> IF a = p THEN counts[a] + 1 ELSE counts[a]]
Dec(counts, p) == [a \in Addrs |-> IF a = p THEN counts[a] - 1 ELSE counts[a]]

Goto(t, label) == pc' = [pc EXCEPT ![t] = label]

\* Where Strategy::load begins.
LoadEntry == IF USE_FAST THEN "ld_ptr" ELSE "fb_addr"

DebtInit ==
    /\ slots = [n \in Nodes |-> [k \in SlotIds |-> NONE]]
    /\ control = [n \in Nodes |-> IDLE]
    /\ active_addr = [n \in Nodes |-> NoStorage]
    /\ handover = [n \in Nodes |-> NULL]
    /\ space_offer = [n \in Nodes |-> n]
    /\ offset = [t \in Threads |-> 0]
    /\ op = [t \in Threads |-> NoOp]
    /\ ld = [t \in Threads |-> NoLoad]
    /\ wr = [t \in Threads |-> NoWrite]

-----------------------------------------------------------------------------
(* Paying one debt.                                                          *)

\* Would the compare_exchange of Debt::pay succeed now?
IsOwed(debt, p) == slots[debt[1]][debt[2]] = p

\* Debt::pay of debt d for pointer p, then go where its result leads.
Pay(t, d, p, paid, notPaid) ==
    \/ /\ IsOwed(d, p)
       /\ slots' = [slots EXCEPT ![d[1]][d[2]] = NONE]
       /\ paid
    \/ /\ ~IsOwed(d, p)
       /\ UNCHANGED slots
       /\ notPaid

-----------------------------------------------------------------------------
(* fast::Slots::get_debt, called by attempt with the pointer in ld.ptr.      *)

\* Mutant: a slot is taken whatever it holds.
FastScanBlind(t) ==
    LET k == ((ld[t].idx + offset[t]) % SlotCnt) + 1
    IN  /\ pc[t] = "scan"
        /\ ld' = [ld EXCEPT ![t].idx = k]
        /\ Goto(t, "take")
        /\ UNCHANGED <<strong, slots, helpVars, localVars, op, wr>>

\* Mutant: the scan starts again when all slots are full.
FastScanSpins(t) ==
    LET k == ((ld[t].idx + offset[t]) % SlotCnt) + 1
    IN  /\ pc[t] = "scan"
        /\ \/ /\ slots[node[t]][k] = NONE
              /\ ld' = [ld EXCEPT ![t].idx = k]
              /\ Goto(t, "take")
           \/ /\ slots[node[t]][k] # NONE
              /\ ld' = [ld EXCEPT ![t].idx = (@ + 1) % SlotCnt]
              /\ UNCHANGED pc
        /\ UNCHANGED <<strong, slots, helpVars, localVars, op, wr>>

\* Look at the slot that is ld.idx after the offset; no free slot: give up.
FastScan(t) ==
    LET k == ((ld[t].idx + offset[t]) % SlotCnt) + 1
    IN  /\ pc[t] = "scan"
        /\ \/ /\ slots[node[t]][k] = NONE
              /\ ld' = [ld EXCEPT ![t].idx = k]
              /\ Goto(t, "take")
           \/ /\ slots[node[t]][k] # NONE
              /\ ld[t].idx + 1 < SlotCnt
              /\ ld' = [ld EXCEPT ![t].idx = @ + 1]
              /\ UNCHANGED pc
           \/ /\ slots[node[t]][k] # NONE
              /\ ld[t].idx + 1 = SlotCnt
              /\ ld' = [ld EXCEPT ![t] = NoLoad]
              /\ Goto(t, "fb_addr")
        /\ UNCHANGED <<strong, slots, helpVars, localVars, op, wr>>

\* Swap the pointer into the free slot and advance the round robin.
FastTake(t) ==
    LET k == ld[t].idx
    IN  /\ pc[t] = "take"
        /\ slots' = [slots EXCEPT ![node[t]][k] = ld[t].ptr]
        /\ offset' = [offset EXCEPT ![t] = k]
        /\ ld' = [ld EXCEPT ![t].debt = <<node[t], k>>, ![t].idx = 0]
        /\ Goto(t, "ld_confirm")
        /\ UNCHANGED <<strong, helpVars, generation, op, wr>>

-----------------------------------------------------------------------------
(* helping::Slots::get_debt and LocalNode::new_helping.                      *)

\* Next generation; publish the address of the storage being loaded from.
HelpingAnnounce(t) ==
    /\ pc[t] = "fb_addr"
    /\ node[t] # NoNode
    /\ generation' = [generation EXCEPT ![t] = (@ + 4) % GenLimit]
    /\ active_addr' = [active_addr EXCEPT ![node[t]] = op[t].s]
    /\ Goto(t, "fb_ctl")
    /\ UNCHANGED <<strong, slots, control, handover, space_offer, offset, op, ld, wr>>

\* Publish the generation; one that wrapped around sends the node to cooldown.
HelpingOpen(t) ==
    /\ pc[t] = "fb_ctl"
    /\ control' = [control EXCEPT ![node[t]] = GEN(generation[t])]
    /\ Goto(t, IF generation[t] = 0 THEN "fb_discard" ELSE "fb_cand")
    /\ UNCHANGED <<strong, slots, active_addr, handover, space_offer, localVars, op, ld, wr>>

(* helping::Slots::confirm with the candidate in ld.ptr.                     *)

\* Put the debt on the candidate into the helping slot.
ConfirmSlot(t) ==
    /\ pc[t] = "fb_slot"
    /\ slots' = [slots EXCEPT ![node[t]][HelpingSlot] = ld[t].ptr]
    /\ Goto(t, "fb_confirm")
    /\ UNCHANGED <<strong, helpVars, localVars, op, ld, wr>>

\* Back to IDLE: either nobody interfered, or there is a replacement.
ConfirmControl(t) ==
    LET n == node[t]
    IN  /\ pc[t] = "fb_confirm"
        /\ control' = [control EXCEPT ![n] = IDLE]
        /\ ld' = [ld EXCEPT ![t].debt = <<n, HelpingSlot>>,
                            ![t].env = IF control[n] = GEN(generation[t])
                                       THEN NoNode ELSE EnvelopeIn(control[n])]
        /\ Goto(t, IF control[n] = GEN(generation[t]) THEN "in_inc" ELSE "fb_hand")
        /\ UNCHANGED <<strong, slots, active_addr, handover, space_offer, localVars, op, wr>>

\* Take the replacement out of the envelope.
ConfirmHandover(t) ==
    /\ pc[t] = "fb_hand"
    /\ ld' = [ld EXCEPT ![t].repl = handover[ld[t].env]]
    /\ Goto(t, "fb_space")
    /\ UNCHANGED <<strong, slots, helpVars, localVars, op, wr>>

\* Mutant: the envelope is not taken over.
ConfirmSpaceForgotten(t) ==
    /\ pc[t] = "fb_space"
    /\ ld' = [ld EXCEPT ![t].env = NoNode]
    /\ Goto(t, "fb_unpay")
    /\ UNCHANGED <<strong, slots, helpVars, localVars, op, wr>>

\* The envelope is ours from now on.
ConfirmSpace(t) ==
    /\ pc[t] = "fb_space"
    /\ space_offer' = [space_offer EXCEPT ![node[t]] = ld[t].env]
    /\ ld' = [ld EXCEPT ![t].env = NoNode]
    /\ Goto(t, "fb_unpay")
    /\ UNCHANGED <<strong, slots, control, active_addr, handover, localVars, op, wr>>

-----------------------------------------------------------------------------
(* helping::Slots::help: a writer to op.s at the node who = cursor.          *)

\* Where the match on the control value c leads.
HelpMatch(t, c) ==
    IF Tag(c) = GEN_TAG
    THEN /\ wr' = [wr EXCEPT ![t].ctl = c, ![t].repl = NULL, ![t].env = NoNode]
         /\ Goto(t, "hp_addr")
    ELSE /\ wr' = [wr EXCEPT ![t].ctl = IDLE, ![t].repl = NULL, ![t].env = NoNode,
                             ![t].idx = 1]
         /\ Goto(t, "pa_slot")

HelpControl(t) ==
    /\ pc[t] = "hp_ctl"
    /\ HelpMatch(t, control[cursor[t]])
    /\ UNCHANGED <<strong, slots, helpVars, localVars, op, ld>>

\* Mutant: whoever is loading is helped, whatever the storage.
HelpAnyAddr(t) ==
    /\ pc[t] = "hp_addr"
    /\ Goto(t, LoadEntry)
    /\ UNCHANGED <<strong, slots, helpVars, localVars, op, ld, wr>>

\* Is the reader after our storage?  If so load a replacement the normal way.
HelpAddr(t) ==
    /\ pc[t] = "hp_addr"
    /\ Goto(t, IF active_addr[cursor[t]] = op[t].s THEN LoadEntry ELSE "hp_reconf")
    /\ UNCHANGED <<strong, slots, helpVars, localVars, op, ld, wr>>

\* Mutant: wait until the reader has done something.
HelpReconfirmWaits(t) ==
    /\ pc[t] = "hp_reconf"
    /\ HelpMatch(t, control[cursor[t]])
    /\ UNCHANGED <<strong, slots, helpVars, localVars, op, ld>>

\* It is not; trust that only if the control has not changed meanwhile.
HelpReconfirm(t) ==
    LET c == control[cursor[t]]
    IN  /\ pc[t] = "hp_reconf"
        /\ HelpMatch(t, IF c = wr[t].ctl THEN IDLE ELSE c)
        /\ UNCHANGED <<strong, slots, helpVars, localVars, op, ld>>

\* With the replacement at hand, see which envelope the reader offers.
HelpTheirSpace(t) ==
    /\ pc[t] = "hp_theirs"
    /\ wr' = [wr EXCEPT ![t].env = space_offer[cursor[t]]]
    /\ Goto(t, "hp_store")
    /\ UNCHANGED <<strong, slots, helpVars, localVars, op, ld>>

\* Mutant: the pointer that was replaced is sent, not the one that was loaded.
HelpStoreOld(t) ==
    /\ pc[t] = "hp_store"
    /\ handover' = [handover EXCEPT ![space_offer[node[t]]] = wr[t].old]
    /\ Goto(t, "hp_cas")
    /\ UNCHANGED <<strong, slots, control, active_addr, space_offer, localVars, op, ld, wr>>

\* Put the replacement into our own envelope.
HelpStore(t) ==
    /\ pc[t] = "hp_store"
    /\ handover' = [handover EXCEPT ![space_offer[node[t]]] = wr[t].repl]
    /\ Goto(t, "hp_cas")
    /\ UNCHANGED <<strong, slots, control, active_addr, space_offer, localVars, op, ld, wr>>

\* Send it, if the reader is still in the same generation.
HelpCas(t) ==
    LET who == cursor[t]
    IN  /\ pc[t] = "hp_cas"
        /\ \/ /\ control[who] = wr[t].ctl
              /\ control' = [control EXCEPT ![who] = REPLACEMENT(space_offer[node[t]])]
              /\ wr' = [wr EXCEPT ![t].repl = NULL]
              /\ Goto(t, "hp_offer")
           \/ /\ control[who] # wr[t].ctl
              /\ wr' = [wr EXCEPT ![t].ctl = control[who]]
              /\ Goto(t, "hp_drop")
              /\ UNCHANGED control
        /\ UNCHANGED <<strong, slots, active_addr, handover, space_offer, localVars, op, ld>>

\* The useless replacement is dropped; look at the new control value.
HelpDrop(t) ==
    /\ pc[t] = "hp_drop"
    /\ strong' = Dec(strong, wr[t].repl)
    /\ HelpMatch(t, wr[t].ctl)
    /\ UNCHANGED <<slots, helpVars, localVars, op, ld>>

\* Mutant: the helper keeps its envelope, which it has just given away.
HelpKeepsSpace(t) ==
    /\ pc[t] = "hp_offer"
    /\ HelpMatch(t, IDLE)
    /\ UNCHANGED <<strong, slots, helpVars, localVars, op, ld>>

\* Helped: take the reader's envelope in exchange for ours.
HelpOffer(t) ==
    /\ pc[t] = "hp_offer"
    /\ space_offer' = [space_offer EXCEPT ![node[t]] = wr[t].env]
    /\ HelpMatch(t, IDLE)
    /\ UNCHANGED <<strong, slots, control, active_addr, handover, localVars, op, ld>>

-----------------------------------------------------------------------------
(* Debt::pay_all for the pointer wr.old and the storage op.s.                *)

\* Pre-pay one reference.
PayAllInc(t) ==
    /\ pc[t] = "pa_inc"
    /\ node[t] # NoNode
    /\ strong' = Inc(strong, wr[t].old)
    /\ Goto(t, "pa_walk")
    /\ UNCHANGED <<slots, helpVars, localVars, op, ld, wr>>

\* Node::traverse: load the head, then reserve and help each node.
PayAllWalk(t) ==
    /\ pc[t] = "pa_walk"
    /\ TraverseStart(t)
    /\ Goto(t, "pa_reserve")
    /\ UNCHANGED <<strong, slots, helpVars, localVars, op, ld, wr>>

PayAllReserve(t) ==
    /\ pc[t] = "pa_reserve"
    /\ ReserveWriter(t)
    /\ Goto(t, "hp_ctl")
    /\ UNCHANGED <<strong, slots, helpVars, localVars, op, ld, wr>>

\* Mutant: the helping slot is left out.
FastSlotsOnly(i) == IF i > SlotCnt THEN SlotCnt ELSE i

\* all_slots: the fast ones in order, then the helping one.
NthSlot(i) == IF i > SlotCnt THEN HelpingSlot ELSE i

NextSlot(t) ==
    IF wr[t].idx > SlotCnt
    THEN wr' = [wr EXCEPT ![t].idx = 0] /\ Goto(t, "pa_release")
    ELSE wr' = [wr EXCEPT ![t].idx = @ + 1] /\ Goto(t, "pa_slot")

\* Pay the debt in the next slot if it is on our pointer.
PayAllSlot(t) ==
    /\ pc[t] = "pa_slot"
    /\ Pay(t, <<cursor[t], NthSlot(wr[t].idx)>>, wr[t].old,
           Goto(t, "pa_inc2") /\ UNCHANGED wr,
           NextSlot(t))
    /\ UNCHANGED <<strong, helpVars, localVars, op, ld>>

\* Mutant: the reference just given away is not replaced.
PayAllOnce(t) ==
    /\ pc[t] = "pa_inc2"
    /\ NextSlot(t)
    /\ UNCHANGED <<strong, slots, helpVars, localVars, op, ld>>

\* Pre-pay one more for another slot.
PayAllIncMore(t) ==
    /\ pc[t] = "pa_inc2"
    /\ strong' = Inc(strong, wr[t].old)
    /\ NextSlot(t)
    /\ UNCHANGED <<slots, helpVars, localVars, op, ld>>

\* Leave the node; at the end of the chain the pre-paid reference is left over.
PayAllRelease(t) ==
    /\ pc[t] = "pa_release"
    /\ ReleaseWriter(t)
    /\ Goto(t, IF next[cursor[t]] = NoNode THEN "pa_dec" ELSE "pa_reserve")
    /\ UNCHANGED <<strong, slots, helpVars, localVars, op, ld, wr>>
=============================================================================
