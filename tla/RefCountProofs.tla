--------------------------- MODULE RefCountProofs ---------------------------
(***************************************************************************)
(* Proof that the reference counts are exact: each step of each thread     *)
(* changes the count and the debts on an Arc by as much as it changes what *)
(* storages, users, answers and the thread itself have of it.              *)
(***************************************************************************)
EXTENDS HelpingProofs

-----------------------------------------------------------------------------
(* The account: who has which references.                                    *)

One(b) == IF b THEN 1 ELSE 0

\* The guards on a, each with the number of its copy.
GuardCopies(a) == UNION {{g} \X (1 .. guards[g]) : g \in {g \in BagToSet(guards) : g.ptr = a}}
StoragesOn(a) == {s \in Storages : storage[s] = a}
Answers(n, a) == Tag(control[n]) = REPLACEMENT_TAG /\ handover[EnvelopeIn(control[n])] = a
AnswersOn(a) == {n \in Nodes : Answers(n, a)}
OwedOn(a) == {d \in Nodes \X SlotIds : slots[d[1]][d[2]] = a}

\* The references thread t has inside of its call.
CallShare(t, a) ==
      One(op[t].new = a)
    + One(TookOld(t) /\ wr[t].old = a)
    + One(CasGuard(t) /\ wr[t].old = a)
    + One(RcuGuard(t) /\ op[t].cur = a)
PayShare(t, a) == One(Prepaid(t) /\ wr[t].old = a) + One(wr[t].repl = a)
LoadShare(t, a) ==
      One(Protects(t) /\ ld[t].ptr = a)
    + One(pc[t] \in {"in_pay", "in_dec"} /\ ld[t].ptr = a)
    + One(Received(t) = a)
Share(t, a) == CallShare(t, a) + PayShare(t, a) + LoadShare(t, a)

\* The threads are finitely many, for Cardinality's sake.
LEMMA ThreadsFinite == IsFiniteSet(Threads)
BY ThreadsEnumerated DEF IsFiniteSet

\* CardinalityChange in terms of One.
LEMMA OneThread ==
    ASSUME NEW S, NEW T, NEW t, IsFiniteSet(S), S \ {t} = T \ {t}
    PROVE  /\ Cardinality(S) \in Nat /\ Cardinality(T) \in Nat
           /\ Cardinality(T) = Cardinality(S) - One(t \in S) + One(t \in T)
BY CardinalityChange DEF One

\* How a step of t changes what there is in calls.
LEMMA SharesAdd ==
    ASSUME NEW a, NEW t \in Threads, \A u \in Threads : u # t => Same(u) /\ Received(u)' = Received(u)
    PROVE  /\ CallClaims(a) \in Nat /\ CallClaims(a)' \in Nat
           /\ CallClaims(a)' = CallClaims(a) - Share(t, a) + Share(t, a)'
<1> DEFINE A1 == {u \in Threads : op[u].new = a}
           A2 == {u \in Threads : TookOld(u) /\ wr[u].old = a}
           A3 == {u \in Threads : Prepaid(u) /\ wr[u].old = a}
           A4 == {u \in Threads : CasGuard(u) /\ wr[u].old = a}
           A5 == {u \in Threads : RcuGuard(u) /\ op[u].cur = a}
           A6 == {u \in Threads : wr[u].repl = a}
           A7 == {u \in Threads : Protects(u) /\ ld[u].ptr = a}
           A8 == {u \in Threads : pc[u] \in {"in_pay", "in_dec"} /\ ld[u].ptr = a}
           A9 == {u \in Threads : Received(u) = a}
<1>1. \A u \in Threads : u # t =>
         /\ Waiting(u)' = Waiting(u)
         /\ TookOld(u)' = TookOld(u) /\ Prepaid(u)' = Prepaid(u) /\ CasGuard(u)' = CasGuard(u)
         /\ RcuGuard(u)' = RcuGuard(u) /\ Protects(u)' = Protects(u)
         /\ op'[u] = op[u] /\ wr'[u] = wr[u] /\ ld'[u] = ld[u] /\ pc'[u] = pc[u]
         /\ Received(u)' = Received(u)
  BY DEF Same, Waiting, TookOld, Prepaid, CasGuard, InCas, RcuGuard, Protects
<1>2. /\ A1 \ {t} = A1' \ {t} /\ A2 \ {t} = A2' \ {t} /\ A3 \ {t} = A3' \ {t}
      /\ A4 \ {t} = A4' \ {t} /\ A5 \ {t} = A5' \ {t} /\ A6 \ {t} = A6' \ {t}
      /\ A7 \ {t} = A7' \ {t} /\ A8 \ {t} = A8' \ {t} /\ A9 \ {t} = A9' \ {t}
  BY <1>1
<1>3. /\ IsFiniteSet(A1) /\ IsFiniteSet(A2) /\ IsFiniteSet(A3) /\ IsFiniteSet(A4) /\ IsFiniteSet(A5)
      /\ IsFiniteSet(A6) /\ IsFiniteSet(A7) /\ IsFiniteSet(A8) /\ IsFiniteSet(A9)
  <2>1. \A S \in SUBSET Threads : IsFiniteSet(S)
    BY ThreadsFinite, FiniteSubset
  <2> QED
    BY <2>1
<1>4. /\ One(t \in A1) = One(op[t].new = a) /\ One(t \in A1') = One(op'[t].new = a)
      /\ One(t \in A2) = One(TookOld(t) /\ wr[t].old = a)
      /\ One(t \in A2') = One(TookOld(t)' /\ wr'[t].old = a)
      /\ One(t \in A3) = One(Prepaid(t) /\ wr[t].old = a)
      /\ One(t \in A3') = One(Prepaid(t)' /\ wr'[t].old = a)
      /\ One(t \in A4) = One(CasGuard(t) /\ wr[t].old = a)
      /\ One(t \in A4') = One(CasGuard(t)' /\ wr'[t].old = a)
      /\ One(t \in A5) = One(RcuGuard(t) /\ op[t].cur = a)
      /\ One(t \in A5') = One(RcuGuard(t)' /\ op'[t].cur = a)
      /\ One(t \in A6) = One(wr[t].repl = a) /\ One(t \in A6') = One(wr'[t].repl = a)
      /\ One(t \in A7) = One(Protects(t) /\ ld[t].ptr = a)
      /\ One(t \in A7') = One(Protects(t)' /\ ld'[t].ptr = a)
      /\ One(t \in A8) = One(pc[t] \in {"in_pay", "in_dec"} /\ ld[t].ptr = a)
      /\ One(t \in A8') = One(pc'[t] \in {"in_pay", "in_dec"} /\ ld'[t].ptr = a)
      /\ One(t \in A9) = One(Received(t) = a) /\ One(t \in A9') = One(Received(t)' = a)
  BY DEF One
<1> DEFINE x1 == One(t \in A1)  y1 == One(t \in A1')  c1 == Cardinality(A1)  d1 == Cardinality(A1')
           x2 == One(t \in A2)  y2 == One(t \in A2')  c2 == Cardinality(A2)  d2 == Cardinality(A2')
           x3 == One(t \in A3)  y3 == One(t \in A3')  c3 == Cardinality(A3)  d3 == Cardinality(A3')
           x4 == One(t \in A4)  y4 == One(t \in A4')  c4 == Cardinality(A4)  d4 == Cardinality(A4')
           x5 == One(t \in A5)  y5 == One(t \in A5')  c5 == Cardinality(A5)  d5 == Cardinality(A5')
           x6 == One(t \in A6)  y6 == One(t \in A6')  c6 == Cardinality(A6)  d6 == Cardinality(A6')
           x7 == One(t \in A7)  y7 == One(t \in A7')  c7 == Cardinality(A7)  d7 == Cardinality(A7')
           x8 == One(t \in A8)  y8 == One(t \in A8')  c8 == Cardinality(A8)  d8 == Cardinality(A8')
           x9 == One(t \in A9)  y9 == One(t \in A9')  c9 == Cardinality(A9)  d9 == Cardinality(A9')
<1> HIDE DEF A1, A2, A3, A4, A5, A6, A7, A8, A9
<1>11. c1 \in Nat /\ d1 \in Nat /\ d1 = c1 - x1 + y1
  BY <1>2, <1>3, OneThread
<1>12. c2 \in Nat /\ d2 \in Nat /\ d2 = c2 - x2 + y2
  BY <1>2, <1>3, OneThread
<1>13. c3 \in Nat /\ d3 \in Nat /\ d3 = c3 - x3 + y3
  BY <1>2, <1>3, OneThread
<1>14. c4 \in Nat /\ d4 \in Nat /\ d4 = c4 - x4 + y4
  BY <1>2, <1>3, OneThread
<1>15. c5 \in Nat /\ d5 \in Nat /\ d5 = c5 - x5 + y5
  BY <1>2, <1>3, OneThread
<1>16. c6 \in Nat /\ d6 \in Nat /\ d6 = c6 - x6 + y6
  BY <1>2, <1>3, OneThread
<1>17. c7 \in Nat /\ d7 \in Nat /\ d7 = c7 - x7 + y7
  BY <1>2, <1>3, OneThread
<1>18. c8 \in Nat /\ d8 \in Nat /\ d8 = c8 - x8 + y8
  BY <1>2, <1>3, OneThread
<1>19. c9 \in Nat /\ d9 \in Nat /\ d9 = c9 - x9 + y9
  BY <1>2, <1>3, OneThread
<1>20. /\ CallClaims(a) = c1 + c2 + c3 + c4 + c5 + c6 + c7 + c8 + c9
       /\ CallClaims(a)' = d1 + d2 + d3 + d4 + d5 + d6 + d7 + d8 + d9
  BY DEF CallClaims, A1, A2, A3, A4, A5, A6, A7, A8, A9
<1>21. /\ Share(t, a) = x1 + x2 + x4 + x5 + (x3 + x6) + (x7 + x8 + x9)
       /\ Share(t, a)' = y1 + y2 + y4 + y5 + (y3 + y6) + (y7 + y8 + y9)
  BY <1>4 DEF Share, CallShare, PayShare, LoadShare
<1>22. /\ x1 \in Int /\ x2 \in Int /\ x3 \in Int /\ x4 \in Int /\ x5 \in Int /\ x6 \in Int /\ x7 \in Int
       /\ x8 \in Int /\ x9 \in Int /\ y1 \in Int /\ y2 \in Int /\ y3 \in Int /\ y4 \in Int /\ y5 \in Int
       /\ y6 \in Int /\ y7 \in Int /\ y8 \in Int /\ y9 \in Int
  BY DEF One
<1> HIDE DEF x1, y1, c1, d1, x2, y2, c2, d2, x3, y3, c3, d3, x4, y4, c4, d4, x5, y5, c5, d5,
             x6, y6, c6, d6, x7, y7, c7, d7, x8, y8, c8, d8, x9, y9, c9, d9
<1> QED
  BY <1>11, <1>12, <1>13, <1>14, <1>15, <1>16, <1>17, <1>18, <1>19, <1>20, <1>21, <1>22

-----------------------------------------------------------------------------
(* How the parts of the account change.                                      *)

\* The nodes and their slots are finitely many.
LEMMA NodesFinite == IsFiniteSet(Nodes) /\ IsFiniteSet(Nodes \X SlotIds)
<1>1. Nodes = 1 .. MaxNodes /\ SlotIds = 0 .. SlotCnt /\ MaxNodes \in Int /\ SlotCnt \in Int
  BY Consts
<1>2. IsFiniteSet(1 .. MaxNodes) /\ IsFiniteSet((1 .. MaxNodes) \X (0 .. SlotCnt))
  BY <1>1, FinitePairs
<1> QED
  BY <1>1, <1>2

\* So are the debts and the answers.
LEMMA OwedFinite == \A a : IsFiniteSet(OwedOn(a)) /\ IsFiniteSet(AnswersOn(a))
<1> SUFFICES ASSUME NEW a PROVE IsFiniteSet(OwedOn(a)) /\ IsFiniteSet(AnswersOn(a))
  OBVIOUS
<1>1. OwedOn(a) \in SUBSET (Nodes \X SlotIds) /\ AnswersOn(a) \in SUBSET Nodes
  BY DEF OwedOn, AnswersOn
<1> QED
  BY <1>1, NodesFinite, FiniteSubset

SetSlot(n, k, q) == slots' = [slots EXCEPT ![n][k] = q]
SetStorage(s, q) == storage' = [storage EXCEPT ![s] = q]

\* The debts on a, when one slot changes.
LEMMA SlotChanges ==
    ASSUME Shapes, NEW a
    PROVE  \A n \in Nodes, k \in SlotIds, q \in Ptrs \cup {NONE} :
              SetSlot(n, k, q) =>
                 /\ Owed(a) \in Nat /\ Owed(a)' \in Nat
                 /\ Owed(a)' = Owed(a) - One(slots[n][k] = a) + One(q = a)
<1> SUFFICES ASSUME NEW n \in Nodes, NEW k \in SlotIds, NEW q \in Ptrs \cup {NONE},
                    slots' = [slots EXCEPT ![n][k] = q]
             PROVE  /\ Owed(a) \in Nat /\ Owed(a)' \in Nat
                    /\ Owed(a)' = Owed(a) - One(slots[n][k] = a) + One(q = a)
  BY DEF SetSlot
<1>1. IsFiniteSet(OwedOn(a))
  BY OwedFinite
<1>2. \A d \in Nodes \X SlotIds : slots'[d[1]][d[2]] = IF d = <<n, k>> THEN q ELSE slots[d[1]][d[2]]
  BY DEF Shapes
<1>3. OwedOn(a) \ {<<n, k>>} = OwedOn(a)' \ {<<n, k>>}
  BY <1>2 DEF OwedOn
<1>4. /\ <<n, k>> \in OwedOn(a) <=> slots[n][k] = a
      /\ <<n, k>> \in OwedOn(a)' <=> q = a
  BY <1>2 DEF OwedOn
<1>5. One(<<n, k>> \in OwedOn(a)) = One(slots[n][k] = a) /\ One(<<n, k>> \in OwedOn(a)') = One(q = a)
  BY <1>4 DEF One
<1>6. Owed(a) = Cardinality(OwedOn(a)) /\ Owed(a)' = Cardinality(OwedOn(a)')
  BY DEF Owed, OwedOn
<1>7. /\ Cardinality(OwedOn(a)) \in Nat /\ Cardinality(OwedOn(a)') \in Nat
      /\ Cardinality(OwedOn(a)') = Cardinality(OwedOn(a)) - One(<<n, k>> \in OwedOn(a))
                                                          + One(<<n, k>> \in OwedOn(a)')
  BY <1>1, <1>3, OneThread
<1> QED
  BY <1>5, <1>6, <1>7

\* Nobody's debt changes as long as the slots do not.
LEMMA SlotsStay ==
    ASSUME NEW a, UNCHANGED slots
    PROVE  Owed(a) \in Nat /\ Owed(a)' = Owed(a)
<1>1. IsFiniteSet(OwedOn(a))
  BY OwedFinite
<1>2. Cardinality(OwedOn(a)) \in Nat
  BY <1>1, FiniteSubset
<1> QED
  BY <1>2 DEF Owed, OwedOn

\* The instances that hold a.
LEMMA StorageChanges ==
    ASSUME Shapes, NEW a
    PROVE  \A s \in Storages, q \in Ptrs \cup {Dead} :
              SetStorage(s, q) =>
                 /\ Cardinality(StoragesOn(a)) \in Nat /\ Cardinality(StoragesOn(a)') \in Nat
                 /\ Cardinality(StoragesOn(a)') =
                       Cardinality(StoragesOn(a)) - One(storage[s] = a) + One(q = a)
<1> SUFFICES ASSUME NEW s \in Storages, NEW q \in Ptrs \cup {Dead}, storage' = [storage EXCEPT ![s] = q]
             PROVE  /\ Cardinality(StoragesOn(a)) \in Nat /\ Cardinality(StoragesOn(a)') \in Nat
                    /\ Cardinality(StoragesOn(a)') =
                          Cardinality(StoragesOn(a)) - One(storage[s] = a) + One(q = a)
  BY DEF SetStorage
<1>1. IsFiniteSet(StoragesOn(a))
  BY ApiAssumption, FiniteSubset DEF StoragesOn
<1>2. \A z \in Storages : storage'[z] = IF z = s THEN q ELSE storage[z]
  BY DEF Shapes
<1>3. StoragesOn(a) \ {s} = StoragesOn(a)' \ {s}
  BY <1>2 DEF StoragesOn
<1>4. One(s \in StoragesOn(a)) = One(storage[s] = a) /\ One(s \in StoragesOn(a)') = One(q = a)
  BY <1>2 DEF One, StoragesOn
<1>7. /\ Cardinality(StoragesOn(a)) \in Nat /\ Cardinality(StoragesOn(a)') \in Nat
      /\ Cardinality(StoragesOn(a)') = Cardinality(StoragesOn(a)) - One(s \in StoragesOn(a))
                                                                  + One(s \in StoragesOn(a)')
  BY <1>1, <1>3, OneThread
<1> QED
  BY <1>4, <1>7

\* The same of the instances,
LEMMA StorageStays ==
    ASSUME NEW a, UNCHANGED storage
    PROVE  /\ Cardinality(StoragesOn(a)) \in Nat
           /\ Cardinality(StoragesOn(a)') = Cardinality(StoragesOn(a))
<1>1. IsFiniteSet(StoragesOn(a))
  BY ApiAssumption, FiniteSubset DEF StoragesOn
<1>2. Cardinality(StoragesOn(a)) \in Nat
  BY <1>1, FiniteSubset
<1> QED
  BY <1>2 DEF StoragesOn

\* The answers on their way with a.
LEMMA AnswersChange ==
    ASSUME NEW a, NEW m \in Nodes, \A n \in Nodes : n # m => Answers(n, a)' = Answers(n, a)
    PROVE  /\ Cardinality(AnswersOn(a)) \in Nat /\ Cardinality(AnswersOn(a)') \in Nat
           /\ Cardinality(AnswersOn(a)') =
                 Cardinality(AnswersOn(a)) - One(Answers(m, a)) + One(Answers(m, a)')
<1>1. IsFiniteSet(AnswersOn(a))
  BY OwedFinite
<1>3. AnswersOn(a) \ {m} = AnswersOn(a)' \ {m}
  BY DEF AnswersOn
<1>4. One(m \in AnswersOn(a)) = One(Answers(m, a)) /\ One(m \in AnswersOn(a)') = One(Answers(m, a)')
  BY DEF One, AnswersOn
<1>7. /\ Cardinality(AnswersOn(a)) \in Nat /\ Cardinality(AnswersOn(a)') \in Nat
      /\ Cardinality(AnswersOn(a)') = Cardinality(AnswersOn(a)) - One(m \in AnswersOn(a))
                                                                + One(m \in AnswersOn(a)')
  BY <1>1, <1>3, OneThread
<1> QED
  BY <1>4, <1>7

\* and of the answers.
LEMMA AnswersStay ==
    ASSUME NEW a, \A n \in Nodes : Answers(n, a)' = Answers(n, a)
    PROVE  /\ Cardinality(AnswersOn(a)) \in Nat
           /\ Cardinality(AnswersOn(a)') = Cardinality(AnswersOn(a))
<1>1. IsFiniteSet(AnswersOn(a))
  BY OwedFinite
<1>2. Cardinality(AnswersOn(a)) \in Nat
  BY <1>1, FiniteSubset
<1>3. AnswersOn(a)' = AnswersOn(a)
  BY DEF AnswersOn
<1> QED
  BY <1>2, <1>3

\* One guard more, or one less.
LEMMA GuardMore ==
    ASSUME Shapes, NEW a, IsFiniteSet(GuardCopies(a))
    PROVE  \A g \in GuardType : guards' = BagAdd(guards, g) =>
              /\ IsFiniteSet(GuardCopies(a)')
              /\ GuardsOn(a) \in Nat /\ GuardsOn(a)' \in Nat
              /\ GuardsOn(a)' = GuardsOn(a) + One(g.ptr = a)
<1> SUFFICES ASSUME NEW g \in GuardType, guards' = BagAdd(guards, g)
             PROVE  /\ IsFiniteSet(GuardCopies(a)')
                    /\ GuardsOn(a) \in Nat /\ GuardsOn(a)' \in Nat
                    /\ GuardsOn(a)' = GuardsOn(a) + One(g.ptr = a)
  OBVIOUS
<1> DEFINE top == <<g, IF g \in DOMAIN guards THEN guards[g] + 1 ELSE 1>>
<1>0. \A h \in DOMAIN guards : guards[h] \in Nat /\ guards[h] > 0
  BY DEF Shapes, IsABag
<1>1. /\ DOMAIN guards' = DOMAIN guards \cup {g}
      /\ \A h \in DOMAIN guards : h # g => guards'[h] = guards[h]
      /\ guards'[g] = top[2] /\ top[2] \in Nat /\ top[2] > 0
      /\ g \in DOMAIN guards => guards[g] = top[2] - 1
      /\ g \notin DOMAIN guards => top[2] = 1
  BY <1>0 DEF BagAdd
<1>2. GuardCopies(a) \ {top} = GuardCopies(a)' \ {top}
  <2>1. \A x : x \in GuardCopies(a) <=>
                \E h \in DOMAIN guards, i \in Nat : h.ptr = a /\ x = <<h, i>> /\ 1 <= i /\ i <= guards[h]
    BY <1>0 DEF GuardCopies, BagToSet
  <2>2. \A x : x \in GuardCopies(a)' <=>
                \E h \in DOMAIN guards', i \in Nat : h.ptr = a /\ x = <<h, i>> /\ 1 <= i /\ i <= guards'[h]
    BY <1>0, <1>1 DEF GuardCopies, BagToSet
  <2> QED
    BY <1>0, <1>1, <2>1, <2>2
<1>3. top \notin GuardCopies(a) /\ (top \in GuardCopies(a)' <=> g.ptr = a)
  BY <1>0, <1>1 DEF GuardCopies, BagToSet
<1>4. One(top \in GuardCopies(a)) = 0 /\ One(top \in GuardCopies(a)') = One(g.ptr = a)
  BY <1>3 DEF One
<1>5. GuardsOn(a) = Cardinality(GuardCopies(a)) /\ GuardsOn(a)' = Cardinality(GuardCopies(a)')
  BY DEF GuardsOn, GuardCopies
<1> HIDE DEF top
<1>6. /\ IsFiniteSet(GuardCopies(a)')
      /\ Cardinality(GuardCopies(a)) \in Nat /\ Cardinality(GuardCopies(a)') \in Nat
      /\ Cardinality(GuardCopies(a)') = Cardinality(GuardCopies(a)) - One(top \in GuardCopies(a))
                                                                    + One(top \in GuardCopies(a)')
  BY <1>2, OneThread, CardinalityChange
<1>7. One(g.ptr = a) \in Nat
  BY DEF One
<1> QED
  BY <1>4, <1>5, <1>6, <1>7

\* One guard less.
LEMMA GuardLess ==
    ASSUME Shapes, NEW a, IsFiniteSet(GuardCopies(a))
    PROVE  \A g \in BagToSet(guards) : guards' = BagRemove(guards, g) =>
              /\ IsFiniteSet(GuardCopies(a)')
              /\ GuardsOn(a) \in Nat /\ GuardsOn(a)' \in Nat
              /\ GuardsOn(a)' = GuardsOn(a) - One(g.ptr = a)
<1> SUFFICES ASSUME NEW g \in BagToSet(guards), guards' = BagRemove(guards, g)
             PROVE  /\ IsFiniteSet(GuardCopies(a)')
                    /\ GuardsOn(a) \in Nat /\ GuardsOn(a)' \in Nat
                    /\ GuardsOn(a)' = GuardsOn(a) - One(g.ptr = a)
  OBVIOUS
<1> DEFINE top == <<g, guards[g]>>
<1>0. /\ \A h \in DOMAIN guards : guards[h] \in Nat /\ guards[h] > 0
      /\ g \in DOMAIN guards
  BY DEF Shapes, IsABag, BagToSet
<1>1. /\ \A h : h # g => (h \in DOMAIN guards' <=> h \in DOMAIN guards)
      /\ \A h \in DOMAIN guards : h # g => guards'[h] = guards[h]
      /\ g \in DOMAIN guards' => guards'[g] = guards[g] - 1 /\ guards[g] > 1
      /\ g \notin DOMAIN guards' => guards[g] = 1
  BY <1>0 DEF BagRemove
<1>2. GuardCopies(a) \ {top} = GuardCopies(a)' \ {top}
  <2>1. \A x : x \in GuardCopies(a) <=>
                \E h \in DOMAIN guards, i \in Nat : h.ptr = a /\ x = <<h, i>> /\ 1 <= i /\ i <= guards[h]
    BY <1>0 DEF GuardCopies, BagToSet
  <2>2. \A x : x \in GuardCopies(a)' <=>
                \E h \in DOMAIN guards', i \in Nat : h.ptr = a /\ x = <<h, i>> /\ 1 <= i /\ i <= guards'[h]
    BY <1>0, <1>1 DEF GuardCopies, BagToSet
  <2> QED
    BY <1>0, <1>1, <2>1, <2>2
<1>3. top \notin GuardCopies(a)' /\ (top \in GuardCopies(a) <=> g.ptr = a)
  BY <1>0, <1>1 DEF GuardCopies, BagToSet
<1>4. One(top \in GuardCopies(a)') = 0 /\ One(top \in GuardCopies(a)) = One(g.ptr = a)
  BY <1>3 DEF One
<1>5. GuardsOn(a) = Cardinality(GuardCopies(a)) /\ GuardsOn(a)' = Cardinality(GuardCopies(a)')
  BY DEF GuardsOn, GuardCopies
<1> HIDE DEF top
<1>6. /\ IsFiniteSet(GuardCopies(a)')
      /\ Cardinality(GuardCopies(a)) \in Nat /\ Cardinality(GuardCopies(a)') \in Nat
      /\ Cardinality(GuardCopies(a)') = Cardinality(GuardCopies(a)) - One(top \in GuardCopies(a))
                                                                    + One(top \in GuardCopies(a)')
  BY <1>2, OneThread, CardinalityChange
<1>7. One(g.ptr = a) \in Nat
  BY DEF One
<1> QED
  BY <1>4, <1>5, <1>6, <1>7

\* The guards stay as they are.
LEMMA GuardsStay ==
    ASSUME NEW a, UNCHANGED guards, IsFiniteSet(GuardCopies(a))
    PROVE  /\ IsFiniteSet(GuardCopies(a)')
           /\ GuardsOn(a) \in Nat /\ GuardsOn(a)' = GuardsOn(a)
<1>1. Cardinality(GuardCopies(a)) \in Nat
  BY FiniteSubset
<1>2. GuardCopies(a)' = GuardCopies(a)
  BY DEF GuardCopies, BagToSet
<1>5. GuardsOn(a) = Cardinality(GuardCopies(a)) /\ GuardsOn(a)' = Cardinality(GuardCopies(a)')
  BY DEF GuardsOn, GuardCopies
<1> QED
  BY <1>1, <1>2, <1>5

\* RefCnt::inc and dec, on one address or another.
LEMMA CountChanges ==
    ASSUME NEW a \in Addrs
    PROVE  /\ \A c \in [Addrs -> Int], p \in Ptrs : Inc(c, p)[a] = c[a] + One(p = a) /\ Dec(c, p)[a] = c[a] - One(p = a)
           /\ \A c \in [Addrs -> Nat], p \in Ptrs : Inc(c, p)[a] = c[a] + One(p = a) /\ Dec(c, p)[a] = c[a] - One(p = a)
BY DEF Inc, Dec, One

-----------------------------------------------------------------------------
(* Balanced steps.                                                           *)

\* Both sides of the account of a change by the same amount.
Even(t, a) ==
    (strong'[a] - strong[a]) + (Owed(a)' - Owed(a)) =
        (Cardinality(StoragesOn(a)') - Cardinality(StoragesOn(a)))
      + (owned'[a] - owned[a])
      + (GuardsOn(a)' - GuardsOn(a))
      + (Cardinality(AnswersOn(a)') - Cardinality(AnswersOn(a)))
      + (Share(t, a)' - Share(t, a))

Numbers(a) ==
    /\ strong[a] \in Int /\ owned[a] \in Int /\ Owed(a) \in Int
    /\ Cardinality(StoragesOn(a)) \in Int /\ GuardsOn(a) \in Int /\ Cardinality(AnswersOn(a)) \in Int

\* The claims are what the account adds up,
LEMMA ClaimsAre ==
    ASSUME NEW a
    PROVE  Claims(a) = Cardinality(StoragesOn(a)) + owned[a] + GuardsOn(a) + CallClaims(a)
                       + Cardinality(AnswersOn(a))
BY DEF Claims, StoragesOn, AnswersOn, Answers

\* after the step too.
LEMMA ClaimsAreNext ==
    ASSUME NEW a
    PROVE  Claims(a)' = Cardinality(StoragesOn(a)') + owned'[a] + GuardsOn(a)' + CallClaims(a)'
                       + Cardinality(AnswersOn(a)')
BY DEF Claims, StoragesOn, AnswersOn, Answers

\* A thread's share is a number,
LEMMA ShareTypes ==
    \A t, a : /\ Share(t, a) \in Nat /\ CallShare(t, a) \in Nat /\ PayShare(t, a) \in Nat
              /\ LoadShare(t, a) \in Nat
              /\ Share(t, a) = CallShare(t, a) + PayShare(t, a) + LoadShare(t, a)
<1> SUFFICES ASSUME NEW t, NEW a
             PROVE  /\ CallShare(t, a) \in Nat /\ PayShare(t, a) \in Nat /\ LoadShare(t, a) \in Nat
  BY DEF Share
<1>1. CallShare(t, a) \in Nat
  BY DEF CallShare, One
<1>2. PayShare(t, a) \in Nat
  BY DEF PayShare, One
<1>3. LoadShare(t, a) \in Nat
  BY DEF LoadShare, One
<1> QED
  BY <1>1, <1>2, <1>3

\* after the step too.
LEMMA ShareTypesNext ==
    ASSUME NEW t, NEW a
    PROVE  /\ Share(t, a)' \in Nat /\ CallShare(t, a)' \in Nat /\ PayShare(t, a)' \in Nat
           /\ LoadShare(t, a)' \in Nat
           /\ Share(t, a)' = CallShare(t, a)' + PayShare(t, a)' + LoadShare(t, a)'
<1>1. CallShare(t, a)' \in Nat
  BY DEF CallShare, One
<1>2. PayShare(t, a)' \in Nat
  BY DEF PayShare, One
<1>3. LoadShare(t, a)' \in Nat
  BY DEF LoadShare, One
<1> QED
  BY <1>1, <1>2, <1>3 DEF Share

\* A balanced step keeps the count exact.
LEMMA Ledger ==
    ASSUME NEW a \in Addrs, NEW t \in Threads, Numbers(a), Numbers(a)',
           \A u \in Threads : u # t => Same(u) /\ Received(u)' = Received(u),
           strong[a] + Owed(a) = Claims(a), Even(t, a)
    PROVE  (strong[a] + Owed(a) = Claims(a))'
<1>1. /\ CallClaims(a) \in Nat /\ CallClaims(a)' \in Nat
      /\ CallClaims(a)' = CallClaims(a) - Share(t, a) + Share(t, a)'
  BY SharesAdd
<1>2. Claims(a) = Cardinality(StoragesOn(a)) + owned[a] + GuardsOn(a) + CallClaims(a)
                       + Cardinality(AnswersOn(a))
  BY ClaimsAre
<1>3. Claims(a)' = Cardinality(StoragesOn(a)') + owned'[a] + GuardsOn(a)' + CallClaims(a)'
                       + Cardinality(AnswersOn(a)')
  BY ClaimsAreNext
<1>4. Share(t, a) \in Nat /\ Share(t, a)' \in Nat
  BY ShareTypes, ShareTypesNext
<1>5. strong'[a] + Owed(a)' = Claims(a)'
  BY <1>1, <1>2, <1>3, <1>4 DEF Numbers, Even
<1> QED
  BY <1>5

\* What helped readers have found does not change under them.
LEMMA ReceivedStays ==
    ASSUME ListInv, HelpInv, NEW t \in Threads, Acts(t)
    PROVE  \A u \in Threads : u # t => Same(u) /\ Received(u)' = Received(u)
<1> SUFFICES ASSUME NEW u \in Threads, u # t
             PROVE  Same(u) /\ Received(u)' = Received(u)
  OBVIOUS
<1>0. Same(u)
  BY OthersSame DEF ListInv, HelpInv
<1>1. CASE UNCHANGED handover
  BY <1>0, <1>1 DEF Same, Received
<1>2. CASE HelpStore(t)
  <2>1. pc[t] = "hp_store" /\ handover' = [handover EXCEPT ![space_offer[node[t]]] = wr[t].repl]
    BY <1>2 DEF HelpStore
  <2>2. /\ node[t] \in Nodes /\ Owned(t) = node[t] /\ Envelope(node[t]) = space_offer[node[t]]
    BY <2>1, HelperEnvelope
  <2>3. CASE pc[u] = "fb_hand"
    <3>1. node[u] \in Nodes /\ Owned(u) = node[u]
      BY <2>3, OwnsNode DEF HelpedLabels
    <3>2. node[u] # node[t]
      BY <2>2, <3>1, NodesFacts DEF ListInv, ExclusiveOwnership
    <3>3. Envelope(node[u]) = ld[u].env
      BY <2>3, <3>1, EnvelopeCases DEF EnvelopeIs, Orderly, HelpInv
    <3>4. ld[u].env # space_offer[node[t]]
      BY <2>2, <3>1, <3>2, <3>3 DEF HelpInv, EnvelopesUnique
    <3>5. handover'[ld[u].env] = handover[ld[u].env]
      BY <2>1, <3>4 DEF HelpInv, Shapes
    <3> QED
      BY <1>0, <2>3, <3>5 DEF Same, Received
  <2>4. CASE pc[u] # "fb_hand"
    BY <1>0, <2>4 DEF Same, Received
  <2> QED
    BY <2>3, <2>4
<1> QED
  BY <1>0, <1>1, <1>2, HandoverSteps

\* Answers are sent by help and fetched by confirm.
LEMMA AnswersMove ==
    ASSUME ListInv, HelpInv, NEW t \in Threads, Acts(t), NEW a, NEW n \in Nodes
    PROVE  \/ Answers(n, a)' = Answers(n, a)
           \/ ConfirmControl(t) /\ n = node[t]
           \/ HelpCas(t) /\ pc'[t] = "hp_offer" /\ n = cursor[t]
<1>0. control \in [Nodes -> Controls] /\ control' \in [Nodes -> Controls]
  BY NextShapes DEF Shapes, HelpInv
<1>1. CASE HelpStore(t)
  <2>1. /\ pc[t] = "hp_store" /\ UNCHANGED control
        /\ handover' = [handover EXCEPT ![space_offer[node[t]]] = wr[t].repl]
    BY <1>1 DEF HelpStore
  <2>2. /\ node[t] \in Nodes /\ Owned(t) = node[t] /\ Envelope(node[t]) = space_offer[node[t]]
    BY <2>1, HelperEnvelope
  <2>3. CASE Tag(control[n]) = REPLACEMENT_TAG
    <3>1. control[node[t]] = IDLE
      BY <2>1, <2>2, AtRest DEF OpenLabels
    <3>2. n # node[t]
      BY <2>3, <3>1, ControlFacts DEF REPLACEMENT_TAG
    <3>3. Envelope(n) = EnvelopeIn(control[n])
      BY <2>3, EnvelopeCases DEF EnvelopeIs, Orderly, HelpInv
    <3>4. EnvelopeIn(control[n]) # space_offer[node[t]]
      BY <2>2, <3>2, <3>3 DEF HelpInv, EnvelopesUnique
    <3>5. handover'[EnvelopeIn(control[n])] = handover[EnvelopeIn(control[n])]
      BY <2>1, <3>4 DEF HelpInv, Shapes
    <3> QED
      BY <2>1, <3>5 DEF Answers
  <2>4. CASE Tag(control[n]) # REPLACEMENT_TAG
    BY <2>1, <2>4 DEF Answers
  <2> QED
    BY <2>3, <2>4
<1>2. CASE UNCHANGED handover
  <2>1. CASE HelpingOpen(t)
    <3>1. /\ pc[t] = "fb_ctl" /\ control' = [control EXCEPT ![node[t]] = GEN(generation[t])]
      BY <2>1 DEF HelpingOpen
    <3>2. node[t] \in Nodes /\ Owned(t) = node[t]
      BY <3>1, OwnsNode
    <3>3. control[node[t]] = IDLE
      BY <3>1, <3>2, AtRest DEF OpenLabels
    <3>4. Tag(control[node[t]]) # REPLACEMENT_TAG /\ Tag(control'[node[t]]) # REPLACEMENT_TAG
      BY <1>0, <3>1, <3>2, <3>3, ControlFacts DEF REPLACEMENT_TAG, GEN_TAG, HelpInv, Shapes
    <3>5. n # node[t] => control'[n] = control[n]
      BY <1>0, <3>1
    <3> QED
      BY <1>2, <3>4, <3>5 DEF Answers
  <2>2. CASE ConfirmControl(t)
    <3>1. pc[t] = "fb_confirm" /\ control' = [control EXCEPT ![node[t]] = IDLE]
      BY <2>2 DEF ConfirmControl
    <3>2. n # node[t] => control'[n] = control[n]
      BY <1>0, <3>1
    <3> QED
      BY <1>2, <2>2, <3>2 DEF Answers
  <2>3. CASE HelpCas(t) /\ pc'[t] = "hp_offer"
    <3>1. n # cursor[t] => control'[n] = control[n]
      BY <1>0, <2>3 DEF HelpCas
    <3> QED
      BY <1>2, <2>3, <3>1 DEF Answers
  <2>4. CASE UNCHANGED control
    BY <1>2, <2>4 DEF Answers
  <2>5. CASE ConfirmHandover(t) \/ ConfirmSpace(t) \/ HelpOffer(t)
    BY <2>4, <2>5 DEF ConfirmHandover, ConfirmSpace, HelpOffer, helpVars
  <2> QED
    BY <2>1, <2>2, <2>3, <2>4, <2>5, TurningSteps DEF HelpInv
<1> QED
  BY <1>1, <1>2, HandoverSteps

-----------------------------------------------------------------------------
(* What loads have, label by label.                                          *)

\* What a load has, label by label.
Loads(t, a) ==
    /\ pc[t] \in {"ld_confirm", "ld_pay", "fb_confirm", "ret", "gd_pay", "gd_dec", "in_inc"} =>
          LoadShare(t, a) = One(ld[t].ptr = a)
    /\ pc[t] = "fb_hand" => LoadShare(t, a) = One(ld[t].ptr = a) + One(handover[ld[t].env] = a)
    /\ pc[t] \in {"fb_space", "fb_unpay", "fb_undec"} =>
          LoadShare(t, a) = One(ld[t].ptr = a) + One(ld[t].repl = a)
    /\ pc[t] \in {"in_pay", "in_dec"} => LoadShare(t, a) = One(ld[t].ptr = a) + One(ld[t].ptr = a)
    /\ pc[t] \notin {"ld_confirm", "ld_pay", "fb_confirm", "fb_hand", "fb_space", "fb_unpay", "fb_undec",
                     "ret", "gd_pay", "gd_dec", "in_inc", "in_pay", "in_dec"} =>
          LoadShare(t, a) = 0

\* That is what a load has, before a step,
LEMMA LoadsAt == \A t \in Threads, a \in Addrs : Loads(t, a)
<1> SUFFICES ASSUME NEW t \in Threads, NEW a \in Addrs PROVE Loads(t, a)
  OBVIOUS
<1>0. NULL # a
  BY Consts
<1> USE DEF LoadShare, Protects, Received, IntoInnerLabels, One
<1>1. CASE pc[t] \in {"ld_confirm", "ld_pay", "fb_confirm", "ret", "gd_pay", "gd_dec", "in_inc"}
  BY <1>0, <1>1 DEF Loads
<1>2. CASE pc[t] = "fb_hand"
  BY <1>0, <1>2 DEF Loads
<1>3. CASE pc[t] \in {"fb_space", "fb_unpay", "fb_undec"}
  BY <1>0, <1>3 DEF Loads
<1>4. CASE pc[t] \in {"in_pay", "in_dec"}
  BY <1>0, <1>4 DEF Loads
<1>5. CASE pc[t] \notin {"ld_confirm", "ld_pay", "fb_confirm", "fb_hand", "fb_space", "fb_unpay", "fb_undec",
                     "ret", "gd_pay", "gd_dec", "in_inc", "in_pay", "in_dec"}
  BY <1>0, <1>5 DEF Loads
<1> QED
  BY <1>1, <1>2, <1>3, <1>4, <1>5

\* and after it.
LEMMA LoadsNext == \A t \in Threads, a \in Addrs : Loads(t, a)'
<1>1. (\A t \in Threads, a \in Addrs : Loads(t, a))'
  BY LoadsAt, PTL
<1> QED
  BY <1>1

\* The debts are a number,
LEMMA OwedNat ==
    ASSUME NEW a
    PROVE  Owed(a) \in Nat
<1>1. IsFiniteSet(OwedOn(a))
  BY OwedFinite
<1>2. Cardinality(OwedOn(a)) \in Nat
  BY <1>1, FiniteSubset
<1> QED
  BY <1>2 DEF Owed, OwedOn

\* after the step too.
LEMMA OwedNatNext ==
    ASSUME NEW a
    PROVE  Owed(a)' \in Nat
<1>1. (\A b : Owed(b) \in Nat)'
  <2>1. \A b : Owed(b) \in Nat
    BY OwedNat
  <2> QED
    BY <2>1, PTL
<1> QED
  BY <1>1

\* Where the other shares do not depend on the label.
CallPlaces == {"old_dec", "cas_dec", "cas_x", "cas_drop_new", "rcu_f"}

\* Moving on inside of a call keeps what the call has,
LEMMA CallStays ==
    ASSUME NEW t \in Threads, NEW a, op'[t] = op[t], wr'[t].old = wr[t].old, Waiting(t)' <=> Waiting(t),
           pc[t] \notin CallPlaces, pc'[t] \notin CallPlaces
    PROVE  CallShare(t, a)' = CallShare(t, a)
<1>1. /\ TookOld(t)' <=> TookOld(t)
      /\ CasGuard(t)' <=> CasGuard(t)
      /\ RcuGuard(t)' <=> RcuGuard(t)
  BY DEF TookOld, CasGuard, InCas, RcuGuard, CallPlaces
<1> QED
  BY <1>1 DEF CallShare, One

\* and what pay_all has prepaid.
LEMMA PayStays ==
    ASSUME NEW t \in Threads, NEW a, wr'[t].old = wr[t].old, wr'[t].repl = wr[t].repl,
           Waiting(t)' <=> Waiting(t),
           pc[t] \notin {"pa_inc", "pa_inc2"}, pc'[t] \notin {"pa_inc", "pa_inc2"}
    PROVE  PayShare(t, a)' = PayShare(t, a)
<1>1. Prepaid(t)' <=> Prepaid(t)
  BY DEF Prepaid
<1> QED
  BY <1>1 DEF PayShare, One

\* Steps inside of a call only.
LEMMA EvenInside ==
    ASSUME Shapes, NEW t \in Threads, NEW a \in Addrs, IsFiniteSet(GuardCopies(a)), strong' \in [Addrs -> Int],
           UNCHANGED <<storage, guards, owned>>,
           \A n \in Nodes : Answers(n, a)' = Answers(n, a),
           NEW m \in Int, NEW d \in Int,
           strong'[a] = strong[a] + m,
           Owed(a) \in Nat, Owed(a)' = Owed(a) + d,
           Share(t, a)' = Share(t, a) + m + d
    PROVE  Even(t, a)
<1>1. /\ Cardinality(StoragesOn(a)) \in Nat
      /\ Cardinality(StoragesOn(a)') = Cardinality(StoragesOn(a))
  BY StorageStays
<1>2. GuardsOn(a) \in Nat /\ GuardsOn(a)' = GuardsOn(a)
  BY GuardsStay
<1>3. /\ Cardinality(AnswersOn(a)) \in Nat
      /\ Cardinality(AnswersOn(a)') = Cardinality(AnswersOn(a))
  BY AnswersStay
<1>4. Share(t, a) \in Nat
  BY ShareTypes
<1>5. strong[a] \in Int /\ owned[a] \in Int /\ owned'[a] = owned[a]
  BY DEF Shapes
<1> QED
  BY <1>1, <1>2, <1>3, <1>4, <1>5 DEF Even

-----------------------------------------------------------------------------
(* Loads.                                                                    *)

\* A load changes nothing but its own share.
LEMMA ReadShares ==
    ASSUME ListInv, HelpInv, NEW t \in Threads, NEW a \in Addrs, ReadStep(t),
           UNCHANGED <<listVars, storage, guards, owned>>
    PROVE  /\ CallShare(t, a)' = CallShare(t, a) /\ PayShare(t, a)' = PayShare(t, a)
           /\ ~ConfirmControl(t) => \A n \in Nodes : Answers(n, a)' = Answers(n, a)
<1> Shapes /\ Places(t)
  BY DEF HelpInv, Local
<1>1. UNCHANGED <<op, wr>>
  BY DEF ReadStep, AttemptLoad, FastScan, FastTake, AttemptConfirm, AttemptPay,
         HelpingAnnounce, HelpingOpen, FallbackCandidate, ConfirmSlot, ConfirmControl,
         ConfirmHandover, ConfirmSpace, FallbackUnpay, FallbackUndec, Pay
<1> DEFINE calm == LoadLabels \cup {"in_inc", "panicked"}
<1>2. pc[t] \in calm /\ pc'[t] \in calm
  <2> USE DEF LoadLabels, Goto, Shapes
  <2>1. CASE AttemptLoad(t) \/ FastScan(t) \/ FastTake(t) \/ AttemptConfirm(t) \/ AttemptPay(t)
    BY <2>1 DEF AttemptLoad, FastScan, FastTake, AttemptConfirm, AttemptPay, LoadReturns, Pay
  <2>2. CASE HelpingAnnounce(t) \/ HelpingOpen(t) \/ FallbackCandidate(t) \/ ConfirmSlot(t)
    BY <2>2 DEF HelpingAnnounce, HelpingOpen, FallbackCandidate, ConfirmSlot
  <2>3. CASE ConfirmControl(t) \/ ConfirmHandover(t) \/ ConfirmSpace(t)
    BY <2>3 DEF ConfirmControl, ConfirmHandover, ConfirmSpace
  <2>4. CASE FallbackUnpay(t) \/ FallbackUndec(t)
    BY <2>4 DEF FallbackUnpay, FallbackUndec, LoadReturns, Pay
  <2> QED
    BY <2>1, <2>2, <2>3, <2>4 DEF ReadStep
<1>3. Waiting(t)' <=> Waiting(t)
  BY <1>2 DEF Waiting, LoadLabels, listVars
<1>4. CallShare(t, a)' = CallShare(t, a)
  BY <1>1, <1>2, <1>3, CallStays DEF LoadLabels, CallPlaces
<1>5. PayShare(t, a)' = PayShare(t, a)
  BY <1>1, <1>2, <1>3, PayStays DEF LoadLabels
<1>6. ~HelpCas(t) /\ Acts(t)
  BY <1>2 DEF HelpCas, LoadLabels, Acts
<1> QED
  BY <1>4, <1>5, <1>6, AnswersMove

\* The answer that confirm finds is the reader's from then on.
LEMMA ConfirmEven ==
    ASSUME ListInv, HelpInv, NEW t \in Threads, NEW a \in Addrs, ConfirmControl(t),
           UNCHANGED <<listVars, storage, guards, owned>>, IsFiniteSet(GuardCopies(a))
    PROVE  Even(t, a)
<1> Shape /\ Locals /\ Shapes /\ Instances /\ Local(t)
  BY DEF ListInv, HelpInv
<1>a. node[t] \in Nodes
  BY AtHand DEF ConfirmControl, OpenLabels
<1>b. PICK n \in Nodes : n = node[t]
  BY <1>a
<1> DEFINE answer == control[n] # GEN(generation[t])
<1>1. /\ pc[t] = "fb_confirm" /\ UNCHANGED <<strong, slots, handover>>
      /\ control' = [control EXCEPT ![n] = IDLE]
      /\ ld'[t].ptr = ld[t].ptr
      /\ answer => pc'[t] = "fb_hand" /\ ld'[t].env = EnvelopeIn(control[n])
      /\ ~answer => pc'[t] = "in_inc"
  BY <1>b DEF ConfirmControl, Goto, Shapes, LoadType
<1>2. /\ n \in Nodes /\ control[n] \in Controls
      /\ answer => Tag(control[n]) = REPLACEMENT_TAG
      /\ Tag(GEN(generation[t])) # REPLACEMENT_TAG /\ Tag(IDLE) # REPLACEMENT_TAG
  BY <1>b, <1>1, AnswerValid, ControlFacts DEF OpenLabels, REPLACEMENT_TAG, GEN_TAG, Shapes
<1>3. ReadStep(t) /\ Acts(t)
  BY DEF ReadStep, Acts
<1>4. \A k \in Nodes : k # n => Answers(k, a)' = Answers(k, a)
  BY <1>1, <1>2 DEF Answers, Shapes
<1>5. /\ Cardinality(AnswersOn(a)) \in Nat
      /\ Cardinality(AnswersOn(a)') = Cardinality(AnswersOn(a)) - One(Answers(n, a)) + One(Answers(n, a)')
  BY <1>2, <1>4, AnswersChange
<1> DEFINE x == One(answer /\ handover[EnvelopeIn(control[n])] = a)
<1>6. One(Answers(n, a)) = x /\ One(Answers(n, a)') = 0
  <2>1. control'[n] = IDLE
    BY <1>1, <1>2 DEF Shapes
  <2>2. ~Answers(n, a)'
    BY <1>2, <2>1 DEF Answers
  <2>3. Answers(n, a) <=> answer /\ handover[EnvelopeIn(control[n])] = a
    BY <1>2 DEF Answers
  <2> QED
    BY <2>2, <2>3 DEF One
<1>7. LoadShare(t, a)' = LoadShare(t, a) + x
  <2>1. LoadShare(t, a) = One(ld[t].ptr = a)
    BY <1>1, LoadsAt DEF Loads
  <2>2. CASE answer
    <3>1. LoadShare(t, a)' = One(ld'[t].ptr = a) + One(handover'[ld'[t].env] = a)
      BY <1>1, <2>2, LoadsNext DEF Loads
    <3> QED
      BY <1>1, <2>1, <2>2, <3>1 DEF One
  <2>3. CASE ~answer
    <3>1. LoadShare(t, a)' = One(ld'[t].ptr = a)
      BY <1>1, <2>3, LoadsNext DEF Loads
    <3> QED
      BY <1>1, <2>1, <2>3, <3>1 DEF One
  <2> QED
    BY <2>2, <2>3
<1>8. /\ Cardinality(StoragesOn(a)) \in Nat
      /\ Cardinality(StoragesOn(a)') = Cardinality(StoragesOn(a))
      /\ GuardsOn(a) \in Nat /\ GuardsOn(a)' = GuardsOn(a)
      /\ Owed(a) \in Nat /\ Owed(a)' = Owed(a)
      /\ strong[a] \in Int /\ owned[a] \in Int /\ owned'[a] = owned[a] /\ strong'[a] = strong[a]
  BY <1>1, StorageStays, GuardsStay, SlotsStay DEF Shapes
<1>9. Share(t, a)' = Share(t, a) + x /\ Share(t, a) \in Nat /\ x \in Nat
  BY <1>3, <1>7, ReadShares, ShareTypes, ShareTypesNext DEF One
<1> HIDE DEF x, answer
<1> QED
  BY <1>5, <1>6, <1>8, <1>9 DEF Even

\* The steps of a load are even.
LEMMA ReadEven ==
    ASSUME ListInv, HelpInv, NEW t \in Threads, NEW a \in Addrs, ReadStep(t),
           UNCHANGED <<listVars, storage, guards, owned>>, strong' \in [Addrs -> Int],
           IsFiniteSet(GuardCopies(a))
    PROVE  Even(t, a)
<1> Shape /\ Locals /\ Shapes /\ Instances /\ Local(t)
  BY DEF ListInv, HelpInv
<1>0. /\ CallShare(t, a)' = CallShare(t, a) /\ PayShare(t, a)' = PayShare(t, a)
      /\ ~ConfirmControl(t) => \A n \in Nodes : Answers(n, a)' = Answers(n, a)
  BY ReadShares
<1>1. CASE ConfirmControl(t)
  BY <1>1, ConfirmEven
<1>2. ASSUME NEW m \in Int, NEW d \in Int, ~ConfirmControl(t), strong'[a] = strong[a] + m,
             Owed(a) \in Nat, Owed(a)' = Owed(a) + d, LoadShare(t, a)' = LoadShare(t, a) + m + d
      PROVE  Even(t, a)
  <2>1. Share(t, a)' = Share(t, a) + m + d
    BY <1>0, <1>2, ShareTypes, ShareTypesNext
  <2> QED
    BY <1>0, <1>2, <2>1, EvenInside
<1>3. LoadShare(t, a) \in Nat /\ strong[a] \in Int /\ Loads(t, a) /\ Loads(t, a)'
      /\ Owed(a) \in Nat
  BY ShareTypes, LoadsAt, LoadsNext, OwedNat DEF Shapes
<1>4. \A p \in Ptrs : One(p = a) \in Nat
  BY DEF One
<1>5. CASE AttemptLoad(t) \/ FastScan(t) \/ HelpingAnnounce(t) \/ HelpingOpen(t) \/ FallbackCandidate(t)
  <2>1. /\ UNCHANGED <<strong, slots>>
        /\ pc[t] \in {"ld_ptr", "scan", "fb_addr", "fb_ctl", "fb_cand"}
        /\ pc'[t] \in {"scan", "take", "fb_addr", "fb_ctl", "fb_discard", "fb_cand", "fb_slot", "panicked"}
    BY <1>5 DEF AttemptLoad, FastScan, HelpingAnnounce, HelpingOpen, FallbackCandidate, Goto,
       Shapes
  <2>2. LoadShare(t, a) = 0 /\ LoadShare(t, a)' = 0
    BY <1>3, <2>1 DEF Loads
  <2>3. Owed(a)' = Owed(a) + 0 /\ strong'[a] = strong[a] + 0
    BY <1>3, <2>1, SlotsStay
  <2>4. ~ConfirmControl(t)
    BY <2>1 DEF ConfirmControl
  <2> QED
    BY <1>2, <1>3, <2>2, <2>3, <2>4
<1>6. CASE FastTake(t) \/ ConfirmSlot(t)
  <2>1. PICK k \in {ld[t].idx, HelpingSlot} :
        /\ k = IF pc[t] = "take" THEN ld[t].idx ELSE HelpingSlot
        /\ UNCHANGED strong /\ pc[t] \in {"take", "fb_slot"} /\ pc'[t] \in {"ld_confirm", "fb_confirm"}
        /\ slots' = [slots EXCEPT ![node[t]][k] = ld[t].ptr] /\ ld'[t].ptr = ld[t].ptr
    BY <1>6 DEF FastTake, ConfirmSlot, Goto, Shapes, LoadType
  <2>2. node[t] \in Nodes /\ k \in SlotIds
    BY <2>1, AtHand, Fields, Consts DEF OpenLabels
  <2>3. slots[node[t]][k] = NONE
    BY <2>1, AssertsHold DEF DebugAsserts
  <2>4. a # NONE
    BY Consts
  <2>5. /\ Owed(a) \in Nat
        /\ Owed(a)' = Owed(a) - One(slots[node[t]][k] = a) + One(ld[t].ptr = a)
    <3>1. SetSlot(node[t], k, ld[t].ptr) /\ ld[t].ptr \in Ptrs \cup {NONE}
      BY <2>1, Fields DEF SetSlot
    <3> QED
      BY <2>2, <3>1, SlotChanges
  <2>6. LoadShare(t, a) = 0 /\ LoadShare(t, a)' = One(ld[t].ptr = a)
    BY <1>3, <2>1 DEF Loads
  <2>7. One(slots[node[t]][k] = a) = 0 /\ One(ld[t].ptr = a) \in Int
    BY <2>3, <2>4 DEF One
  <2>8. Owed(a)' = Owed(a) + One(ld[t].ptr = a) /\ strong'[a] = strong[a] + 0
    BY <1>3, <2>1, <2>5, <2>7
  <2>9. ~ConfirmControl(t)
    BY <1>6, <2>1 DEF ConfirmControl, FastTake, ConfirmSlot
  <2> QED
    BY <1>2, <1>3, <2>6, <2>7, <2>8, <2>9
<1>7. CASE AttemptConfirm(t) \/ ConfirmHandover(t) \/ ConfirmSpace(t)
  <2>1. UNCHANGED <<strong, slots>> /\ ~ConfirmControl(t)
    BY <1>7 DEF AttemptConfirm, ConfirmHandover, ConfirmSpace, ConfirmControl
  <2>2. LoadShare(t, a)' = LoadShare(t, a)
    <3>1. CASE AttemptConfirm(t)
      <4>1. pc[t] = "ld_confirm" /\ pc'[t] \in {"ret", "ld_pay"} /\ ld'[t].ptr = ld[t].ptr
        BY <3>1 DEF AttemptConfirm, LoadReturns, Protection, Goto, Shapes
      <4> QED
        BY <1>3, <4>1 DEF Loads
    <3>2. CASE ConfirmHandover(t)
      <4>1. /\ pc[t] = "fb_hand" /\ pc'[t] = "fb_space" /\ ld'[t].ptr = ld[t].ptr
            /\ ld'[t].repl = handover[ld[t].env]
        BY <3>2 DEF ConfirmHandover, Goto, Shapes, LoadType
      <4> QED
        BY <1>3, <4>1 DEF Loads
    <3>3. CASE ConfirmSpace(t)
      <4>1. /\ pc[t] = "fb_space" /\ pc'[t] = "fb_unpay" /\ ld'[t].ptr = ld[t].ptr
            /\ ld'[t].repl = ld[t].repl
        BY <3>3 DEF ConfirmSpace, Goto, Shapes, LoadType
      <4> QED
        BY <1>3, <4>1 DEF Loads
    <3> QED
      BY <1>7, <3>1, <3>2, <3>3
  <2>3. Owed(a)' = Owed(a) + 0 /\ strong'[a] = strong[a] + 0
    BY <1>3, <2>1, SlotsStay
  <2> QED
    BY <1>2, <1>3, <2>1, <2>2, <2>3
<1>8. CASE FallbackUndec(t)
  <2>1. /\ strong' = Dec(strong, ld[t].ptr) /\ UNCHANGED slots /\ ~ConfirmControl(t)
        /\ pc[t] = "fb_undec" /\ pc'[t] = "ret" /\ ld'[t].ptr = ld[t].repl
    BY <1>8 DEF FallbackUndec, LoadReturns, Protection, Goto, Shapes, ConfirmControl
  <2>2. /\ LoadShare(t, a) = One(ld[t].ptr = a) + One(ld[t].repl = a)
        /\ LoadShare(t, a)' = One(ld[t].repl = a)
    BY <1>3, <2>1 DEF Loads
  <2>a. strong \in [Addrs -> Int] /\ ld[t].ptr \in Ptrs
    BY Fields DEF Shapes
  <2>3. strong'[a] = strong[a] - One(ld[t].ptr = a)
    BY <2>1, <2>a, CountChanges
  <2>4. One(ld[t].ptr = a) \in Int /\ One(ld[t].repl = a) \in Int
    BY DEF One
  <2>5. Owed(a)' = Owed(a) + 0
    BY <1>3, <2>1, SlotsStay
  <2>6. /\ strong'[a] = strong[a] + (0 - One(ld[t].ptr = a))
        /\ LoadShare(t, a)' = LoadShare(t, a) + (0 - One(ld[t].ptr = a)) + 0
        /\ (0 - One(ld[t].ptr = a)) \in Int
    BY <1>3, <2>2, <2>3, <2>4
  <2> QED
    BY <1>2, <1>3, <2>1, <2>5, <2>6
<1>9. CASE AttemptPay(t) \/ FallbackUnpay(t)
  <2> DEFINE d == ld[t].debt
  <2>0. /\ UNCHANGED strong /\ ~ConfirmControl(t)
        /\ (AttemptPay(t) /\ pc[t] = "ld_pay") \/ (FallbackUnpay(t) /\ pc[t] = "fb_unpay")
    BY <1>9 DEF AttemptPay, FallbackUnpay, ConfirmControl
  <2>1. d[1] \in Nodes /\ d[2] \in SlotIds
    <3>1. CASE AttemptPay(t)
      BY <3>1, DebtFacts DEF AttemptPay, Local, Registers, FastDebts, AllDebts
    <3>2. CASE FallbackUnpay(t)
      BY <3>2, AtHand, Consts DEF FallbackUnpay, Local, Registers, HelpedLabels
    <3> QED
      BY <1>9, <3>1, <3>2
  <2>2. CASE IsOwed(d, ld[t].ptr)
    <3>1. slots' = [slots EXCEPT ![d[1]][d[2]] = NONE] /\ slots[d[1]][d[2]] = ld[t].ptr
      BY <1>9, <2>2 DEF AttemptPay, FallbackUnpay, Pay, IsOwed
    <3>2. One(NONE = a) = 0 /\ One(ld[t].ptr = a) \in Int /\ One(ld[t].repl = a) \in Int
      BY Consts DEF One
    <3>3. Owed(a)' = Owed(a) - One(slots[d[1]][d[2]] = a) + One(NONE = a)
      <4>1. SetSlot(d[1], d[2], NONE)
        BY <3>1 DEF SetSlot
      <4> QED
        BY <2>1, <4>1, SlotChanges
    <3>4. Owed(a)' = Owed(a) + (0 - One(ld[t].ptr = a))
      BY <1>3, <3>1, <3>2, <3>3
    <3>5. LoadShare(t, a)' = LoadShare(t, a) + (0 - One(ld[t].ptr = a))
      <4>1. CASE AttemptPay(t) /\ pc[t] = "ld_pay"
        <5>1. pc'[t] = "fb_addr"
          BY <2>2, <4>1 DEF AttemptPay, Pay, Goto, Shapes
        <5>2. LoadShare(t, a)' = 0 /\ LoadShare(t, a) = One(ld[t].ptr = a)
          BY <1>3, <4>1, <5>1 DEF Loads
        <5> QED
          BY <3>2, <5>2
      <4>2. CASE FallbackUnpay(t) /\ pc[t] = "fb_unpay"
        <5>1. pc'[t] = "ret" /\ ld'[t].ptr = ld[t].repl
          BY <2>2, <4>2 DEF FallbackUnpay, Pay, LoadReturns, Protection, Goto, Shapes
        <5>2. /\ LoadShare(t, a)' = One(ld[t].repl = a)
              /\ LoadShare(t, a) = One(ld[t].ptr = a) + One(ld[t].repl = a)
          BY <1>3, <4>2, <5>1 DEF Loads
        <5> QED
          BY <3>2, <5>2
      <4> QED
        BY <2>0, <4>1, <4>2
    <3>6. /\ strong'[a] = strong[a] + 0 /\ (0 - One(ld[t].ptr = a)) \in Int
          /\ LoadShare(t, a)' = LoadShare(t, a) + 0 + (0 - One(ld[t].ptr = a))
      BY <1>3, <2>0, <3>2, <3>5
    <3> QED
      BY <1>2, <1>3, <2>0, <3>4, <3>6
  <2>3. CASE ~IsOwed(d, ld[t].ptr)
    <3>1. /\ UNCHANGED slots
          /\ ld'[t].ptr = ld[t].ptr
          /\ pc[t] = "ld_pay" => pc'[t] = "ret"
          /\ pc[t] = "fb_unpay" => pc'[t] = "fb_undec" /\ ld'[t].repl = ld[t].repl
      BY <1>9, <2>3 DEF AttemptPay, FallbackUnpay, Pay, LoadReturns, Protection, Goto, Shapes
    <3>2. LoadShare(t, a)' = LoadShare(t, a)
      BY <1>3, <2>0, <3>1 DEF Loads
    <3>3. Owed(a)' = Owed(a) + 0 /\ strong'[a] = strong[a] + 0
      BY <1>3, <2>0, <3>1, SlotsStay
    <3> QED
      BY <1>2, <1>3, <2>0, <3>2, <3>3
  <2> QED
    BY <2>2, <2>3
<1> QED
  BY <1>1, <1>5, <1>6, <1>7, <1>8, <1>9 DEF ReadStep

-----------------------------------------------------------------------------
(* Nodes and pay_all.                                                        *)

\* A thread that gets a node or gives it back is not on a node as a writer.
LEMMA NodeOff ==
    ASSUME Shape, NEW t \in Threads, NodeOnly(t)
    PROVE  lpc[t] \notin {"reserve", "visit"} /\ lpc'[t] \notin {"reserve", "visit"}
<1>1. CASE NodeStep(t)
  <2>1. GetStep(t)
    BY <1>1 DEF NodeStep
  <2> QED
    BY <2>1 DEF GetStep, GetStart, CheckCooldownLoad, CheckCooldownWriters,
         CheckCooldownCas, GetClaim, GetAlloc, GetPush, GetVisit, Enter, Shape
<1>2. CASE TmpNodeDrop(t) \/ ExitStep(t)
  BY <1>2 DEF TmpNodeDrop, ExitStep, ThreadExit, CooldownReserve, CooldownSwap,
       CooldownRelease, Enter, Shape
<1> QED
  BY <1>1, <1>2 DEF NodeOnly

\* Getting a node costs nobody a reference, and neither does giving it back.
LEMMA NodeEven ==
    ASSUME ListInv, HelpInv, NEW t \in Threads, NEW a \in Addrs, NodeOnly(t), IsFiniteSet(GuardCopies(a))
    PROVE  Even(t, a)
<1> Shape /\ Shapes
  BY DEF ListInv, HelpInv
<1>1. /\ UNCHANGED <<strong, slots, control, handover, pc, op, ld, wr, storage, guards, owned>>
  BY DEF NodeOnly, NodeStep, TmpNodeDrop, ExitStep, debtVars, helpVars
<1>2. Waiting(t)' <=> Waiting(t)
  BY <1>1, NodeOff DEF Waiting
<1>3. /\ TookOld(t)' <=> TookOld(t)
      /\ CasGuard(t)' <=> CasGuard(t)
      /\ RcuGuard(t)' <=> RcuGuard(t)
      /\ Prepaid(t)' <=> Prepaid(t)
      /\ Protects(t)' <=> Protects(t)
      /\ Received(t)' = Received(t)
  BY <1>1, <1>2 DEF TookOld, CasGuard, InCas, RcuGuard, Prepaid, Protects, Received
<1>4. CallShare(t, a)' = CallShare(t, a)
  BY <1>1, <1>3 DEF CallShare, One
<1>5. PayShare(t, a)' = PayShare(t, a)
  BY <1>1, <1>3 DEF PayShare, One
<1>6. LoadShare(t, a)' = LoadShare(t, a)
  BY <1>1, <1>3 DEF LoadShare, One
<1>7. Share(t, a)' = Share(t, a) + 0 + 0
  BY <1>4, <1>5, <1>6, ShareTypes, ShareTypesNext
<1>8. \A n \in Nodes : Answers(n, a)' = Answers(n, a)
  BY <1>1 DEF Answers
<1>9. Owed(a)' = Owed(a) + 0 /\ Owed(a) \in Nat /\ strong'[a] = strong[a] + 0 /\ strong' \in [Addrs -> Int]
  BY <1>1, SlotsStay DEF Shapes
<1> QED
  BY <1>1, <1>7, <1>8, <1>9, EvenInside

\* Steps of pay_all and help that change the prepaid references only.
LEMMA EvenPay ==
    ASSUME Shapes, NEW t \in Threads, NEW a \in Addrs, IsFiniteSet(GuardCopies(a)), strong' \in [Addrs -> Int],
           UNCHANGED <<storage, guards, owned>>,
           op'[t] = op[t], wr'[t].old = wr[t].old, Waiting(t), Waiting(t)',
           pc[t] \in VisitLabels \cup {"pa_inc", "pa_walk", "pa_reserve", "pa_dec"},
           pc'[t] \in VisitLabels \cup {LoadEntry, "pa_inc", "pa_walk", "pa_reserve", "pa_dec"},
           \A n \in Nodes : Answers(n, a)' = Answers(n, a),
           NEW m \in Int, NEW d \in Int,
           strong'[a] = strong[a] + m,
           Owed(a)' = Owed(a) + d,
           PayShare(t, a)' = PayShare(t, a) + m + d
    PROVE  Even(t, a)
<1>1. CallShare(t, a)' = CallShare(t, a)
  BY CallStays DEF CallPlaces, VisitLabels, LoadEntry
<1>2. LoadShare(t, a) = 0 /\ LoadShare(t, a)' = 0
  BY LoadsAt, LoadsNext DEF Loads, VisitLabels, LoadEntry
<1>3. Share(t, a)' = Share(t, a) + m + d
  BY <1>1, <1>2, ShareTypes, ShareTypesNext
<1>4. Owed(a) \in Nat
  BY OwedNat
<1> QED
  BY <1>3, <1>4, EvenInside

\* Walking along the list moves no reference.
LEMMA WalkEven ==
    ASSUME ListInv, HelpInv, NEW t \in Threads, NEW a \in Addrs, WalkStep(t),
           UNCHANGED <<storage, guards, owned>>, IsFiniteSet(GuardCopies(a))
    PROVE  Even(t, a)
<1> Shape /\ Locals /\ Shapes /\ Instances /\ Local(t)
  BY DEF ListInv, HelpInv
<1>0. op'[t] = op[t] /\ wr'[t] = wr[t] /\ UNCHANGED <<strong, slots, control, handover>>
  BY DEF WalkStep, PayAllWalk, PayAllReserve, PayAllRelease, helpVars
<1>1. \/ pc[t] = "pa_walk" /\ pc'[t] = "pa_reserve" /\ lpc'[t] = "reserve"
      \/ pc[t] = "pa_reserve" /\ pc'[t] = "hp_ctl" /\ lpc'[t] = "visit"
      \/ pc[t] = "pa_release" /\ pc'[t] = "pa_reserve" /\ lpc'[t] = "reserve"
      \/ pc[t] = "pa_release" /\ pc'[t] = "pa_dec" /\ lpc'[t] = "off"
  BY DEF WalkStep, PayAllWalk, PayAllReserve, PayAllRelease, TraverseStart, ReserveWriter,
     ReleaseWriter, Goto, Enter, Shape, Shapes
<1>2. Waiting(t) /\ Waiting(t)'
  BY <1>1 DEF Waiting, Local, Places, VisitLabels
<1>3. PayShare(t, a)' = PayShare(t, a)
  BY <1>0, <1>1, <1>2, PayStays
<1>4. \A n \in Nodes : Answers(n, a)' = Answers(n, a)
  BY <1>0 DEF Answers
<1>5. /\ Owed(a)' = Owed(a) + 0 /\ strong'[a] = strong[a] + 0 /\ strong' \in [Addrs -> Int]
      /\ PayShare(t, a)' = PayShare(t, a) + 0 + 0
  BY <1>0, <1>3, SlotsStay, ShareTypes DEF Shapes
<1> QED
  BY <1>0, <1>1, <1>2, <1>4, <1>5, EvenPay DEF VisitLabels

\* The prepaid reference goes to the debt that is paid, and is replaced.
LEMMA PayEven ==
    ASSUME ListInv, HelpInv, NEW t \in Threads, NEW a \in Addrs, PayStep(t), strong' \in [Addrs -> Int],
           UNCHANGED <<listVars, storage, guards, owned>>, IsFiniteSet(GuardCopies(a))
    PROVE  Even(t, a)
<1> Shape /\ Locals /\ Shapes /\ Instances /\ Local(t)
  BY DEF ListInv, HelpInv
<1> DEFINE p == wr[t].old
           o == One(p = a)
           r == One(wr[t].repl = a)
<1>0. /\ op'[t] = op[t] /\ UNCHANGED <<control, handover>> /\ lpc'[t] = lpc[t]
      /\ wr'[t].old = p /\ wr'[t].repl = wr[t].repl
      /\ \/ PayAllInc(t) /\ pc[t] = "pa_inc" /\ pc'[t] = "pa_walk"
         \/ PayAllSlot(t) /\ pc[t] = "pa_slot" /\ pc'[t] \in {"pa_slot", "pa_release", "pa_inc2"}
         \/ PayAllIncMore(t) /\ pc[t] = "pa_inc2" /\ pc'[t] \in {"pa_slot", "pa_release"}
  BY DEF PayStep, PayAllInc, PayAllSlot, PayAllIncMore, Pay, NextSlot, helpVars, Goto, Shapes,
     WriteType, listVars
<1>1. Waiting(t) /\ Waiting(t)'
  BY <1>0 DEF Waiting, Local, Places, VisitLabels
<1>2. /\ o \in Nat /\ r \in Nat
      /\ PayShare(t, a) = IF pc[t] \in {"pa_inc", "pa_inc2"} THEN r ELSE o + r
      /\ PayShare(t, a)' = IF pc'[t] \in {"pa_inc", "pa_inc2"} THEN r ELSE o + r
  BY <1>0, <1>1 DEF PayShare, One, Prepaid
<1>3. \A n \in Nodes : Answers(n, a)' = Answers(n, a)
  BY <1>0 DEF Answers
<1>4. ASSUME NEW m \in Int, NEW d \in Int, strong'[a] = strong[a] + m, Owed(a)' = Owed(a) + d,
             PayShare(t, a)' = PayShare(t, a) + m + d
      PROVE  Even(t, a)
  BY <1>0, <1>1, <1>3, <1>4, EvenPay DEF VisitLabels
<1>5. strong \in [Addrs -> Int] /\ p \in Ptrs /\ strong[a] \in Int /\ Owed(a) \in Nat
  BY Fields, OwedNat DEF Shapes
<1> HIDE DEF o, r
<1>6. CASE PayAllInc(t) \/ PayAllIncMore(t)
  <2>1. strong' = Inc(strong, p) /\ UNCHANGED slots
    BY <1>6 DEF PayAllInc, PayAllIncMore
  <2>2. strong'[a] = strong[a] + o
    BY <1>5, <2>1, CountChanges DEF o
  <2>3. Owed(a)' = Owed(a) + 0
    BY <1>5, <2>1, SlotsStay
  <2>4. PayShare(t, a)' = PayShare(t, a) + o + 0
    <3>1. pc[t] \in {"pa_inc", "pa_inc2"} /\ pc'[t] \notin {"pa_inc", "pa_inc2"}
      BY <1>0, <1>6 DEF PayAllInc, PayAllIncMore
    <3> QED
      BY <1>2, <3>1
  <2> QED
    BY <1>2, <1>4, <2>2, <2>3, <2>4
<1>7. CASE PayAllSlot(t)
  <2>0. UNCHANGED strong /\ pc[t] = "pa_slot" /\ cursor[t] \in Nodes /\ NthSlot(wr[t].idx) \in SlotIds
    BY <1>7, AtHand, Fields, Consts DEF PayAllSlot, VisitLabels, NthSlot
  <2>1. CASE IsOwed(<<cursor[t], NthSlot(wr[t].idx)>>, p)
    <3>1. /\ slots' = [slots EXCEPT ![cursor[t]][NthSlot(wr[t].idx)] = NONE]
          /\ slots[cursor[t]][NthSlot(wr[t].idx)] = p /\ pc'[t] = "pa_inc2"
      BY <1>7, <2>1 DEF PayAllSlot, Pay, IsOwed, Goto, Shapes
    <3>2. SetSlot(cursor[t], NthSlot(wr[t].idx), NONE)
      BY <3>1 DEF SetSlot
    <3>3. Owed(a)' = Owed(a) - One(slots[cursor[t]][NthSlot(wr[t].idx)] = a) + One(NONE = a)
      BY <2>0, <3>2, SlotChanges
    <3>4. One(NONE = a) = 0 /\ One(slots[cursor[t]][NthSlot(wr[t].idx)] = a) = o
      BY <3>1, Consts DEF One, o
    <3>5. Owed(a)' = Owed(a) + (0 - o) /\ strong'[a] = strong[a] + 0
      BY <1>2, <1>5, <2>0, <3>3, <3>4
    <3>6. PayShare(t, a)' = PayShare(t, a) + 0 + (0 - o) /\ (0 - o) \in Int
      BY <1>2, <2>0, <3>1
    <3> QED
      BY <1>4, <3>5, <3>6
  <2>2. CASE ~IsOwed(<<cursor[t], NthSlot(wr[t].idx)>>, p)
    <3>1. UNCHANGED slots /\ pc'[t] \in {"pa_slot", "pa_release"}
      BY <1>7, <2>2 DEF PayAllSlot, Pay, NextSlot, Goto, Shapes
    <3>2. Owed(a)' = Owed(a) + 0 /\ strong'[a] = strong[a] + 0
      BY <1>5, <2>0, <3>1, SlotsStay
    <3>3. PayShare(t, a)' = PayShare(t, a) + 0 + 0
      BY <1>2, <2>0, <3>1
    <3> QED
      BY <1>4, <3>2, <3>3
  <2> QED
    BY <2>1, <2>2
<1> QED
  BY <1>6, <1>7 DEF PayStep

-----------------------------------------------------------------------------
(* Help.                                                                     *)

\* What a step of help does to the replacement.
LEMMA HelpEffect ==
    ASSUME ListInv, HelpInv, NEW t \in Threads, HelpStep(t), UNCHANGED listVars
    PROVE  /\ op'[t] = op[t] /\ wr'[t].old = wr[t].old /\ lpc[t] = "visit" /\ lpc'[t] = "visit" /\ UNCHANGED slots
           /\ pc[t] \in VisitLabels \ {"pa_inc2"}
           /\ pc'[t] \in (VisitLabels \ {"pa_inc2"}) \cup {LoadEntry}
           /\ \/ wr'[t].repl = wr[t].repl /\ UNCHANGED strong /\ ~(HelpCas(t) /\ pc'[t] = "hp_offer")
              \/ HelpDrop(t) /\ strong' = Dec(strong, wr[t].repl) /\ wr'[t].repl = NULL
              \/ HelpCas(t) /\ pc'[t] = "hp_offer" /\ UNCHANGED strong /\ wr'[t].repl = NULL
<1> Shape /\ Locals /\ Shapes /\ Instances /\ Local(t)
  BY DEF ListInv, HelpInv
<1>0. pc[t] \in VisitLabels \ {"pa_inc2"} /\ UNCHANGED <<op, slots>>
  BY DEF HelpStep, HelpControl, HelpAddr, HelpReconfirm, HelpTheirSpace, HelpStore, HelpCas,
     HelpDrop, HelpOffer, VisitLabels
<1>1. lpc[t] = "visit" /\ lpc'[t] = "visit"
  BY <1>0 DEF Local, Places, listVars
<1>2. CASE HelpControl(t) \/ HelpReconfirm(t) \/ HelpOffer(t)
  <2>1. \E c : HelpMatch(t, c)
    BY <1>2 DEF HelpControl, HelpReconfirm, HelpOffer
  <2>2. /\ wr'[t].old = wr[t].old /\ wr'[t].repl = NULL /\ pc'[t] \in {"hp_addr", "pa_slot"}
    BY <2>1 DEF HelpMatch, Goto, Shapes, WriteType
  <2>3. wr[t].repl = NULL /\ UNCHANGED strong
    BY <1>2 DEF HelpControl, HelpReconfirm, HelpOffer, Local, Pointers
  <2> QED
    BY <1>0, <1>1, <2>2, <2>3 DEF VisitLabels
<1>3. CASE HelpDrop(t)
  <2>1. HelpMatch(t, wr[t].ctl) /\ strong' = Dec(strong, wr[t].repl)
    BY <1>3 DEF HelpDrop
  <2>2. /\ wr'[t].old = wr[t].old /\ wr'[t].repl = NULL /\ pc'[t] \in {"hp_addr", "pa_slot"}
    BY <2>1 DEF HelpMatch, Goto, Shapes, WriteType
  <2> QED
    BY <1>0, <1>1, <1>3, <2>1, <2>2 DEF VisitLabels
<1>4. CASE HelpAddr(t) \/ HelpStore(t)
  <2>1. UNCHANGED <<wr, strong>> /\ pc'[t] \in {LoadEntry, "hp_reconf", "hp_cas"}
    BY <1>4 DEF HelpAddr, HelpStore, Goto, Shapes
  <2> QED
    BY <1>0, <1>1, <2>1 DEF VisitLabels, LoadEntry
<1>5. CASE HelpTheirSpace(t)
  <2>1. wr'[t].old = wr[t].old /\ wr'[t].repl = wr[t].repl /\ UNCHANGED strong /\ pc'[t] = "hp_store"
    BY <1>5 DEF HelpTheirSpace, Goto, Shapes, WriteType
  <2> QED
    BY <1>0, <1>1, <2>1 DEF VisitLabels
<1>6. CASE HelpCas(t)
  <2>1. /\ wr'[t].old = wr[t].old /\ UNCHANGED strong
        /\ \/ pc'[t] = "hp_offer" /\ wr'[t].repl = NULL
           \/ pc'[t] = "hp_drop" /\ wr'[t].repl = wr[t].repl
    BY <1>6 DEF HelpCas, Goto, Shapes, WriteType
  <2> QED
    BY <1>0, <1>1, <1>6, <2>1 DEF VisitLabels
<1> QED
  BY <1>2, <1>3, <1>4, <1>5, <1>6 DEF HelpStep

\* The replacement is in the envelope when the answer is sent.
LEMMA SendEven ==
    ASSUME ListInv, HelpInv, NEW t \in Threads, NEW a \in Addrs, HelpCas(t), pc'[t] = "hp_offer",
           UNCHANGED <<listVars, storage, guards, owned>>, IsFiniteSet(GuardCopies(a))
    PROVE  Even(t, a)
<1> Shape /\ Locals /\ Shapes /\ Instances /\ Local(t)
  BY DEF ListInv, HelpInv
<1>0. HelpStep(t) /\ Acts(t)
  BY DEF HelpStep, Acts
<1>1. /\ pc[t] = "hp_cas" /\ UNCHANGED <<strong, slots, handover, space_offer>>
      /\ control[cursor[t]] = wr[t].ctl
      /\ control' = [control EXCEPT ![cursor[t]] = REPLACEMENT(space_offer[node[t]])]
      /\ op'[t] = op[t] /\ wr'[t].old = wr[t].old /\ wr'[t].repl = NULL
      /\ Waiting(t) /\ Waiting(t)'
  BY <1>0, HelpEffect DEF HelpCas, Goto, Shapes, Waiting
<1>2. node[t] \in Nodes /\ cursor[t] \in Nodes /\ wr[t].ctl \in Words
  BY <1>1, HelperEnvelope
<1>3. PICK n \in Nodes : n = cursor[t]
  BY <1>2
<1>4. space_offer[node[t]] \in Nodes
  BY <1>2 DEF Shapes
<1>5. \A k \in Nodes : k # n => Answers(k, a)' = Answers(k, a)
  BY <1>1, <1>3 DEF Answers, Shapes
<1>6. /\ Cardinality(AnswersOn(a)) \in Nat
      /\ Cardinality(AnswersOn(a)') = Cardinality(AnswersOn(a)) - One(Answers(n, a)) + One(Answers(n, a)')
  BY <1>5, AnswersChange
<1> DEFINE x == One(wr[t].repl = a)
<1>7. One(Answers(n, a)) = 0 /\ One(Answers(n, a)') = x
  <2>1. Tag(control[n]) # REPLACEMENT_TAG
    BY <1>1, <1>2, <1>3, ControlFacts DEF Words, REPLACEMENT_TAG, GEN_TAG
  <2>2. ~Answers(n, a)
    BY <2>1 DEF Answers
  <2>3. control'[n] = REPLACEMENT(space_offer[node[t]])
    BY <1>1, <1>3 DEF Shapes
  <2>4. Tag(control'[n]) = REPLACEMENT_TAG /\ EnvelopeIn(control'[n]) = space_offer[node[t]]
    BY <1>4, <2>3, ControlFacts
  <2>5. handover[space_offer[node[t]]] = wr[t].repl
    BY <1>1 DEF HelpInv, Exchanges
  <2>6. Answers(n, a)' <=> wr[t].repl = a
    BY <1>1, <2>4, <2>5 DEF Answers
  <2> QED
    BY <2>2, <2>6 DEF One
<1>8. /\ Cardinality(StoragesOn(a)) \in Nat
      /\ Cardinality(StoragesOn(a)') = Cardinality(StoragesOn(a))
      /\ GuardsOn(a) \in Nat /\ GuardsOn(a)' = GuardsOn(a)
      /\ Owed(a) \in Nat /\ Owed(a)' = Owed(a)
      /\ strong[a] \in Int /\ owned[a] \in Int /\ owned'[a] = owned[a] /\ strong'[a] = strong[a]
  BY <1>1, StorageStays, GuardsStay, SlotsStay DEF Shapes
<1>9. Share(t, a)' = Share(t, a) - x /\ Share(t, a) \in Nat /\ x \in Nat
  <2>1. CallShare(t, a)' = CallShare(t, a)
    BY <1>1, CallStays DEF CallPlaces
  <2>2. LoadShare(t, a) = 0 /\ LoadShare(t, a)' = 0
    BY <1>1, LoadsAt, LoadsNext DEF Loads
  <2>3. PayShare(t, a)' = PayShare(t, a) - x
    <3>1. Prepaid(t) /\ Prepaid(t)' /\ NULL # a
      BY <1>1, Consts DEF Prepaid
    <3> QED
      BY <1>1, <3>1 DEF PayShare, One
  <2>4. x \in Nat
    BY DEF One
  <2> QED
    BY <2>1, <2>2, <2>3, <2>4, ShareTypes, ShareTypesNext
<1> HIDE DEF x
<1> QED
  BY <1>6, <1>7, <1>8, <1>9 DEF Even

\* The steps of help are even.
LEMMA HelpEven ==
    ASSUME ListInv, HelpInv, NEW t \in Threads, NEW a \in Addrs, HelpStep(t), strong' \in [Addrs -> Int],
           UNCHANGED <<listVars, storage, guards, owned>>, IsFiniteSet(GuardCopies(a))
    PROVE  Even(t, a)
<1> Shape /\ Locals /\ Shapes /\ Instances /\ Local(t)
  BY DEF ListInv, HelpInv
<1>0. /\ op'[t] = op[t] /\ wr'[t].old = wr[t].old /\ lpc[t] = "visit" /\ lpc'[t] = "visit" /\ UNCHANGED slots
      /\ pc[t] \in VisitLabels \ {"pa_inc2"}
      /\ pc'[t] \in (VisitLabels \ {"pa_inc2"}) \cup {LoadEntry}
      /\ \/ wr'[t].repl = wr[t].repl /\ UNCHANGED strong /\ ~(HelpCas(t) /\ pc'[t] = "hp_offer")
         \/ HelpDrop(t) /\ strong' = Dec(strong, wr[t].repl) /\ wr'[t].repl = NULL
         \/ HelpCas(t) /\ pc'[t] = "hp_offer" /\ UNCHANGED strong /\ wr'[t].repl = NULL
  BY HelpEffect
<1>1. CASE HelpCas(t) /\ pc'[t] = "hp_offer"
  BY <1>1, SendEven
<1>2. CASE ~(HelpCas(t) /\ pc'[t] = "hp_offer")
  <2>1. Acts(t) /\ ~ConfirmControl(t)
    BY <1>0 DEF Acts, ConfirmControl, VisitLabels
  <2>2. \A n \in Nodes : Answers(n, a)' = Answers(n, a)
    BY <1>2, <2>1, AnswersMove
  <2>3. Waiting(t) /\ Waiting(t)' /\ Prepaid(t) /\ Prepaid(t)'
    BY <1>0 DEF Waiting, Prepaid, VisitLabels, LoadEntry
  <2>4. Owed(a)' = Owed(a) + 0 /\ strong[a] \in Int
    BY <1>0, SlotsStay, OwedNat DEF Shapes
  <2> DEFINE o == One(wr[t].old = a)
             x == One(wr[t].repl = a)
             y == One(wr'[t].repl = a)
  <2>5. /\ o \in Nat /\ x \in Nat /\ y \in Nat
        /\ PayShare(t, a) = o + x /\ PayShare(t, a)' = o + y
    BY <1>0, <2>3 DEF PayShare, One
  <2> HIDE DEF o, x, y
  <2>6. strong'[a] = strong[a] + (y - x)
    <3>1. CASE wr'[t].repl = wr[t].repl /\ UNCHANGED strong
      <4>1. y = x
        BY <3>1 DEF x, y
      <4> QED
        BY <2>4, <2>5, <3>1, <4>1
    <3>2. CASE strong' = Dec(strong, wr[t].repl) /\ wr'[t].repl = NULL
      <4>1. strong \in [Addrs -> Int] /\ wr[t].repl \in Ptrs
        BY Fields DEF Shapes
      <4>2. strong'[a] = strong[a] - x
        BY <3>2, <4>1, CountChanges DEF x
      <4>3. y = 0
        BY <3>2, Consts DEF One, y
      <4> QED
        BY <2>4, <2>5, <4>2, <4>3
    <3> QED
      BY <1>0, <1>2, <3>1, <3>2
  <2>7. PICK m \in Int : strong'[a] = strong[a] + m /\ PayShare(t, a)' = PayShare(t, a) + m + 0
    BY <2>5, <2>6
  <2>8. /\ op'[t] = op[t] /\ wr'[t].old = wr[t].old
        /\ pc[t] \in VisitLabels \cup {"pa_inc", "pa_walk", "pa_reserve", "pa_dec"}
        /\ pc'[t] \in VisitLabels \cup {LoadEntry, "pa_inc", "pa_walk", "pa_reserve", "pa_dec"}
    BY <1>0
  <2>9. Owed(a)' = Owed(a) + 0 /\ strong'[a] = strong[a] + m
    BY <2>4, <2>7
  <2> QED
    BY <2>2, <2>3, <2>7, <2>8, <2>9, EvenPay
<1> QED
  BY <1>1, <1>2

-----------------------------------------------------------------------------
(* What calls have, label by label.                                          *)

\* What rcu has in its `cur`, as long as it keeps it in op.
RcuShare(t, a) == One(op[t].kind \in {"rcu", "rcu_retry"} /\ op[t].cur = a)
NewShare(t, a) == One(op[t].new = a)
OldShare(t, a) == One(wr[t].old = a)
TookShare(t, a) == One(op[t].kind \in {"store", "swap", "cas", "rcu"} /\ wr[t].old = a)

\* What a call has, label by label.
CallsHave(t, a) ==
    /\ NewShare(t, a) \in Nat /\ OldShare(t, a) \in Nat /\ RcuShare(t, a) \in Nat /\ TookShare(t, a) \in Nat
    /\ Waiting(t) => NewShare(t, a) = 0
    /\ ~Waiting(t) => PayShare(t, a) = 0
    /\ pc[t] = "pa_inc" => PayShare(t, a) = 0
    /\ pc[t] = "pa_dec" => PayShare(t, a) = OldShare(t, a)
    /\ Waiting(t) /\ ~InCas(t) => CallShare(t, a) = TookShare(t, a)
    /\ Waiting(t) /\ InCas(t) => CallShare(t, a) = OldShare(t, a) + OldShare(t, a) + RcuShare(t, a)
    /\ ~Waiting(t) /\ pc[t] \notin CallPlaces => CallShare(t, a) = NewShare(t, a) + RcuShare(t, a)
    /\ pc[t] = "old_dec" => CallShare(t, a) = TookShare(t, a) /\ ~Waiting(t)
    /\ pc[t] = "cas_x" => CallShare(t, a) = NewShare(t, a) + OldShare(t, a) + RcuShare(t, a) /\ ~Waiting(t)
    /\ pc[t] = "cas_drop_new" => CallShare(t, a) = NewShare(t, a) + OldShare(t, a) + RcuShare(t, a) /\ ~Waiting(t)
    /\ pc[t] = "cas_dec" => CallShare(t, a) = OldShare(t, a) + OldShare(t, a) + RcuShare(t, a) /\ ~Waiting(t)
    /\ pc[t] = "rcu_f" => CallShare(t, a) = One(op[t].cur = a) /\ ~Waiting(t)

AllLocal == \A t \in Threads : Local(t)

\* That is what a call has, before a step,
LEMMA CallsAt == AllLocal => \A t \in Threads, a \in Addrs : CallsHave(t, a)
<1> SUFFICES ASSUME NEW t \in Threads, NEW a \in Addrs, Local(t) PROVE CallsHave(t, a)
  BY DEF AllLocal
<1>0. NULL # a
  BY Consts
<1>1. /\ NewShare(t, a) \in Nat /\ OldShare(t, a) \in Nat /\ RcuShare(t, a) \in Nat /\ TookShare(t, a) \in Nat
  BY DEF NewShare, OldShare, RcuShare, TookShare, One
<1>2. Waiting(t) \/ pc[t] = "cas_dec" => op[t].new = NULL
  BY DEF Local, Pointers
<1>3. Waiting(t) => NewShare(t, a) = 0
  BY <1>0, <1>2 DEF NewShare, One
<1>4. ~Waiting(t) \/ pc[t] \in {"pa_inc", "pa_dec"} => wr[t].repl = NULL
  BY DEF Local, Pointers, Places, Waiting, VisitLabels
<1>5. /\ ~Waiting(t) => PayShare(t, a) = 0
      /\ pc[t] = "pa_inc" => PayShare(t, a) = 0
  BY <1>0, <1>4 DEF PayShare, One, Prepaid
<1>6. pc[t] = "pa_dec" => PayShare(t, a) = OldShare(t, a)
  BY <1>0, <1>4 DEF PayShare, One, Prepaid, OldShare, Waiting
<1>7. Waiting(t) => op[t].kind \in WriteKinds /\ pc[t] # "rcu_f"
  BY DEF Local, Calls, Places, Waiting, VisitLabels, LoadSteps, LoadLabels, IntoInnerLabels
<1>8. Waiting(t) /\ ~InCas(t) => CallShare(t, a) = TookShare(t, a)
  <2> SUFFICES ASSUME Waiting(t), ~InCas(t) PROVE CallShare(t, a) = TookShare(t, a)
    OBVIOUS
  <2>1. /\ TookOld(t) <=> op[t].kind \in {"store", "swap", "cas", "rcu"}
        /\ ~CasGuard(t) /\ ~RcuGuard(t)
    BY <1>7 DEF TookOld, CasGuard, RcuGuard, InCas, WriteKinds
  <2> QED
    BY <1>0, <1>2, <2>1 DEF CallShare, TookShare, One
<1>9. Waiting(t) /\ InCas(t) => CallShare(t, a) = OldShare(t, a) + OldShare(t, a) + RcuShare(t, a)
  <2> SUFFICES ASSUME Waiting(t), InCas(t)
               PROVE  CallShare(t, a) = OldShare(t, a) + OldShare(t, a) + RcuShare(t, a)
    OBVIOUS
  <2>1. /\ TookOld(t) /\ CasGuard(t)
        /\ RcuGuard(t) <=> op[t].kind \in {"rcu", "rcu_retry"}
    BY <1>7 DEF TookOld, CasGuard, RcuGuard, InCas, WriteKinds
  <2> QED
    BY <1>0, <1>2, <2>1 DEF CallShare, OldShare, RcuShare, One
<1>10. ~Waiting(t) /\ pc[t] \notin CallPlaces => CallShare(t, a) = NewShare(t, a) + RcuShare(t, a)
  <2> SUFFICES ASSUME ~Waiting(t), pc[t] \notin CallPlaces
               PROVE  CallShare(t, a) = NewShare(t, a) + RcuShare(t, a)
    OBVIOUS
  <2>1. /\ ~TookOld(t) /\ ~CasGuard(t)
        /\ RcuGuard(t) <=> op[t].kind \in {"rcu", "rcu_retry"}
    BY DEF TookOld, CasGuard, RcuGuard, CallPlaces
  <2> QED
    BY <2>1 DEF CallShare, NewShare, RcuShare, One
<1>11. pc[t] \in CallPlaces => ~Waiting(t)
  BY DEF CallPlaces, Waiting, Local, Places, VisitLabels, LoadSteps, LoadLabels, IntoInnerLabels
<1>12. pc[t] = "old_dec" => CallShare(t, a) = TookShare(t, a)
  <2> SUFFICES ASSUME pc[t] = "old_dec" PROVE CallShare(t, a) = TookShare(t, a)
    OBVIOUS
  <2>1. op[t].kind \in {"store", "drop"} /\ op[t].new = NULL
    BY DEF Local, Calls, Pointers
  <2>2. /\ TookOld(t) <=> op[t].kind \in {"store", "swap", "cas", "rcu"}
        /\ ~CasGuard(t) /\ ~RcuGuard(t)
    BY <2>1 DEF TookOld, CasGuard, RcuGuard, InCas
  <2> QED
    BY <1>0, <2>1, <2>2 DEF CallShare, TookShare, One
<1>13. pc[t] \in {"cas_x", "cas_drop_new"} => CallShare(t, a) = NewShare(t, a) + OldShare(t, a) + RcuShare(t, a)
  <2> SUFFICES ASSUME pc[t] \in {"cas_x", "cas_drop_new"}
               PROVE  CallShare(t, a) = NewShare(t, a) + OldShare(t, a) + RcuShare(t, a)
    OBVIOUS
  <2>1. /\ ~TookOld(t) /\ CasGuard(t)
        /\ RcuGuard(t) <=> op[t].kind \in {"rcu", "rcu_retry"}
    BY <1>11 DEF TookOld, CasGuard, RcuGuard, InCas, Local, Calls, CallPlaces
  <2> QED
    BY <2>1 DEF CallShare, NewShare, OldShare, RcuShare, One
<1>14. pc[t] = "cas_dec" => CallShare(t, a) = OldShare(t, a) + OldShare(t, a) + RcuShare(t, a)
  <2> SUFFICES ASSUME pc[t] = "cas_dec"
               PROVE  CallShare(t, a) = OldShare(t, a) + OldShare(t, a) + RcuShare(t, a)
    OBVIOUS
  <2>1. /\ TookOld(t) /\ CasGuard(t)
        /\ RcuGuard(t) <=> op[t].kind \in {"rcu", "rcu_retry"}
    BY DEF TookOld, CasGuard, RcuGuard, InCas, Local, Calls
  <2> QED
    BY <1>0, <1>2, <2>1 DEF CallShare, OldShare, RcuShare, One
<1>15. pc[t] = "rcu_f" => CallShare(t, a) = One(op[t].cur = a)
  <2> SUFFICES ASSUME pc[t] = "rcu_f" PROVE CallShare(t, a) = One(op[t].cur = a)
    OBVIOUS
  <2>1. op[t].kind \in {"rcu_load", "rcu_retry"} /\ op[t].new = NULL
    BY DEF Local, Calls, Pointers
  <2>2. ~TookOld(t) /\ ~CasGuard(t) /\ RcuGuard(t)
    BY <2>1 DEF TookOld, CasGuard, RcuGuard, InCas
  <2> QED
    BY <1>0, <2>1, <2>2 DEF CallShare, One
<1> QED
  BY <1>1, <1>3, <1>5, <1>6, <1>8, <1>9, <1>10, <1>11, <1>12, <1>13, <1>14, <1>15 DEF CallsHave,
     CallPlaces

\* and after it.
LEMMA CallsNext == AllLocal' => \A t \in Threads, a \in Addrs : CallsHave(t, a)'
<1>1. (AllLocal => \A t \in Threads, a \in Addrs : CallsHave(t, a))'
  BY CallsAt, PTL
<1> QED
  BY <1>1

\* Everything but the instances, the guards and the answers.
Balance(t, a) == strong[a] + Owed(a) - owned[a] - Share(t, a)

\* A step that moves the balance by what users and instances get or give is even.
LEMMA EvenBalance ==
    ASSUME Shapes, Shapes', NEW t \in Threads, NEW a \in Addrs, IsFiniteSet(GuardCopies(a)),
           UNCHANGED <<control, handover>>,
           NEW g \in Int, NEW h \in Int,
           GuardsOn(a) \in Nat, GuardsOn(a)' = GuardsOn(a) + g,
           Cardinality(StoragesOn(a)) \in Nat,
           Cardinality(StoragesOn(a)') = Cardinality(StoragesOn(a)) + h,
           Balance(t, a)' = Balance(t, a) + g + h
    PROVE  Even(t, a)
<1>3. /\ Cardinality(AnswersOn(a)) \in Nat
      /\ Cardinality(AnswersOn(a)') = Cardinality(AnswersOn(a))
  <2>1. \A n \in Nodes : Answers(n, a)' = Answers(n, a)
    BY DEF Answers
  <2> QED
    BY <2>1, AnswersStay
<1>4. Share(t, a) \in Nat /\ Share(t, a)' \in Nat
  BY ShareTypes, ShareTypesNext
<1>5. strong[a] \in Int /\ owned[a] \in Int /\ owned'[a] \in Int /\ strong'[a] \in Int
  BY DEF Shapes
<1>6. Owed(a) \in Nat
  BY OwedNat
<1>7. Owed(a)' \in Nat
  BY OwedNatNext
<1>8. /\ Balance(t, a) = strong[a] + Owed(a) - owned[a] - Share(t, a)
      /\ Balance(t, a)' = strong'[a] + Owed(a)' - owned'[a] - Share(t, a)'
  BY DEF Balance
<1> DEFINE s0 == strong[a]  s1 == strong'[a]  d0 == Owed(a)  d1 == Owed(a)'  u0 == owned[a]  u1 == owned'[a]
           x0 == Share(t, a)  x1 == Share(t, a)'  g0 == GuardsOn(a)  g1 == GuardsOn(a)'
           h0 == Cardinality(StoragesOn(a))  h1 == Cardinality(StoragesOn(a)')
           n0 == Cardinality(AnswersOn(a))  n1 == Cardinality(AnswersOn(a)')
<1>9. s1 + d1 - u1 - x1 = s0 + d0 - u0 - x0 + g + h
  BY <1>8
<1>10. g1 = g0 + g /\ h1 = h0 + h /\ n1 = n0 /\ g0 \in Int /\ h0 \in Int /\ n0 \in Int
  BY <1>3
<1>11. /\ s0 \in Int /\ s1 \in Int /\ d0 \in Int /\ d1 \in Int /\ u0 \in Int /\ u1 \in Int
       /\ x0 \in Int /\ x1 \in Int
  BY <1>4, <1>5, <1>6, <1>7
<1> HIDE DEF s0, s1, d0, d1, u0, u1, x0, x1, g0, g1, h0, h1, n0, n1
<1>12. (s1 - s0) + (d1 - d0) = (h1 - h0) + (u1 - u0) + (g1 - g0) + (n1 - n0) + (x1 - x0)
  BY <1>9, <1>10, <1>11
<1> QED
  BY <1>12 DEF Even, s0, s1, d0, d1, u0, u1, x0, x1, g0, g1, h0, h1, n0, n1

\* The same, if instances and guards stay as they are.
LEMMA EvenCall ==
    ASSUME Shapes, Shapes', NEW t \in Threads, NEW a \in Addrs, IsFiniteSet(GuardCopies(a)),
           UNCHANGED <<control, handover, storage, guards>>,
           Balance(t, a)' = Balance(t, a)
    PROVE  Even(t, a)
<1>1. /\ GuardsOn(a) \in Nat /\ GuardsOn(a)' = GuardsOn(a)
  BY GuardsStay
<1>2. /\ Cardinality(StoragesOn(a)) \in Nat
      /\ Cardinality(StoragesOn(a)') = Cardinality(StoragesOn(a))
  BY StorageStays
<1>3. Balance(t, a) \in Int
  BY ShareTypes, OwedNat DEF Balance, Shapes
<1>4. /\ GuardsOn(a)' = GuardsOn(a) + 0 /\ Cardinality(StoragesOn(a)') = Cardinality(StoragesOn(a)) + 0
      /\ Balance(t, a)' = Balance(t, a) + 0 + 0
  BY <1>1, <1>2, <1>3
<1> QED
  BY <1>1, <1>2, <1>4, EvenBalance, 0 \in Int

-----------------------------------------------------------------------------
(* The pieces that calls end with.                                           *)

\* The books of thread t before and after a step.
Open(t, a) ==
    /\ CallsHave(t, a) /\ Loads(t, a)
    /\ CallShare(t, a) \in Nat /\ PayShare(t, a) \in Nat /\ LoadShare(t, a) \in Nat
    /\ Owed(a) \in Nat
    /\ Balance(t, a) = strong[a] + Owed(a) - owned[a] - (CallShare(t, a) + PayShare(t, a) + LoadShare(t, a))

\* The books hold what they should, before a step,
LEMMA OpenBooks == AllLocal => \A t \in Threads, a \in Addrs : Open(t, a)
<1> SUFFICES ASSUME AllLocal, NEW t \in Threads, NEW a \in Addrs PROVE Open(t, a)
  OBVIOUS
<1>1. CallsHave(t, a) /\ Loads(t, a)
  BY CallsAt, LoadsAt
<1>2. /\ CallShare(t, a) \in Nat /\ PayShare(t, a) \in Nat /\ LoadShare(t, a) \in Nat
      /\ Share(t, a) = CallShare(t, a) + PayShare(t, a) + LoadShare(t, a)
  BY ShareTypes
<1>3. Owed(a) \in Nat
  BY OwedNat
<1> QED
  BY <1>1, <1>2, <1>3 DEF Open, Balance

\* and after it.
LEMMA OpenBooksNext == AllLocal' => \A t \in Threads, a \in Addrs : Open(t, a)'
<1>1. (AllLocal => \A t \in Threads, a \in Addrs : Open(t, a))'
  BY OpenBooks, PTL
<1> QED
  BY <1>1

\* A debt that is paid.
LEMMA DebtPaid ==
    ASSUME Shapes, NEW a \in Addrs
    PROVE  \A n \in Nodes, k \in SlotIds, p \in Ptrs :
              slots[n][k] = p /\ SetSlot(n, k, NONE) => Owed(a)' = Owed(a) - One(p = a)
<1> SUFFICES ASSUME NEW n \in Nodes, NEW k \in SlotIds, NEW p \in Ptrs, slots[n][k] = p, SetSlot(n, k, NONE)
             PROVE  Owed(a)' = Owed(a) - One(p = a)
  OBVIOUS
<1>1. Owed(a) \in Nat /\ Owed(a)' = Owed(a) - One(slots[n][k] = a) + One(NONE = a)
  BY SlotChanges
<1>2. One(NONE = a) = 0 /\ One(slots[n][k] = a) = One(p = a) /\ One(p = a) \in Nat
  BY Consts DEF One
<1> QED
  BY <1>1, <1>2

\* A call that is over has nothing.
LEMMA FinishShare ==
    ASSUME Shapes, NEW t \in Threads, NEW a \in Addrs, Finish(t), lpc'[t] \notin {"reserve", "visit"}, Open(t, a)'
    PROVE  CallShare(t, a)' = 0 /\ PayShare(t, a)' = 0 /\ LoadShare(t, a)' = 0
<1>1. pc'[t] = "idle" /\ op'[t] = NoOp
  BY DEF Finish, Goto, Shapes
<1>2. ~Waiting(t)'
  BY <1>1 DEF Waiting
<1>3. NewShare(t, a)' = 0 /\ RcuShare(t, a)' = 0
  BY <1>1, Consts DEF NewShare, RcuShare, NoOp, Operation, One
<1> QED
  BY <1>1, <1>2, <1>3 DEF Open, CallsHave, Loads, CallPlaces

\* A guard that is about to be dropped.
LEMMA DropShare ==
    ASSUME Shapes, NEW t \in Threads, NEW a \in Addrs, NEW p \in Ptrs, NEW d,
           BeginGuardDrop(t, Guard(p, d)), lpc'[t] \notin {"reserve", "visit"}, Open(t, a)'
    PROVE  /\ CallShare(t, a)' = NewShare(t, a)' + RcuShare(t, a)' /\ PayShare(t, a)' = 0
           /\ LoadShare(t, a)' = One(p = a)
<1>1. pc'[t] \in {"gd_pay", "gd_dec"} /\ ld'[t].ptr = p
  BY DEF BeginGuardDrop, Goto, Shapes, Guard, Protection
<1>2. ~Waiting(t)'
  BY <1>1 DEF Waiting
<1> QED
  BY <1>1, <1>2 DEF Open, CallsHave, Loads, CallPlaces

\* What becomes of a full reference.
LEMMA FullShare ==
    ASSUME Shapes, NEW t \in Threads, Local(t), NEW a \in Addrs, NEW p \in Ptrs, FullReference(t, p),
           pc[t] \in {"ret", "in_pay", "in_dec", "cas_dec"}, lpc'[t] = lpc[t], Open(t, a)'
    PROVE  \/ /\ InHelp(t) /\ owned'[a] = owned[a]
              /\ CallShare(t, a)' = CallShare(t, a) /\ PayShare(t, a)' = PayShare(t, a) + One(p = a)
              /\ LoadShare(t, a)' = 0
           \/ /\ ~InHelp(t) /\ op[t].kind # "rcu" /\ owned'[a] = owned[a] + One(p = a)
              /\ CallShare(t, a)' = 0 /\ PayShare(t, a)' = 0 /\ LoadShare(t, a)' = 0
           \/ /\ ~InHelp(t) /\ op[t].kind = "rcu" /\ owned'[a] = owned[a]
              /\ CallShare(t, a)' = One(p = a) /\ PayShare(t, a)' = 0
              /\ LoadShare(t, a)' = One(op[t].cur = a)
<1>0. lpc[t] # "reserve" /\ (pc[t] = "cas_dec" => ~InHelp(t))
  BY DEF Local, Places, InHelp, VisitLabels, LoadSteps, LoadLabels, IntoInnerLabels
<1>1. CASE InHelp(t)
  <2>1. /\ op'[t] = op[t] /\ owned' = owned /\ wr'[t].old = wr[t].old /\ wr'[t].repl = p
        /\ pc'[t] = "hp_theirs"
    BY <1>1 DEF FullReference, Goto, Shapes, WriteType
  <2>2. Waiting(t) /\ Waiting(t)' /\ Prepaid(t) /\ Prepaid(t)'
    BY <1>0, <1>1, <2>1 DEF Waiting, InHelp, Prepaid
  <2>3. wr[t].repl = NULL /\ NULL # a
    BY Consts DEF Local, Pointers
  <2>4. CallShare(t, a)' = CallShare(t, a)
    BY <1>0, <1>1, <2>1, <2>2, CallStays DEF CallPlaces
  <2>5. PayShare(t, a)' = PayShare(t, a) + One(p = a)
    BY <2>1, <2>2, <2>3 DEF PayShare, One
  <2>6. LoadShare(t, a)' = 0
    BY <2>1 DEF Open, Loads
  <2> QED
    BY <1>1, <2>1, <2>4, <2>5, <2>6
<1>2. CASE ~InHelp(t) /\ op[t].kind # "rcu"
  <2>1. owned' = Inc(owned, p) /\ Finish(t)
    BY <1>2 DEF FullReference
  <2>2. owned \in [Addrs -> Nat]
    BY DEF Shapes
  <2>3. owned'[a] = owned[a] + One(p = a)
    BY <2>1, <2>2, CountChanges
  <2>4. lpc'[t] \notin {"reserve", "visit"}
    BY <1>0, <1>2 DEF InHelp
  <2> QED
    BY <1>2, <2>1, <2>3, <2>4, FinishShare
<1>3. CASE ~InHelp(t) /\ op[t].kind = "rcu"
  <2>1. /\ op'[t] = Operation("rcu_done", op[t].s, p, NULL)
        /\ BeginGuardDrop(t, Guard(op[t].cur, op[t].debt)) /\ owned' = owned
    BY <1>3 DEF FullReference, Shapes
  <2>2. lpc'[t] \notin {"reserve", "visit"} /\ op[t].cur \in Ptrs
    BY <1>0, <1>3, Fields DEF InHelp
  <2>3. /\ CallShare(t, a)' = NewShare(t, a)' + RcuShare(t, a)' /\ PayShare(t, a)' = 0
        /\ LoadShare(t, a)' = One(op[t].cur = a)
    BY <2>1, <2>2, DropShare
  <2>4. NewShare(t, a)' = One(p = a) /\ RcuShare(t, a)' = 0 /\ One(p = a) \in Nat
    BY <2>1 DEF NewShare, RcuShare, Operation, One
  <2> QED
    BY <1>3, <2>1, <2>3, <2>4
<1> QED
  BY <1>1, <1>2, <1>3

\* What into_inner does with its second reference.
LEMMA InnerShare ==
    ASSUME Shapes, NEW t \in Threads, Local(t), NEW a \in Addrs, IntoInnerDone(t),
           pc[t] \in {"in_pay", "in_dec"}, lpc'[t] = lpc[t], Open(t, a), Open(t, a)'
    PROVE  owned'[a] + (CallShare(t, a)' + PayShare(t, a)' + LoadShare(t, a)') =
              owned[a] + (CallShare(t, a) + PayShare(t, a) + LoadShare(t, a)) - One(ld[t].ptr = a)
<1> DEFINE p == One(ld[t].ptr = a)
<1> SUFFICES owned'[a] + (CallShare(t, a)' + PayShare(t, a)' + LoadShare(t, a)') =
                owned[a] + (CallShare(t, a) + PayShare(t, a) + LoadShare(t, a)) - p
  OBVIOUS
<1>0. ld[t].ptr \in Ptrs /\ p \in Nat /\ owned[a] \in Nat /\ LoadShare(t, a) = p + p
  BY Fields DEF One, Shapes, Open, Loads
<1>00. CallShare(t, a) \in Nat /\ PayShare(t, a) \in Nat
  BY DEF Open
<1>1. CASE ld[t].debt[2] = HelpingSlot
  <2>1. /\ pc'[t] = "ret" /\ ld'[t].ptr = ld[t].ptr /\ op'[t] = op[t] /\ wr'[t] = wr[t] /\ owned' = owned
    BY <1>1 DEF IntoInnerDone, LoadReturns, Protection, Goto, Shapes
  <2>2. Waiting(t)' <=> Waiting(t)
    BY <2>1 DEF Waiting
  <2>3. CallShare(t, a)' = CallShare(t, a) /\ PayShare(t, a)' = PayShare(t, a)
    BY <2>1, <2>2, CallStays, PayStays DEF CallPlaces
  <2>4. LoadShare(t, a)' = p
    BY <2>1 DEF Open, Loads
  <2> QED
    BY <1>0, <1>00, <2>1, <2>3, <2>4
<1>2. CASE ld[t].debt[2] # HelpingSlot
  <2>1. FullReference(t, ld[t].ptr) /\ Converts(t)
    BY <1>2 DEF IntoInnerDone, Converts, IntoInnerLabels
  <2>2. CASE InHelp(t)
    <3>1. /\ owned'[a] = owned[a]
          /\ CallShare(t, a)' = CallShare(t, a) /\ PayShare(t, a)' = PayShare(t, a) + p
          /\ LoadShare(t, a)' = 0
      BY <1>0, <2>1, <2>2, FullShare
    <3> HIDE DEF p
    <3> QED
      BY <1>0, <1>00, <3>1
  <2>3. CASE ~InHelp(t)
    <3>1. /\ op[t].kind \in {"load_full", "guard_into_inner", "rcu"} /\ op[t].new = NULL
      BY <2>1, <2>3 DEF Local, Calls, Pointers, LoadSteps, IntoInnerLabels
    <3>2. ~Waiting(t)
      BY <2>3 DEF Local, Places, Waiting, InHelp
    <3>3. /\ PayShare(t, a) = 0 /\ NewShare(t, a) = 0
          /\ CallShare(t, a) = NewShare(t, a) + RcuShare(t, a)
      BY <3>1, <3>2, Consts DEF Open, CallsHave, CallPlaces, NewShare, One
    <3>4. CASE op[t].kind = "rcu"
      <4>1. RcuShare(t, a) = One(op[t].cur = a) /\ One(op[t].cur = a) \in Nat
        BY <3>4 DEF RcuShare, One
      <4>2. /\ owned'[a] = owned[a]
            /\ CallShare(t, a)' = p /\ PayShare(t, a)' = 0
            /\ LoadShare(t, a)' = One(op[t].cur = a)
        BY <1>0, <2>1, <2>3, <3>4, FullShare
      <4> HIDE DEF p
      <4> QED
        BY <1>0, <3>3, <4>1, <4>2
    <3>5. CASE op[t].kind # "rcu"
      <4>1. RcuShare(t, a) = 0
        BY <3>1, <3>5 DEF RcuShare, One
      <4>2. /\ owned'[a] = owned[a] + p
            /\ CallShare(t, a)' = 0 /\ PayShare(t, a)' = 0 /\ LoadShare(t, a)' = 0
        BY <1>0, <2>1, <2>3, <3>5, FullShare
      <4> HIDE DEF p
      <4> QED
        BY <1>0, <3>3, <4>1, <4>2
    <3> QED
      BY <3>4, <3>5
  <2> QED
    BY <2>2, <2>3
<1> QED
  BY <1>1, <1>2

-----------------------------------------------------------------------------
(* into_inner, and the end of guards.                                        *)

\* A step of a call, with what is known before and after it.
Settling(t, a) ==
    /\ ListInv /\ HelpInv /\ Shapes' /\ AllLocal'
    /\ UNCHANGED <<listVars, helpVars>> /\ IsFiniteSet(GuardCopies(a))

\* Both balances, and that all of it are numbers.
Accounts(t, a) ==
    /\ Open(t, a) /\ Open(t, a)' /\ lpc'[t] = lpc[t]
    /\ CallShare(t, a) \in Int /\ PayShare(t, a) \in Int /\ LoadShare(t, a) \in Int
    /\ CallShare(t, a)' \in Int /\ PayShare(t, a)' \in Int /\ LoadShare(t, a)' \in Int
    /\ strong[a] \in Int /\ strong'[a] \in Int /\ owned[a] \in Int /\ owned'[a] \in Int
    /\ Owed(a) \in Int /\ Owed(a)' \in Int
    /\ Balance(t, a) \in Int
    /\ Balance(t, a) = strong[a] + Owed(a) - owned[a] - (CallShare(t, a) + PayShare(t, a) + LoadShare(t, a))
    /\ Balance(t, a)' = strong'[a] + Owed(a)' - owned'[a] - (CallShare(t, a)' + PayShare(t, a)' + LoadShare(t, a)')

\* What is known there.
LEMMA Settles ==
    ASSUME NEW t \in Threads, NEW a \in Addrs, Settling(t, a)
    PROVE  /\ Shape /\ Locals /\ Shapes /\ Shapes' /\ Instances /\ Local(t)
           /\ Accounts(t, a)
<1>1. Shape /\ Locals /\ Shapes /\ Shapes' /\ Instances /\ Local(t) /\ AllLocal
  BY DEF Settling, ListInv, HelpInv, AllLocal
<1>2. Open(t, a)
  BY <1>1, OpenBooks
<1>3. Open(t, a)'
  BY OpenBooksNext DEF Settling
<1>4. /\ strong[a] \in Int /\ strong'[a] \in Int /\ owned[a] \in Int /\ owned'[a] \in Int
  BY <1>1 DEF Shapes
<1>5. lpc'[t] = lpc[t]
  BY DEF Settling, listVars
<1>6. /\ CallShare(t, a) \in Int /\ PayShare(t, a) \in Int /\ LoadShare(t, a) \in Int
      /\ Owed(a) \in Int
      /\ Balance(t, a) = strong[a] + Owed(a) - owned[a] - (CallShare(t, a) + PayShare(t, a) + LoadShare(t, a))
  BY <1>2 DEF Open
<1>7. /\ CallShare(t, a)' \in Int /\ PayShare(t, a)' \in Int /\ LoadShare(t, a)' \in Int
      /\ Owed(a)' \in Int
      /\ Balance(t, a)' = strong'[a] + Owed(a)' - owned'[a] - (CallShare(t, a)' + PayShare(t, a)' + LoadShare(t, a)')
  BY <1>3 DEF Open
<1>8. Balance(t, a) \in Int
  BY <1>4, <1>6
<1> QED
  BY <1>1, <1>2, <1>3, <1>4, <1>5, <1>6, <1>7, <1>8 DEF Accounts

\* If instances and guards stay, the balance does.
LEMMA SettleEven ==
    ASSUME NEW t \in Threads, NEW a \in Addrs, Settling(t, a), UNCHANGED <<storage, guards>>,
           Balance(t, a)' = Balance(t, a)
    PROVE  Even(t, a)
BY EvenCall DEF Settling, HelpInv, helpVars

\* Paying a debt, or finding it paid.
LEMMA PayOwed ==
    ASSUME Shapes, NEW t \in Threads, Local(t), NEW a \in Addrs, pc[t] \in IntoInnerLabels \cup {"gd_pay"},
           IsOwed(ld[t].debt, ld[t].ptr), slots' = [slots EXCEPT ![ld[t].debt[1]][ld[t].debt[2]] = NONE]
    PROVE  Owed(a)' = Owed(a) - One(ld[t].ptr = a)
<1>1. /\ ld[t].debt[1] \in Nodes /\ ld[t].debt[2] \in SlotIds /\ ld[t].ptr \in Ptrs
      /\ slots[ld[t].debt[1]][ld[t].debt[2]] = ld[t].ptr
  BY DebtAtHand, Fields DEF IsOwed
<1>2. SetSlot(ld[t].debt[1], ld[t].debt[2], NONE)
  BY DEF SetSlot
<1> QED
  BY <1>1, <1>2, DebtPaid

\* into_inner is even: paid by itself or by a writer, one reference remains.
LEMMA IntoInnerEven ==
    ASSUME NEW t \in Threads, NEW a \in Addrs, Settling(t, a),
           IntoInnerInc(t) \/ IntoInnerPay(t) \/ IntoInnerDec(t)
    PROVE  Even(t, a)
<1> Shape /\ Locals /\ Shapes /\ Shapes' /\ Instances /\ Local(t) /\ Accounts(t, a)
  BY Settles
<1> DEFINE p == One(ld[t].ptr = a)
<1>0. /\ p \in Int /\ strong \in [Addrs -> Int] /\ ld[t].ptr \in Ptrs /\ UNCHANGED <<storage, guards>>
      /\ Open(t, a) /\ Open(t, a)' /\ lpc'[t] = lpc[t]
  BY Fields DEF One, Shapes, IntoInnerInc, IntoInnerPay, IntoInnerDec, Accounts
<1>1. SUFFICES Balance(t, a)' = Balance(t, a)
  BY <1>0, SettleEven
<1>2. CASE IntoInnerInc(t)
  <2>1. /\ pc[t] = "in_inc" /\ pc'[t] = "in_pay" /\ op'[t] = op[t] /\ wr'[t] = wr[t] /\ ld'[t] = ld[t]
        /\ owned' = owned /\ strong' = Inc(strong, ld[t].ptr) /\ UNCHANGED slots
    BY <1>2 DEF IntoInnerInc, Goto, Shapes
  <2>2. strong'[a] = strong[a] + p
    BY <1>0, <2>1, CountChanges
  <2>3. Owed(a)' = Owed(a)
    BY <2>1, SlotsStay
  <2>4. Waiting(t)' <=> Waiting(t)
    BY <1>0, <2>1 DEF Waiting
  <2>5. CallShare(t, a)' = CallShare(t, a) /\ PayShare(t, a)' = PayShare(t, a)
    BY <2>1, <2>4, CallStays, PayStays DEF CallPlaces
  <2>6. LoadShare(t, a) = p /\ LoadShare(t, a)' = p + p
    BY <1>0, <2>1 DEF Open, Loads
  <2> HIDE DEF p
  <2> QED
    BY <1>0, <2>1, <2>2, <2>3, <2>5, <2>6 DEF Accounts
<1>3. CASE IntoInnerPay(t) /\ IsOwed(ld[t].debt, ld[t].ptr)
  <2>1. /\ pc[t] = "in_pay" /\ UNCHANGED strong /\ IntoInnerDone(t)
        /\ slots' = [slots EXCEPT ![ld[t].debt[1]][ld[t].debt[2]] = NONE]
    BY <1>3 DEF IntoInnerPay, Pay
  <2>2. Owed(a)' = Owed(a) - p
    BY <1>3, <2>1, PayOwed DEF IntoInnerLabels
  <2>3. owned'[a] + (CallShare(t, a)' + PayShare(t, a)' + LoadShare(t, a)') =
              owned[a] + (CallShare(t, a) + PayShare(t, a) + LoadShare(t, a)) - p
    BY <1>0, <2>1, InnerShare
  <2> HIDE DEF p
  <2> QED
    BY <1>0, <2>1, <2>2, <2>3 DEF Accounts
<1>4. CASE IntoInnerPay(t) /\ ~IsOwed(ld[t].debt, ld[t].ptr)
  <2>1. /\ pc[t] = "in_pay" /\ pc'[t] = "in_dec" /\ op'[t] = op[t] /\ wr'[t] = wr[t] /\ ld'[t] = ld[t]
        /\ owned' = owned /\ strong' = strong /\ UNCHANGED slots
    BY <1>4 DEF IntoInnerPay, Pay, Goto, Shapes
  <2>3. Owed(a)' = Owed(a)
    BY <2>1, SlotsStay
  <2>4. Waiting(t)' <=> Waiting(t)
    BY <1>0, <2>1 DEF Waiting
  <2>5. CallShare(t, a)' = CallShare(t, a) /\ PayShare(t, a)' = PayShare(t, a)
    BY <2>1, <2>4, CallStays, PayStays DEF CallPlaces
  <2>6. LoadShare(t, a) = p + p /\ LoadShare(t, a)' = p + p
    BY <1>0, <2>1 DEF Open, Loads
  <2> HIDE DEF p
  <2> QED
    BY <1>0, <2>1, <2>3, <2>5, <2>6 DEF Accounts
<1>5. CASE IntoInnerDec(t)
  <2>1. /\ pc[t] = "in_dec" /\ strong' = Dec(strong, ld[t].ptr) /\ IntoInnerDone(t) /\ UNCHANGED slots
    BY <1>5 DEF IntoInnerDec
  <2>2. strong'[a] = strong[a] - p
    BY <1>0, <2>1, CountChanges
  <2>3. owned'[a] + (CallShare(t, a)' + PayShare(t, a)' + LoadShare(t, a)') =
              owned[a] + (CallShare(t, a) + PayShare(t, a) + LoadShare(t, a)) - p
    BY <1>0, <2>1, InnerShare
  <2>4. Owed(a)' = Owed(a)
    BY <2>1, SlotsStay
  <2> HIDE DEF p
  <2> QED
    BY <1>0, <2>2, <2>3, <2>4 DEF Accounts
<1> QED
  BY <1>2, <1>3, <1>4, <1>5

\* The end of a guard.
LEMMA DropDoneShare ==
    ASSUME Shapes, NEW t \in Threads, Local(t), NEW a \in Addrs, GuardDropDone(t),
           pc[t] \in {"gd_pay", "gd_dec"}, lpc[t] = "off", lpc'[t] = lpc[t], Open(t, a), Open(t, a)'
    PROVE  owned'[a] + (CallShare(t, a)' + PayShare(t, a)' + LoadShare(t, a)') =
              owned[a] + (CallShare(t, a) + PayShare(t, a) + LoadShare(t, a)) - One(ld[t].ptr = a)
<1> DEFINE p == One(ld[t].ptr = a)
<1> SUFFICES owned'[a] + (CallShare(t, a)' + PayShare(t, a)' + LoadShare(t, a)') =
                owned[a] + (CallShare(t, a) + PayShare(t, a) + LoadShare(t, a)) - p
  OBVIOUS
<1>0. /\ p \in Int /\ LoadShare(t, a) = p /\ ~Waiting(t)
      /\ CallShare(t, a) = NewShare(t, a) + RcuShare(t, a) /\ PayShare(t, a) = 0
      /\ CallShare(t, a) \in Int /\ owned \in [Addrs -> Nat] /\ owned[a] \in Int /\ op[t].new \in Ptrs
  <2>1. ~Waiting(t)
    BY DEF Waiting
  <2>2. owned \in [Addrs -> Nat] /\ op[t].new \in Ptrs
    BY Fields DEF Shapes
  <2> QED
    BY <2>1, <2>2 DEF One, Open, CallsHave, Loads, CallPlaces
<1>1. CASE InCas(t) /\ BeginLoad(t) /\ UNCHANGED <<op, wr, owned>>
  <2>1. pc'[t] \in {"ld_ptr", "fb_addr"} /\ op'[t] = op[t] /\ wr'[t] = wr[t]
    BY <1>1 DEF BeginLoad, Goto, LoadEntry, Shapes
  <2>2. ~Waiting(t)'
    BY <2>1 DEF Waiting
  <2>3. CallShare(t, a)' = CallShare(t, a) /\ PayShare(t, a)' = PayShare(t, a)
    BY <1>0, <2>1, <2>2, CallStays, PayStays DEF CallPlaces
  <2>4. LoadShare(t, a)' = 0
    BY <2>1 DEF Open, Loads
  <2> HIDE DEF p
  <2> QED
    BY <1>0, <1>1, <2>3, <2>4
<1>2. CASE op[t].kind = "rcu_retry" /\ Goto(t, "rcu_f") /\ UNCHANGED <<op, wr, owned>>
  <2>1. pc'[t] = "rcu_f" /\ op'[t] = op[t] /\ wr'[t] = wr[t]
    BY <1>2 DEF Goto, Shapes
  <2>2. op[t].new = NULL
    BY <1>2 DEF Local, Pointers
  <2>3. CallShare(t, a) = One(op[t].cur = a)
    BY <1>0, <1>2, <2>2, Consts DEF NewShare, RcuShare, One
  <2>4. CallShare(t, a)' = One(op[t].cur = a) /\ PayShare(t, a)' = 0 /\ LoadShare(t, a)' = 0
    BY <2>1 DEF Open, CallsHave, Loads
  <2> HIDE DEF p
  <2> QED
    BY <1>0, <1>2, <2>3, <2>4
<1>3. CASE op[t].kind \in {"guard_drop", "rcu_done"} /\ owned' = Inc(owned, op[t].new) /\ Finish(t)
  <2>1. CallShare(t, a)' = 0 /\ PayShare(t, a)' = 0 /\ LoadShare(t, a)' = 0
    BY <1>3, FinishShare
  <2>2. owned'[a] = owned[a] + One(op[t].new = a)
    BY <1>0, <1>3, CountChanges
  <2>3. CallShare(t, a) = One(op[t].new = a)
    BY <1>0, <1>3 DEF NewShare, RcuShare, One
  <2> HIDE DEF p
  <2> QED
    BY <1>0, <2>1, <2>2, <2>3
<1> QED
  BY <1>1, <1>2, <1>3 DEF GuardDropDone

\* So is the drop of a guard.
LEMMA GuardDropEven ==
    ASSUME NEW t \in Threads, NEW a \in Addrs, Settling(t, a),
           GuardDropPay(t) \/ GuardDropDec(t)
    PROVE  Even(t, a)
<1> Shape /\ Locals /\ Shapes /\ Shapes' /\ Instances /\ Local(t) /\ Accounts(t, a)
  BY Settles
<1> DEFINE p == One(ld[t].ptr = a)
<1>0. /\ p \in Int /\ strong \in [Addrs -> Int] /\ ld[t].ptr \in Ptrs /\ UNCHANGED <<storage, guards>>
      /\ Open(t, a) /\ Open(t, a)' /\ lpc'[t] = lpc[t]
  BY Fields DEF One, Shapes, GuardDropPay, GuardDropDec, Accounts
<1>00. lpc[t] = "off" /\ pc[t] \in {"gd_pay", "gd_dec"}
  BY ListOff DEF Settling, GuardDropPay, GuardDropDec
<1>1. SUFFICES Balance(t, a)' = Balance(t, a)
  BY <1>0, SettleEven
<1>3. CASE GuardDropPay(t) /\ IsOwed(ld[t].debt, ld[t].ptr)
  <2>1. /\ pc[t] = "gd_pay" /\ UNCHANGED strong /\ GuardDropDone(t)
        /\ slots' = [slots EXCEPT ![ld[t].debt[1]][ld[t].debt[2]] = NONE]
    BY <1>3 DEF GuardDropPay, Pay
  <2>2. Owed(a)' = Owed(a) - p
    BY <1>3, <2>1, PayOwed
  <2>3. owned'[a] + (CallShare(t, a)' + PayShare(t, a)' + LoadShare(t, a)') =
              owned[a] + (CallShare(t, a) + PayShare(t, a) + LoadShare(t, a)) - p
    BY <1>0, <1>00, <2>1, DropDoneShare
  <2> HIDE DEF p
  <2> QED
    BY <1>0, <2>1, <2>2, <2>3 DEF Accounts
<1>4. CASE GuardDropPay(t) /\ ~IsOwed(ld[t].debt, ld[t].ptr)
  <2>1. /\ pc[t] = "gd_pay" /\ pc'[t] = "gd_dec" /\ op'[t] = op[t] /\ wr'[t] = wr[t] /\ ld'[t] = ld[t]
        /\ owned' = owned /\ strong' = strong /\ UNCHANGED slots
    BY <1>4 DEF GuardDropPay, Pay, Goto, Shapes
  <2>3. Owed(a)' = Owed(a)
    BY <2>1, SlotsStay
  <2>4. Waiting(t)' <=> Waiting(t)
    BY <1>0, <2>1 DEF Waiting
  <2>5. CallShare(t, a)' = CallShare(t, a) /\ PayShare(t, a)' = PayShare(t, a)
    BY <2>1, <2>4, CallStays, PayStays DEF CallPlaces
  <2>6. LoadShare(t, a) = p /\ LoadShare(t, a)' = p
    BY <1>0, <2>1 DEF Open, Loads
  <2> HIDE DEF p
  <2> QED
    BY <1>0, <2>1, <2>3, <2>5, <2>6 DEF Accounts
<1>5. CASE GuardDropDec(t)
  <2>1. /\ pc[t] = "gd_dec" /\ strong' = Dec(strong, ld[t].ptr) /\ GuardDropDone(t) /\ UNCHANGED slots
    BY <1>5 DEF GuardDropDec
  <2>2. strong'[a] = strong[a] - p
    BY <1>0, <2>1, CountChanges
  <2>3. owned'[a] + (CallShare(t, a)' + PayShare(t, a)' + LoadShare(t, a)') =
              owned[a] + (CallShare(t, a) + PayShare(t, a) + LoadShare(t, a)) - p
    BY <1>0, <1>00, <2>1, DropDoneShare
  <2>4. Owed(a)' = Owed(a)
    BY <2>1, SlotsStay
  <2> HIDE DEF p
  <2> QED
    BY <1>0, <2>2, <2>3, <2>4 DEF Accounts
<1> QED
  BY <1>3, <1>4, <1>5

-----------------------------------------------------------------------------
(* Results of loads.                                                         *)

\* A step that gives the user a guard.
LEMMA SettleGuard ==
    ASSUME NEW t \in Threads, NEW a \in Addrs, Settling(t, a), UNCHANGED storage
    PROVE  \A g \in GuardType : guards' = BagAdd(guards, g) /\ Balance(t, a)' = Balance(t, a) + One(g.ptr = a) =>
              Even(t, a)
<1> SUFFICES ASSUME NEW g \in GuardType, guards' = BagAdd(guards, g),
                    Balance(t, a)' = Balance(t, a) + One(g.ptr = a)
             PROVE  Even(t, a)
  OBVIOUS
<1>0. Shapes /\ Shapes' /\ IsFiniteSet(GuardCopies(a)) /\ UNCHANGED <<control, handover>> /\ Balance(t, a) \in Int
  BY Settles DEF Settling, helpVars, Accounts
<1>1. GuardsOn(a) \in Nat /\ GuardsOn(a)' = GuardsOn(a) + One(g.ptr = a)
  BY <1>0, GuardMore
<1>2. /\ Cardinality(StoragesOn(a)) \in Nat
      /\ Cardinality(StoragesOn(a)') = Cardinality(StoragesOn(a)) + 0
  BY StorageStays
<1>3. One(g.ptr = a) \in Int /\ 0 \in Int
  BY DEF One
<1>4. Balance(t, a)' = Balance(t, a) + One(g.ptr = a) + 0
  BY <1>0, <1>3
<1> QED
  BY <1>0, <1>1, <1>2, <1>3, <1>4, EvenBalance

\* A step that changes an instance.
LEMMA SettleStorage ==
    ASSUME NEW t \in Threads, NEW a \in Addrs, Settling(t, a), UNCHANGED guards
    PROVE  \A s \in Storages, q \in Ptrs \cup {Dead} :
              SetStorage(s, q) /\ Balance(t, a)' = Balance(t, a) - One(storage[s] = a) + One(q = a) => Even(t, a)
<1> SUFFICES ASSUME NEW s \in Storages, NEW q \in Ptrs \cup {Dead}, SetStorage(s, q),
                    Balance(t, a)' = Balance(t, a) - One(storage[s] = a) + One(q = a)
             PROVE  Even(t, a)
  OBVIOUS
<1>0. Shapes /\ Shapes' /\ IsFiniteSet(GuardCopies(a)) /\ UNCHANGED <<control, handover>> /\ Balance(t, a) \in Int
  BY Settles DEF Settling, helpVars, Accounts
<1>1. GuardsOn(a) \in Nat /\ GuardsOn(a)' = GuardsOn(a) + 0
  BY <1>0, GuardsStay
<1>2. /\ Cardinality(StoragesOn(a)) \in Nat
      /\ Cardinality(StoragesOn(a)') = Cardinality(StoragesOn(a)) - One(storage[s] = a) + One(q = a)
  BY <1>0, StorageChanges
<1>3. One(storage[s] = a) \in Int /\ One(q = a) \in Int /\ 0 \in Int
  BY DEF One
<1>4. PICK h \in Int : h = One(q = a) - One(storage[s] = a)
  BY <1>3
<1>5. Cardinality(StoragesOn(a)') = Cardinality(StoragesOn(a)) + h /\ Balance(t, a)' = Balance(t, a) + 0 + h
  BY <1>0, <1>2, <1>3, <1>4
<1> QED
  BY <1>0, <1>1, <1>2, <1>3, <1>5, EvenBalance

\* A load's result is handed on with its debt or its reference.
LEMMA ReturnEven ==
    ASSUME NEW t \in Threads, NEW a \in Addrs, Settling(t, a),
           ReturnGuard(t) \/ ReturnFull(t) \/ ReturnCas(t) \/ ReturnRcu(t)
    PROVE  Even(t, a)
<1> Shape /\ Locals /\ Shapes /\ Shapes' /\ Instances /\ Local(t) /\ Accounts(t, a)
  BY Settles
<1> DEFINE p == One(ld[t].ptr = a)
<1>0. /\ p \in Int /\ ld[t].ptr \in Ptrs /\ UNCHANGED <<storage, strong, slots>>
      /\ Open(t, a) /\ Open(t, a)' /\ lpc'[t] = lpc[t] /\ pc[t] = "ret"
  BY Fields DEF One, ReturnGuard, ReturnFull, ReturnCas, ReturnRcu, Accounts
<1>1. Owed(a)' = Owed(a) /\ LoadShare(t, a) = p
  BY <1>0, SlotsStay DEF Open, Loads
<1>2. lpc[t] # "reserve"
  BY <1>0 DEF Local, Places
<1>3. ~InHelp(t) => /\ ~Waiting(t) /\ CallShare(t, a) = NewShare(t, a) + RcuShare(t, a) /\ PayShare(t, a) = 0
                    /\ lpc'[t] \notin {"reserve", "visit"}
  BY <1>0, <1>2 DEF InHelp, Waiting, Open, CallsHave, CallPlaces
<1>4. CASE ReturnGuard(t)
  <2>1. Finish(t) /\ ~InHelp(t) /\ op[t].kind = "load" /\ UNCHANGED owned
    BY <1>4 DEF ReturnGuard
  <2>2. CallShare(t, a)' = 0 /\ PayShare(t, a)' = 0 /\ LoadShare(t, a)' = 0
    BY <1>0, <1>3, <2>1, FinishShare
  <2>3. op[t].new = NULL
    BY <2>1 DEF Local, Pointers
  <2>4. CallShare(t, a) = 0 /\ PayShare(t, a) = 0
    BY <1>3, <2>1, <2>3, Consts DEF NewShare, RcuShare, One
  <2>5. Guard(ld[t].ptr, ld[t].debt) \in GuardType /\ Guard(ld[t].ptr, ld[t].debt).ptr = ld[t].ptr
    BY <1>0 DEF Local, Registers, GuardType, Guard
  <2>6. guards' = BagAdd(guards, Guard(ld[t].ptr, ld[t].debt))
    BY <1>4 DEF ReturnGuard, GiveGuard
  <2> HIDE DEF p
  <2>7. Balance(t, a)' = Balance(t, a) + p
    BY <1>0, <1>1, <2>1, <2>2, <2>4 DEF Accounts
  <2>8. Balance(t, a)' = Balance(t, a) + One(Guard(ld[t].ptr, ld[t].debt).ptr = a)
    BY <2>5, <2>7 DEF p
  <2> QED
    BY <1>0, <2>5, <2>6, <2>8, SettleGuard
<1>5. CASE ReturnFull(t)
  <2>0. UNCHANGED guards
    BY <1>5 DEF ReturnFull
  <2>1. CASE ld[t].debt # NoDebt
    <3>1. pc'[t] = "in_inc" /\ op'[t] = op[t] /\ wr'[t] = wr[t] /\ ld'[t] = ld[t] /\ UNCHANGED owned
      BY <1>5, <2>1 DEF ReturnFull, Goto, Shapes
    <3>2. Waiting(t)' <=> Waiting(t)
      BY <1>0, <3>1 DEF Waiting
    <3>3. CallShare(t, a)' = CallShare(t, a) /\ PayShare(t, a)' = PayShare(t, a)
      BY <1>0, <3>1, <3>2, CallStays, PayStays DEF CallPlaces
    <3>4. LoadShare(t, a)' = p
      BY <1>0, <3>1 DEF Open, Loads
    <3> HIDE DEF p
    <3>5. Balance(t, a)' = Balance(t, a)
      BY <1>0, <1>1, <3>1, <3>3, <3>4 DEF Accounts
    <3> QED
      BY <1>0, <2>0, <3>5, SettleEven
  <2>2. CASE ld[t].debt = NoDebt
    <3>1. FullReference(t, ld[t].ptr) /\ (op[t].kind = "load_full" \/ InHelp(t))
      BY <1>5, <2>2 DEF ReturnFull
    <3>2. CASE InHelp(t)
      <4>1. /\ owned'[a] = owned[a]
            /\ CallShare(t, a)' = CallShare(t, a) /\ PayShare(t, a)' = PayShare(t, a) + p
            /\ LoadShare(t, a)' = 0
        BY <1>0, <3>1, <3>2, FullShare
      <4> HIDE DEF p
      <4>2. Balance(t, a)' = Balance(t, a)
        BY <1>0, <1>1, <4>1 DEF Accounts
      <4> QED
        BY <1>0, <2>0, <4>2, SettleEven
    <3>3. CASE ~InHelp(t)
      <4>1. /\ owned'[a] = owned[a] + p
            /\ CallShare(t, a)' = 0 /\ PayShare(t, a)' = 0 /\ LoadShare(t, a)' = 0
        BY <1>0, <3>1, <3>3, FullShare
      <4>2. op[t].new = NULL /\ op[t].kind = "load_full"
        BY <3>1, <3>3 DEF Local, Pointers
      <4>3. CallShare(t, a) = 0 /\ PayShare(t, a) = 0
        BY <1>3, <3>3, <4>2, Consts DEF NewShare, RcuShare, One
      <4> HIDE DEF p
      <4>4. Balance(t, a)' = Balance(t, a)
        BY <1>0, <1>1, <4>1, <4>3 DEF Accounts
      <4> QED
        BY <1>0, <2>0, <4>4, SettleEven
    <3> QED
      BY <3>2, <3>3
  <2> QED
    BY <2>1, <2>2
<1>6. CASE ReturnCas(t)
  <2>1. /\ pc'[t] \in {"cas_x", "cas_drop_new"} /\ op'[t] = op[t] /\ wr'[t].old = ld[t].ptr /\ ~InHelp(t)
        /\ UNCHANGED <<owned, guards>>
    BY <1>6 DEF ReturnCas, Goto, Shapes, WriteType
  <2>2. OldShare(t, a)' = p /\ NewShare(t, a)' = NewShare(t, a) /\ RcuShare(t, a)' = RcuShare(t, a)
    BY <2>1 DEF OldShare, NewShare, RcuShare
  <2>3. /\ CallShare(t, a)' = NewShare(t, a)' + OldShare(t, a)' + RcuShare(t, a)' /\ PayShare(t, a)' = 0
        /\ LoadShare(t, a)' = 0 /\ NewShare(t, a) \in Int /\ RcuShare(t, a) \in Int
    BY <1>0, <2>1 DEF Open, CallsHave, Loads
  <2> HIDE DEF p
  <2>4. Balance(t, a)' = Balance(t, a)
    BY <1>0, <1>1, <1>3, <2>1, <2>2, <2>3 DEF Accounts
  <2> QED
    BY <1>0, <2>1, <2>4, SettleEven
<1>7. CASE ReturnRcu(t)
  <2>1. /\ pc'[t] = "rcu_f" /\ op'[t].cur = ld[t].ptr /\ op[t].kind = "rcu_load"
        /\ UNCHANGED <<owned, guards>>
    BY <1>7 DEF ReturnRcu, Goto, Shapes, OpType
  <2>2. ~InHelp(t) /\ op[t].new = NULL
    BY <2>1 DEF Local, Calls, WriteKinds, Pointers, InHelp, Waiting
  <2>3. CallShare(t, a) = 0 /\ PayShare(t, a) = 0
    BY <1>3, <2>1, <2>2, Consts DEF NewShare, RcuShare, One
  <2>4. CallShare(t, a)' = One(op'[t].cur = a) /\ PayShare(t, a)' = 0 /\ LoadShare(t, a)' = 0
    BY <1>0, <2>1 DEF Open, CallsHave, Loads
  <2>5. CallShare(t, a)' = p
    BY <2>1, <2>4
  <2> HIDE DEF p
  <2>6. Balance(t, a)' = Balance(t, a)
    BY <1>0, <1>1, <2>1, <2>3, <2>4, <2>5 DEF Accounts
  <2> QED
    BY <1>0, <2>1, <2>6, SettleEven
<1> QED
  BY <1>4, <1>5, <1>6, <1>7

\* A reference for an argument is one more in the count.
LEMMA ArgumentCounts ==
    ASSUME Shapes, NEW a \in Addrs
    PROVE  \A p \in Ptrs : Argument(p) => strong'[a] = strong[a] + One(p = a)
<1> SUFFICES ASSUME NEW p \in Ptrs, Argument(p) PROVE strong'[a] = strong[a] + One(p = a)
  OBVIOUS
<1>1. strong \in [Addrs -> Int]
  BY DEF Shapes
<1>2. CASE strong' = Inc(strong, p)
  BY <1>1, <1>2, CountChanges
<1>3. CASE p \in Nulls /\ UNCHANGED strong
  <2>1. p # a
    BY <1>3, Consts, ApiAssumption
  <2> QED
    BY <1>1, <1>3, <2>1 DEF One
<1> QED
  BY <1>2, <1>3 DEF Argument

\* The closure of rcu brings its own reference.
LEMMA RcuApplyEven ==
    ASSUME NEW t \in Threads, NEW a \in Addrs, Settling(t, a), RcuApply(t)
    PROVE  Even(t, a)
<1> Shape /\ Locals /\ Shapes /\ Shapes' /\ Instances /\ Local(t) /\ Accounts(t, a)
  BY Settles
<1>1. PICK new \in Ptrs : /\ pc[t] = "rcu_f" /\ Argument(new) /\ BeginLoad(t)
                          /\ op' = [op EXCEPT ![t].kind = "rcu", ![t].new = new]
  BY DEF RcuApply
<1>2. /\ pc'[t] \in {"ld_ptr", "fb_addr"} /\ op'[t].kind = "rcu" /\ op'[t].new = new /\ op'[t].cur = op[t].cur
      /\ UNCHANGED <<owned, guards, storage, slots>>
  BY <1>1 DEF RcuApply, BeginLoad, Goto, LoadEntry, Shapes, OpType
<1>3. Open(t, a) /\ Open(t, a)' /\ lpc'[t] = lpc[t] /\ lpc[t] = "off"
  BY <1>1, ListOff DEF Settling, Accounts
<1>4. ~Waiting(t)'
  BY <1>2, <1>3 DEF Waiting
<1> DEFINE r == One(op[t].cur = a)
           n == One(new = a)
<1>5. r \in Int /\ n \in Int
  BY DEF One
<1>6. CallShare(t, a) = r /\ PayShare(t, a) = 0 /\ LoadShare(t, a) = 0
  BY <1>1, <1>3 DEF Open, CallsHave, Loads
<1>7. NewShare(t, a)' = n /\ RcuShare(t, a)' = r
  BY <1>2 DEF NewShare, RcuShare, One
<1>8. CallShare(t, a)' = n + r /\ PayShare(t, a)' = 0 /\ LoadShare(t, a)' = 0
  BY <1>2, <1>3, <1>4, <1>7 DEF Open, CallsHave, Loads, CallPlaces
<1>9. strong'[a] = strong[a] + n
  BY <1>1, ArgumentCounts
<1>10. Owed(a)' = Owed(a)
  BY <1>2, SlotsStay
<1> HIDE DEF r, n
<1>11. Balance(t, a)' = Balance(t, a)
  BY <1>2, <1>5, <1>6, <1>8, <1>9, <1>10 DEF Accounts
<1> QED
  BY <1>2, <1>11, SettleEven

-----------------------------------------------------------------------------
(* The end of writes.                                                        *)

\* What the end of a call finds.
LEMMA EndBooks ==
    ASSUME NEW t \in Threads, NEW a \in Addrs, Settling(t, a),
           pc[t] \in {"cas_x", "cas_dec", "cas_drop_new", "pa_dec", "old_dec"}
    PROVE  /\ Open(t, a) /\ Open(t, a)' /\ lpc[t] = "off" /\ lpc'[t] = "off"
           /\ NewShare(t, a) \in Int /\ OldShare(t, a) \in Int /\ RcuShare(t, a) \in Int
           /\ strong \in [Addrs -> Int] /\ owned \in [Addrs -> Nat] /\ wr[t].old \in Ptrs /\ op[t].new \in Ptrs
           /\ op[t].cur \in Ptrs /\ wr[t].debt \in GuardDebts
           /\ LoadShare(t, a) = 0
           /\ op[t].kind = "cas" => RcuShare(t, a) = 0
           /\ op[t].kind = "rcu" => RcuShare(t, a) = One(op[t].cur = a)
           /\ Guard(wr[t].old, wr[t].debt) \in GuardType /\ Guard(wr[t].old, wr[t].debt).ptr = wr[t].old
<1>0. /\ Shape /\ Locals /\ Shapes /\ Shapes' /\ Instances /\ Local(t) /\ Accounts(t, a)
  BY Settles
<1>1. Open(t, a) /\ Open(t, a)' /\ lpc'[t] = lpc[t] /\ lpc[t] = "off"
  BY <1>0, ListOff DEF Settling, Accounts
<1>2. /\ strong \in [Addrs -> Int] /\ owned \in [Addrs -> Nat]
  BY <1>0 DEF Shapes
<1>3. wr[t].old \in Ptrs /\ op[t].new \in Ptrs /\ op[t].cur \in Ptrs /\ wr[t].debt \in GuardDebts
  BY <1>0, Fields
<1>4. NewShare(t, a) \in Int /\ OldShare(t, a) \in Int /\ RcuShare(t, a) \in Int /\ LoadShare(t, a) = 0
  BY <1>1 DEF Open, CallsHave, Loads
<1>5. /\ op[t].kind = "cas" => RcuShare(t, a) = 0
      /\ op[t].kind = "rcu" => RcuShare(t, a) = One(op[t].cur = a)
  BY DEF RcuShare, One
<1>6. Guard(wr[t].old, wr[t].debt) \in GuardType /\ Guard(wr[t].old, wr[t].debt).ptr = wr[t].old
  BY <1>3 DEF GuardType, Guard
<1> QED
  BY <1>1, <1>2, <1>3, <1>4, <1>5, <1>6

\* The exchange swaps the references of `new` and `current`.
LEMMA CasExchangeEven ==
    ASSUME NEW t \in Threads, NEW a \in Addrs, Settling(t, a), CasExchange(t)
    PROVE  Even(t, a)
<1> Shape /\ Locals /\ Shapes /\ Shapes' /\ Instances /\ Local(t) /\ Accounts(t, a)
  BY Settles
<1>0. pc[t] = "cas_x" /\ UNCHANGED <<slots, strong, guards, owned>> /\ op[t].kind \in {"cas", "rcu"}
      /\ wr[t].old = op[t].cur
  BY DEF CasExchange, Local, Calls, Pointers, InCas
<1>1. /\ Open(t, a) /\ Open(t, a)' /\ lpc[t] = "off" /\ lpc'[t] = "off"
      /\ NewShare(t, a) \in Int /\ OldShare(t, a) \in Int /\ RcuShare(t, a) \in Int
      /\ wr[t].old \in Ptrs /\ op[t].new \in Ptrs /\ LoadShare(t, a) = 0
  BY <1>0, EndBooks
<1>2. CallShare(t, a) = NewShare(t, a) + OldShare(t, a) + RcuShare(t, a) /\ PayShare(t, a) = 0
  BY <1>0, <1>1 DEF Open, CallsHave
<1>3. Owed(a)' = Owed(a)
  BY <1>0, SlotsStay
<1>4. CASE /\ storage[op[t].s] = op[t].cur /\ storage' = [storage EXCEPT ![op[t].s] = op[t].new]
           /\ op' = [op EXCEPT ![t].new = NULL] /\ Goto(t, "pa_inc") /\ UNCHANGED <<ld, wr>>
  <2>1. /\ pc'[t] = "pa_inc" /\ op'[t].kind = op[t].kind /\ op'[t].cur = op[t].cur /\ wr'[t].old = wr[t].old
    BY <1>4 DEF Goto, Shapes, OpType
  <2>2. Waiting(t)' /\ InCas(t)'
    BY <1>0, <2>1 DEF Waiting, InCas
  <2>3. OldShare(t, a)' = OldShare(t, a) /\ RcuShare(t, a)' = RcuShare(t, a)
    BY <2>1 DEF OldShare, RcuShare
  <2>4. /\ CallShare(t, a)' = OldShare(t, a)' + OldShare(t, a)' + RcuShare(t, a)'
        /\ PayShare(t, a)' = 0 /\ LoadShare(t, a)' = 0
    BY <1>1, <2>1, <2>2 DEF Open, CallsHave, Loads
  <2>5. Balance(t, a)' = Balance(t, a) - OldShare(t, a) + NewShare(t, a)
    BY <1>0, <1>1, <1>2, <1>3, <2>3, <2>4 DEF Accounts
  <2>6. op[t].s \in Storages /\ SetStorage(op[t].s, op[t].new)
    BY <1>0, <1>4, AtHand DEF SetStorage
  <2>7. OldShare(t, a) = One(storage[op[t].s] = a) /\ NewShare(t, a) = One(op[t].new = a)
    BY <1>0, <1>4 DEF OldShare, NewShare
  <2>8. Balance(t, a)' = Balance(t, a) - One(storage[op[t].s] = a) + One(op[t].new = a)
    BY <2>5, <2>7
  <2> QED
    BY <1>0, <1>1, <2>6, <2>8, SettleStorage
<1>5. CASE BeginGuardDrop(t, Guard(wr[t].old, wr[t].debt)) /\ UNCHANGED <<op, storage>>
  <2>1. /\ CallShare(t, a)' = NewShare(t, a)' + RcuShare(t, a)' /\ PayShare(t, a)' = 0
        /\ LoadShare(t, a)' = One(wr[t].old = a)
    BY <1>1, <1>5, DropShare
  <2>2. /\ NewShare(t, a)' = NewShare(t, a) /\ RcuShare(t, a)' = RcuShare(t, a)
        /\ One(wr[t].old = a) = OldShare(t, a)
    BY <1>5 DEF OldShare, RcuShare, NewShare
  <2>3. Balance(t, a)' = Balance(t, a)
    BY <1>0, <1>1, <1>2, <1>3, <2>1, <2>2 DEF Accounts
  <2> QED
    BY <1>0, <1>5, <2>3, SettleEven
<1> QED
  BY <1>4, <1>5 DEF CasExchange

\* The end of compare_and_swap: the reference in excess is released, the guard kept.
LEMMA CasEndEven ==
    ASSUME NEW t \in Threads, NEW a \in Addrs, Settling(t, a), CasDec(t) \/ CasDropNew(t)
    PROVE  Even(t, a)
<1> Shape /\ Locals /\ Shapes /\ Shapes' /\ Instances /\ Local(t) /\ Accounts(t, a)
  BY Settles
<1>0. pc[t] \in {"cas_dec", "cas_drop_new"} /\ UNCHANGED <<slots, storage>> /\ (CasReturns(t) \/ RcuPrev(t))
  BY DEF CasDec, CasDropNew
<1>1. /\ Open(t, a) /\ Open(t, a)' /\ lpc[t] = "off" /\ lpc'[t] = "off"
      /\ NewShare(t, a) \in Int /\ OldShare(t, a) \in Int /\ RcuShare(t, a) \in Int
      /\ strong \in [Addrs -> Int] /\ wr[t].old \in Ptrs /\ op[t].new \in Ptrs /\ op[t].cur \in Ptrs
      /\ LoadShare(t, a) = 0
      /\ op[t].kind = "cas" => RcuShare(t, a) = 0
      /\ op[t].kind = "rcu" => RcuShare(t, a) = One(op[t].cur = a)
      /\ Guard(wr[t].old, wr[t].debt) \in GuardType /\ Guard(wr[t].old, wr[t].debt).ptr = wr[t].old
  BY <1>0, EndBooks
<1>2. Owed(a)' = Owed(a)
  BY <1>0, SlotsStay
\* The surplus reference, whichever it is, goes; the one to wr.old is kept.
<1>3. /\ PayShare(t, a) = 0
      /\ strong'[a] = strong[a] - CallShare(t, a) + OldShare(t, a) + RcuShare(t, a)
  <2>1. CASE CasDec(t)
    <3>1. pc[t] = "cas_dec" /\ strong' = Dec(strong, wr[t].old)
      BY <2>1 DEF CasDec
    <3>2. strong'[a] = strong[a] - OldShare(t, a)
      BY <1>1, <3>1, CountChanges DEF OldShare
    <3>3. CallShare(t, a) = OldShare(t, a) + OldShare(t, a) + RcuShare(t, a) /\ PayShare(t, a) = 0
      BY <1>1, <3>1 DEF Open, CallsHave
    <3> QED
      BY <1>1, <3>2, <3>3 DEF Accounts
  <2>2. CASE CasDropNew(t)
    <3>1. pc[t] = "cas_drop_new" /\ strong' = Dec(strong, op[t].new)
      BY <2>2 DEF CasDropNew
    <3>2. strong'[a] = strong[a] - NewShare(t, a)
      BY <1>1, <3>1, CountChanges DEF NewShare
    <3>3. CallShare(t, a) = NewShare(t, a) + OldShare(t, a) + RcuShare(t, a) /\ PayShare(t, a) = 0
      BY <1>1, <3>1 DEF Open, CallsHave
    <3> QED
      BY <1>1, <3>2, <3>3 DEF Accounts
  <2> QED
    BY <2>1, <2>2
<1>4. CASE CasReturns(t)
  <2>1. op[t].kind = "cas" /\ guards' = BagAdd(guards, Guard(wr[t].old, wr[t].debt)) /\ Finish(t) /\ UNCHANGED owned
    BY <1>4 DEF CasReturns, GiveGuard
  <2>2. CallShare(t, a)' = 0 /\ PayShare(t, a)' = 0 /\ LoadShare(t, a)' = 0
    BY <1>1, <2>1, FinishShare
  <2>3. Balance(t, a)' = Balance(t, a) + OldShare(t, a)
    BY <1>1, <1>2, <1>3, <2>1, <2>2 DEF Accounts
  <2>4. Balance(t, a)' = Balance(t, a) + One(Guard(wr[t].old, wr[t].debt).ptr = a)
    BY <1>1, <2>3 DEF OldShare
  <2> QED
    BY <1>0, <1>1, <2>1, <2>4, SettleGuard
<1>5. CASE op[t].kind = "rcu" /\ RcuSwapped(t)
  <2>1. wr[t].old = op[t].cur /\ UNCHANGED guards
    BY <1>5 DEF RcuSwapped, ptr_eq
  <2>2. pc[t] = "cas_dec" /\ op[t].new = NULL
    BY <1>0, <2>1 DEF Local, Pointers
  <2>3. RcuShare(t, a) = OldShare(t, a)
    BY <1>1, <1>5, <2>1 DEF OldShare
  <2>4. /\ owned'[a] = owned[a]
        /\ CallShare(t, a)' = OldShare(t, a) /\ PayShare(t, a)' = 0 /\ LoadShare(t, a)' = OldShare(t, a)
    <3>1. CASE wr[t].debt = NoDebt
      <4>1. FullReference(t, wr[t].old) /\ ~InHelp(t)
        BY <1>1, <1>5, <3>1 DEF RcuSwapped, InHelp
      <4>2. /\ owned'[a] = owned[a]
            /\ CallShare(t, a)' = One(wr[t].old = a) /\ PayShare(t, a)' = 0
            /\ LoadShare(t, a)' = One(op[t].cur = a)
        BY <1>1, <1>5, <2>2, <4>1, FullShare
      <4> QED
        BY <2>1, <4>2 DEF OldShare
    <3>2. CASE wr[t].debt # NoDebt
      <4>1. pc'[t] = "in_inc" /\ ld'[t].ptr = wr[t].old /\ op'[t] = op[t] /\ UNCHANGED owned
        BY <1>5, <3>2 DEF RcuSwapped, Goto, Shapes, LoadType
      <4>2. ~Waiting(t)'
        BY <1>1, <4>1 DEF Waiting
      <4>3. NewShare(t, a)' = 0 /\ RcuShare(t, a)' = RcuShare(t, a)
        BY <2>2, <4>1, Consts DEF NewShare, RcuShare, One
      <4>4. CallShare(t, a)' = NewShare(t, a)' + RcuShare(t, a)' /\ PayShare(t, a)' = 0
            /\ LoadShare(t, a)' = One(wr[t].old = a)
        BY <1>1, <4>1, <4>2 DEF Open, CallsHave, Loads, CallPlaces
      <4> QED
        BY <1>1, <2>3, <4>1, <4>3, <4>4 DEF OldShare
    <3> QED
      BY <3>1, <3>2
  <2>5. Balance(t, a)' = Balance(t, a)
    BY <1>1, <1>2, <1>3, <2>3, <2>4 DEF Accounts
  <2> QED
    BY <1>0, <2>1, <2>5, SettleEven
<1>6. CASE op[t].kind = "rcu" /\ RcuRetry(t)
  <2>1. /\ op'[t].kind = "rcu_retry" /\ op'[t].new = NULL /\ op'[t].cur = wr[t].old
        /\ BeginGuardDrop(t, Guard(op[t].cur, op[t].debt)) /\ UNCHANGED <<guards, owned>>
    BY <1>6 DEF RcuRetry, Shapes, OpType
  <2>2. /\ CallShare(t, a)' = NewShare(t, a)' + RcuShare(t, a)' /\ PayShare(t, a)' = 0
        /\ LoadShare(t, a)' = One(op[t].cur = a)
    BY <1>1, <2>1, DropShare
  <2>3. NewShare(t, a)' = 0 /\ RcuShare(t, a)' = OldShare(t, a) /\ RcuShare(t, a) = One(op[t].cur = a)
    BY <1>6, <2>1, Consts DEF NewShare, RcuShare, OldShare, One
  <2>4. Balance(t, a)' = Balance(t, a)
    BY <1>1, <1>2, <1>3, <2>1, <2>2, <2>3 DEF Accounts
  <2> QED
    BY <1>0, <2>1, <2>4, SettleEven
<1> QED
  BY <1>0, <1>4, <1>5, <1>6 DEF RcuPrev

\* The end of swap, store, Drop and into_inner.
LEMMA WriteEndEven ==
    ASSUME NEW t \in Threads, NEW a \in Addrs, Settling(t, a), PayAllDec(t) \/ OldDec(t)
    PROVE  Even(t, a)
<1> Shape /\ Locals /\ Shapes /\ Shapes' /\ Instances /\ Local(t) /\ Accounts(t, a)
  BY Settles
<1>0. pc[t] \in {"pa_dec", "old_dec"} /\ UNCHANGED <<slots, guards>> /\ strong' = Dec(strong, wr[t].old)
  BY DEF PayAllDec, OldDec
<1>1. /\ Open(t, a) /\ Open(t, a)' /\ lpc[t] = "off" /\ lpc'[t] = "off"
      /\ OldShare(t, a) \in Int /\ RcuShare(t, a) \in Int
      /\ strong \in [Addrs -> Int] /\ owned \in [Addrs -> Nat] /\ wr[t].old \in Ptrs /\ LoadShare(t, a) = 0
  BY <1>0, EndBooks
<1>2. Owed(a)' = Owed(a) /\ strong'[a] = strong[a] - OldShare(t, a)
  BY <1>0, <1>1, SlotsStay, CountChanges DEF OldShare
<1>3. /\ op[t].kind \in {"store", "swap"} => TookShare(t, a) = OldShare(t, a)
      /\ op[t].kind \in {"drop", "into_inner"} => TookShare(t, a) = 0
  BY DEF TookShare, OldShare, One
<1>4. op[t].kind \in {"drop", "into_inner"} =>
         op[t].s \in Storages /\ OldShare(t, a) = One(storage[op[t].s] = a) /\ One(Dead = a) = 0
  <2>1. op[t].kind \in {"drop", "into_inner"} => op[t].s \in Storages /\ storage[op[t].s] = wr[t].old
    BY DEF Local, Calls, Instances
  <2> QED
    BY <2>1, Consts DEF OldShare, One
<1>5. CASE PayAllDec(t)
  <2>0. pc[t] = "pa_dec" /\ Waiting(t) /\ PayShare(t, a) = OldShare(t, a)
    BY <1>1, <1>5 DEF PayAllDec, Waiting, Open, CallsHave
  <2>1. CASE op[t].kind \in {"store", "drop"} /\ Goto(t, "old_dec") /\ UNCHANGED <<op, ld, wr, storage, owned>>
    <3>1. pc'[t] = "old_dec" /\ op'[t] = op[t] /\ wr'[t] = wr[t] /\ ~InCas(t)
      BY <2>1 DEF Goto, Shapes, InCas
    <3>2. TookShare(t, a)' = TookShare(t, a) /\ CallShare(t, a) = TookShare(t, a)
      BY <1>1, <2>0, <3>1 DEF TookShare, Open, CallsHave
    <3>3. CallShare(t, a)' = TookShare(t, a)' /\ PayShare(t, a)' = 0 /\ LoadShare(t, a)' = 0
      BY <1>1, <3>1 DEF Open, CallsHave, Loads
    <3>4. Balance(t, a)' = Balance(t, a)
      BY <1>1, <1>2, <2>0, <2>1, <3>2, <3>3 DEF Accounts
    <3> QED
      BY <1>0, <2>1, <3>4, SettleEven
  <2>2. CASE InCas(t) /\ Goto(t, "cas_dec") /\ UNCHANGED <<op, ld, wr, storage, owned>>
    <3>1. pc'[t] = "cas_dec" /\ op'[t] = op[t] /\ wr'[t] = wr[t] /\ InCas(t)
      BY <2>2 DEF Goto, Shapes
    <3>2. /\ OldShare(t, a)' = OldShare(t, a) /\ RcuShare(t, a)' = RcuShare(t, a)
          /\ CallShare(t, a) = OldShare(t, a) + OldShare(t, a) + RcuShare(t, a)
      BY <1>1, <2>0, <3>1 DEF OldShare, RcuShare, Open, CallsHave
    <3>3. /\ CallShare(t, a)' = OldShare(t, a)' + OldShare(t, a)' + RcuShare(t, a)'
          /\ PayShare(t, a)' = 0 /\ LoadShare(t, a)' = 0
      BY <1>1, <3>1 DEF Open, CallsHave, Loads
    <3>4. Balance(t, a)' = Balance(t, a)
      BY <1>1, <1>2, <2>0, <2>2, <3>2, <3>3 DEF Accounts
    <3> QED
      BY <1>0, <2>2, <3>4, SettleEven
  <2>3. ASSUME op[t].kind \in {"swap", "into_inner"}, owned' = Inc(owned, wr[t].old), Finish(t)
        PROVE  /\ op[t].kind = "swap" => Balance(t, a)' = Balance(t, a)
               /\ op[t].kind = "into_inner" => Balance(t, a)' = Balance(t, a) - OldShare(t, a)
    <3>1. CallShare(t, a)' = 0 /\ PayShare(t, a)' = 0 /\ LoadShare(t, a)' = 0
      BY <1>1, <2>3, FinishShare
    <3>2. owned'[a] = owned[a] + OldShare(t, a)
      BY <1>1, <2>3, CountChanges DEF OldShare
    <3>3. CallShare(t, a) = TookShare(t, a)
      BY <1>1, <2>0, <2>3 DEF Open, CallsHave, InCas
    <3>4. op[t].kind = "swap" => Balance(t, a)' = Balance(t, a)
      BY <1>1, <1>2, <1>3, <2>0, <3>1, <3>2, <3>3 DEF Accounts
    <3>5. op[t].kind = "into_inner" => Balance(t, a)' = Balance(t, a) - OldShare(t, a)
      BY <1>1, <1>2, <1>3, <2>0, <3>1, <3>2, <3>3 DEF Accounts
    <3> QED
      BY <3>4, <3>5
  <2>4. CASE op[t].kind = "swap" /\ owned' = Inc(owned, wr[t].old) /\ Finish(t) /\ UNCHANGED storage
    BY <1>0, <2>3, <2>4, SettleEven
  <2>5. CASE /\ op[t].kind = "into_inner" /\ owned' = Inc(owned, wr[t].old)
             /\ storage' = [storage EXCEPT ![op[t].s] = Dead] /\ Finish(t)
    <3>1. Balance(t, a)' = Balance(t, a) - One(storage[op[t].s] = a) + One(Dead = a)
      BY <1>1, <1>4, <2>3, <2>5 DEF Accounts
    <3>2. SetStorage(op[t].s, Dead)
      BY <2>5 DEF SetStorage
    <3> QED
      BY <1>0, <1>4, <2>5, <3>1, <3>2, SettleStorage
  <2> QED
    BY <1>5, <2>1, <2>2, <2>4, <2>5 DEF PayAllDec
<1>6. CASE OldDec(t)
  <2>0. pc[t] = "old_dec" /\ Finish(t) /\ UNCHANGED owned /\ op[t].kind \in {"store", "drop"}
    BY <1>6 DEF OldDec, Local, Calls
  <2>1. CallShare(t, a)' = 0 /\ PayShare(t, a)' = 0 /\ LoadShare(t, a)' = 0
    BY <1>1, <2>0, FinishShare
  <2>2. CallShare(t, a) = TookShare(t, a) /\ PayShare(t, a) = 0
    BY <1>1, <2>0 DEF Open, CallsHave
  <2>3. CASE op[t].kind = "store"
    <3>1. Balance(t, a)' = Balance(t, a)
      BY <1>1, <1>2, <1>3, <2>0, <2>1, <2>2, <2>3 DEF Accounts
    <3> QED
      BY <1>0, <1>6, <2>3, <3>1, SettleEven DEF OldDec
  <2>4. CASE op[t].kind = "drop"
    <3>1. Balance(t, a)' = Balance(t, a) - OldShare(t, a)
      BY <1>1, <1>2, <1>3, <2>0, <2>1, <2>2, <2>4 DEF Accounts
    <3>2. Balance(t, a)' = Balance(t, a) - One(storage[op[t].s] = a) + One(Dead = a)
      BY <1>1, <1>4, <2>4, <3>1 DEF Accounts
    <3>3. SetStorage(op[t].s, Dead)
      BY <1>6, <2>4 DEF OldDec, SetStorage
    <3> QED
      BY <1>0, <1>4, <2>4, <3>2, <3>3, SettleStorage
  <2> QED
    BY <2>0, <2>3, <2>4
<1> QED
  BY <1>5, <1>6

-----------------------------------------------------------------------------
(* Calls begin.                                                              *)

\* Between calls a thread has nothing.
LEMMA IdleShare ==
    ASSUME NEW t \in Threads, NEW a \in Addrs, Open(t, a), pc[t] = "idle", op[t] = NoOp, lpc[t] = "off"
    PROVE  CallShare(t, a) = 0 /\ PayShare(t, a) = 0 /\ LoadShare(t, a) = 0
<1>1. ~Waiting(t)
  BY DEF Waiting
<1>2. NewShare(t, a) = 0 /\ RcuShare(t, a) = 0
  BY Consts DEF NewShare, RcuShare, NoOp, Operation, One
<1> QED
  BY <1>1, <1>2 DEF Open, CallsHave, Loads, CallPlaces

\* A step that takes a guard from the user.
LEMMA SettleGuardLess ==
    ASSUME NEW t \in Threads, NEW a \in Addrs, Settling(t, a), UNCHANGED storage
    PROVE  \A g \in BagToSet(guards) :
              guards' = BagRemove(guards, g) /\ Balance(t, a)' = Balance(t, a) - One(g.ptr = a) => Even(t, a)
<1> SUFFICES ASSUME NEW g \in BagToSet(guards), guards' = BagRemove(guards, g),
                    Balance(t, a)' = Balance(t, a) - One(g.ptr = a)
             PROVE  Even(t, a)
  OBVIOUS
<1>0. Shapes /\ Shapes' /\ IsFiniteSet(GuardCopies(a)) /\ UNCHANGED <<control, handover>> /\ Balance(t, a) \in Int
  BY Settles DEF Settling, helpVars, Accounts
<1>1. GuardsOn(a) \in Nat /\ GuardsOn(a)' = GuardsOn(a) - One(g.ptr = a)
  BY <1>0, GuardLess
<1>2. /\ Cardinality(StoragesOn(a)) \in Nat
      /\ Cardinality(StoragesOn(a)') = Cardinality(StoragesOn(a)) + 0
  BY StorageStays
<1>3. One(g.ptr = a) \in Int /\ 0 \in Int
  BY DEF One
<1>4. PICK h \in Int : h = 0 - One(g.ptr = a)
  BY <1>3
<1>5. GuardsOn(a)' = GuardsOn(a) + h /\ Balance(t, a)' = Balance(t, a) + h + 0
  BY <1>0, <1>1, <1>3, <1>4
<1> QED
  BY <1>0, <1>1, <1>2, <1>3, <1>5, EvenBalance

\* The beginning of every call is even.
LEMMA CallEven ==
    ASSUME NEW t \in Threads, NEW a \in Addrs, Settling(t, a), CallStep(t)
    PROVE  Even(t, a)
<1> Shape /\ Locals /\ Shapes /\ Shapes' /\ Instances /\ Local(t) /\ Accounts(t, a)
  BY Settles
<1>0. pc[t] = "idle" /\ lpc[t] = "off" /\ UNCHANGED slots
  BY CallEffect
<1>1. /\ Open(t, a) /\ Open(t, a)' /\ lpc'[t] = "off" /\ op[t] = NoOp
      /\ strong \in [Addrs -> Int] /\ owned \in [Addrs -> Nat]
  BY <1>0 DEF Accounts, Local, Calls, Shapes
<1>2. CallShare(t, a) = 0 /\ PayShare(t, a) = 0 /\ LoadShare(t, a) = 0 /\ Owed(a)' = Owed(a)
  BY <1>0, <1>1, IdleShare, SlotsStay
\* The call is over at once.
<1>3. ASSUME UNCHANGED <<pc, op>>
      PROVE  CallShare(t, a)' = 0 /\ PayShare(t, a)' = 0 /\ LoadShare(t, a)' = 0
  <2>1. pc'[t] = "idle" /\ op'[t] = NoOp /\ lpc'[t] = "off" /\ ~Waiting(t)'
    BY <1>0, <1>1, <1>3 DEF Waiting
  <2>2. NewShare(t, a)' = 0 /\ RcuShare(t, a)' = 0
    BY <2>1, Consts DEF NewShare, RcuShare, NoOp, Operation, One
  <2> QED
    BY <1>1, <2>1, <2>2 DEF Open, CallsHave, Loads, CallPlaces
\* It begins with a load.
<1>4. ASSUME BeginLoad(t), op'[t].kind \in {"load", "load_full", "cas", "rcu_load"}
      PROVE  CallShare(t, a)' = NewShare(t, a)' /\ PayShare(t, a)' = 0 /\ LoadShare(t, a)' = 0
  <2>1. pc'[t] \in {"ld_ptr", "fb_addr"}
    BY <1>4 DEF BeginLoad, Goto, LoadEntry, Shapes
  <2>2. ~Waiting(t)'
    BY <1>1, <2>1 DEF Waiting
  <2>3. RcuShare(t, a)' = 0 /\ NewShare(t, a)' \in Int
    BY <1>4 DEF RcuShare, NewShare, One
  <2> QED
    BY <1>1, <2>1, <2>2, <2>3 DEF Open, CallsHave, Loads, CallPlaces
\* It begins with wait_for_readers.
<1>5. ASSUME Goto(t, "pa_inc"), op'[t].kind \in {"store", "swap", "drop", "into_inner"}
      PROVE  CallShare(t, a)' = TookShare(t, a)' /\ PayShare(t, a)' = 0 /\ LoadShare(t, a)' = 0
  <2>1. pc'[t] = "pa_inc" /\ Waiting(t)' /\ ~InCas(t)'
    BY <1>5 DEF Goto, Shapes, Waiting, InCas
  <2> QED
    BY <1>1, <2>1 DEF Open, CallsHave, Loads
<1>6. CASE CallLoad(t) \/ CallRcu(t)
  <2>1. /\ BeginLoad(t) /\ UNCHANGED <<strong, storage, guards, owned>>
        /\ op'[t].kind \in {"load", "load_full", "rcu_load"} /\ op'[t].new = NULL
    BY <1>6 DEF CallLoad, CallRcu, Enters, Operation, Shapes
  <2>2. NewShare(t, a)' = 0
    BY <2>1, Consts DEF NewShare, One
  <2>3. Balance(t, a)' = Balance(t, a)
    BY <1>1, <1>2, <1>4, <2>1, <2>2 DEF Accounts
  <2> QED
    BY <2>1, <2>3, SettleEven
<1>7. CASE CallCas(t)
  <2>1. PICK s \in Storages, new \in Ptrs, cur \in Ptrs :
           Argument(new) /\ op' = [op EXCEPT ![t] = Operation("cas", s, new, cur)]
    BY <1>7, ZenonT(60) DEF CallCas, Enters
  <2>2. /\ BeginLoad(t) /\ UNCHANGED <<storage, guards, owned>>
        /\ op'[t].kind = "cas" /\ op'[t].new = new
    BY <1>7, <2>1 DEF CallCas, Operation, Shapes
  <2>3. NewShare(t, a)' = One(new = a) /\ One(new = a) \in Int
    BY <2>2 DEF NewShare, One
  <2>4. strong'[a] = strong[a] + One(new = a)
    BY <2>1, ArgumentCounts
  <2>5. Balance(t, a)' = Balance(t, a)
    BY <1>1, <1>2, <1>4, <2>2, <2>3, <2>4 DEF Accounts
  <2> QED
    BY <2>2, <2>5, SettleEven
<1>8. CASE CallSwap(t)
  <2>1. PICK kind \in {"store", "swap"}, s \in Storages, new \in Ptrs :
           /\ Argument(new) /\ op' = [op EXCEPT ![t] = Operation(kind, s, NULL, NULL)]
           /\ storage' = [storage EXCEPT ![s] = new] /\ wr' = [wr EXCEPT ![t].old = storage[s]]
    BY <1>8 DEF CallSwap, Enters
  <2>2. /\ Goto(t, "pa_inc") /\ UNCHANGED <<guards, owned>>
        /\ op'[t].kind = kind /\ wr'[t].old = storage[s] /\ SetStorage(s, new)
    <3>1. Goto(t, "pa_inc") /\ UNCHANGED <<guards, owned>>
      BY <1>8 DEF CallSwap
    <3>2. op'[t].kind = kind /\ wr'[t].old = storage[s]
      BY <2>1 DEF Operation, Shapes, WriteType
    <3> QED
      BY <2>1, <3>1, <3>2 DEF SetStorage
  <2>3. TookShare(t, a)' = One(storage[s] = a) /\ One(storage[s] = a) \in Int /\ One(new = a) \in Int
    BY <2>2 DEF TookShare, One
  <2>4. strong'[a] = strong[a] + One(new = a)
    BY <2>1, ArgumentCounts
  <2>5. Balance(t, a)' = Balance(t, a) - One(storage[s] = a) + One(new = a)
    BY <1>1, <1>2, <1>5, <2>2, <2>3, <2>4 DEF Accounts
  <2> QED
    BY <2>2, <2>5, SettleStorage
<1>9. CASE CallDestroy(t)
  <2>1. /\ Goto(t, "pa_inc") /\ UNCHANGED <<strong, storage, guards, owned>>
        /\ op'[t].kind \in {"drop", "into_inner"}
    BY <1>9 DEF CallDestroy, Enters, Operation, Shapes
  <2>2. TookShare(t, a)' = 0
    BY <2>1 DEF TookShare, One
  <2>3. Balance(t, a)' = Balance(t, a)
    BY <1>1, <1>2, <1>5, <2>1, <2>2 DEF Accounts
  <2> QED
    BY <2>1, <2>3, SettleEven
<1>10. CASE CallNew(t)
  <2>1. PICK s \in Storages, p \in Ptrs :
           storage[s] = Dead /\ Argument(p) /\ storage' = [storage EXCEPT ![s] = p]
    BY <1>10 DEF CallNew
  <2>2. UNCHANGED <<pc, op, guards, owned>> /\ SetStorage(s, p)
    BY <1>10, <2>1 DEF CallNew, SetStorage
  <2>3. strong'[a] = strong[a] + One(p = a) /\ One(p = a) \in Int /\ One(storage[s] = a) = 0
    BY <2>1, ArgumentCounts, Consts DEF One
  <2>4. Balance(t, a)' = Balance(t, a) - One(storage[s] = a) + One(p = a)
    BY <1>1, <1>2, <1>3, <2>2, <2>3 DEF Accounts
  <2> QED
    BY <2>2, <2>4, SettleStorage
<1>11. CASE CallGuard(t)
  <2>1. PICK g \in BagToSet(guards) :
           /\ guards' = BagRemove(guards, g)
           /\ \/ /\ Enters(t, "guard_drop", NoStorage, NULL, NULL)
                 /\ BeginGuardDrop(t, g)
                 /\ UNCHANGED owned
              \/ /\ Enters(t, "guard_into_inner", NoStorage, NULL, NULL)
                 /\ ld' = [ld EXCEPT ![t] = Protection(g.ptr, g.debt)]
                 /\ Goto(t, "in_inc")
                 /\ UNCHANGED owned
              \/ /\ owned' = Inc(owned, g.ptr)
                 /\ UNCHANGED <<pc, op, ld>>
    BY <1>11 DEF CallGuard
  <2>2. UNCHANGED <<strong, storage>> /\ g \in GuardType /\ g.ptr \in Ptrs /\ g = Guard(g.ptr, g.debt)
    BY <1>11 DEF CallGuard, Shapes, GuardType, Guard
  <2>3. One(g.ptr = a) \in Int
    BY DEF One
  <2>4. SUFFICES Balance(t, a)' = Balance(t, a) - One(g.ptr = a)
    BY <2>1, <2>2, SettleGuardLess
  <2>5. ASSUME NEW kind \in {"guard_drop", "guard_into_inner"}, Enters(t, kind, NoStorage, NULL, NULL)
        PROVE  NewShare(t, a)' = 0 /\ RcuShare(t, a)' = 0
    BY <2>5, Consts DEF Enters, Operation, NewShare, RcuShare, One, Shapes
  <2>6. CASE Enters(t, "guard_drop", NoStorage, NULL, NULL) /\ BeginGuardDrop(t, g) /\ UNCHANGED owned
    <3>1. BeginGuardDrop(t, Guard(g.ptr, g.debt))
      BY <2>2, <2>6
    <3>2. /\ CallShare(t, a)' = NewShare(t, a)' + RcuShare(t, a)' /\ PayShare(t, a)' = 0
          /\ LoadShare(t, a)' = One(g.ptr = a)
      BY <1>1, <2>2, <3>1, DropShare
    <3>3. NewShare(t, a)' = 0 /\ RcuShare(t, a)' = 0
      BY <2>5, <2>6
    <3> QED
      BY <1>1, <1>2, <2>2, <2>3, <2>6, <3>2, <3>3 DEF Accounts
  <2>7. CASE /\ Enters(t, "guard_into_inner", NoStorage, NULL, NULL) /\ Goto(t, "in_inc") /\ UNCHANGED owned
             /\ ld' = [ld EXCEPT ![t] = Protection(g.ptr, g.debt)]
    <3>1. pc'[t] = "in_inc" /\ ld'[t].ptr = g.ptr
      BY <2>7 DEF Goto, Protection, Shapes
    <3>2. ~Waiting(t)'
      BY <1>1, <3>1 DEF Waiting
    <3>3. NewShare(t, a)' = 0 /\ RcuShare(t, a)' = 0
      BY <2>5, <2>7
    <3>4. CallShare(t, a)' = 0 /\ PayShare(t, a)' = 0 /\ LoadShare(t, a)' = One(g.ptr = a)
      BY <1>1, <3>1, <3>2, <3>3 DEF Open, CallsHave, Loads, CallPlaces
    <3> QED
      BY <1>1, <1>2, <2>2, <2>3, <2>7, <3>4 DEF Accounts
  <2>8. CASE owned' = Inc(owned, g.ptr) /\ UNCHANGED <<pc, op, ld>>
    <3>1. owned'[a] = owned[a] + One(g.ptr = a)
      BY <1>1, <2>2, <2>8, CountChanges
    <3> QED
      BY <1>1, <1>2, <1>3, <2>2, <2>3, <2>8, <3>1 DEF Accounts
  <2> QED
    BY <2>1, <2>6, <2>7, <2>8
<1>12. CASE CallDropArc(t)
  <2>1. PICK b \in Addrs : owned' = Dec(owned, b) /\ strong' = Dec(strong, b)
    BY <1>12 DEF CallDropArc
  <2>2. UNCHANGED <<pc, op, guards, storage>> /\ b \in Ptrs
    BY <1>12, Consts DEF CallDropArc
  <2>3. /\ owned'[a] = owned[a] - One(b = a) /\ strong'[a] = strong[a] - One(b = a) /\ One(b = a) \in Int
    BY <1>1, <2>1, <2>2, CountChanges DEF One
  <2>4. Balance(t, a)' = Balance(t, a)
    BY <1>1, <1>2, <1>3, <2>2, <2>3 DEF Accounts
  <2> QED
    BY <2>2, <2>4, SettleEven
<1>13. CASE CallFromInner(t)
  <2>1. PICK b \in Addrs : owned' = Dec(owned, b) /\ guards' = BagAdd(guards, Guard(b, NoDebt))
    BY <1>13 DEF CallFromInner, GiveGuard
  <2>2. UNCHANGED <<pc, op, strong, storage>> /\ b \in Ptrs
    BY <1>13, Consts DEF CallFromInner
  <2>3. /\ owned'[a] = owned[a] - One(b = a) /\ One(b = a) \in Int
    BY <1>1, <2>1, <2>2, CountChanges DEF One
  <2>4. Guard(b, NoDebt) \in GuardType /\ Guard(b, NoDebt).ptr = b
    BY <2>2 DEF Guard, GuardType, GuardDebts
  <2>5. Balance(t, a)' = Balance(t, a) + One(Guard(b, NoDebt).ptr = a)
    BY <1>1, <1>2, <1>3, <2>2, <2>3, <2>4 DEF Accounts
  <2> QED
    BY <2>1, <2>2, <2>4, <2>5, SettleGuard
<1> QED
  BY <1>6, <1>7, <1>8, <1>9, <1>10, <1>11, <1>12, <1>13 DEF CallStep

-----------------------------------------------------------------------------
(* The theorem.                                                              *)

\* Steps that use the result of a load, and those that end calls.
LEMMA ResultEven ==
    ASSUME NEW t \in Threads, NEW a \in Addrs, ListInv, HelpInv, Shapes', AllLocal',
           ResultStep(t), UNCHANGED listVars, IsFiniteSet(GuardCopies(a))
    PROVE  Even(t, a)
<1>1. UNCHANGED helpVars
  BY DEF ResultStep, IntoInnerInc, IntoInnerPay, IntoInnerDec, GuardDropPay, GuardDropDec,
         ReturnGuard, ReturnFull, ReturnCas, ReturnRcu, RcuApply, CasExchange, CasDec,
         CasDropNew, PayAllDec, OldDec
<1>2. Settling(t, a)
  BY <1>1 DEF Settling
<1> QED
  BY <1>2, IntoInnerEven, GuardDropEven, ReturnEven, RcuApplyEven, CasExchangeEven, CasEndEven,
     WriteEndEven
     DEF ResultStep

\* Every step is balanced.
LEMMA NextEven ==
    ASSUME ListInv, HelpInv, HelpInv', NEW t \in Threads, Acts(t), NEW a \in Addrs, IsFiniteSet(GuardCopies(a))
    PROVE  Even(t, a)
<1>1. Shapes' /\ AllLocal' /\ strong' \in [Addrs -> Int]
  BY DEF HelpInv, AllLocal, Shapes
<1>2. CASE CallStep(t)
  <2>1. Settling(t, a)
    BY <1>1, <1>2, CallEffect DEF Settling
  <2> QED
    BY <1>2, <2>1, CallEven
<1>3. CASE ~CallStep(t)
  BY <1>1, <1>3, NodeEven, ReadEven, ResultEven, HelpEven, PayEven, WalkEven DEF Acts
<1> QED
  BY <1>2, <1>3

\* The numbers on both sides.
CopiesFinite == \A a \in Addrs : IsFiniteSet(GuardCopies(a))

\* Both sides of the account are numbers,
LEMMA NumbersAre == Shapes /\ CopiesFinite => \A a \in Addrs : Numbers(a)
<1> SUFFICES ASSUME Shapes, CopiesFinite, NEW a \in Addrs PROVE Numbers(a)
  OBVIOUS
<1>1. strong[a] \in Int /\ owned[a] \in Int
  BY DEF Shapes
<1>2. Owed(a) \in Int
  BY OwedNat
<1>3. IsFiniteSet(StoragesOn(a)) /\ IsFiniteSet(AnswersOn(a)) /\ IsFiniteSet(GuardCopies(a))
  BY ApiAssumption, FiniteSubset, OwedFinite DEF StoragesOn, CopiesFinite
<1>4. /\ Cardinality(StoragesOn(a)) \in Int /\ Cardinality(AnswersOn(a)) \in Int
      /\ Cardinality(GuardCopies(a)) \in Int
  BY <1>3, FiniteSubset
<1> QED
  BY <1>1, <1>2, <1>4 DEF Numbers, GuardsOn, GuardCopies

\* after the step too.
LEMMA NumbersNext == Shapes' /\ CopiesFinite' => \A a \in Addrs : Numbers(a)'
<1>1. (Shapes /\ CopiesFinite => \A a \in Addrs : Numbers(a))'
  BY NumbersAre, PTL
<1> QED
  BY <1>1

\* Guards come and go one by one.
LEMMA GuardsMove ==
    ASSUME ListInv, HelpInv, NEW t \in Threads, Acts(t)
    PROVE  \/ UNCHANGED guards
           \/ \E g \in GuardType : guards' = BagAdd(guards, g)
           \/ \E g \in BagToSet(guards) : guards' = BagRemove(guards, g)
<1> Shapes /\ Local(t)
  BY DEF HelpInv
<1>1. CASE CallStep(t)
  <2>1. CASE CallGuard(t)
    BY <2>1 DEF CallGuard
  <2>2. CASE CallFromInner(t)
    <3>1. PICK b \in Addrs : guards' = BagAdd(guards, Guard(b, NoDebt))
      BY <2>2 DEF CallFromInner, GiveGuard
    <3> QED
      BY <3>1, Consts DEF Guard, GuardType, GuardDebts
  <2>3. CASE ~CallGuard(t) /\ ~CallFromInner(t)
    BY <1>1, <2>3 DEF CallStep, CallLoad, CallSwap, CallCas, CallRcu, CallDestroy, CallNew,
       CallDropArc
  <2> QED
    BY <2>1, <2>2, <2>3
<1>2. CASE NodeOnly(t)
  BY <1>2 DEF NodeOnly, NodeStep, TmpNodeDrop, ExitStep
<1>3. CASE ResultStep(t)
  <2>1. CASE ReturnGuard(t)
    <3>1. Guard(ld[t].ptr, ld[t].debt) \in GuardType
      BY <2>1, Fields DEF ReturnGuard, Local, Registers, GuardType, Guard
    <3> QED
      BY <2>1, <3>1 DEF ReturnGuard, GiveGuard
  <2>2. CASE CasDec(t) \/ CasDropNew(t)
    <3>1. Guard(wr[t].old, wr[t].debt) \in GuardType
      BY Fields DEF GuardType, Guard
    <3>2. CasReturns(t) \/ RcuSwapped(t) \/ RcuRetry(t)
      BY <2>2 DEF CasDec, CasDropNew, RcuPrev
    <3> QED
      BY <3>1, <3>2 DEF CasReturns, GiveGuard, RcuSwapped, RcuRetry
  <2>3. CASE ~ReturnGuard(t) /\ ~CasDec(t) /\ ~CasDropNew(t)
    BY <1>3, <2>3 DEF ResultStep, IntoInnerInc, IntoInnerPay, IntoInnerDec, GuardDropPay,
       GuardDropDec,
         ReturnFull, ReturnCas, ReturnRcu, RcuApply, CasExchange, PayAllDec, OldDec
  <2> QED
    BY <2>1, <2>2, <2>3
<1> QED
  BY <1>1, <1>2, <1>3 DEF Acts

\* There are finitely many guards after every step.
LEMMA NextCopies ==
    ASSUME ListInv, HelpInv, NEW t \in Threads, Acts(t), CopiesFinite
    PROVE  CopiesFinite'
<1> SUFFICES ASSUME NEW a \in Addrs PROVE IsFiniteSet(GuardCopies(a)')
  BY DEF CopiesFinite
<1>1. Shapes /\ IsFiniteSet(GuardCopies(a))
  BY DEF HelpInv, CopiesFinite
<1>2. CASE UNCHANGED guards
  BY <1>1, <1>2, GuardsStay
<1>3. CASE \E g \in GuardType : guards' = BagAdd(guards, g)
  BY <1>1, <1>3, GuardMore
<1>4. CASE \E g \in BagToSet(guards) : guards' = BagRemove(guards, g)
  BY <1>1, <1>4, GuardLess
<1> QED
  BY <1>2, <1>3, <1>4, GuardsMove

\* Every step keeps the counts exact.
LEMMA NextCount ==
    ASSUME ListInv, HelpInv, HelpInv', [Next]_vars, CopiesFinite, RefCountExact
    PROVE  CopiesFinite' /\ RefCountExact'
<1>1. CASE UNCHANGED vars
  <2>1. UNCHANGED <<listVars, slots, control, handover, pc, op, ld, wr, storage, guards, owned, strong>>
    BY <1>1 DEF vars, debtVars, helpVars
  <2>2. CopiesFinite'
    BY <2>1 DEF CopiesFinite, GuardCopies
  <2>3. ASSUME NEW a \in Addrs PROVE strong'[a] + Owed(a)' = Claims(a)'
    <3>1. \A u \in Threads : Same(u) /\ Received(u)' = Received(u)
      BY <1>1 DEF Same, Received, vars, listVars, debtVars, helpVars, localVars
    <3>2. CallClaims(a)' = CallClaims(a)
      BY <2>1 DEF CallClaims, listVars, TookOld, Waiting, Prepaid, CasGuard, InCas, RcuGuard,
         Protects, Received
    <3>3. GuardsOn(a)' = GuardsOn(a) /\ Owed(a)' = Owed(a)
      BY <2>1 DEF GuardsOn, Owed
    <3>4. Claims(a)' = Claims(a)
      BY <2>1, <3>2, <3>3 DEF Claims
    <3> QED
      BY <2>1, <3>3, <3>4 DEF RefCountExact
  <2> QED
    BY <2>2, <2>3 DEF RefCountExact
<1>2. ASSUME NEW t \in Threads, Acts(t) PROVE CopiesFinite' /\ RefCountExact'
  <2>1. CopiesFinite'
    BY <1>2, NextCopies
  <2>2. (\A a \in Addrs : Numbers(a)) /\ (\A a \in Addrs : Numbers(a)')
    BY <2>1, NumbersAre, NumbersNext DEF HelpInv
  <2>3. \A u \in Threads : u # t => Same(u) /\ Received(u)' = Received(u)
    BY <1>2, ReceivedStays
  <2>4. ASSUME NEW a \in Addrs PROVE (strong[a] + Owed(a) = Claims(a))'
    <3>1. Even(t, a)
      BY <1>2, NextEven DEF CopiesFinite
    <3> QED
      BY <2>2, <2>3, <3>1, Ledger DEF RefCountExact
  <2> QED
    BY <2>1, <2>4 DEF RefCountExact
<1>3. \A t \in Threads : Places(t)
  BY DEF HelpInv, Local
<1> QED
  BY <1>1, <1>2, <1>3, NextActs

\* The counts are exact at the beginning: one for each instance.
LEMMA InitCount == Init => CopiesFinite /\ RefCountExact
<1> SUFFICES ASSUME Init, NEW a \in Addrs
             PROVE  IsFiniteSet(GuardCopies(a)) /\ strong[a] + Owed(a) = Claims(a)
  BY DEF CopiesFinite, RefCountExact
<1>0. NULL # a /\ NONE # a
  BY Consts
<1>1. /\ slots = [n \in Nodes |-> [k \in SlotIds |-> NONE]] /\ control = [n \in Nodes |-> IDLE]
      /\ op = [t \in Threads |-> NoOp] /\ ld = [t \in Threads |-> NoLoad] /\ wr = [t \in Threads |-> NoWrite]
      /\ pc = [t \in Threads |-> "idle"] /\ lpc = [t \in Threads |-> "off"]
      /\ guards = EmptyBag /\ owned = [b \in Addrs |-> 0] /\ storage = InitStorage
      /\ strong = [b \in Addrs |-> IF \E s \in Storages : storage[s] = b THEN 1 ELSE 0]
  BY DEF Init, DebtInit, ListInit
<1>2. GuardCopies(a) = {}
  BY <1>1 DEF GuardCopies, EmptyBag, BagToSet, SetToBag
<1>3. IsFiniteSet(GuardCopies(a)) /\ GuardsOn(a) = 0
  <2>1. GuardsOn(a) = Cardinality(GuardCopies(a))
    BY DEF GuardsOn, GuardCopies
  <2> QED
    BY <1>2, <2>1, FiniteEmpty
<1>4. Owed(a) = 0
  <2>1. OwedOn(a) = {}
    BY <1>0, <1>1 DEF OwedOn
  <2>2. Owed(a) = Cardinality(OwedOn(a))
    BY DEF Owed, OwedOn
  <2> QED
    BY <2>1, <2>2, FiniteEmpty
<1>5. Cardinality(AnswersOn(a)) = 0
  <2>1. AnswersOn(a) = {}
    BY <1>1, ControlFacts DEF AnswersOn, Answers, REPLACEMENT_TAG
  <2> QED
    BY <2>1, FiniteEmpty
<1>6. CallClaims(a) = 0
  <2>1. /\ \A t \in Threads : /\ op[t].new # a /\ wr[t].repl # a /\ Received(t) # a
                              /\ ~TookOld(t) /\ ~Prepaid(t) /\ ~CasGuard(t) /\ ~RcuGuard(t) /\ ~Protects(t)
                              /\ pc[t] = "idle"
    BY <1>0, <1>1 DEF NoOp, NoWrite, Operation, Received, TookOld, Prepaid, Waiting, CasGuard,
       RcuGuard, Protects,
                      IntoInnerLabels, InCas
  <2>2. /\ {t \in Threads : op[t].new = a} = {}
        /\ {t \in Threads : TookOld(t) /\ wr[t].old = a} = {}
        /\ {t \in Threads : Prepaid(t) /\ wr[t].old = a} = {}
        /\ {t \in Threads : CasGuard(t) /\ wr[t].old = a} = {}
        /\ {t \in Threads : RcuGuard(t) /\ op[t].cur = a} = {}
        /\ {t \in Threads : wr[t].repl = a} = {}
        /\ {t \in Threads : Protects(t) /\ ld[t].ptr = a} = {}
        /\ {t \in Threads : pc[t] \in {"in_pay", "in_dec"} /\ ld[t].ptr = a} = {}
        /\ {t \in Threads : Received(t) = a} = {}
    BY <2>1
  <2>3. /\ Cardinality({t \in Threads : op[t].new = a}) = 0
        /\ Cardinality({t \in Threads : TookOld(t) /\ wr[t].old = a}) = 0
        /\ Cardinality({t \in Threads : Prepaid(t) /\ wr[t].old = a}) = 0
        /\ Cardinality({t \in Threads : CasGuard(t) /\ wr[t].old = a}) = 0
        /\ Cardinality({t \in Threads : RcuGuard(t) /\ op[t].cur = a}) = 0
        /\ Cardinality({t \in Threads : wr[t].repl = a}) = 0
        /\ Cardinality({t \in Threads : Protects(t) /\ ld[t].ptr = a}) = 0
        /\ Cardinality({t \in Threads : pc[t] \in {"in_pay", "in_dec"} /\ ld[t].ptr = a}) = 0
        /\ Cardinality({t \in Threads : Received(t) = a}) = 0
    BY <2>2, FiniteEmpty
  <2> QED
    BY <2>3 DEF CallClaims
<1>7. Cardinality(StoragesOn(a)) = strong[a] /\ strong[a] \in Int
  <2>1. CASE \E s \in Storages : storage[s] = a
    <3>1. PICK s \in Storages : storage[s] = a
      BY <2>1
    <3>2. StoragesOn(a) \ {s} = {} \ {s} /\ s \in StoragesOn(a)
      BY <1>1, <3>1, ApiAssumption DEF StoragesOn
    <3>3. Cardinality(StoragesOn(a)) = Cardinality({}) - One(s \in {}) + One(s \in StoragesOn(a))
      BY <3>2, FiniteEmpty, OneThread
    <3> QED
      BY <1>1, <2>1, <3>2, <3>3, FiniteEmpty DEF One
  <2>2. CASE ~\E s \in Storages : storage[s] = a
    <3>1. StoragesOn(a) = {}
      BY <2>2 DEF StoragesOn
    <3> QED
      BY <1>1, <2>2, <3>1, FiniteEmpty
  <2> QED
    BY <2>1, <2>2
<1>8. Claims(a) = Cardinality(StoragesOn(a)) + owned[a] + GuardsOn(a) + CallClaims(a)
                       + Cardinality(AnswersOn(a))
  BY ClaimsAre
<1>9. owned[a] = 0
  BY <1>1
<1> QED
  BY <1>3, <1>4, <1>5, <1>6, <1>7, <1>8, <1>9

\* The count of every Arc plus the debts on it is the number of references there
\* are, in every state: whichever of reader and writer pays a debt, whoever gets
\* an answer or is too late with one, and whichever way compare_and_swap and rcu
\* end, no reference is lost and none is released twice (Debt::pay, pay_all,
\* into_inner, drop, confirm, help).  The conditions are those of the envelopes.
THEOREM CountsAreExact == Spec /\ []NoWrap /\ []NoCooldownRace => []RefCountExact
<1>1. Init => CopiesFinite /\ RefCountExact
  BY InitCount
<1>2. ListInv /\ HelpInv /\ HelpInv' /\ [Next]_vars /\ (CopiesFinite /\ RefCountExact)
        => (CopiesFinite /\ RefCountExact)'
  BY NextCount
<1> QED
  BY <1>1, <1>2, AlwaysHelp, PTL DEF Spec
=============================================================================
