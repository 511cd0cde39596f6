---------------------------- MODULE RwLockProofs ----------------------------
(***************************************************************************)
(* Proofs about the RwLock strategy, for any number of threads, addresses  *)
(* and calls: the pointers that are read under the lock, the reference     *)
(* counts, and that the strategy implements the Cell.                      *)
(***************************************************************************)
EXTENDS RwLockCell, Counting, TLAPS

\* Who is inside the lock: nobody reads or writes next to a writer.
Locked ==
    /\ \A t \in Threads : HoldsRead(t) => t \in readers
    /\ \A t \in Threads : HoldsWrite(t) => writer = t
    /\ writer # NoThread => readers = {}

\* A thread between two calls has no locals; one that destroys the instance is
\* alone with it, and nobody uses an instance that does not exist.
Alone ==
    /\ \A t \in Threads : at[t] = "idle" => loc[t].kind = "none"
    /\ \A t, u \in Threads :
          loc[t].kind \in {"drop", "into_inner"} /\ u # t => at[u] = "idle"
    /\ storage = Dead => \A t \in Threads : at[t] = "idle"

\* The inductive invariant.
LockInv == TypeOK /\ Locked /\ Alone /\ PointersPinned

\* The instance as with_strategy leaves it.
LEMMA InitLock == Init => LockInv
<1> SUFFICES ASSUME Init PROVE LockInv
  OBVIOUS
<1>1. TypeOK
  <2>1. ty \in RefCntTypes
    BY LockAssumption DEF Init
  <2> QED
    BY <2>1 DEF Init, TypeOK, Raw, Labels, CallKinds, Idle, Frame
<1>2. Locked
  BY DEF Init, Locked, HoldsRead, HoldsWrite
<1>3. Alone
  BY LockAssumption DEF Init, Alone, Raw, Idle, Frame
<1>4. PointersPinned
  BY DEF Init, PointersPinned
<1> QED
  BY <1>1, <1>2, <1>3, <1>4 DEF LockInv

\* Counts stay counts.
LEMMA CountsType ==
    ASSUME NEW counts \in [Addrs -> Int], NEW p
    PROVE  Inc(counts, p) \in [Addrs -> Int] /\ Dec(counts, p) \in [Addrs -> Int]
BY DEF Inc, Dec

\* An argument is a smart pointer, and its reference is counted.
LEMMA ArgumentType ==
    ASSUME LockInv, NEW v \in Smart, Argument(v)
    PROVE  refs' \in [Addrs -> Int] /\ into_ptr(v) \in Raw /\ into_ptr(v) # Dead
<1>1. refs \in [Addrs -> Int]
  BY DEF LockInv, TypeOK
<1>2. refs' \in [Addrs -> Int]
  BY <1>1, CountsType DEF Argument
<1>3. into_ptr(v) \in Raw
  BY DEF Smart, Raw, into_ptr
<1> QED
  BY <1>2, <1>3, LockAssumption

-----------------------------------------------------------------------------
(* One lemma per part of the invariant that steps disturb, one step each per  *)
(* action.                                                                    *)

Acts(t) ==
    \/ CallLoad(t) \/ CallSwap(t) \/ CallCas(t) \/ CallDestroy(t) \/ CallNew(t) \/ CallUser(t)
    \/ /\ UNCHANGED ty
       /\ \/ LoadLock(t) \/ LoadPtr(t) \/ LoadInc(t) \/ LoadUnlock(t)
          \/ WaitLock(t) \/ WaitUnlock(t) \/ OldDec(t)
          \/ CasLock(t) \/ CasExchange(t) \/ CasInc(t) \/ CasDropNew(t) \/ CasUnlock(t)

\* Every step keeps the types; a thread that reads the pointer finds one, since
\* the instance exists while somebody is in a call.
LEMMA TypeStep ==
    ASSUME LockInv, NEW t \in Threads, Acts(t)
    PROVE  TypeOK'
<1> USE DEF LockInv
<1>1. at[t] # "idle" => storage \in Raw
  BY DEF Alone, TypeOK
<1>2. /\ \A kind \in CallKinds, new, cur, ptr \in Raw :
            Frame(kind, new, cur, ptr) \in [kind : CallKinds, new : Raw, cur : Raw, ptr : Raw]
      /\ NULL \in Raw
      /\ Idle \in [kind : CallKinds, new : Raw, cur : Raw, ptr : Raw]
  BY DEF Frame, Idle, CallKinds, Raw
<1>3. CASE CallLoad(t)
  BY <1>2, <1>3 DEF CallLoad, TypeOK, Goto, Labels, CallKinds, lock, users
<1>4. CASE CallSwap(t)
  <2>1. PICK kind \in {"store", "swap"}, v \in Smart :
            /\ storage # Dead
            /\ Argument(v)
            /\ storage' = into_ptr(v)
            /\ loc' = [loc EXCEPT ![t] = Frame(kind, NULL, NULL, storage)]
            /\ Goto(t, "wr_lock")
            /\ UNCHANGED <<ty, lock, users>>
    BY <1>4 DEF CallSwap, Shared
  <2>2. storage \in Raw
    BY <2>1 DEF TypeOK
  <2> QED
    BY <1>2, <2>1, <2>2, ArgumentType DEF TypeOK, Goto, Labels, CallKinds, lock, users
<1>5. CASE CallCas(t)
  <2>1. PICK v \in Smart, current \in Smart \cup Raw :
            /\ Argument(v)
            /\ loc' = [loc EXCEPT ![t] = Frame("cas", into_ptr(v), as_raw(current), NULL)]
            /\ Goto(t, "cas_lock")
            /\ UNCHANGED <<ty, storage, lock, users>>
    BY <1>5 DEF CallCas
  <2>2. as_raw(current) \in Raw
    BY DEF Raw, Smart, as_raw, as_ptr
  <2> QED
    BY <1>2, <2>1, <2>2, ArgumentType DEF TypeOK, Goto, Labels, CallKinds, lock, users
<1>6. CASE CallDestroy(t)
  <2>1. storage \in Raw
    BY <1>6 DEF CallDestroy, TypeOK
  <2> QED
    BY <1>2, <1>6, <2>1 DEF CallDestroy, TypeOK, Goto, Labels, CallKinds, lock, users
<1>7. CASE CallNew(t)
  BY <1>7, ArgumentType DEF CallNew, TypeOK, users
<1>8. CASE CallUser(t)
  BY <1>8, CountsType DEF CallUser, TypeOK, lock
<1>9. CASE UNCHANGED ty /\ (LoadLock(t) \/ LoadPtr(t) \/ LoadInc(t) \/ LoadUnlock(t))
  <2>1. CASE LoadLock(t)
    BY <1>9, <2>1 DEF LoadLock, AcquireRead, TypeOK, Goto, Labels, users
  <2>2. CASE LoadPtr(t)
    BY <1>1, <1>2, <1>9, <2>2 DEF LoadPtr, TypeOK, Goto, Labels, CallKinds, lock, users
  <2>3. CASE LoadInc(t)
    BY <1>9, <2>3, CountsType DEF LoadInc, TypeOK, Goto, Labels, lock, users
  <2>4. CASE LoadUnlock(t)
    BY <1>2, <1>9, <2>4, CountsType DEF LoadUnlock, Returns, ReleaseRead, TypeOK, Goto, Labels
  <2> QED
    BY <1>9, <2>1, <2>2, <2>3, <2>4
<1>10. CASE UNCHANGED ty /\ (WaitLock(t) \/ WaitUnlock(t) \/ OldDec(t))
  <2>1. CASE WaitLock(t)
    BY <1>10, <2>1 DEF WaitLock, AcquireWrite, TypeOK, Goto, Labels, users
  <2>2. CASE WaitUnlock(t)
    <3>1. loc' \in [Threads -> [kind : CallKinds, new : Raw, cur : Raw, ptr : Raw]]
      BY <1>2, <2>2 DEF WaitUnlock, Returns, TypeOK
    <3>2. held' \in [Addrs -> Int]
      BY <2>2, CountsType DEF WaitUnlock, Returns, TypeOK
    <3>3. at' \in [Threads -> Labels]
      BY <2>2 DEF WaitUnlock, Returns, TypeOK, Goto, Labels
    <3>4. storage' \in Raw \cup {Dead}
      BY <2>2 DEF WaitUnlock, TypeOK
    <3> QED
      BY <1>10, <2>2, <3>1, <3>2, <3>3, <3>4 DEF WaitUnlock, ReleaseWrite, TypeOK
  <2>3. CASE OldDec(t)
    BY <1>2, <1>10, <2>3, CountsType DEF OldDec, TypeOK, Goto, Labels, lock, users
  <2> QED
    BY <1>10, <2>1, <2>2, <2>3
<1>11. CASE /\ UNCHANGED ty
            /\ \/ CasLock(t) \/ CasExchange(t) \/ CasInc(t) \/ CasDropNew(t) \/ CasUnlock(t)
  <2>1. CASE CasLock(t)
    BY <1>11, <2>1 DEF CasLock, AcquireWrite, TypeOK, Goto, Labels, users
  <2>2. CASE CasExchange(t)
    <3>1. storage \in Raw /\ loc[t].cur \in Raw /\ loc[t].new \in Raw
      BY <1>1, <2>2 DEF CasExchange, TypeOK
    <3>2. loc' \in [Threads -> [kind : CallKinds, new : Raw, cur : Raw, ptr : Raw]]
      BY <1>2, <2>2, <3>1 DEF CasExchange, TypeOK, CallKinds
    <3>3. at' \in [Threads -> Labels]
      BY <2>2 DEF CasExchange, TypeOK, Goto, Labels
    <3>4. storage' \in Raw
      BY <2>2, <3>1 DEF CasExchange
    <3> QED
      BY <1>11, <2>2, <3>2, <3>3, <3>4 DEF CasExchange, TypeOK, lock, users
  <2>3. CASE CasInc(t)
    BY <1>11, <2>3, CountsType DEF CasInc, TypeOK, Goto, Labels, lock, users
  <2>4. CASE CasDropNew(t)
    BY <1>2, <1>11, <2>4, CountsType DEF CasDropNew, TypeOK, Goto, Labels, CallKinds, lock, users
  <2>5. CASE CasUnlock(t)
    BY <1>2, <1>11, <2>5, CountsType DEF CasUnlock, Returns, ReleaseWrite, TypeOK, Goto, Labels
  <2> QED
    BY <1>11, <2>1, <2>2, <2>3, <2>4, <2>5
<1> QED
  BY <1>3, <1>4, <1>5, <1>6, <1>7, <1>8, <1>9, <1>10, <1>11 DEF Acts

\* The lock is given back by those who hold it, and taken when it is free.
LEMMA LockedStep ==
    ASSUME LockInv, NEW t \in Threads, Acts(t)
    PROVE  Locked'
<1> USE LockAssumption DEF LockInv, TypeOK, Locked, HoldsRead, HoldsWrite, Goto
<1>1. CASE CallLoad(t) \/ CallCas(t) \/ CallSwap(t) \/ CallDestroy(t)
  <2>1. /\ UNCHANGED lock
        /\ \E label \in {"rd_lock", "cas_lock", "wr_lock"} : Goto(t, label)
    BY <1>1 DEF CallLoad, CallCas, CallSwap, CallDestroy
  <2> QED
    BY <2>1 DEF lock
<1>2. CASE CallNew(t)
  <2>1. \A u \in Threads : at[u] = "idle"
    BY <1>2 DEF CallNew, Alone
  <2> QED
    BY <1>2, <2>1 DEF CallNew
<1>3. CASE CallUser(t)
  BY <1>3 DEF CallUser, lock
<1>4. CASE LoadLock(t)
  BY <1>4 DEF LoadLock, AcquireRead
<1>5. CASE LoadPtr(t) \/ LoadInc(t) \/ CasInc(t) \/ CasDropNew(t)
  BY <1>5 DEF LoadPtr, LoadInc, CasInc, CasDropNew, lock
<1>6. CASE LoadUnlock(t)
  BY <1>6 DEF LoadUnlock, ReleaseRead, Returns
<1>7. CASE WaitLock(t) \/ CasLock(t)
  <2>1. AcquireWrite(t) /\ (Goto(t, "wr_unlock") \/ Goto(t, "cas_x"))
    BY <1>7 DEF WaitLock, CasLock
  <2>2. \A u \in Threads : ~HoldsRead(u) /\ ~HoldsWrite(u)
    BY <2>1 DEF AcquireWrite
  <2> QED
    BY <2>1, <2>2 DEF AcquireWrite
<1>8. CASE WaitUnlock(t) \/ CasUnlock(t)
  <2>1. /\ ReleaseWrite(t)
        /\ HoldsWrite(t)
        /\ Goto(t, "idle") \/ Goto(t, "old_dec")
    BY <1>8 DEF WaitUnlock, CasUnlock, Returns
  <2>2. \A u \in Threads : u # t => ~HoldsRead(u) /\ ~HoldsWrite(u)
    BY <2>1
  <2> QED
    BY <2>1, <2>2 DEF ReleaseWrite
<1>9. CASE OldDec(t)
  BY <1>9 DEF OldDec, lock
<1>10. CASE CasExchange(t)
  BY <1>10 DEF CasExchange, lock
<1> QED
  BY <1>1, <1>2, <1>3, <1>4, <1>5, <1>6, <1>7, <1>8, <1>9, <1>10 DEF Acts

\* A destroyer stays alone: calls begin only on an instance that nobody has
\* taken over, and it takes over only one that nobody uses.
LEMMA AloneStep ==
    ASSUME LockInv, NEW t \in Threads, Acts(t)
    PROVE  Alone'
<1> USE DEF LockInv, TypeOK, Alone, Goto
<1>1. CASE CallLoad(t)
  BY <1>1 DEF CallLoad, Shared, Frame
<1>2. CASE CallSwap(t)
  <2>1. PICK kind \in {"store", "swap"}, v \in Smart :
            /\ Shared
            /\ Argument(v)
            /\ storage' = into_ptr(v)
            /\ loc' = [loc EXCEPT ![t] = Frame(kind, NULL, NULL, storage)]
            /\ Goto(t, "wr_lock")
    BY <1>2 DEF CallSwap
  <2>2. storage' # Dead
    BY <2>1, ArgumentType
  <2> QED
    BY <2>1, <2>2 DEF Shared, Frame
<1>3. CASE CallCas(t)
  BY <1>3 DEF CallCas, Shared, Frame
<1>4. CASE CallDestroy(t)
  BY <1>4 DEF CallDestroy, Frame
<1>5. CASE CallNew(t)
  BY <1>5 DEF CallNew
<1>6. CASE CallUser(t)
  BY <1>6 DEF CallUser
<1>7. CASE LoadLock(t) \/ LoadInc(t) \/ WaitLock(t) \/ CasLock(t) \/ CasInc(t)
  BY <1>7 DEF LoadLock, LoadInc, WaitLock, CasLock, CasInc
<1>8. CASE LoadPtr(t)
  BY <1>8 DEF LoadPtr, Frame
<1>9. CASE LoadUnlock(t) \/ CasUnlock(t)
  BY <1>9 DEF LoadUnlock, CasUnlock, Returns, Idle, Frame
<1>10. CASE WaitUnlock(t)
  <2>1. CASE Returns(t, from_ptr(loc[t].ptr))
    BY <1>10, <2>1 DEF WaitUnlock, Returns, Idle, Frame
  <2>2. CASE Goto(t, "old_dec") /\ UNCHANGED <<storage, held, loc>>
    BY <1>10, <2>2 DEF WaitUnlock
  <2> QED
    BY <1>10, <2>1, <2>2 DEF WaitUnlock
<1>11. CASE OldDec(t)
  BY <1>11 DEF OldDec, Idle, Frame
<1>12. CASE CasExchange(t)
  <2>1. storage' # Dead
    BY <1>12, LockAssumption DEF CasExchange
  <2>2. loc'[t].kind = "cas" /\ at'[t] \in {"cas_inc", "cas_unlock"}
    BY <1>12 DEF CasExchange, Frame
  <2>3. \A u \in Threads : u # t => at'[u] = at[u] /\ loc'[u] = loc[u]
    BY <1>12 DEF CasExchange
  <2>4. \A u \in Threads : u # t => loc[u].kind \notin {"drop", "into_inner"}
    BY <1>12 DEF CasExchange
  <2> QED
    BY <2>1, <2>2, <2>3, <2>4
<1>13. CASE CasDropNew(t)
  BY <1>13 DEF CasDropNew, Frame
<1> QED
  BY <1>1, <1>2, <1>3, <1>4, <1>5, <1>6, <1>7, <1>8, <1>9, <1>10, <1>11, <1>12, <1>13 DEF Acts

\* The pins.  A swap turns the storage's pin into that of the writer; the writer
\* gives it up only where the lock shows that nobody needs it.
LEMMA PinnedStep ==
    ASSUME LockInv, NEW t \in Threads, Acts(t)
    PROVE  PointersPinned'
<1> USE DEF LockInv, TypeOK, PointersPinned, Goto
<1>1. CASE CallLoad(t)
  BY <1>1 DEF CallLoad, Invoke
<1>2. CASE CallSwap(t)
  <2>1. PICK kind \in {"store", "swap"} :
            /\ at[t] = "idle"
            /\ loc' = [loc EXCEPT ![t] = Frame(kind, NULL, NULL, storage)]
            /\ Goto(t, "wr_lock")
    BY <1>2 DEF CallSwap, Invoke
  <2>2. at'[t] = "wr_lock" /\ loc'[t].ptr = storage
    BY <2>1 DEF Frame
  <2>3. \A u \in Threads : u # t => at'[u] = at[u] /\ loc'[u] = loc[u]
    BY <2>1
  <2> QED
    BY <2>1, <2>2, <2>3
<1>3. CASE CallCas(t)
  BY <1>3 DEF CallCas, Invoke
<1>4. CASE CallDestroy(t)
  BY <1>4 DEF CallDestroy
<1>5. CASE CallNew(t)
  BY <1>5 DEF CallNew, Alone
<1>6. CASE CallUser(t)
  BY <1>6 DEF CallUser
<1>7. CASE LoadLock(t) \/ LoadInc(t) \/ CasLock(t) \/ CasInc(t)
  BY <1>7 DEF LoadLock, LoadInc, CasLock, CasInc
<1>8. CASE LoadPtr(t)
  BY <1>8 DEF LoadPtr, Frame
<1>9. CASE LoadUnlock(t) \/ CasUnlock(t)
  <2>1. UNCHANGED storage /\ at[t] # "wr_lock" /\ at' = [at EXCEPT ![t] = "idle"]
    BY <1>9 DEF LoadUnlock, CasUnlock, Returns
  <2>2. \A u \in Threads : u # t => at'[u] = at[u] /\ loc'[u] = loc[u]
    BY <1>9 DEF LoadUnlock, CasUnlock, Returns
  <2>3. at'[t] = "idle"
    BY <2>1
  <2> QED
    BY <2>1, <2>2, <2>3
<1>10. CASE WaitLock(t)
  <2>1. \A u \in Threads : at[u] \notin {"rd_inc", "cas_inc"}
    BY <1>10, LockAssumption DEF WaitLock, AcquireWrite, Locked, HoldsRead, HoldsWrite
  <2> QED
    BY <1>10, <2>1 DEF WaitLock
<1>11. CASE WaitUnlock(t)
  <2>1. CASE storage' = storage
    BY <1>11, <2>1 DEF WaitUnlock, Returns
  <2>2. CASE loc[t].kind = "into_inner"
    BY <1>11, <2>2 DEF WaitUnlock, Returns, Alone
  <2> QED
    BY <1>11, <2>1, <2>2 DEF WaitUnlock
<1>12. CASE OldDec(t)
  <2>1. CASE storage' = storage
    BY <1>12, <2>1 DEF OldDec
  <2>2. CASE loc[t].kind = "drop"
    BY <1>12, <2>2 DEF OldDec, Alone
  <2> QED
    BY <1>12, <2>1, <2>2 DEF OldDec
<1>13. CASE CasExchange(t)
  <2>1. \A u \in Threads : u # t => at[u] \notin {"rd_inc", "cas_inc"}
    BY <1>13, LockAssumption DEF CasExchange, Locked, HoldsRead, HoldsWrite
  <2>2. \A u \in Threads : u # t => at'[u] = at[u]
    BY <1>13 DEF CasExchange
  <2>3. at'[t] = "cas_inc" => storage' = storage /\ loc'[t].ptr = storage
    BY <1>13 DEF CasExchange, Frame
  <2>4. \A u \in Threads : at'[u] \in {"rd_inc", "cas_inc"} => u = t /\ at'[u] = "cas_inc"
    <3>1. at'[t] \in {"cas_inc", "cas_unlock"}
      BY <1>13 DEF CasExchange
    <3> QED
      BY <2>1, <2>2, <3>1
  <2> QED
    BY <2>3, <2>4
<1>14. CASE CasDropNew(t)
  BY <1>14 DEF CasDropNew
<1> QED
  BY <1>1, <1>2, <1>3, <1>4, <1>5, <1>6, <1>7, <1>8, <1>9, <1>10, <1>11, <1>12, <1>13, <1>14
     DEF Acts

\* The invariant is inductive.
LEMMA NextLock == LockInv /\ [Next]_vars => LockInv'
<1> SUFFICES ASSUME LockInv, [Next]_vars PROVE LockInv'
  OBVIOUS
<1>1. CASE UNCHANGED vars
  BY <1>1 DEF vars, LockInv, TypeOK, Locked, HoldsRead, HoldsWrite, Alone, PointersPinned
<1>2. ASSUME NEW t \in Threads, Call(t) \/ Step(t) PROVE LockInv'
  <2>1. Acts(t)
    BY <1>2 DEF Call, Step, Inside, fixed, Acts
  <2> QED
    BY <2>1, TypeStep, LockedStep, AloneStep, PinnedStep DEF LockInv
<1> QED
  BY <1>1, <1>2 DEF Next, Done

\* The strategy keeps to its types, and an instance that is gone is not read.
THEOREM TypesKept == Spec => []TypeOK
<1>1. LockInv => TypeOK
  BY DEF LockInv
<1> QED
  BY <1>1, InitLock, NextLock, PTL DEF Spec

\* load and a failed compare_and_swap never bump the count of an Arc that a swap
\* has let go of: swap works outside of the lock, but it gets through
\* wait_for_readers only when everybody who may have the old pointer is out.
THEOREM PointersArePinned == Spec => []PointersPinned
<1>1. LockInv => PointersPinned
  BY DEF LockInv
<1> QED
  BY <1>1, InitLock, NextLock, PTL DEF Spec

-----------------------------------------------------------------------------
(* The reference counts, and the refinement of the Cell.                   *)

\* What a call has in its locals at each point; one that destroys the instance
\* has the pointer that is still in the storage.
Frames ==
    \A t \in Threads :
        /\ at[t] = "idle" => loc[t] = Idle
        /\ at[t] \in {"rd_lock", "rd_ptr", "rd_inc", "rd_unlock"} =>
              loc[t].kind = "load" /\ loc[t].new = NULL
        /\ at[t] \in {"wr_lock", "wr_unlock"} =>
              loc[t].kind \in {"store", "swap", "drop", "into_inner"} /\ loc[t].new = NULL
        /\ at[t] = "old_dec" => loc[t].kind \in {"store", "drop"} /\ loc[t].new = NULL
        /\ at[t] \in {"cas_lock", "cas_x", "cas_inc", "cas_drop", "cas_unlock"} =>
              loc[t].kind = "cas"
        /\ at[t] = "cas_unlock" => loc[t].new = NULL
        /\ loc[t].kind \in {"drop", "into_inner"} => loc[t].ptr = storage /\ storage # Dead

\* What users hold, counted.
UserCounts == held \in [Addrs -> Nat] /\ arcs \in [Addrs -> Nat] /\ stamp \in [Addrs -> Nat]

\* The inductive invariant of the counts.
CountInv == LockInv /\ Frames /\ UserCounts /\ RefsExact

-----------------------------------------------------------------------------
\* How a step of one thread changes what there is in calls.
LEMMA OneFrame ==
    ASSUME CountInv, NEW t \in Threads, NEW a \in Addrs,
           \A u \in Threads : u # t => loc'[u] = loc[u] /\ at'[u] = at[u]
    PROVE  /\ Cardinality(ArgumentsOn(a)) \in Nat /\ Cardinality(PtrsOn(a)) \in Nat
           /\ Cardinality(ArgumentsOn(a)') = Cardinality(ArgumentsOn(a))
                - One(loc[t].new = a) + One(loc'[t].new = a)
           /\ Cardinality(PtrsOn(a)') = Cardinality(PtrsOn(a))
                - One(PtrCounted(t) /\ loc[t].ptr = a) + One(PtrCounted(t)' /\ loc'[t].ptr = a)
<1>1. IsFiniteSet(ArgumentsOn(a)) /\ IsFiniteSet(PtrsOn(a))
  BY LockAssumption, FS_Subset DEF ArgumentsOn, PtrsOn
<1>2. /\ ArgumentsOn(a) \ {t} = ArgumentsOn(a)' \ {t}
      /\ PtrsOn(a) \ {t} = PtrsOn(a)' \ {t}
  BY DEF ArgumentsOn, PtrsOn, PtrCounted
<1>3. /\ t \in ArgumentsOn(a) <=> loc[t].new = a
      /\ t \in ArgumentsOn(a)' <=> loc'[t].new = a
      /\ t \in PtrsOn(a) <=> PtrCounted(t) /\ loc[t].ptr = a
      /\ t \in PtrsOn(a)' <=> PtrCounted(t)' /\ loc'[t].ptr = a
  BY DEF ArgumentsOn, PtrsOn
<1>4. Cardinality(ArgumentsOn(a)) \in Nat
      /\ Cardinality(ArgumentsOn(a)') = Cardinality(ArgumentsOn(a))
                - One(loc[t].new = a) + One(loc'[t].new = a)
  BY <1>1, <1>2, <1>3, CardinalityChange DEF One
<1>5. Cardinality(PtrsOn(a)) \in Nat
      /\ Cardinality(PtrsOn(a)') = Cardinality(PtrsOn(a))
                - One(PtrCounted(t) /\ loc[t].ptr = a) + One(PtrCounted(t)' /\ loc'[t].ptr = a)
  BY <1>1, <1>2, <1>3, CardinalityChange DEF One
<1> QED
  BY <1>4, <1>5

\* The count stays exact if it changes by what the step does to the references.
LEMMA RefsBalance ==
    ASSUME CountInv, NEW t \in Threads, NEW a \in Addrs,
           \A u \in Threads : u # t => loc'[u] = loc[u] /\ at'[u] = at[u],
           held'[a] \in Int,
           refs'[a] = refs[a]
                + One(storage' = a) - One(storage = a)
                + held'[a] - held[a]
                + One(loc'[t].new = a) - One(loc[t].new = a)
                + One(PtrCounted(t)' /\ loc'[t].ptr = a) - One(PtrCounted(t) /\ loc[t].ptr = a)
    PROVE  refs'[a] = One(storage' = a) + held'[a]
                      + Cardinality(ArgumentsOn(a)') + Cardinality(PtrsOn(a)')
<1>1. held[a] \in Int /\ refs[a] \in Int
  BY DEF CountInv, LockInv, TypeOK
<1>2. refs[a] = One(storage = a) + held[a] + Cardinality(ArgumentsOn(a)) + Cardinality(PtrsOn(a))
  BY DEF CountInv, RefsExact
<1> QED
  BY <1>1, <1>2, OneFrame DEF One

\* A step changes the locals of one thread.
LEMMA OnlyOne ==
    ASSUME LockInv, NEW t \in Threads, Acts(t)
    PROVE  \A u \in Threads : u # t => loc'[u] = loc[u] /\ at'[u] = at[u]
BY DEF LockInv, TypeOK, Acts, CallLoad, CallSwap, CallCas, CallDestroy, CallNew, CallUser,
       LoadLock, LoadPtr, LoadInc, LoadUnlock, WaitLock, WaitUnlock, OldDec, CasLock, CasExchange,
       CasInc, CasDropNew, CasUnlock, Returns, Goto

\* The locals at each point of the calls.
LEMMA FramesStep ==
    ASSUME CountInv, NEW t \in Threads, Acts(t)
    PROVE  Frames'
<1> USE DEF CountInv, LockInv, TypeOK, Goto
<1>0. \A u \in Threads : u # t => loc'[u] = loc[u] /\ at'[u] = at[u]
  BY OnlyOne
<1> DEFINE F(u) ==
        /\ at'[u] = "idle" => loc'[u] = Idle
        /\ at'[u] \in {"rd_lock", "rd_ptr", "rd_inc", "rd_unlock"} =>
              loc'[u].kind = "load" /\ loc'[u].new = NULL
        /\ at'[u] \in {"wr_lock", "wr_unlock"} =>
              loc'[u].kind \in {"store", "swap", "drop", "into_inner"} /\ loc'[u].new = NULL
        /\ at'[u] = "old_dec" => loc'[u].kind \in {"store", "drop"} /\ loc'[u].new = NULL
        /\ at'[u] \in {"cas_lock", "cas_x", "cas_inc", "cas_drop", "cas_unlock"} =>
              loc'[u].kind = "cas"
        /\ at'[u] = "cas_unlock" => loc'[u].new = NULL
        /\ loc'[u].kind \in {"drop", "into_inner"} => loc'[u].ptr = storage' /\ storage' # Dead
<1>1. ASSUME NEW u \in Threads, u # t
      PROVE  F(u)
  <2>1. loc[u].kind \in {"drop", "into_inner"} => storage' = storage
    <3>1. CASE CallSwap(t) \/ CallNew(t)
      BY <1>1, <3>1 DEF CallSwap, CallNew, Shared, Frames
    <3>2. CASE CasExchange(t) \/ WaitUnlock(t) \/ OldDec(t)
      BY <1>1, <3>2 DEF CasExchange, WaitUnlock, OldDec, Alone
    <3> QED
      BY <3>1, <3>2 DEF Acts, CallLoad, CallCas, CallDestroy, CallUser, LoadLock, LoadPtr, LoadInc,
                        LoadUnlock, WaitLock, CasLock, CasInc, CasDropNew, CasUnlock
  <2> QED
    BY <1>0, <1>1, <2>1 DEF Frames
<1>2. F(t)
  <2>1. CASE CallLoad(t)
    BY <2>1 DEF CallLoad, Frame
  <2>2. CASE CallSwap(t)
    BY <2>2 DEF CallSwap, Frame
  <2>3. CASE CallCas(t)
    BY <2>3 DEF CallCas, Frame
  <2>4. CASE CallDestroy(t)
    BY <2>4 DEF CallDestroy, Frame
  <2>5. CASE CallNew(t)
    BY <2>5 DEF CallNew, Frames, Invoke, Idle, Frame
  <2>6. CASE CallUser(t)
    BY <2>6 DEF CallUser, Frames, Idle, Frame
  <2>7. CASE LoadLock(t) \/ LoadPtr(t) \/ LoadInc(t)
    BY <2>7 DEF LoadLock, LoadPtr, LoadInc, Frames, Frame
  <2>8. CASE LoadUnlock(t) \/ CasUnlock(t) \/ OldDec(t)
    BY <2>8 DEF LoadUnlock, CasUnlock, OldDec, Returns, Idle, Frame
  <2>9. CASE WaitLock(t)
    BY <2>9 DEF WaitLock, Frames
  <2>10. CASE WaitUnlock(t)
    <3>1. CASE Returns(t, from_ptr(loc[t].ptr))
      BY <3>1 DEF Returns, Idle, Frame
    <3>2. CASE loc[t].kind \in {"store", "drop"} /\ Goto(t, "old_dec") /\ UNCHANGED <<storage, loc>>
      BY <2>10, <3>2 DEF WaitUnlock, Frames
    <3> QED
      BY <2>10, <3>1, <3>2 DEF WaitUnlock
  <2>11. CASE CasLock(t) \/ CasInc(t)
    BY <2>11 DEF CasLock, CasInc, Frames
  <2>12. CASE CasExchange(t)
    BY <2>12 DEF CasExchange, Frame
  <2>13. CASE CasDropNew(t)
    BY <2>13 DEF CasDropNew, Frame
  <2> QED
    BY <2>1, <2>2, <2>3, <2>4, <2>5, <2>6, <2>7, <2>8, <2>9, <2>10, <2>11, <2>12, <2>13 DEF Acts
<1>3. \A u \in Threads : F(u)
  BY <1>1, <1>2
<1> QED
  BY <1>3 DEF Frames

\* Users give back only what they hold.
LEMMA UserCountsStep ==
    ASSUME CountInv, NEW t \in Threads, Acts(t),
           Call(t) \/ UNCHANGED stamp
    PROVE  UserCounts'
<1> USE DEF CountInv, UserCounts
<1>1. \A p : \A counts \in [Addrs -> Nat] : Inc(counts, p) \in [Addrs -> Nat]
  BY DEF Inc
<1>2. \A counts \in [Addrs -> Nat], a \in Addrs : counts[a] > 0 => Dec(counts, a) \in [Addrs -> Nat]
  BY DEF Dec
<1>3. \A a \in Addrs : [stamp EXCEPT ![a] = @ + 1] \in [Addrs -> Nat]
  OBVIOUS
<1>4. stamp' \in [Addrs -> Nat]
  BY <1>3 DEF Call, CallLoad, CallSwap, CallCas, CallDestroy, CallNew, CallUser, Argument
<1>5. CASE CallUser(t)
  BY <1>1, <1>2, <1>4, <1>5 DEF CallUser
<1>6. CASE UNCHANGED arcs /\ (UNCHANGED held \/ \E v : held' = Inc(held, v))
  BY <1>1, <1>4, <1>6
<1> QED
  BY <1>5, <1>6 DEF Acts, CallLoad, CallSwap, CallCas, CallDestroy, CallNew,
       LoadLock, LoadPtr, LoadInc, LoadUnlock, WaitLock, WaitUnlock, OldDec, CasLock, CasExchange,
       CasInc, CasDropNew, CasUnlock, Returns, users

\* An argument brings one reference to what it points to.
LEMMA ArgumentCounts ==
    ASSUME CountInv, NEW v \in Smart, Argument(v), NEW a \in Addrs
    PROVE  refs'[a] = refs[a] + One(into_ptr(v) = a)
BY LockAssumption DEF CountInv, LockInv, TypeOK, Argument, Inc, into_ptr, Smart, One

\* Each step changes the count by what it does to the references.
LEMMA RefsStep ==
    ASSUME CountInv, NEW t \in Threads, Acts(t)
    PROVE  RefsExact'
<1> USE DEF CountInv, LockInv
<1>0. /\ \A u \in Threads : u # t => loc'[u] = loc[u] /\ at'[u] = at[u]
      /\ NULL \notin Addrs /\ Empty \notin Addrs /\ Dead \notin Addrs
  BY OnlyOne, LockAssumption DEF Raw
<1> SUFFICES ASSUME NEW a \in Addrs
             PROVE  refs'[a] = One(storage' = a) + held'[a]
                               + Cardinality(ArgumentsOn(a)') + Cardinality(PtrsOn(a)')
  BY DEF RefsExact
<1> DEFINE new == One(loc[t].new = a)
           ptr == One(PtrCounted(t) /\ loc[t].ptr = a)
<1>1. /\ refs[a] \in Int /\ held[a] \in Int /\ held'[a] \in Int
      /\ at[t] = "idle" => /\ loc[t].kind = "none" /\ loc[t].new = NULL /\ loc[t].ptr = NULL
                           /\ new = 0 /\ ptr = 0
  BY <1>0, TypeStep DEF TypeOK, Frames, Idle, Frame, One, PtrCounted
<1>2. CASE CallLoad(t)
  <2>1. loc'[t] = Frame("load", NULL, NULL, NULL) /\ at[t] = "idle"
    BY <1>2 DEF CallLoad, TypeOK, Invoke
  <2>2. One(loc'[t].new = a) = 0 /\ One(PtrCounted(t)' /\ loc'[t].ptr = a) = 0
    BY <1>0, <2>1 DEF Frame, One
  <2>3. refs' = refs /\ storage' = storage /\ held' = held
    BY <1>2 DEF CallLoad, users
  <2> QED
    BY <1>0, <1>1, <2>1, <2>2, <2>3, RefsBalance DEF One
<1>3. CASE CallSwap(t)
  <2>1. PICK kind \in {"store", "swap"}, v \in Smart :
          /\ Argument(v) /\ storage' = into_ptr(v)
          /\ loc' = [loc EXCEPT ![t] = Frame(kind, NULL, NULL, storage)]
          /\ at[t] = "idle" /\ held' = held
    BY <1>3 DEF CallSwap, Invoke, users
  <2>2. loc'[t] = Frame(kind, NULL, NULL, storage)
    BY <2>1 DEF TypeOK
  <2>3. One(loc'[t].new = a) = 0 /\ One(PtrCounted(t)' /\ loc'[t].ptr = a) = One(storage = a)
    BY <1>0, <2>2 DEF Frame, One, PtrCounted
  <2>4. refs'[a] = refs[a] + One(storage' = a)
    BY <2>1, ArgumentCounts
  <2> QED
    BY <1>0, <1>1, <2>1, <2>3, <2>4, RefsBalance DEF One
<1>4. CASE CallCas(t)
  <2>1. PICK v \in Smart, current \in Smart \cup Raw :
          /\ Argument(v)
          /\ loc' = [loc EXCEPT ![t] = Frame("cas", into_ptr(v), as_raw(current), NULL)]
          /\ at[t] = "idle" /\ storage' = storage /\ held' = held
    BY <1>4 DEF CallCas, Invoke, users
  <2>2. loc'[t] = Frame("cas", into_ptr(v), as_raw(current), NULL)
    BY <2>1 DEF TypeOK
  <2>3. One(loc'[t].new = a) = One(into_ptr(v) = a) /\ One(PtrCounted(t)' /\ loc'[t].ptr = a) = 0
    BY <1>0, <2>2 DEF Frame, One
  <2>4. refs'[a] = refs[a] + One(into_ptr(v) = a)
    BY <2>1, ArgumentCounts
  <2> QED
    BY <1>0, <1>1, <2>1, <2>3, <2>4, RefsBalance DEF One
<1>5. CASE CallDestroy(t)
  <2>1. PICK kind \in {"drop", "into_inner"} :
          /\ loc' = [loc EXCEPT ![t] = Frame(kind, NULL, NULL, storage)]
          /\ Goto(t, "wr_lock")
          /\ at[t] = "idle" /\ storage' = storage /\ held' = held /\ refs' = refs
    BY <1>5 DEF CallDestroy, Invoke, users
  <2>2. loc'[t] = Frame(kind, NULL, NULL, storage) /\ at'[t] = "wr_lock"
    BY <2>1 DEF TypeOK, Goto
  <2>3. One(loc'[t].new = a) = 0 /\ One(PtrCounted(t)' /\ loc'[t].ptr = a) = 0
    BY <1>0, <2>2 DEF Frame, One, PtrCounted
  <2> QED
    BY <1>0, <1>1, <2>1, <2>3, RefsBalance DEF One
<1>6. CASE CallNew(t)
  <2>1. PICK v \in Smart :
          /\ Argument(v) /\ storage = Dead /\ storage' = into_ptr(v)
          /\ at' = at /\ loc' = loc /\ at[t] = "idle" /\ held' = held
    BY <1>6 DEF CallNew, Invoke, users
  <2>2. refs'[a] = refs[a] + One(storage' = a)
    BY <2>1, ArgumentCounts
  <2>3. One(storage = a) = 0
    BY <1>0, <2>1 DEF One
  <2>4. One(loc'[t].new = a) = new /\ One(PtrCounted(t)' /\ loc'[t].ptr = a) = ptr
    BY <2>1 DEF PtrCounted
  <2> QED
    BY <1>0, <1>1, <2>1, <2>2, <2>3, <2>4, RefsBalance DEF One
<1>7. CASE CallUser(t)
  <2>1. refs'[a] - refs[a] = held'[a] - held[a] /\ refs'[a] \in Int
    BY <1>7, <1>1 DEF CallUser, Dec, TypeOK
  <2>2. storage' = storage /\ at' = at /\ loc' = loc
    BY <1>7 DEF CallUser
  <2>3. One(loc'[t].new = a) = new /\ One(PtrCounted(t)' /\ loc'[t].ptr = a) = ptr
    BY <2>2 DEF PtrCounted
  <2> QED
    BY <1>0, <1>1, <2>1, <2>2, <2>3, RefsBalance DEF One
<1>8. CASE LoadLock(t) \/ WaitLock(t) \/ CasLock(t)
  <2>1. refs' = refs /\ storage' = storage /\ held' = held /\ loc' = loc
    BY <1>8 DEF LoadLock, WaitLock, CasLock, users
  <2>2. PtrCounted(t)' <=> PtrCounted(t)
    BY <1>8, <2>1 DEF LoadLock, WaitLock, CasLock, PtrCounted, Goto, TypeOK
  <2> QED
    BY <1>0, <1>1, <2>1, <2>2, RefsBalance DEF One
<1>9. CASE LoadPtr(t)
  <2>1. /\ refs' = refs /\ storage' = storage /\ held' = held
        /\ loc'[t] = Frame("load", NULL, NULL, storage)
        /\ at[t] = "rd_ptr" /\ at'[t] = "rd_inc"
    BY <1>9 DEF LoadPtr, users, Goto, TypeOK
  <2>2. loc[t].kind = "load" /\ loc[t].new = NULL
    BY <2>1 DEF Frames
  <2>3. ~PtrCounted(t) /\ ~PtrCounted(t)' /\ loc'[t].new = NULL
    BY <2>1, <2>2 DEF PtrCounted, Frame
  <2> QED
    BY <1>0, <1>1, <2>1, <2>2, <2>3, RefsBalance DEF One
<1>10. CASE LoadInc(t) \/ CasInc(t)
  <2>1. /\ refs' = Inc(refs, loc[t].ptr) /\ storage' = storage /\ held' = held /\ loc' = loc
        /\ \/ at[t] = "rd_inc" /\ at'[t] = "rd_unlock"
           \/ at[t] = "cas_inc" /\ at'[t] = "cas_drop"
    BY <1>10 DEF LoadInc, CasInc, users, Goto, TypeOK
  <2>2. ~PtrCounted(t) /\ PtrCounted(t)'
    BY <2>1 DEF PtrCounted, Frames
  <2>3. refs'[a] = refs[a] + One(loc[t].ptr = a)
    BY <1>1, <2>1 DEF Inc, One
  <2> QED
    BY <1>0, <1>1, <2>1, <2>2, <2>3, RefsBalance DEF One
<1>11. CASE LoadUnlock(t) \/ CasUnlock(t)
  <2>1. /\ refs' = refs /\ storage' = storage /\ Returns(t, from_ptr(loc[t].ptr))
        /\ at[t] \in {"rd_unlock", "cas_unlock"}
    BY <1>11 DEF LoadUnlock, CasUnlock
  <2>2. /\ loc'[t] = Frame("none", NULL, NULL, NULL) /\ at'[t] = "idle"
        /\ held'[a] = held[a] + One(loc[t].ptr = a)
    BY <1>0, <1>1, <2>1 DEF Returns, TypeOK, Goto, Idle, Inc, from_ptr, One
  <2>3. PtrCounted(t) /\ ~PtrCounted(t)' /\ loc'[t].new = NULL /\ loc[t].new = NULL
    BY <2>1, <2>2 DEF PtrCounted, Frame, Frames
  <2> QED
    BY <1>0, <1>1, <2>1, <2>2, <2>3, RefsBalance DEF One
<1>12. CASE WaitUnlock(t)
  <2>1. at[t] = "wr_unlock" /\ refs' = refs /\ loc[t].new = NULL
    BY <1>12 DEF WaitUnlock, Frames
  <2>2. CASE /\ loc[t].kind \in {"swap", "into_inner"}
             /\ Returns(t, from_ptr(loc[t].ptr))
             /\ storage' = IF loc[t].kind = "into_inner" THEN Dead ELSE storage
    <3>1. /\ loc'[t] = Frame("none", NULL, NULL, NULL) /\ at'[t] = "idle"
          /\ held'[a] = held[a] + One(loc[t].ptr = a)
      BY <1>0, <1>1, <2>2 DEF Returns, TypeOK, Goto, Idle, Inc, from_ptr, One
    <3>2. ~PtrCounted(t)' /\ loc'[t].new = NULL
      BY <3>1 DEF PtrCounted, Frame
    <3>3. PtrCounted(t) <=> loc[t].kind = "swap"
      BY <2>1, <2>2 DEF PtrCounted
    <3>4. loc[t].kind = "into_inner" => loc[t].ptr = storage
      BY DEF Frames
    <3> QED
      BY <1>0, <1>1, <2>1, <2>2, <3>1, <3>2, <3>3, <3>4, RefsBalance DEF One
  <2>3. CASE /\ loc[t].kind \in {"store", "drop"} /\ Goto(t, "old_dec")
             /\ UNCHANGED <<storage, held, loc>>
    <3>1. PtrCounted(t)' <=> PtrCounted(t)
      BY <2>1, <2>3 DEF PtrCounted, Goto, TypeOK
    <3> QED
      BY <1>0, <1>1, <2>1, <2>3, <3>1, RefsBalance DEF One
  <2> QED
    BY <1>12, <2>2, <2>3 DEF WaitUnlock
<1>13. CASE OldDec(t)
  <2>1. /\ refs' = Dec(refs, loc[t].ptr) /\ held' = held
        /\ storage' = IF loc[t].kind = "drop" THEN Dead ELSE storage
        /\ loc'[t] = Frame("none", NULL, NULL, NULL)
        /\ at[t] = "old_dec" /\ at'[t] = "idle"
    BY <1>13 DEF OldDec, users, Goto, TypeOK, Idle
  <2>2. /\ loc[t].new = NULL /\ loc[t].kind \in {"store", "drop"}
        /\ loc[t].kind = "drop" => loc[t].ptr = storage
    BY <2>1 DEF Frames
  <2>3. loc'[t].new = NULL /\ ~PtrCounted(t)' /\ (PtrCounted(t) <=> loc[t].kind = "store")
    BY <2>1, <2>2 DEF PtrCounted, Frame
  <2>4. refs'[a] = refs[a] - One(loc[t].ptr = a)
    BY <1>1, <2>1 DEF Dec, One
  <2> QED
    BY <1>0, <1>1, <2>1, <2>2, <2>3, <2>4, RefsBalance DEF One
<1>14. CASE CasExchange(t)
  <2>1. at[t] = "cas_x" /\ refs' = refs /\ held' = held /\ loc[t].kind = "cas"
    BY <1>14 DEF CasExchange, users, Frames
  <2>2. ~PtrCounted(t)
    BY <2>1 DEF PtrCounted
  <2>3. CASE /\ storage' = loc[t].new
             /\ loc' = [loc EXCEPT ![t] = Frame("cas", NULL, loc[t].cur, storage)]
             /\ Goto(t, "cas_unlock")
    <3>1. PtrCounted(t)' /\ loc'[t].ptr = storage /\ loc'[t].new = NULL
      BY <2>3 DEF PtrCounted, Frame, Goto, TypeOK
    <3> QED
      BY <1>0, <1>1, <2>1, <2>2, <2>3, <3>1, RefsBalance DEF One
  <2>4. CASE /\ loc' = [loc EXCEPT ![t] = Frame("cas", loc[t].new, loc[t].cur, storage)]
             /\ Goto(t, "cas_inc")
             /\ UNCHANGED storage
    <3>1. ~PtrCounted(t)' /\ loc'[t].new = loc[t].new
      BY <2>4 DEF PtrCounted, Frame, Goto, TypeOK
    <3> QED
      BY <1>0, <1>1, <2>1, <2>2, <2>4, <3>1, RefsBalance DEF One
  <2> QED
    BY <1>14, <2>3, <2>4 DEF CasExchange
<1>15. CASE CasDropNew(t)
  <2>1. /\ refs' = Dec(refs, loc[t].new) /\ storage' = storage /\ held' = held
        /\ loc'[t] = Frame("cas", NULL, loc[t].cur, loc[t].ptr)
        /\ at[t] = "cas_drop" /\ at'[t] = "cas_unlock"
    BY <1>15 DEF CasDropNew, users, Goto, TypeOK
  <2>2. PtrCounted(t) /\ PtrCounted(t)' /\ loc'[t].new = NULL /\ loc'[t].ptr = loc[t].ptr
    BY <2>1 DEF PtrCounted, Frame
  <2>3. refs'[a] = refs[a] - One(loc[t].new = a)
    BY <1>1, <2>1 DEF Dec, One
  <2> QED
    BY <1>0, <1>1, <2>1, <2>2, <2>3, RefsBalance DEF One
<1> QED
  BY <1>2, <1>3, <1>4, <1>5, <1>6, <1>7, <1>8, <1>9, <1>10, <1>11, <1>12, <1>13, <1>14, <1>15
     DEF Acts

\* One reference, that of the storage.
LEMMA InitCount == Init => CountInv
<1> SUFFICES ASSUME Init PROVE CountInv
  OBVIOUS
<1>1. LockInv
  BY InitLock
<1>2. Frames
  BY DEF Init, Frames, Idle, Frame
<1>3. UserCounts
  BY DEF Init, UserCounts
<1>4. RefsExact
  <2> SUFFICES ASSUME NEW a \in Addrs
               PROVE  refs[a] = One(storage = a) + held[a]
                                + Cardinality(ArgumentsOn(a)) + Cardinality(PtrsOn(a))
    BY DEF RefsExact
  <2>1. ArgumentsOn(a) = {} /\ PtrsOn(a) = {}
    BY LockAssumption DEF ArgumentsOn, PtrsOn, PtrCounted, Init, Idle, Frame
  <2>2. Cardinality(ArgumentsOn(a)) = 0 /\ Cardinality(PtrsOn(a)) = 0
    BY <2>1, FS_EmptySet
  <2> QED
    BY <2>2 DEF Init, One
<1> QED
  BY <1>1, <1>2, <1>3, <1>4 DEF CountInv

\* A step of the system is an act of one thread or changes nothing.
LEMMA NextActs ==
    ASSUME [Next]_vars
    PROVE  UNCHANGED vars \/ \E t \in Threads : Acts(t) /\ (Call(t) \/ UNCHANGED stamp)
BY DEF Next, Done, Call, Step, Inside, fixed, Acts

\* The invariant is inductive.
LEMMA NextCount == CountInv /\ [Next]_vars => CountInv'
<1> SUFFICES ASSUME CountInv, [Next]_vars PROVE CountInv'
  OBVIOUS
<1>1. LockInv'
  BY NextLock DEF CountInv
<1>2. CASE UNCHANGED vars
  BY <1>1, <1>2 DEF CountInv, vars, Frames, UserCounts, RefsExact, ArgumentsOn, PtrsOn, PtrCounted
<1>3. ASSUME NEW t \in Threads, Acts(t), Call(t) \/ UNCHANGED stamp
      PROVE  CountInv'
  BY <1>1, <1>3, FramesStep, UserCountsStep, RefsStep DEF CountInv
<1> QED
  BY <1>2, <1>3, NextActs

\* The reference counts are exact in every reachable state, for Arc, Option and
\* Weak: load, swap, compare_and_swap, Drop and into_inner neither leak a
\* reference nor give one back twice, whatever runs next to them.
THEOREM RefsAreExact == Spec => []RefsExact
<1>1. CountInv => RefsExact
  BY DEF CountInv
<1> QED
  BY <1>1, InitCount, NextCount, PTL DEF Spec

-----------------------------------------------------------------------------
(* The refinement.  What the Cell sees of a state, as functions of its parts. *)

\* A value, of a pointer.
Val(st, p) == IF p \in Addrs THEN <<p, st[p]>> ELSE <<p, 0>>

\* The call of a thread at a label, with its locals and what it has seen.
Open == {"rd_lock", "rd_ptr", "cas_lock", "cas_x"}
CallRec(label, f, st, sn) ==
    IF label = "idle"
    THEN [kind |-> f.kind, s |-> NoInstance, phase |-> "none", seen |-> {},
          arg |-> <<NULL, 0>>, base |-> <<NULL, 0>>, res |-> <<NULL, 0>>]
    ELSE IF label \in Open
    THEN [kind |-> f.kind, s |-> Instance, phase |-> IF f.kind = "cas" THEN "ready" ELSE "open",
          seen |-> sn, arg |-> Val(st, f.new), base |-> <<f.cur, 0>>, res |-> <<NULL, 0>>]
    ELSE [kind |-> f.kind, s |-> Instance, phase |-> "done", seen |-> {},
          arg |-> <<NULL, 0>>, base |-> <<NULL, 0>>, res |-> Val(st, f.ptr)]

\* The bag of the values with a count.
HeldBag(st, count) ==
    [v \in {<<a, st[a]>> : a \in {a \in Addrs : count[a] > 0}} |-> count[v[1]]]
Count == [a \in Addrs |-> held[a] + arcs[a]]

\* The mapping in these terms, in a state and in the next one.
LEMMA Mapping ==
    /\ cellOf = [s \in {Instance} |-> Val(stamp, storage)]
    /\ cellOf' = [s \in {Instance} |-> Val(stamp', storage')]
    /\ heldOf = HeldBag(stamp, Count)
    /\ heldOf' = HeldBag(stamp', Count')
    /\ callOf = [t \in Threads |-> CallRec(at[t], loc[t], stamp, seen[t])]
    /\ callOf' = [t \in Threads |-> CallRec(at'[t], loc'[t], stamp', seen'[t])]
<1>1. cellOf = [s \in {Instance} |-> Val(stamp, storage)]
  BY DEF cellOf, Value, Val
<1>2. cellOf' = [s \in {Instance} |-> Val(stamp', storage')]
  BY DEF cellOf, Value, Val
<1>3. heldOf = HeldBag(stamp, Count)
  <2>1. \A a \in Addrs : Value(a) = <<a, stamp[a]>> /\ HeldCount(a) = Count[a]
    BY DEF Value, HeldCount, Count
  <2>2. {a \in Addrs : HeldCount(a) > 0} = {a \in Addrs : Count[a] > 0}
    BY <2>1
  <2>3. {Value(a) : a \in {a \in Addrs : HeldCount(a) > 0}}
            = {<<a, stamp[a]>> : a \in {a \in Addrs : Count[a] > 0}}
    BY <2>1, <2>2
  <2>4. \A v \in {<<a, stamp[a]>> : a \in {a \in Addrs : Count[a] > 0}} :
            HeldCount(v[1]) = Count[v[1]]
    BY <2>1
  <2> QED
    BY <2>3, <2>4 DEF heldOf, HeldBag
<1>4. heldOf' = HeldBag(stamp', Count')
  <2>1. \A a \in Addrs : Value(a)' = <<a, stamp'[a]>> /\ HeldCount(a)' = Count'[a]
    BY DEF Value, HeldCount, Count
  <2>2. {a \in Addrs : HeldCount(a)' > 0} = {a \in Addrs : Count'[a] > 0}
    BY <2>1
  <2>3. {Value(a)' : a \in {a \in Addrs : HeldCount(a)' > 0}}
            = {<<a, stamp'[a]>> : a \in {a \in Addrs : Count'[a] > 0}}
    BY <2>1, <2>2
  <2>4. \A v \in {<<a, stamp'[a]>> : a \in {a \in Addrs : Count'[a] > 0}} :
            HeldCount(v[1])' = Count'[v[1]]
    BY <2>1
  <2> QED
    BY <2>3, <2>4 DEF heldOf, HeldBag
<1>5. ASSUME NEW t \in Threads
      PROVE  CallOf(t) = CallRec(at[t], loc[t], stamp, seen[t])
  <2>1. Value(loc[t].new) = Val(stamp, loc[t].new) /\ Value(loc[t].ptr) = Val(stamp, loc[t].ptr)
    BY DEF Value, Val
  <2>2. Value(NULL) = <<NULL, 0>>
    BY LockAssumption DEF Value
  <2>3. CASE at[t] = "idle"
    BY <2>2, <2>3 DEF CallOf, CallRec
  <2>4. CASE at[t] # "idle" /\ at[t] \in Open
    <3>1. ~Decided(t)
      BY <2>4 DEF Decided, Reading, Open
    <3> QED
      BY <2>1, <2>2, <2>4, <3>1 DEF CallOf, CallRec
  <2>5. CASE at[t] # "idle" /\ at[t] \notin Open
    <3>1. Decided(t)
      BY <2>5 DEF Decided, Reading, Open
    <3> QED
      BY <2>1, <2>2, <2>5, <3>1 DEF CallOf, CallRec
  <2> QED
    BY <2>3, <2>4, <2>5
<1>6. ASSUME NEW t \in Threads
      PROVE  CallOf(t)' = CallRec(at'[t], loc'[t], stamp', seen'[t])
  <2>1. Value(loc[t].new)' = Val(stamp', loc'[t].new) /\ Value(loc[t].ptr)' = Val(stamp', loc'[t].ptr)
    BY DEF Value, Val
  <2>2. Value(NULL)' = <<NULL, 0>>
    BY LockAssumption DEF Value
  <2>3. CASE at'[t] = "idle"
    BY <2>2, <2>3 DEF CallOf, CallRec
  <2>4. CASE at'[t] # "idle" /\ at'[t] \in Open
    <3>1. ~Decided(t)'
      BY <2>4 DEF Decided, Reading, Open
    <3> QED
      BY <2>1, <2>2, <2>4, <3>1 DEF CallOf, CallRec
  <2>5. CASE at'[t] # "idle" /\ at'[t] \notin Open
    <3>1. Decided(t)'
      BY <2>5 DEF Decided, Reading, Open
    <3> QED
      BY <2>1, <2>2, <2>5, <3>1 DEF CallOf, CallRec
  <2> QED
    BY <2>3, <2>4, <2>5
<1>7. callOf = [t \in Threads |-> CallRec(at[t], loc[t], stamp, seen[t])]
  BY <1>5 DEF callOf
<1>8. callOf' = [t \in Threads |-> CallRec(at'[t], loc'[t], stamp', seen'[t])]
  BY <1>6 DEF callOf
<1> QED
  BY <1>1, <1>2, <1>3, <1>4, <1>7, <1>8

\* The first state of the strategy is one of the Cell.
LEMMA InitCell == Init => C!CellInit
<1> SUFFICES ASSUME Init PROVE C!CellInit
  OBVIOUS
<1>1. heldOf = C!EmptyBag
  <2>1. \A a \in Addrs : ~(Count[a] > 0)
    BY DEF Init, Count
  <2>2. {a \in Addrs : Count[a] > 0} = {}
    BY <2>1
  <2>3. HeldBag(stamp, Count) = [v \in {} |-> 1]
    BY <2>2 DEF HeldBag
  <2> QED
    BY <2>3, Mapping DEF C!EmptyBag, C!SetToBag
<1>2. callOf = [t \in Threads |-> C!NoCall]
  BY Mapping DEF Init, CallRec, C!NoCall, C!CallAs, C!None, Idle, Frame
<1>3. \A s \in {Instance} : cellOf[s] \in {<<a, stamp[a]>> : a \in Addrs}
  BY Mapping DEF Init, Val
<1>4. ASSUME NEW a \in Addrs
      PROVE  stamp[a] = IF C!InUse(<<a, 1>>) THEN 1 ELSE 0
  <2>1. C!InUse(<<a, 1>>) <=> storage = a
    <3>1. cellOf[Instance] = <<storage, 1>>
      BY Mapping DEF Init, Val
    <3>2. ~C!BagIn(<<a, 1>>, heldOf)
      BY <1>1 DEF C!BagIn, C!BagToSet, C!EmptyBag, C!SetToBag
    <3>3. \A t \in Threads : <<a, 1>> \notin {callOf[t].arg, callOf[t].res} /\ callOf[t].kind = "none"
      BY <1>2, LockAssumption DEF C!NoCall, C!CallAs, C!None
    <3> QED
      BY <3>1, <3>2, <3>3 DEF C!InUse
  <2> QED
    BY <2>1 DEF Init
<1> QED
  BY <1>1, <1>2, <1>3, <1>4 DEF C!CellInit

-----------------------------------------------------------------------------
(* References keep an address from standing for another Arc.                 *)

\* What a call reads is in the set of what it has seen.
Observed == \A t \in Threads : at[t] \in Open => Val(stamp, storage) \in seen[t]

\* The inductive invariant of the refinement.
CellInv == CountInv /\ Observed

\* Whatever the storage, a call or a user refers to is counted; the pointer of a
\* load that has not counted yet is somebody else's.
LEMMA Referenced ==
    ASSUME CountInv
    PROVE  /\ \A a \in Addrs : refs[a] \in Nat /\ held[a] \in Nat /\ arcs[a] \in Nat
           /\ \A a \in Addrs : held[a] <= refs[a]
           /\ storage \in Addrs => refs[storage] > 0
           /\ \A t \in Threads : loc[t].new \in Addrs => refs[loc[t].new] > 0
           /\ \A t \in Threads : at[t] # "idle" /\ at[t] \notin Open /\ loc[t].ptr \in Addrs =>
                                    refs[loc[t].ptr] > 0
<1> USE DEF CountInv
<1>1. \A a \in Addrs : /\ IsFiniteSet(ArgumentsOn(a)) /\ IsFiniteSet(PtrsOn(a))
                       /\ Cardinality(ArgumentsOn(a)) \in Nat /\ Cardinality(PtrsOn(a)) \in Nat
  BY LockAssumption, FS_Subset, FS_CardinalityType DEF ArgumentsOn, PtrsOn
<1>2. \A a \in Addrs :
        /\ refs[a] \in Nat /\ held[a] \in Nat /\ arcs[a] \in Nat /\ held[a] <= refs[a]
        /\ storage = a => refs[a] > 0
        /\ Cardinality(ArgumentsOn(a)) > 0 => refs[a] > 0
        /\ Cardinality(PtrsOn(a)) > 0 => refs[a] > 0
  BY <1>1 DEF RefsExact, UserCounts, One
<1>3. \A t \in Threads : loc[t].new \in Addrs => refs[loc[t].new] > 0
  BY <1>1, <1>2, CardinalityPositive DEF ArgumentsOn
<1>4. \A t \in Threads : PtrCounted(t) /\ loc[t].ptr \in Addrs => refs[loc[t].ptr] > 0
  BY <1>1, <1>2, CardinalityPositive DEF PtrsOn
<1>5. ASSUME NEW t \in Threads, at[t] # "idle", at[t] \notin Open, loc[t].ptr \in Addrs
      PROVE  refs[loc[t].ptr] > 0
  <2>1. at[t] \in {"rd_inc", "rd_unlock", "wr_lock", "wr_unlock", "old_dec", "cas_inc", "cas_drop",
                   "cas_unlock"}
    BY <1>5 DEF LockInv, TypeOK, Labels, Open
  <2>2. CASE at[t] \in {"rd_inc", "cas_inc"}
    <3>1. CASE storage = loc[t].ptr
      BY <1>2, <1>5, <3>1
    <3>2. CASE \E u \in Threads : at[u] = "wr_lock" /\ loc[u].ptr = loc[t].ptr
      <4>1. PICK u \in Threads : at[u] = "wr_lock" /\ loc[u].ptr = loc[t].ptr
        BY <3>2
      <4>2. loc[u].kind \in {"store", "swap"} \/ loc[u].ptr = storage
        BY <4>1 DEF Frames
      <4> QED
        BY <1>2, <1>4, <1>5, <4>1, <4>2 DEF PtrCounted
    <3> QED
      BY <2>2, <3>1, <3>2 DEF LockInv, PointersPinned
  <2>3. CASE at[t] \in {"rd_unlock", "cas_drop", "cas_unlock"}
    BY <1>4, <1>5, <2>3 DEF PtrCounted
  <2>4. CASE at[t] \in {"wr_lock", "wr_unlock", "old_dec"}
    <3>1. loc[t].kind \in {"store", "swap"} \/ loc[t].ptr = storage
      BY <2>4 DEF Frames
    <3> QED
      BY <1>2, <1>4, <1>5, <3>1 DEF PtrCounted
  <2> QED
    BY <2>1, <2>2, <2>3, <2>4
<1> QED
  BY <1>2, <1>3, <1>5

\* Where nothing is counted, nothing is in use for the Cell.
LEMMA FreeNotInUse ==
    ASSUME CountInv, NEW a \in Addrs, Free(a)
    PROVE  ~C!InUse(<<a, stamp[a]>>)
<1>1. refs[a] = 0 /\ arcs[a] = 0
  BY DEF Free
<1>2. cellOf[Instance] # <<a, stamp[a]>>
  <2>1. storage # a
    BY <1>1, Referenced
  <2> QED
    BY <2>1, Mapping DEF Val
<1>3. ~C!BagIn(<<a, stamp[a]>>, heldOf)
  <2>1. ~(Count[a] > 0)
    BY <1>1, Referenced DEF Count
  <2> QED
    BY <2>1, Mapping DEF C!BagIn, C!BagToSet, HeldBag
<1>4. ASSUME NEW t \in Threads
      PROVE  /\ <<a, stamp[a]>> # callOf[t].arg /\ <<a, stamp[a]>> # callOf[t].res
             /\ callOf[t].kind # "rcu"
  <2>1. callOf[t] = CallRec(at[t], loc[t], stamp, seen[t])
    BY Mapping
  <2>2. loc[t].new # a /\ NULL # a
    BY <1>1, Referenced, LockAssumption
  <2>3. at[t] # "idle" /\ at[t] \notin Open => loc[t].ptr # a
    BY <1>1, Referenced
  <2>4. loc[t].kind # "rcu"
    BY DEF CountInv, LockInv, TypeOK, CallKinds
  <2> QED
    BY <2>1, <2>2, <2>3, <2>4 DEF CallRec, Val
<1> QED
  BY <1>2, <1>3, <1>4 DEF C!InUse

\* An address gets another Arc only when it is free.
LEMMA StampKept ==
    ASSUME CountInv, NEW t \in Threads, Acts(t), Call(t) \/ UNCHANGED stamp
    PROVE  \A p : refs[p] > 0 \/ arcs[p] > 0 => Val(stamp', p) = Val(stamp, p)
<1>1. ASSUME NEW v \in Addrs, Free(v), stamp' = [stamp EXCEPT ![v] = @ + 1],
             NEW p, refs[p] > 0 \/ arcs[p] > 0
      PROVE  Val(stamp', p) = Val(stamp, p)
  <2>1. p # v
    BY <1>1 DEF Free
  <2> QED
    BY <1>1, <2>1 DEF Val, CountInv, UserCounts
<1>2. UNCHANGED stamp \/ \E v \in Addrs : Free(v) /\ stamp' = [stamp EXCEPT ![v] = @ + 1]
  BY DEF Call, CallLoad, CallSwap, CallCas, CallDestroy, CallNew, CallUser, Argument
<1> QED
  BY <1>1, <1>2

-----------------------------------------------------------------------------
(* What a step looks like to the Cell.                                       *)

\* A step of thread t, with its history.
ActsOf(t) == Acts(t) /\ (Call(t) \/ UNCHANGED stamp) /\ Observe

\* The other calls see what is put into the storage, and nothing else happens to
\* them.
LEMMA OthersCalls ==
    ASSUME CellInv, NEW t \in Threads, ActsOf(t), NEW u \in Threads, u # t
    PROVE  callOf'[u] = IF callOf[u].s = Instance /\ callOf[u].seen # {}
                        THEN [callOf[u] EXCEPT !.seen = @ \cup {Val(stamp', storage')}]
                        ELSE callOf[u]
<1> USE DEF CellInv
<1>1. loc'[u] = loc[u] /\ at'[u] = at[u]
  BY OnlyOne DEF ActsOf, CountInv
<1>2. /\ callOf[u] = CallRec(at[u], loc[u], stamp, seen[u])
      /\ callOf'[u] = CallRec(at[u], loc[u], stamp', seen'[u])
  BY <1>1, Mapping
<1>3. at[u] \in Open => seen'[u] = seen[u] \cup {Val(stamp', storage')}
  BY <1>1 DEF ActsOf, Observe, Reading, Open, Value, Val
<1>4. Val(stamp', loc[u].new) = Val(stamp, loc[u].new)
  <2>1. CASE loc[u].new \in Addrs
    BY <2>1, Referenced, StampKept DEF ActsOf
  <2>2. CASE loc[u].new \notin Addrs
    BY <2>2 DEF Val
  <2> QED
    BY <2>1, <2>2
<1>5. CASE at[u] \in Open
  <2>1. at[u] # "idle"
    BY <1>5 DEF Open
  <2>2. seen[u] # {}
    BY <1>5 DEF Observed
  <2>3. callOf[u].s = Instance /\ callOf[u].seen # {}
    BY <1>2, <1>5, <2>1, <2>2 DEF CallRec
  <2> DEFINE rec(sn) == [kind |-> loc[u].kind, s |-> Instance,
                         phase |-> IF loc[u].kind = "cas" THEN "ready" ELSE "open", seen |-> sn,
                         arg |-> Val(stamp, loc[u].new), base |-> <<loc[u].cur, 0>>,
                         res |-> <<NULL, 0>>]
  <2>4. callOf[u] = rec(seen[u]) /\ callOf'[u] = rec(seen'[u])
    BY <1>2, <1>4, <1>5, <2>1 DEF CallRec
  <2>5. [rec(seen[u]) EXCEPT !.seen = @ \cup {Val(stamp', storage')}]
            = rec(seen[u] \cup {Val(stamp', storage')})
    OBVIOUS
  <2> QED
    BY <1>3, <1>5, <2>3, <2>4, <2>5
<1>6. CASE at[u] \notin Open
  <2>1. callOf[u].seen = {}
    BY <1>2, <1>6 DEF CallRec
  <2>2. CASE at[u] = "idle"
    BY <1>2, <2>1, <2>2 DEF CallRec
  <2>3. CASE at[u] # "idle"
    <3>1. Val(stamp', loc[u].ptr) = Val(stamp, loc[u].ptr)
      <4>1. CASE loc[u].ptr \in Addrs
        BY <1>6, <2>3, <4>1, Referenced, StampKept DEF ActsOf
      <4>2. CASE loc[u].ptr \notin Addrs
        BY <4>2 DEF Val
      <4> QED
        BY <4>1, <4>2
    <3> QED
      BY <1>2, <1>6, <2>1, <2>3, <3>1 DEF CallRec
  <2> QED
    BY <2>2, <2>3
<1> QED
  BY <1>5, <1>6

\* A step that leaves the storage alone leaves the cell and the other calls alone.
LEMMA QuietStep ==
    ASSUME CellInv, NEW t \in Threads, ActsOf(t), storage' = storage
    PROVE  /\ Val(stamp', storage') = Val(stamp, storage)
           /\ cellOf' = cellOf
           /\ callOf' = [callOf EXCEPT ![t] = CallRec(at'[t], loc'[t], stamp', seen'[t])]
<1>1. Val(stamp', storage') = Val(stamp, storage)
  <2>1. CASE storage \in Addrs
    BY <2>1, Referenced, StampKept DEF ActsOf, CellInv
  <2>2. CASE storage \notin Addrs
    BY <2>2 DEF Val
  <2> QED
    BY <2>1, <2>2
<1>2. cellOf' = cellOf
  BY <1>1, Mapping
<1>3. ASSUME NEW u \in Threads, u # t
      PROVE  callOf'[u] = callOf[u]
  <2>1. CASE callOf[u].s = Instance /\ callOf[u].seen # {}
    <3>1. callOf[u] = CallRec(at[u], loc[u], stamp, seen[u])
      BY Mapping
    <3>2. at[u] \in Open
      BY <2>1, <3>1 DEF CallRec
    <3>3. Val(stamp', storage') \in seen[u]
      BY <1>1, <3>2 DEF CellInv, Observed
    <3>4. callOf[u].seen = seen[u] /\ at[u] # "idle"
      BY <3>1, <3>2 DEF CallRec, Open
    <3>5. callOf[u].seen \cup {Val(stamp', storage')} = callOf[u].seen
      BY <3>3, <3>4
    <3>6. [callOf[u] EXCEPT !.seen = callOf[u].seen] = callOf[u]
      BY <3>1, <3>2, <3>4 DEF CallRec
    <3> QED
      BY <1>3, <2>1, <3>5, <3>6, OthersCalls
  <2>2. CASE ~(callOf[u].s = Instance /\ callOf[u].seen # {})
    BY <1>3, <2>2, OthersCalls
  <2> QED
    BY <2>1, <2>2
<1>4. /\ callOf' = [u \in Threads |-> callOf'[u]] /\ callOf = [u \in Threads |-> callOf[u]]
      /\ callOf'[t] = CallRec(at'[t], loc'[t], stamp', seen'[t])
  BY Mapping
<1> QED
  BY <1>1, <1>2, <1>3, <1>4

\* A step that replaces the value decides the call of the thread; the calls that
\* are reading see the new value.
LEMMA ReplaceStep ==
    ASSUME CellInv, NEW t \in Threads, ActsOf(t),
           NEW c, CallRec(at'[t], loc'[t], stamp', seen'[t]) = C!Decided(c, Val(stamp, storage))
    PROVE  C!Replace(t, c, Instance, Val(stamp', storage'))
<1>1. cellOf' = [cellOf EXCEPT ![Instance] = Val(stamp', storage')]
      /\ cellOf[Instance] = Val(stamp, storage)
  BY Mapping
<1>2. callOf' = [u \in Threads |-> callOf'[u]]
      /\ callOf'[t] = CallRec(at'[t], loc'[t], stamp', seen'[t])
  BY Mapping
<1>3. callOf' = [u \in Threads |->
                   IF u = t THEN C!Decided(c, cellOf[Instance])
                   ELSE IF callOf[u].s = Instance /\ callOf[u].seen # {}
                        THEN [callOf[u] EXCEPT !.seen = @ \cup {Val(stamp', storage')}]
                        ELSE callOf[u]]
  BY <1>1, <1>2, OthersCalls
<1> QED
  BY <1>1, <1>3 DEF C!Replace

\* An argument is a value that may be passed.
LEMMA ArgumentPasses ==
    ASSUME CellInv, NEW v \in Smart, Argument(v)
    PROVE  /\ Val(stamp', into_ptr(v)) \in C!Passable
           /\ C!Passes(Val(stamp', into_ptr(v)))
<1> USE DEF CellInv
<1>1. CASE v \in Addrs /\ Free(v) /\ stamp' = [stamp EXCEPT ![v] = @ + 1]
  <2>1. Val(stamp', into_ptr(v)) = C!Fresh(v)
    BY <1>1, LockAssumption DEF Val, into_ptr, C!Fresh, CountInv, UserCounts
  <2>2. ~C!InUse(<<v, stamp[v]>>)
    BY <1>1, FreeNotInUse
  <2> QED
    BY <1>1, <2>1, <2>2 DEF C!Passes, C!Passable
<1>2. CASE v \in Addrs /\ (held[v] > 0 \/ arcs[v] > 0) /\ UNCHANGED stamp
  <2>1. Val(stamp', into_ptr(v)) = <<v, stamp[v]>>
    BY <1>2, LockAssumption DEF Val, into_ptr
  <2>2. Count[v] > 0
    BY <1>2, Referenced DEF Count
  <2>3. C!BagIn(<<v, stamp[v]>>, heldOf)
    BY <1>2, <2>2, Mapping DEF C!BagIn, C!BagToSet, HeldBag
  <2>4. <<v, stamp[v]>> # C!None
    BY <1>2, LockAssumption DEF C!None
  <2> QED
    BY <1>2, <2>1, <2>3, <2>4 DEF C!Passes, C!Passable
<1>3. CASE v = Empty /\ UNCHANGED stamp
  <2>1. Val(stamp', into_ptr(v)) = C!None
    BY <1>3, LockAssumption DEF Val, into_ptr, C!None
  <2> QED
    BY <1>3, <2>1 DEF C!Passes, C!Passable, C!None
<1> QED
  BY <1>1, <1>2, <1>3 DEF Argument

\* The bag of what users hold, when nothing changes in it, when a value is added
\* (one that was there or a new one), and when one goes.
LEMMA SameBag ==
    ASSUME NEW st, NEW new, NEW count \in [Addrs -> Nat],
           \A a \in Addrs : count[a] > 0 => new[a] = st[a]
    PROVE  HeldBag(new, count) = HeldBag(st, count)
<1>1. {<<a, new[a]>> : a \in {a \in Addrs : count[a] > 0}}
        = {<<a, st[a]>> : a \in {a \in Addrs : count[a] > 0}}
  OBVIOUS
<1> QED
  BY <1>1 DEF HeldBag

\* One more of g in a bag.
LEMMA AddToBag ==
    ASSUME NEW st, NEW new, NEW count \in [Addrs -> Nat], NEW x \in Addrs,
           \A a \in Addrs : a # x => new[a] = st[a],
           count[x] > 0 => new[x] = st[x],
           NEW more \in [Addrs -> Nat], more[x] = count[x] + 1,
           \A a \in Addrs : a # x => more[a] = count[a]
    PROVE  HeldBag(new, more) = C!BagAdd(HeldBag(st, count), <<x, new[x]>>)
<1> DEFINE D == {<<a, st[a]>> : a \in {a \in Addrs : count[a] > 0}}
           E == {<<a, new[a]>> : a \in {a \in Addrs : more[a] > 0}}
<1>1. <<x, new[x]>> \in D <=> count[x] > 0
  OBVIOUS
<1>2. E = D \cup {<<x, new[x]>>}
  <2>1. ASSUME NEW e \in E PROVE e \in D \cup {<<x, new[x]>>}
    BY <2>1
  <2>2. ASSUME NEW e \in D PROVE e \in E
    <3>1. PICK a \in Addrs : e = <<a, st[a]>> /\ count[a] > 0
      BY <2>2
    <3>2. more[a] > 0 /\ new[a] = st[a]
      BY <3>1
    <3> QED
      BY <3>1, <3>2
  <2>3. <<x, new[x]>> \in E
    OBVIOUS
  <2> QED
    BY <2>1, <2>2, <2>3
<1>3. \A e \in D : e[1] \in Addrs /\ (e[1] = x => e = <<x, new[x]>>)
  OBVIOUS
<1> DEFINE B == [v \in D |-> count[v[1]]]
<1>4. HeldBag(st, count) = B /\ HeldBag(new, more) = [v \in E |-> more[v[1]]]
  BY DEF HeldBag
<1>5. DOMAIN B = D /\ \A e \in D : B[e] = count[e[1]]
  OBVIOUS
<1> HIDE DEF D, E, B
<1>6. CASE count[x] > 0
  <2>1. E = D /\ <<x, new[x]>> \in D
    BY <1>1, <1>2, <1>6
  <2>2. \A e \in D : more[e[1]] = IF e = <<x, new[x]>> THEN B[e] + 1 ELSE B[e]
    BY <1>3, <1>5
  <2> QED
    BY <1>4, <1>5, <2>1, <2>2 DEF C!BagAdd
<1>7. CASE ~(count[x] > 0)
  <2>1. <<x, new[x]>> \notin D /\ more[x] = 1
    BY <1>1, <1>7
  <2>2. \A e \in E : more[e[1]] = IF e = <<x, new[x]>> THEN 1 ELSE B[e]
    BY <1>2, <1>3, <1>5, <2>1
  <2> QED
    BY <1>2, <1>4, <1>5, <2>1, <2>2 DEF C!BagAdd
<1> QED
  BY <1>6, <1>7

\* One less of g in a bag.
LEMMA RemoveFromBag ==
    ASSUME NEW st, NEW count \in [Addrs -> Nat], NEW x \in Addrs, count[x] > 0,
           NEW less \in [Addrs -> Nat], less[x] = count[x] - 1,
           \A a \in Addrs : a # x => less[a] = count[a]
    PROVE  /\ <<x, st[x]>> \in C!BagToSet(HeldBag(st, count))
           /\ HeldBag(st, less) = C!BagRemove(HeldBag(st, count), <<x, st[x]>>)
<1> DEFINE D == {<<a, st[a]>> : a \in {a \in Addrs : count[a] > 0}}
           E == {<<a, st[a]>> : a \in {a \in Addrs : less[a] > 0}}
           B == [v \in D |-> count[v[1]]]
<1>1. <<x, st[x]>> \in D /\ (<<x, st[x]>> \in E <=> count[x] > 1)
  OBVIOUS
<1>2. E \cup {<<x, st[x]>>} = D
  <2>1. ASSUME NEW e \in E PROVE e \in D
    BY <2>1
  <2>2. ASSUME NEW e \in D PROVE e \in E \cup {<<x, st[x]>>}
    <3>1. PICK a \in Addrs : e = <<a, st[a]>> /\ count[a] > 0
      BY <2>2
    <3>2. a = x \/ less[a] > 0
      BY <3>1
    <3> QED
      BY <3>1, <3>2
  <2> QED
    BY <1>1, <2>1, <2>2
<1>3. \A e \in D : e[1] \in Addrs /\ (e[1] = x => e = <<x, st[x]>>)
  OBVIOUS
<1>4. HeldBag(st, count) = B /\ HeldBag(st, less) = [v \in E |-> less[v[1]]]
  BY DEF HeldBag
<1>5. DOMAIN B = D /\ \A e \in D : B[e] = count[e[1]]
  OBVIOUS
<1> HIDE DEF D, E, B
<1>6. <<x, st[x]>> \in C!BagToSet(HeldBag(st, count))
  BY <1>1, <1>4, <1>5 DEF C!BagToSet
<1>7. CASE count[x] = 1
  <2>1. E = D \ {<<x, st[x]>>} /\ B[<<x, st[x]>>] = 1
    BY <1>1, <1>2, <1>5, <1>7
  <2>2. \A e \in E : less[e[1]] = B[e]
    BY <1>3, <1>5, <2>1
  <2> QED
    BY <1>1, <1>4, <1>5, <1>6, <2>1, <2>2 DEF C!BagRemove
<1>8. CASE count[x] > 1
  <2>1. <<x, st[x]>> \in E
    BY <1>1, <1>8
  <2>2. E = D
    BY <1>2, <2>1
  <2>3. B[<<x, st[x]>>] # 1
    BY <1>1, <1>5, <1>8
  <2>4. \A e \in D : less[e[1]] = IF e = <<x, st[x]>> THEN B[e] - 1 ELSE B[e]
    BY <1>3, <1>5
  <2> QED
    BY <1>1, <1>4, <1>5, <1>6, <2>2, <2>3, <2>4 DEF C!BagRemove
<1> QED
  BY <1>7, <1>8

\* A call that returns gives its result to the user.
LEMMA ReturnGives ==
    ASSUME CellInv, NEW p \in Raw, held' = Inc(held, from_ptr(p)), arcs' = arcs, stamp' = stamp
    PROVE  C!Gives(Val(stamp, p))
<1> USE DEF CellInv
<1>1. Count \in [Addrs -> Nat] /\ NULL \notin Addrs /\ Empty \notin Addrs
  BY Referenced, LockAssumption DEF Count
<1>2. CASE p \in Addrs
  <2>1. held'[p] = held[p] + 1 /\ \A a \in Addrs : a # p => held'[a] = held[a]
    BY <1>1, <1>2 DEF Inc, from_ptr
  <2>2. /\ Count' \in [Addrs -> Nat] /\ Count'[p] = Count[p] + 1
        /\ \A a \in Addrs : a # p => Count'[a] = Count[a]
    BY <1>2, <2>1, Referenced DEF Count
  <2>3. HeldBag(stamp, Count') = C!BagAdd(HeldBag(stamp, Count), <<p, stamp[p]>>)
    BY <1>1, <1>2, <2>2, AddToBag
  <2>4. Val(stamp, p) = <<p, stamp[p]>> /\ Val(stamp, p) # C!None
    BY <1>1, <1>2 DEF Val, C!None
  <2> QED
    BY <2>3, <2>4, Mapping DEF C!Gives
<1>3. CASE p = NULL
  <2>1. held' = held
    <3>1. \A a \in Addrs : held'[a] = held[a]
      BY <1>1, <1>3 DEF Inc, from_ptr
    <3> QED
      BY <3>1 DEF Inc, CountInv, UserCounts
  <2>2. Count' = Count
    BY <2>1 DEF Count
  <2>3. Val(stamp, p) = C!None
    BY <1>1, <1>3 DEF Val, C!None
  <2> QED
    BY <2>2, <2>3, Mapping DEF C!Gives
<1> QED
  BY <1>2, <1>3 DEF Raw

\* Users hold what they held.
LEMMA HeldSame ==
    ASSUME CellInv, NEW t \in Threads, ActsOf(t), Count' = Count
    PROVE  heldOf' = heldOf
<1>1. Count \in [Addrs -> Nat]
  BY Referenced DEF CellInv, Count
<1>2. ASSUME NEW a \in Addrs, Count[a] > 0
      PROVE  stamp'[a] = stamp[a]
  <2>1. refs[a] > 0 \/ arcs[a] > 0
    BY <1>2, Referenced DEF CellInv, Count
  <2>2. Val(stamp', a) = Val(stamp, a)
    BY <2>1, StampKept DEF CellInv, ActsOf
  <2> QED
    BY <2>2 DEF Val
<1>3. HeldBag(stamp', Count) = HeldBag(stamp, Count)
  BY <1>1, <1>2, SameBag
<1> QED
  BY <1>3, Mapping

\* The Cell does not see a step that leaves what the call shows of itself.
LEMMA SilentStep ==
    ASSUME CellInv, NEW t \in Threads, ActsOf(t), storage' = storage, stamp' = stamp,
           Count' = Count,
           CallRec(at'[t], loc'[t], stamp', seen'[t]) = CallRec(at[t], loc[t], stamp, seen[t])
    PROVE  UNCHANGED C!cellVars
<1>1. cellOf' = cellOf /\ heldOf' = heldOf
  BY QuietStep, HeldSame
<1>2. callOf' = [callOf EXCEPT ![t] = CallRec(at[t], loc[t], stamp, seen[t])]
  BY QuietStep
<1>3. callOf = [u \in Threads |-> CallRec(at[u], loc[u], stamp, seen[u])]
  BY Mapping
<1>4. callOf' = callOf
  BY <1>2, <1>3
<1> QED
  BY <1>1, <1>4 DEF C!cellVars

\* A thread that makes no call.
LEMMA IdleRec == \A st, sn : CallRec("idle", Idle, st, sn) = C!NoCall
BY DEF CallRec, Idle, Frame, C!NoCall, C!CallAs, C!None

\* A thread that is outside of any call is so in the cell.
LEMMA IdleCall ==
    ASSUME CellInv, NEW t \in Threads, at[t] = "idle"
    PROVE  callOf[t] = C!NoCall
<1>1. loc[t] = Idle
  BY DEF CellInv, CountInv, Frames
<1> QED
  BY <1>1, IdleRec, Mapping

\* What the thread reads from here on starts with what the storage holds.
LEMMA SeenOf ==
    ASSUME Observe, NEW t \in Threads
    PROVE  seen'[t] = IF at'[t] \in Open
                      THEN {Val(stamp', storage')} \cup IF at[t] \in Open THEN seen[t] ELSE {}
                      ELSE {}
BY DEF Observe, Reading, Open, Value, Val

\* An instance that calls share can be used.
LEMMA SharedUsable ==
    ASSUME Shared, CellInv
    PROVE  C!Usable(Instance)
<1>1. cellOf[Instance] # C!Gone
  BY Mapping, LockAssumption DEF Val, C!Gone, Shared, Raw
<1>2. \A u \in Threads : callOf[u].kind = loc[u].kind
  BY Mapping DEF CallRec
<1> QED
  BY <1>1, <1>2 DEF C!Usable, Shared

-----------------------------------------------------------------------------
(* The steps one by one.                                                     *)

\* The call of load opens the window of the read.
LEMMA CallLoadCell ==
    ASSUME CellInv, NEW t \in Threads, ActsOf(t), CallLoad(t)
    PROVE  C!Read(t)
<1>1. /\ at[t] = "idle" /\ at'[t] = "rd_lock" /\ loc'[t] = Frame("load", NULL, NULL, NULL)
      /\ storage' = storage /\ stamp' = stamp /\ Count' = Count
  BY DEF CallLoad, Invoke, Goto, CellInv, CountInv, LockInv, TypeOK, users, Count
<1>2. seen'[t] = {Val(stamp', storage')}
  BY <1>1, SeenOf DEF ActsOf, Open
<1>3. /\ cellOf' = cellOf /\ heldOf' = heldOf
      /\ callOf' = [callOf EXCEPT ![t] = CallRec(at'[t], loc'[t], stamp', seen'[t])]
      /\ Val(stamp', storage') = Val(stamp, storage)
  BY <1>1, QuietStep, HeldSame
<1>4. Val(stamp', NULL) = <<NULL, 0>>
  BY LockAssumption DEF Val
<1>5. CallRec(at'[t], loc'[t], stamp', seen'[t])
        = C!CallAs("load", Instance, "open", {cellOf[Instance]}, C!None, C!None, C!None)
  <2>1. cellOf[Instance] = Val(stamp', storage')
    BY <1>3, Mapping
  <2> QED
    BY <1>1, <1>2, <1>4, <2>1 DEF CallRec, C!CallAs, C!None, Open, Frame
<1>6. C!Begins(t, "load", Instance, "open")
  BY <1>1, <1>3, <1>5, IdleCall, SharedUsable DEF C!Begins, CallLoad
<1> QED
  BY <1>1, <1>3, <1>6 DEF C!Read

\* The read of the pointer is the moment a load takes effect.
LEMMA LoadPtrCell ==
    ASSUME CellInv, NEW t \in Threads, ActsOf(t), LoadPtr(t), stamp' = stamp
    PROVE  C!Read(t)
<1>1. /\ at[t] = "rd_ptr" /\ at'[t] = "rd_inc" /\ loc'[t] = Frame("load", NULL, NULL, storage)
      /\ storage' = storage /\ Count' = Count /\ loc[t].kind = "load"
  BY DEF LoadPtr, Goto, CellInv, CountInv, LockInv, TypeOK, users, Count, Frames
<1>2. /\ cellOf' = cellOf /\ heldOf' = heldOf
      /\ callOf' = [callOf EXCEPT ![t] = CallRec(at'[t], loc'[t], stamp', seen'[t])]
  BY <1>1, QuietStep, HeldSame
<1>3. callOf[t] = CallRec(at[t], loc[t], stamp, seen[t])
  BY Mapping
<1>4. /\ callOf[t].kind = "load" /\ callOf[t].s = Instance /\ callOf[t].seen = seen[t]
  BY <1>1, <1>3 DEF CallRec, Open
<1>5. Val(stamp, storage) \in seen[t]
  BY <1>1 DEF CellInv, Observed, Open
<1>6. CallRec(at'[t], loc'[t], stamp', seen'[t]) = C!Decided(callOf[t], Val(stamp, storage))
  BY <1>1, <1>4 DEF CallRec, C!Decided, C!CallAs, C!None, Open, Frame
<1> QED
  BY <1>2, <1>4, <1>5, <1>6 DEF C!Read

\* store and swap take effect when the pointer is swapped.
LEMMA CallSwapCell ==
    ASSUME CellInv, NEW t \in Threads, ActsOf(t), CallSwap(t)
    PROVE  C!Swap(t)
<1> USE DEF Invoke, Goto
<1>1. PICK kind \in {"store", "swap"}, v \in Smart :
        /\ Shared
        /\ at[t] = "idle"
        /\ Argument(v)
        /\ storage' = into_ptr(v)
        /\ loc' = [loc EXCEPT ![t] = Frame(kind, NULL, NULL, storage)]
        /\ at' = [at EXCEPT ![t] = "wr_lock"]
        /\ UNCHANGED users
  BY DEF CallSwap
<1>2. /\ at'[t] = "wr_lock" /\ loc'[t] = Frame(kind, NULL, NULL, storage)
      /\ Count' = Count
  BY <1>1 DEF CellInv, CountInv, LockInv, TypeOK, users, Count
<1>3. heldOf' = heldOf
  BY <1>2, HeldSame
<1>4. Val(stamp', storage) = Val(stamp, storage)
  <2>1. CASE storage \in Addrs
    BY <2>1, Referenced, StampKept DEF ActsOf, CellInv
  <2>2. CASE storage \notin Addrs
    BY <2>2 DEF Val
  <2> QED
    BY <2>1, <2>2
<1>5. CallRec(at'[t], loc'[t], stamp', seen'[t])
        = C!Decided([kind |-> kind, s |-> Instance], Val(stamp, storage))
  BY <1>2, <1>4 DEF CallRec, C!Decided, C!CallAs, C!None, Open, Frame
<1>6. C!Replace(t, [kind |-> kind, s |-> Instance], Instance, Val(stamp', storage'))
  BY <1>5, ReplaceStep
<1>7. Val(stamp', storage') \in C!Passable /\ C!Passes(Val(stamp', storage'))
  BY <1>1, ArgumentPasses
<1> QED
  BY <1>1, <1>3, <1>6, <1>7, IdleCall, SharedUsable DEF C!Swap

\* The call of compare_and_swap opens its window.
LEMMA CallCasCell ==
    ASSUME CellInv, NEW t \in Threads, ActsOf(t), CallCas(t)
    PROVE  C!Cas(t)
<1> USE DEF Invoke, Goto
<1>1. PICK v \in Smart, current \in Smart \cup Raw :
        /\ Shared
        /\ at[t] = "idle"
        /\ Argument(v)
        /\ loc' = [loc EXCEPT ![t] = Frame("cas", into_ptr(v), as_raw(current), NULL)]
        /\ at' = [at EXCEPT ![t] = "cas_lock"]
        /\ UNCHANGED <<storage, users>>
  BY DEF CallCas
<1>2. /\ at'[t] = "cas_lock" /\ loc'[t] = Frame("cas", into_ptr(v), as_raw(current), NULL)
      /\ storage' = storage /\ Count' = Count
  BY <1>1 DEF CellInv, CountInv, LockInv, TypeOK, users, Count
<1>3. as_raw(current) \in Addrs \cup {NULL}
  BY DEF as_raw, as_ptr, Smart, Raw
<1>4. seen'[t] = {Val(stamp', storage')}
  BY <1>1, <1>2, SeenOf DEF ActsOf, Open
<1>5. /\ cellOf' = cellOf /\ heldOf' = heldOf
      /\ callOf' = [callOf EXCEPT ![t] = CallRec(at'[t], loc'[t], stamp', seen'[t])]
      /\ Val(stamp', storage') = Val(stamp, storage)
  BY <1>2, QuietStep, HeldSame
<1>6. CallRec(at'[t], loc'[t], stamp', seen'[t])
        = C!CallAs("cas", Instance, "ready", {cellOf[Instance]}, Val(stamp', into_ptr(v)),
                   <<as_raw(current), 0>>, C!None)
  <2>1. cellOf[Instance] = Val(stamp', storage')
    BY <1>5, Mapping
  <2> QED
    BY <1>2, <1>4, <2>1 DEF CallRec, C!CallAs, C!None, Open, Frame
<1>7. Val(stamp', into_ptr(v)) \in C!Passable /\ C!Passes(Val(stamp', into_ptr(v)))
  BY <1>1, ArgumentPasses
<1> QED
  BY <1>1, <1>3, <1>5, <1>6, <1>7, IdleCall, SharedUsable DEF C!Cas

\* compare_and_swap takes effect in its exchange, or fails in it.
LEMMA CasExchangeCell ==
    ASSUME CellInv, NEW t \in Threads, ActsOf(t), CasExchange(t), stamp' = stamp
    PROVE  C!Cas(t)
<1> USE DEF Goto
<1>1. /\ at[t] = "cas_x" /\ loc[t].kind = "cas" /\ Count' = Count
      /\ at \in [Threads -> Labels] /\ DOMAIN loc = Threads
  BY DEF CasExchange, CellInv, CountInv, LockInv, TypeOK, users, Count, Frames
<1>2. callOf[t] = CallRec(at[t], loc[t], stamp, seen[t])
  BY Mapping
<1>3. /\ callOf[t].kind = "cas" /\ callOf[t].phase = "ready" /\ callOf[t].s = Instance
      /\ callOf[t].seen = seen[t] /\ callOf[t].base = <<loc[t].cur, 0>>
      /\ callOf[t].arg = Val(stamp, loc[t].new)
  BY <1>1, <1>2 DEF CallRec, Open
<1>4. heldOf' = heldOf
  BY <1>1, HeldSame
<1>5. cellOf[Instance] = Val(stamp, storage) /\ Val(stamp, storage)[1] = storage
  BY Mapping DEF Val
<1>6. CASE storage = loc[t].cur
  <2>1. /\ at'[t] = "cas_unlock" /\ loc'[t] = Frame("cas", NULL, loc[t].cur, storage)
        /\ storage' = loc[t].new
    BY <1>1, <1>6 DEF CasExchange
  <2>2. CallRec(at'[t], loc'[t], stamp', seen'[t]) = C!Decided(callOf[t], Val(stamp, storage))
    BY <1>3, <2>1 DEF CallRec, C!Decided, C!CallAs, C!None, Open, Frame
  <2>3. C!Replace(t, callOf[t], Instance, callOf[t].arg)
    BY <1>3, <2>1, <2>2, ReplaceStep
  <2> QED
    BY <1>3, <1>4, <1>5, <1>6, <2>3 DEF C!Cas
<1>7. CASE storage # loc[t].cur
  <2>1. /\ at'[t] = "cas_inc" /\ loc'[t] = Frame("cas", loc[t].new, loc[t].cur, storage)
        /\ storage' = storage
    BY <1>1, <1>7 DEF CasExchange
  <2>2. CallRec(at'[t], loc'[t], stamp', seen'[t]) = C!Decided(callOf[t], Val(stamp, storage))
    BY <1>3, <2>1 DEF CallRec, C!Decided, C!CallAs, C!None, Open, Frame
  <2>3. Val(stamp, storage) \in seen[t]
    BY <1>1 DEF CellInv, Observed, Open
  <2>4. /\ cellOf' = cellOf
        /\ callOf' = [callOf EXCEPT ![t] = C!Decided(callOf[t], Val(stamp, storage))]
    BY <2>1, <2>2, QuietStep
  <2>5. \E v \in callOf[t].seen :
            /\ v[1] # callOf[t].base[1]
            /\ callOf' = [callOf EXCEPT ![t] = C!Decided(callOf[t], v)]
    <3>1. callOf[t].base[1] = loc[t].cur
      BY <1>3
    <3>2. Val(stamp, storage) \in callOf[t].seen
      BY <1>3, <2>3
    <3>3. Val(stamp, storage)[1] # callOf[t].base[1]
      BY <1>5, <1>7, <3>1
    <3> QED
      BY <2>4, <3>2, <3>3
  <2> QED
    BY <1>3, <1>4, <2>4, <2>5 DEF C!Cas
<1> QED
  BY <1>6, <1>7

\* Drop and into_inner begin.
LEMMA CallDestroyCell ==
    ASSUME CellInv, NEW t \in Threads, ActsOf(t), CallDestroy(t)
    PROVE  C!Destroy(t)
<1>1. PICK kind \in {"drop", "into_inner"} :
        /\ storage # Dead
        /\ \A u \in Threads : at[u] = "idle"
        /\ loc' = [loc EXCEPT ![t] = Frame(kind, NULL, NULL, storage)]
        /\ at' = [at EXCEPT ![t] = "wr_lock"]
        /\ UNCHANGED <<storage, users, stamp>>
  BY DEF CallDestroy, Invoke, Goto
<1>2. /\ at'[t] = "wr_lock" /\ loc'[t] = Frame(kind, NULL, NULL, storage)
      /\ storage' = storage /\ stamp' = stamp /\ Count' = Count
  BY <1>1 DEF CellInv, CountInv, LockInv, TypeOK, users, Count
<1>3. /\ cellOf' = cellOf /\ heldOf' = heldOf
      /\ callOf' = [callOf EXCEPT ![t] = CallRec(at'[t], loc'[t], stamp', seen'[t])]
  BY <1>2, QuietStep, HeldSame
<1>4. cellOf[Instance] = Val(stamp, storage)
  BY Mapping
<1>5. CallRec(at'[t], loc'[t], stamp', seen'[t])
        = C!Decided([kind |-> kind, s |-> Instance], cellOf[Instance])
  BY <1>2, <1>4 DEF CallRec, C!Decided, C!CallAs, C!None, Open, Frame
<1>6. \A u \in Threads : callOf[u] = C!NoCall
  BY <1>1, IdleCall
<1>7. C!Unshared(Instance)
  BY <1>6, InstanceAssumption DEF C!Unshared, C!NoCall, C!CallAs
<1>8. cellOf[Instance] # C!Gone
  BY <1>1, <1>4, LockAssumption DEF Val, C!Gone, Raw
<1> QED
  BY <1>2, <1>3, <1>5, <1>6, <1>7, <1>8 DEF C!Destroy

\* A new instance is one of the cell.
LEMMA CallNewCell ==
    ASSUME CellInv, NEW t \in Threads, ActsOf(t), CallNew(t)
    PROVE  C!New
<1>1. PICK v \in Smart :
        /\ storage = Dead
        /\ Argument(v)
        /\ storage' = into_ptr(v)
        /\ UNCHANGED <<users, at, loc>>
        /\ at[t] = "idle"
  BY DEF CallNew, Invoke
<1>2. Count' = Count
  BY <1>1 DEF Count, users
<1>3. heldOf' = heldOf
  BY <1>2, HeldSame
<1>4. cellOf' = [cellOf EXCEPT ![Instance] = Val(stamp', storage')]
  BY Mapping
<1>5. cellOf[Instance] = C!Gone
  BY <1>1, Mapping, LockAssumption DEF Val, C!Gone, Raw
<1>6. Val(stamp', storage') \in C!Passable /\ C!Passes(Val(stamp', storage'))
  BY <1>1, ArgumentPasses
<1>7. callOf' = callOf
  <2>1. \A u \in Threads : loc[u].kind \notin {"drop", "into_inner"} /\ at[u] \notin Open
    BY <1>1 DEF CellInv, CountInv, LockInv, Alone, Frames, Open
  <2>2. ASSUME NEW u \in Threads PROVE callOf'[u] = callOf[u]
    <3>1. CASE u = t
      <4>1. loc[t] = Idle
        BY <1>1 DEF CellInv, CountInv, Frames
      <4> QED
        BY <1>1, <3>1, <4>1, IdleRec, Mapping
    <3>2. CASE u # t
      <4>1. callOf[u].seen = {}
        BY <2>1, Mapping DEF CallRec
      <4> QED
        BY <3>2, <4>1, OthersCalls
    <3> QED
      BY <3>1, <3>2
  <2>3. callOf' = [u \in Threads |-> callOf'[u]] /\ callOf = [u \in Threads |-> callOf[u]]
    BY Mapping
  <2> QED
    BY <2>2, <2>3
<1> QED
  BY <1>3, <1>4, <1>5, <1>6, <1>7 DEF C!New

\* The calls that hand their result to the user.
LEMMA ReturnsCell ==
    ASSUME CellInv, NEW t \in Threads, ActsOf(t),
           at[t] \notin Open, at[t] # "idle",
           at'[t] = "idle", loc'[t] = Idle, stamp' = stamp,
           loc[t].kind \in {"store", "drop"} => UNCHANGED users,
           loc[t].kind \notin {"store", "drop"} =>
               held' = Inc(held, from_ptr(loc[t].ptr)) /\ arcs' = arcs,
           storage' = IF loc[t].kind \in {"drop", "into_inner"} THEN Dead ELSE storage
    PROVE  C!Return(t)
<1>1. callOf[t] = CallRec(at[t], loc[t], stamp, seen[t])
  BY Mapping
<1>2. /\ callOf[t].phase = "done" /\ callOf[t].kind = loc[t].kind /\ callOf[t].s = Instance
      /\ callOf[t].res = Val(stamp, loc[t].ptr) /\ loc[t].ptr \in Raw
  BY <1>1 DEF CallRec, CellInv, CountInv, LockInv, TypeOK
<1>3. CallRec(at'[t], loc'[t], stamp', seen'[t]) = C!NoCall
  BY IdleRec
<1>4. IF callOf[t].kind \in {"store", "drop"} THEN UNCHANGED heldOf ELSE C!Gives(callOf[t].res)
  <2>1. CASE loc[t].kind \in {"store", "drop"}
    <3>1. Count' = Count
      BY <2>1 DEF users, Count
    <3> QED
      BY <1>2, <2>1, <3>1, HeldSame
  <2>2. CASE loc[t].kind \notin {"store", "drop"}
    BY <1>2, <2>2, ReturnGives
  <2> QED
    BY <2>1, <2>2
<1>5. cellOf' = IF callOf[t].kind \in {"drop", "into_inner"}
                THEN [cellOf EXCEPT ![Instance] = C!Gone] ELSE cellOf
  <2>1. CASE loc[t].kind \in {"drop", "into_inner"}
    <3>1. Val(stamp', storage') = C!Gone
      BY <2>1, LockAssumption DEF Val, C!Gone, Raw
    <3> QED
      BY <1>2, <2>1, <3>1, Mapping
  <2>2. CASE loc[t].kind \notin {"drop", "into_inner"}
    BY <1>2, <2>2, Mapping
  <2> QED
    BY <2>1, <2>2
<1>6. callOf' = [callOf EXCEPT ![t] = C!NoCall]
  <2>1. CASE loc[t].kind \notin {"drop", "into_inner"}
    BY <1>3, <2>1, QuietStep
  <2>2. CASE loc[t].kind \in {"drop", "into_inner"}
    <3>1. \A u \in Threads : u # t => at[u] = "idle"
      BY <2>2 DEF CellInv, CountInv, LockInv, Alone
    <3>2. ASSUME NEW u \in Threads, u # t PROVE callOf'[u] = callOf[u]
      <4>1. callOf[u].seen = {}
        BY <3>1, <3>2, IdleCall DEF C!NoCall, C!CallAs
      <4> QED
        BY <3>2, <4>1, OthersCalls
    <3>3. callOf' = [u \in Threads |-> callOf'[u]] /\ callOf = [u \in Threads |-> callOf[u]]
          /\ callOf'[t] = C!NoCall
      BY <1>3, Mapping
    <3> QED
      BY <3>2, <3>3
  <2> QED
    BY <2>1, <2>2
<1> QED
  BY <1>2, <1>4, <1>5, <1>6 DEF C!Return

\* Users drop Ts and Arcs and make new Arcs; to upgrade a Weak and drop it is
\* nothing to the Cell.
LEMMA CallUserCell ==
    ASSUME CellInv, NEW t \in Threads, ActsOf(t), CallUser(t)
    PROVE  C!Users \/ UNCHANGED C!cellVars
<1>1. /\ at[t] = "idle" /\ at' = at /\ loc' = loc /\ storage' = storage
  BY DEF CallUser
<1>2. cellOf' = cellOf /\ callOf' = callOf
  <2>1. loc[t] = Idle
    BY <1>1 DEF CellInv, CountInv, Frames
  <2>2. CallRec(at'[t], loc'[t], stamp', seen'[t]) = C!NoCall /\ callOf[t] = C!NoCall
    BY <1>1, <2>1, IdleRec, IdleCall
  <2>3. /\ cellOf' = cellOf
        /\ callOf' = [callOf EXCEPT ![t] = C!NoCall]
    BY <1>1, <2>2, QuietStep
  <2>4. callOf = [u \in Threads |-> callOf[u]]
    BY Mapping
  <2> QED
    BY <2>2, <2>3, <2>4
<1>3. /\ \A a \in Addrs : held[a] \in Nat /\ arcs[a] \in Nat /\ refs[a] \in Nat /\ held[a] <= refs[a]
      /\ Count \in [Addrs -> Nat] /\ \A a \in Addrs : Count[a] = held[a] + arcs[a]
      /\ \A a \in Addrs : Count'[a] = held'[a] + arcs'[a]
  BY Referenced DEF CellInv, Count
<1>4. Count' = [a \in Addrs |-> Count'[a]]
  BY DEF Count
<1>5. ASSUME NEW a \in Addrs, Count[a] > 0, UNCHANGED stamp,
             \/ held' = Dec(held, a) /\ UNCHANGED arcs
             \/ arcs' = Dec(arcs, a) /\ UNCHANGED held
      PROVE  C!Users
  <2>1. /\ Count'[a] = Count[a] - 1
        /\ \A b \in Addrs : b # a => Count'[b] = Count[b]
    BY <1>3, <1>5 DEF Dec
  <2>2. Count' \in [Addrs -> Nat]
    BY <1>3, <1>4, <1>5, <2>1
  <2>3. /\ <<a, stamp[a]>> \in C!BagToSet(HeldBag(stamp, Count))
        /\ HeldBag(stamp, Count') = C!BagRemove(HeldBag(stamp, Count), <<a, stamp[a]>>)
    BY <1>3, <1>5, <2>1, <2>2, RemoveFromBag
  <2>4. heldOf = HeldBag(stamp, Count) /\ heldOf' = HeldBag(stamp, Count')
    BY <1>5, Mapping
  <2>5. \E v \in C!BagToSet(heldOf) : heldOf' \in {C!BagRemove(heldOf, v), C!BagAdd(heldOf, v)}
    BY <2>3, <2>4
  <2> QED
    BY <1>2, <1>5, <2>5 DEF C!Users
<1>6. ASSUME NEW a \in Addrs, Free(a),
             arcs' = Inc(arcs, a), UNCHANGED held, stamp' = [stamp EXCEPT ![a] = @ + 1]
      PROVE  C!Users
  <2>1. /\ Count[a] = 0 /\ Count'[a] = Count[a] + 1
        /\ \A b \in Addrs : b # a => Count'[b] = Count[b]
    BY <1>3, <1>6 DEF Inc, Free
  <2>2. Count' \in [Addrs -> Nat]
    BY <1>3, <1>4, <2>1
  <2>3. stamp'[a] = stamp[a] + 1 /\ \A b \in Addrs : b # a => stamp'[b] = stamp[b]
    BY <1>6 DEF CellInv, CountInv, UserCounts
  <2>4. HeldBag(stamp', Count') = C!BagAdd(HeldBag(stamp, Count), <<a, stamp'[a]>>)
    BY <1>3, <2>1, <2>2, <2>3, AddToBag
  <2>5. heldOf' = C!BagAdd(heldOf, C!Fresh(a))
    BY <2>3, <2>4, Mapping DEF C!Fresh
  <2>6. ~C!InUse(<<a, stamp[a]>>)
    BY <1>6, FreeNotInUse DEF CellInv
  <2> QED
    BY <1>2, <1>6, <2>5, <2>6 DEF C!Users
<1>7. ASSUME NEW a \in Addrs, UNCHANGED stamp, held[a] > 0,
             arcs' = Inc(arcs, a), held' = Dec(held, a)
      PROVE  UNCHANGED C!cellVars
  <2>1. \A b \in Addrs : Count'[b] = Count[b]
    BY <1>3, <1>7 DEF Inc, Dec
  <2>2. Count' = Count
    BY <1>3, <1>4, <2>1
  <2>3. heldOf' = heldOf
    BY <2>2, HeldSame
  <2> QED
    BY <1>2, <1>7, <2>3 DEF C!cellVars
<1>8. \A a \in Addrs : held[a] > 0 \/ arcs[a] > 0 => Count[a] > 0
  BY <1>3
<1> QED
  BY <1>5, <1>6, <1>7, <1>8 DEF CallUser

\* The steps the Cell does not see: taking the lock, counting what was read,
\* waiting, and giving back a value that was not stored.
LEMMA SilentSteps ==
    ASSUME CellInv, NEW t \in Threads, ActsOf(t), stamp' = stamp,
           \/ LoadLock(t) \/ LoadInc(t) \/ WaitLock(t) \/ CasLock(t) \/ CasInc(t) \/ CasDropNew(t)
           \/ WaitUnlock(t) /\ loc[t].kind \in {"store", "drop"}
    PROVE  UNCHANGED C!cellVars
<1>1. storage' = storage /\ held' = held /\ arcs' = arcs
  BY DEF LoadLock, LoadInc, WaitLock, CasLock, CasInc, CasDropNew, WaitUnlock, users
<1>2. Count' = Count
  BY <1>1 DEF Count
<1>3. /\ at[t] # "idle" /\ at'[t] # "idle"
      /\ at'[t] \in Open <=> at[t] \in Open
      /\ loc'[t].kind = loc[t].kind /\ loc'[t].ptr = loc[t].ptr
      /\ at[t] \in Open => loc'[t] = loc[t]
  <2>1. CASE CasDropNew(t)
    BY <2>1 DEF CasDropNew, Goto, Frame, Open, CellInv, CountInv, LockInv, TypeOK, Frames
  <2>2. CASE WaitUnlock(t) /\ loc[t].kind \in {"store", "drop"}
    BY <2>2 DEF WaitUnlock, Goto, Open, CellInv, CountInv, LockInv, TypeOK
  <2>3. CASE LoadLock(t) \/ LoadInc(t) \/ WaitLock(t) \/ CasLock(t) \/ CasInc(t)
    BY <2>3 DEF LoadLock, LoadInc, WaitLock, CasLock, CasInc, Goto, Open, CellInv, CountInv,
                LockInv, TypeOK
  <2> QED
    BY <2>1, <2>2, <2>3
<1>4. at[t] \in Open => seen'[t] = seen[t]
  <2>1. at[t] \in Open => Val(stamp', storage') \in seen[t]
    BY <1>1 DEF CellInv, Observed
  <2> QED
    BY <1>3, <2>1, SeenOf DEF ActsOf
<1>5. CallRec(at'[t], loc'[t], stamp', seen'[t]) = CallRec(at[t], loc[t], stamp, seen[t])
  <2>1. CASE at[t] \in Open
    BY <1>3, <1>4, <2>1 DEF CallRec
  <2>2. CASE at[t] \notin Open
    BY <1>3, <2>2 DEF CallRec
  <2> QED
    BY <2>1, <2>2
<1> QED
  BY <1>1, <1>2, <1>5, SilentStep

\* The steps that end a call.
LEMMA ReturnSteps ==
    ASSUME CellInv, NEW t \in Threads, ActsOf(t), stamp' = stamp,
           \/ LoadUnlock(t) \/ CasUnlock(t) \/ OldDec(t)
           \/ WaitUnlock(t) /\ loc[t].kind \in {"swap", "into_inner"}
    PROVE  C!Return(t)
<1> USE DEF CellInv, CountInv, LockInv, TypeOK, Frames, Goto, Returns, Open
<1>1. CASE LoadUnlock(t) \/ CasUnlock(t)
  <2>1. /\ at[t] \notin Open /\ at[t] # "idle" /\ at'[t] = "idle" /\ loc'[t] = Idle
        /\ loc[t].kind \in {"load", "cas"}
        /\ held' = Inc(held, from_ptr(loc[t].ptr)) /\ arcs' = arcs /\ storage' = storage
    BY <1>1 DEF LoadUnlock, CasUnlock
  <2> QED
    BY <2>1, ReturnsCell
<1>2. CASE OldDec(t)
  <2>1. /\ at[t] \notin Open /\ at[t] # "idle" /\ at'[t] = "idle" /\ loc'[t] = Idle
        /\ loc[t].kind \in {"store", "drop"} /\ UNCHANGED users
        /\ storage' = IF loc[t].kind = "drop" THEN Dead ELSE storage
    BY <1>2 DEF OldDec
  <2> QED
    BY <2>1, ReturnsCell
<1>3. CASE WaitUnlock(t) /\ loc[t].kind \in {"swap", "into_inner"}
  <2>1. /\ at[t] \notin Open /\ at[t] # "idle" /\ at'[t] = "idle" /\ loc'[t] = Idle
        /\ held' = Inc(held, from_ptr(loc[t].ptr)) /\ arcs' = arcs
        /\ storage' = IF loc[t].kind = "into_inner" THEN Dead ELSE storage
    BY <1>3 DEF WaitUnlock
  <2> QED
    BY <1>3, <2>1, ReturnsCell
<1> QED
  BY <1>1, <1>2, <1>3

\* What a call reads is always in what it has seen.
LEMMA ObservedStep ==
    ASSUME Observe
    PROVE  Observed'
<1> SUFFICES ASSUME NEW t \in Threads, at'[t] \in Open
             PROVE  Val(stamp', storage') \in seen'[t]
  BY DEF Observed, Val
<1> QED
  BY SeenOf

\* Every step is one of the Cell or invisible to it.
LEMMA CellStep ==
    ASSUME CellInv, NEW t \in Threads, ActsOf(t)
    PROVE  C!CellNext \/ UNCHANGED C!cellVars
<1>1. CASE Call(t)
  <2>1. \/ C!Read(t) \/ C!Swap(t) \/ C!Cas(t) \/ C!Destroy(t) \/ C!New \/ C!Users
        \/ UNCHANGED C!cellVars
    BY <1>1, CallLoadCell, CallSwapCell, CallCasCell, CallDestroyCell, CallNewCell, CallUserCell
       DEF Call
  <2> QED
    BY <2>1 DEF C!CellNext
<1>2. CASE ~Call(t)
  <2>1. stamp' = stamp
    BY <1>2 DEF ActsOf
  <2>2. WaitUnlock(t) => loc[t].kind \in {"swap", "into_inner"} \/ loc[t].kind \in {"store", "drop"}
    BY DEF WaitUnlock
  <2>3. \/ CallLoad(t) \/ CallSwap(t) \/ CallCas(t) \/ CallDestroy(t) \/ CallNew(t) \/ CallUser(t)
        \/ C!Read(t) \/ C!Cas(t) \/ C!Return(t) \/ UNCHANGED C!cellVars
    BY <2>1, <2>2, LoadPtrCell, CasExchangeCell, ReturnSteps, SilentSteps DEF ActsOf, Acts
  <2> QED
    BY <1>2, <2>3 DEF C!CellNext, ActsOf, Call
<1> QED
  BY <1>1, <1>2

\* Every step of the strategy is one of the cell, or none.
LEMMA NextCell == CellInv /\ [Next]_vars => CellInv' /\ [C!CellNext]_C!cellVars
<1> SUFFICES ASSUME CellInv, [Next]_vars PROVE CellInv' /\ (C!CellNext \/ UNCHANGED C!cellVars)
  OBVIOUS
<1>1. CountInv'
  BY NextCount DEF CellInv
<1>2. CASE UNCHANGED vars
  <2>1. Observed'
    BY <1>2 DEF vars, CellInv, Observed, Val
  <2>2. Count' = Count
    BY <1>2 DEF vars, Count
  <2>3. cellOf' = cellOf /\ heldOf' = heldOf /\ callOf' = callOf
    BY <1>2, <2>2, Mapping DEF vars
  <2> QED
    BY <1>1, <1>2, <2>1, <2>3 DEF CellInv, C!cellVars, vars
<1>3. ASSUME NEW t \in Threads, ActsOf(t)
      PROVE  CellInv' /\ (C!CellNext \/ UNCHANGED C!cellVars)
  BY <1>1, <1>3, CellStep, ObservedStep DEF CellInv, ActsOf
<1>4. UNCHANGED vars \/ \E t \in Threads : ActsOf(t)
  BY DEF Next, Done, Call, Step, Inside, fixed, Acts, ActsOf
<1> QED
  BY <1>2, <1>3, <1>4

\* The RwLock strategy implements the Cell for any number of threads and addresses
\* and every kind of T: each load, store, swap, compare_and_swap, drop, into_inner
\* and with_strategy takes effect in one step between its call and its return, no
\* address stands for another Arc while somebody refers to the one there, and
\* nothing else is visible of the lock or the counts.
THEOREM RwLockImplementsCell == Spec => ImplementsCell
<1>1. Init => CellInv
  BY InitCount DEF Init, CellInv, Observed, Open
<1> QED
  BY <1>1, InitCell, NextCell, PTL DEF Spec, ImplementsCell, C!CellSpec

=============================================================================
