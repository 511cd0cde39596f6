--------------------------- MODULE RwLockStrategy ---------------------------
(***************************************************************************)
(* ArcSwapAny with the strategy RwLock<()> (src/strategy/rw_lock.rs), for  *)
(* every kind of T that src/ref_cnt.rs and src/weak.rs make a RefCnt: an   *)
(* Arc (pinned or not), an Option of one, or a Weak.                       *)
(*                                                                         *)
(* Loads take the read lock around the pointer load and the increment.     *)
(* swap does not lock: it swaps the pointer first and takes the write lock *)
(* afterwards, only to wait for those who may have the old one.            *)
(* compare_and_swap works under the write lock.  One step is one access to *)
(* the lock, the pointer or a reference count.                             *)
(***************************************************************************)
EXTENDS Integers, FiniteSets

CONSTANTS
    Threads,
    Addrs,      \* addresses an Arc can be allocated at
    NULL,       \* the null raw pointer
    Empty,      \* None, or Weak::new()
    Dead,       \* the instance does not exist
    Types,      \* the kinds of T to be looked at
    Kinds,      \* the calls each thread makes
    MaxOps,     \* bound: number of calls of each thread
    MaxStamp    \* bound: number of Arcs allocated at one address

NoThread == "none"
Raw == Addrs \cup {NULL}        \* *mut T::Base
Smart == Addrs \cup {Empty}     \* T

\* The kinds of T.  Rc and the pinned pointers convert the way Arc does.
RefCntTypes == {"Arc", "Option", "Weak"}

ASSUME LockAssumption ==
    /\ IsFiniteSet(Threads)
    /\ NULL \notin Addrs
    /\ Empty \notin Addrs
    /\ Dead \notin Raw
    /\ NoThread \notin Threads
    /\ Types \subseteq RefCntTypes
    /\ Kinds \in [Threads -> SUBSET {"load", "store", "swap", "cas", "drop", "into_inner",
                                     "new", "drop_t", "new_arc", "upgrade", "drop_arc"}]
    /\ MaxOps \in [Threads -> Nat]
    /\ MaxStamp \in Nat

VARIABLES
    ty,         \* what T is
    storage,    \* the AtomicPtr
    readers,    \* who holds the lock for reading
    writer,     \* who holds it for writing
    refs,       \* the count that T manages at each address: strong, or weak for Weak
    arcs,       \* T = Weak: the Arcs that users hold
    held,       \* the Ts that users hold, also inside guards
    at,         \* the next access of each thread
    loc,        \* its call: arguments and locals
    budget,     \* calls each thread has left
    stamp,      \* history: which Arc lives at an address, counted from 1
    seen        \* history: values of the storage during each thread's load

vars == <<ty, storage, readers, writer, refs, arcs, held, at, loc, budget, stamp, seen>>
lock == <<readers, writer>>
users == <<arcs, held>>
fixed == <<ty, budget, stamp>>

\* A call with its arguments and the pointer it has got.
Frame(kind, new, cur, ptr) == [kind |-> kind, new |-> new, cur |-> cur, ptr |-> ptr]
Idle == Frame("none", NULL, NULL, NULL)

Labels == {"idle", "rd_lock", "rd_ptr", "rd_inc", "rd_unlock", "wr_lock", "wr_unlock", "old_dec",
           "cas_lock", "cas_x", "cas_inc", "cas_drop", "cas_unlock"}
CallKinds == {"none", "load", "store", "swap", "cas", "drop", "into_inner"}

Value(p) == IF p \in Addrs THEN <<p, stamp[p]>> ELSE <<p, 0>>

TypeOK ==
    /\ ty \in RefCntTypes
    /\ storage \in Raw \cup {Dead}
    /\ readers \subseteq Threads
    /\ writer \in Threads \cup {NoThread}
    /\ refs \in [Addrs -> Int]
    /\ arcs \in [Addrs -> Int]
    /\ held \in [Addrs -> Int]
    /\ at \in [Threads -> Labels]
    /\ loc \in [Threads -> [kind : CallKinds, new : Raw, cur : Raw, ptr : Raw]]

Init ==
    /\ ty \in Types
    /\ storage \in Addrs
    /\ readers = {}
    /\ writer = NoThread
    /\ refs = [a \in Addrs |-> IF a = storage THEN 1 ELSE 0]
    /\ arcs = [a \in Addrs |-> 0]
    /\ held = [a \in Addrs |-> 0]
    /\ at = [t \in Threads |-> "idle"]
    /\ loc = [t \in Threads |-> Idle]
    /\ budget = MaxOps
    /\ stamp = refs
    /\ seen = [t \in Threads |-> {}]

-----------------------------------------------------------------------------
(* RefCnt: conversions between T and the raw pointer.                        *)

\* Mutant: the address of an empty T is used as it is.
into_ptr_dangling(v) == v

into_ptr(v) == IF v = Empty THEN NULL ELSE v

from_ptr(p) == IF p = NULL THEN Empty ELSE p

\* A look at the pointer of a T that is only borrowed.
as_ptr(v) == IF v = Empty THEN NULL ELSE v

\* AsRaw: a borrowed T, a guard, or a raw pointer as it is.
as_raw(current) == IF current \in Smart THEN as_ptr(current) ELSE current

\* Counts of what is behind a pointer; nothing is behind NULL or an empty T.
Inc(counts, p) == [a \in Addrs |-> IF a = p THEN counts[a] + 1 ELSE counts[a]]
Dec(counts, p) == [a \in Addrs |-> IF a = p THEN counts[a] - 1 ELSE counts[a]]

\* The memory is given back when neither Ts nor Arcs are left.
Free(a) == refs[a] = 0 /\ arcs[a] = 0

\* An argument of type T: a new Arc, a clone or a downgrade, or an empty one.
Argument(v) ==
    \/ /\ ty # "Weak" /\ v \in Addrs /\ Free(v) /\ stamp[v] < MaxStamp
       /\ refs' = Inc(refs, v)
       /\ stamp' = [stamp EXCEPT ![v] = @ + 1]
    \/ /\ v \in Addrs /\ (held[v] > 0 \/ arcs[v] > 0)
       /\ refs' = Inc(refs, v)
       /\ UNCHANGED stamp
    \/ /\ ty # "Arc" /\ v = Empty
       /\ UNCHANGED <<refs, stamp>>

-----------------------------------------------------------------------------
(* Calls.                                                                    *)

Goto(t, label) == at' = [at EXCEPT ![t] = label]

Invoke(t, kind) ==
    /\ at[t] = "idle"
    /\ kind \in Kinds[t]
    /\ budget[t] > 0
    /\ budget' = [budget EXCEPT ![t] = @ - 1]

\* The instance exists and nobody has taken it over to destroy it.
Shared ==
    /\ storage # Dead
    /\ \A t \in Threads : loc[t].kind \notin {"drop", "into_inner"}

CallLoad(t) ==
    /\ Shared
    /\ Invoke(t, "load")
    /\ loc' = [loc EXCEPT ![t] = Frame("load", NULL, NULL, NULL)]
    /\ Goto(t, "rd_lock")
    /\ UNCHANGED <<ty, storage, lock, refs, users, stamp>>

\* Mutant: store and swap do not wait for the readers.
CallSwapAtOnce(t) ==
    \E kind \in {"store", "swap"}, v \in Smart :
        /\ Shared
        /\ Invoke(t, kind)
        /\ Argument(v)
        /\ storage' = into_ptr(v)
        /\ loc' = [loc EXCEPT ![t] = Frame(kind, NULL, NULL, storage)]
        /\ Goto(t, "old_dec")
        /\ UNCHANGED <<ty, lock, users>>

\* swap, alone or in store.
CallSwap(t) ==
    \E kind \in {"store", "swap"}, v \in Smart :
        /\ Shared
        /\ Invoke(t, kind)
        /\ Argument(v)
        /\ storage' = into_ptr(v)
        /\ loc' = [loc EXCEPT ![t] = Frame(kind, NULL, NULL, storage)]
        /\ Goto(t, "wr_lock")
        /\ UNCHANGED <<ty, lock, users>>

\* compare_and_swap; the pointer to compare with comes first.
CallCas(t) ==
    \E v \in Smart, current \in Smart \cup Raw :
        /\ Shared
        /\ Invoke(t, "cas")
        /\ Argument(v)
        /\ loc' = [loc EXCEPT ![t] = Frame("cas", into_ptr(v), as_raw(current), NULL)]
        /\ Goto(t, "cas_lock")
        /\ UNCHANGED <<ty, storage, lock, users>>

CallDestroy(t) ==
    \E kind \in {"drop", "into_inner"} :
        /\ storage # Dead
        /\ \A u \in Threads : at[u] = "idle"
        /\ Invoke(t, kind)
        /\ loc' = [loc EXCEPT ![t] = Frame(kind, NULL, NULL, storage)]
        /\ Goto(t, "wr_lock")
        /\ UNCHANGED <<ty, storage, lock, refs, users, stamp>>

\* with_strategy, with a lock of its own.
CallNew(t) ==
    \E v \in Smart :
        /\ storage = Dead
        /\ Invoke(t, "new")
        /\ Argument(v)
        /\ storage' = into_ptr(v)
        /\ readers' = {} /\ writer' = NoThread
        /\ UNCHANGED <<ty, users, at, loc>>

\* What users do with Ts and, if T is Weak, with Arcs.
CallUser(t) ==
    \E a \in Addrs :
        /\ at[t] = "idle"
        /\ \/ /\ "drop_t" \in Kinds[t] /\ held[a] > 0
              /\ held' = Dec(held, a) /\ refs' = Dec(refs, a)
              /\ UNCHANGED <<arcs, stamp>>
           \/ /\ "new_arc" \in Kinds[t] /\ ty = "Weak" /\ Free(a) /\ stamp[a] < MaxStamp
              /\ arcs' = Inc(arcs, a) /\ stamp' = [stamp EXCEPT ![a] = @ + 1]
              /\ UNCHANGED <<refs, held>>
           \/ /\ "upgrade" \in Kinds[t] /\ ty = "Weak" /\ held[a] > 0 /\ arcs[a] > 0
              /\ arcs' = Inc(arcs, a) /\ held' = Dec(held, a) /\ refs' = Dec(refs, a)
              /\ UNCHANGED stamp
           \/ /\ "drop_arc" \in Kinds[t] /\ arcs[a] > 0
              /\ arcs' = Dec(arcs, a)
              /\ UNCHANGED <<refs, held, stamp>>
        /\ UNCHANGED <<ty, storage, lock, at, loc, budget>>

-----------------------------------------------------------------------------
(* The lock (external: std::sync::RwLock).                                   *)

AcquireRead(t) == writer = NoThread /\ readers' = readers \cup {t} /\ UNCHANGED writer
ReleaseRead(t) == readers' = readers \ {t} /\ UNCHANGED writer
AcquireWrite(t) == writer = NoThread /\ readers = {} /\ writer' = t /\ UNCHANGED readers
ReleaseWrite(t) == writer' = NoThread /\ UNCHANGED readers

-----------------------------------------------------------------------------
(* Steps inside a call.                                                      *)

Returns(t, v) ==
    /\ held' = Inc(held, v)
    /\ loc' = [loc EXCEPT ![t] = Idle]
    /\ Goto(t, "idle")

\* Mutant: the lock is not taken.
LoadUnlocked(t) ==
    /\ at[t] = "rd_lock" /\ Goto(t, "rd_ptr")
    /\ UNCHANGED <<storage, lock, refs, users, loc>>

\* load.
LoadLock(t) ==
    /\ at[t] = "rd_lock" /\ Goto(t, "rd_ptr")
    /\ AcquireRead(t)
    /\ UNCHANGED <<storage, refs, users, loc>>

LoadPtr(t) ==
    /\ at[t] = "rd_ptr" /\ Goto(t, "rd_inc")
    /\ loc' = [loc EXCEPT ![t] = Frame("load", NULL, NULL, storage)]
    /\ UNCHANGED <<storage, lock, refs, users>>

LoadInc(t) ==
    /\ at[t] = "rd_inc" /\ Goto(t, "rd_unlock")
    /\ refs' = Inc(refs, loc[t].ptr)
    /\ UNCHANGED <<storage, lock, users, loc>>

LoadUnlock(t) ==
    /\ at[t] = "rd_unlock"
    /\ ReleaseRead(t)
    /\ Returns(t, from_ptr(loc[t].ptr))
    /\ UNCHANGED <<storage, refs, arcs>>

\* wait_for_readers: the write lock is taken and dropped.
WaitLock(t) ==
    /\ at[t] = "wr_lock" /\ Goto(t, "wr_unlock")
    /\ AcquireWrite(t)
    /\ UNCHANGED <<storage, refs, users, loc>>

\* What follows in swap and into_inner is from_ptr, in store and Drop a decrement.
WaitUnlock(t) ==
    /\ at[t] = "wr_unlock"
    /\ ReleaseWrite(t)
    /\ \/ /\ loc[t].kind \in {"swap", "into_inner"}
          /\ Returns(t, from_ptr(loc[t].ptr))
          /\ storage' = IF loc[t].kind = "into_inner" THEN Dead ELSE storage
       \/ /\ loc[t].kind \in {"store", "drop"}
          /\ Goto(t, "old_dec")
          /\ UNCHANGED <<storage, held, loc>>
    /\ UNCHANGED <<refs, arcs>>

OldDec(t) ==
    /\ at[t] = "old_dec" /\ Goto(t, "idle")
    /\ refs' = Dec(refs, loc[t].ptr)
    /\ storage' = IF loc[t].kind = "drop" THEN Dead ELSE storage
    /\ loc' = [loc EXCEPT ![t] = Idle]
    /\ UNCHANGED <<lock, users>>

\* compare_and_swap.
CasLock(t) ==
    /\ at[t] = "cas_lock" /\ Goto(t, "cas_x")
    /\ AcquireWrite(t)
    /\ UNCHANGED <<storage, refs, users, loc>>

\* Mutant: it tries again until the exchange succeeds.
CasRetries(t) ==
    /\ at[t] = "cas_x"
    /\ \/ /\ storage = loc[t].cur
          /\ storage' = loc[t].new
          /\ loc' = [loc EXCEPT ![t] = Frame("cas", NULL, loc[t].cur, storage)]
          /\ Goto(t, "cas_unlock")
          /\ UNCHANGED lock
       \/ /\ storage # loc[t].cur
          /\ ReleaseWrite(t)
          /\ Goto(t, "cas_lock")
          /\ UNCHANGED <<storage, loc>>
    /\ UNCHANGED <<refs, users>>

\* Success: the references of `new` and `old` change places.
CasExchange(t) ==
    /\ at[t] = "cas_x"
    /\ \/ /\ storage = loc[t].cur
          /\ storage' = loc[t].new
          /\ loc' = [loc EXCEPT ![t] = Frame("cas", NULL, loc[t].cur, storage)]
          /\ Goto(t, "cas_unlock")
       \/ /\ storage # loc[t].cur
          /\ loc' = [loc EXCEPT ![t] = Frame("cas", loc[t].new, loc[t].cur, storage)]
          /\ Goto(t, "cas_inc")
          /\ UNCHANGED storage
    /\ UNCHANGED <<lock, refs, users>>

\* Mutant: the duplicate of the old pointer is returned without a reference.
CasNoInc(t) ==
    /\ at[t] = "cas_inc" /\ Goto(t, "cas_drop")
    /\ UNCHANGED <<storage, lock, refs, users, loc>>

CasInc(t) ==
    /\ at[t] = "cas_inc" /\ Goto(t, "cas_drop")
    /\ refs' = Inc(refs, loc[t].ptr)
    /\ UNCHANGED <<storage, lock, users, loc>>

CasDropNew(t) ==
    /\ at[t] = "cas_drop" /\ Goto(t, "cas_unlock")
    /\ refs' = Dec(refs, loc[t].new)
    /\ loc' = [loc EXCEPT ![t] = Frame("cas", NULL, loc[t].cur, loc[t].ptr)]
    /\ UNCHANGED <<storage, lock, users>>

CasUnlock(t) ==
    /\ at[t] = "cas_unlock"
    /\ ReleaseWrite(t)
    /\ Returns(t, from_ptr(loc[t].ptr))
    /\ UNCHANGED <<storage, refs, arcs>>

-----------------------------------------------------------------------------
\* History: what the storage held since the call, until the call is decided.
Reading(t) == at[t] \in {"rd_lock", "rd_ptr", "cas_lock", "cas_x"}
Observe ==
    seen' = [t \in Threads |->
                IF Reading(t)' THEN {Value(storage)'} \cup IF Reading(t) THEN seen[t] ELSE {}
                ELSE {}]

Call(t) ==
    \/ CallLoad(t) /\ Observe
    \/ CallSwap(t) /\ Observe
    \/ CallCas(t) /\ Observe
    \/ CallDestroy(t) /\ Observe
    \/ CallNew(t) /\ Observe
    \/ CallUser(t) /\ Observe

Inside == UNCHANGED fixed /\ Observe

Step(t) ==
    \/ LoadLock(t) /\ Inside
    \/ LoadPtr(t) /\ Inside
    \/ LoadInc(t) /\ Inside
    \/ LoadUnlock(t) /\ Inside
    \/ WaitLock(t) /\ Inside
    \/ WaitUnlock(t) /\ Inside
    \/ OldDec(t) /\ Inside
    \/ CasLock(t) /\ Inside
    \/ CasExchange(t) /\ Inside
    \/ CasInc(t) /\ Inside
    \/ CasDropNew(t) /\ Inside
    \/ CasUnlock(t) /\ Inside

Done == (\A t \in Threads : at[t] = "idle") /\ UNCHANGED vars

Next == (\E t \in Threads : Call(t) \/ Step(t)) \/ Done

Spec == Init /\ [][Next]_vars

\* Fairness: every thread is scheduled; one that waits for the lock gets it when
\* the others leave it alone.
LiveSpec == Spec /\ \A t \in Threads : WF_vars(Step(t))

-----------------------------------------------------------------------------
(* Properties.                                                               *)

HoldsRead(t) == at[t] \in {"rd_ptr", "rd_inc", "rd_unlock"}
HoldsWrite(t) == at[t] \in {"wr_unlock", "cas_x", "cas_inc", "cas_drop", "cas_unlock"}

\* A pointer that was read under the lock but has no reference yet (load before
\* its inc, a failed compare_and_swap before its inc) is still in the storage, or
\* with a writer that swapped it out without any lock and has not got through
\* wait_for_readers.
PointersPinned ==
    \A t \in Threads :
        at[t] \in {"rd_inc", "cas_inc"} =>
            \/ storage = loc[t].ptr
            \/ \E u \in Threads : at[u] = "wr_lock" /\ loc[u].ptr = loc[t].ptr

\* Everybody gets out of every call: nobody waits for the lock for ever.
CallsReturn == \A t \in Threads : at[t] # "idle" ~> at[t] = "idle"
=============================================================================
