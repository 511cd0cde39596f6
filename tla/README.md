# A TLA+ model of arc-swap

`arc-swap` lets many threads read an `Arc` that other threads replace, without a lock.  A reader
does not bump the reference count; it writes a *debt* into a slot of a node of its own, and the
writer that replaces the pointer walks all nodes and pays the debts on it.  This directory models
that protocol one atomic access at a time, the alternative strategy with a lock, and the readers
built on top (caches and access objects).  An abstract cell says what an `ArcSwapAny` promises; TLC
checks on small instances that both strategies implement it.  TLAPS proves for every instance that
the strategy with the lock implements it, what holds of the list of nodes, and that caches are fresh.

Paths below are relative to the repository; `list.rs`, `helping.rs`, `fast.rs` and `mod.rs` are in
`src/debt/`, `hybrid.rs` and `rw_lock.rs` in `src/strategy/`.

## The system

| Component | State | Operations | Hard about it |
|---|---|---|---|
| Debt list (`list.rs`) | `LIST_HEAD`; of each node `next`, `in_use`, `active_writers`; of each thread its `LocalNode` | `Node::get` (claim or push), `traverse`, `reserve_writer`, `start_cooldown`, `check_cooldown`, thread exit, temporary nodes | lock-free claiming and pushing; a node must not be reused under a writer |
| Fast slots (`fast.rs`) | `DEBT_SLOT_CNT` debts per node, a round-robin offset per thread | `get_debt` | slots run out; debts outlive the thread that made them |
| Helping slots (`helping.rs`) | `control`, `slot`, `active_addr`, an envelope and `space_offer` per node; a generation per thread | `get_debt`, `confirm`, `help` | writers finish a reader's load for it; generations wrap; envelopes change owners |
| Debts (`mod.rs`) | the slots | `pay`, `pay_all` | who takes the reference when reader and writer pay at once |
| Hybrid strategy (`hybrid.rs`) | `HybridProtection` = pointer and optional debt | `attempt`, `fallback`, `into_inner`, drop, `wait_for_readers`, `compare_and_swap` | everything that is read in one access and used after another |
| `ArcSwapAny`, `Guard` (`src/lib.rs`) | the `AtomicPtr` | `load`, `load_full`, `store`, `swap`, `compare_and_swap`, `rcu`, `into_inner`, drop, `Guard::into_inner`, `Guard::from_inner` | memory that is freed and allocated again; instances that end under their guards; equality by address |
| RwLock strategy (`rw_lock.rs`) | a lock per instance | the same interface with a lock | `swap` does not lock; it only waits for the lock afterwards |
| `RefCnt`, `Weak`, `AsRaw` (`src/ref_cnt.rs`, `weak.rs`, `as_raw.rs`) | reference counts | `inc`, `dec`, `into_ptr`, `from_ptr`, `as_ptr` | the counts have to be exact; empty values are null pointers |
| `Cache` (`src/cache.rs`) | a cached `Arc` | `load` with revalidation, clone, `map` | a relaxed read and an address decide whether the cache is stale |
| `Access`, `Map` (`src/access.rs`) | none; guards with layers | `load` through maps, smart pointers, trait objects, constants | what a nested guard derefs to and keeps alive |
| serde | none | (de)serialisation | |

A call of the API runs in one thread: `load` → `LocalNode::with` (perhaps `Node::get`) → `attempt` →
`fallback`; `swap` → `wait_for_readers` → `pay_all` → for every node `reserve_writer`, `help`
(perhaps a whole nested `load`), `pay` of every slot; `rcu` → `load`, the closure,
`compare_and_swap` (which loads again), until it succeeds.  Threads share the storages, the list of
nodes and the reference counts, nothing else.

What makes the components correct: a node has one owner and can be reached by every writer; the
reference count plus the debts is always the number of references in use; nothing in use is freed;
every call takes effect at one moment between its begin and its end, on a cell with one value; a
cache never goes back behind what its thread knew; readers and writers get out of their calls
whatever the others do.  The hazards behind these, line by line, are listed in `PROJECT.json`.

## Modules

| Module | Models | Builds on |
|---|---|---|
| `DebtList` | `list.rs` | |
| `Debts` | `mod.rs`, `fast.rs`, `helping.rs` | `DebtList` |
| `Hybrid` | `hybrid.rs`, and the loop of `rcu` | `Debts` |
| `ArcSwap` | the API of `src/lib.rs`; composes the above into one specification; its properties | `Hybrid` |
| `RwLockStrategy` | `rw_lock.rs` under the same API, with the conversions of `ref_cnt.rs`, `weak.rs`, `as_raw.rs` | |
| `Cell` | the contract of `src/strategy/mod.rs`, as an abstract specification | |
| `ArcSwapCell`, `RwLockCell` | refinement mappings: `ArcSwap` and `RwLockStrategy` implement `Cell` | `Cell` by `INSTANCE` |
| `Access` | the layers of `access.rs`, as operators | |
| `Views` | `cache.rs` and the loads of `access.rs`, against stores | `Access` |
| `DebtListProofs` | theorems about the list | `DebtList` |
| `ArcSwapInv` | the inductive invariant of the helping protocol | `ArcSwap` |
| `HelpingLocals`, `HelpingProofs` | the list inside of the whole, and the proof of the invariant: what each thread has at hand, and what threads share; theorems about envelopes, assertions and panics | `ArcSwapInv`, `DebtListProofs` |
| `RefCountProofs` | theorem about the reference counts of the hybrid strategy | `HelpingProofs` |
| `DebtProofs` | theorems about debts and what they keep alive, and the types of the whole | `RefCountProofs` |
| `RwLockProofs` | theorems about the strategy with the lock, its counts and its refinement of `Cell` | `RwLockStrategy`, `RwLockCell` |
| `ViewsProofs` | theorems about caches and access objects | `Views` |
| `Counting` | lemmas about cardinalities that the proofs share | |
| `MCDebtList`, `MCArcSwap`, `MCRwLock`, `MCViews` | instances for TLC | |

### The hybrid strategy

One step is one access to shared memory, sequentially consistent.  What a thread does between two
accesses (its `Cell`s, its locals) is part of the step before.  `pc[t]` names the next access,
`lpc[t]` the place inside the code of the list, so that a load nested in `help` knows that it is
(`lpc[t] = "visit"`).  `op`, `ld` and `wr` hold the arguments of the call and the locals of its
reading and writing part.  Names of fields are those of the code.

* **Pointers.**  An `Arc` is the address of its allocation; `strong[a] = 0` means that the memory is
  free and can be used for another `Arc`.  `stamp` is a history variable that tells successive Arcs
  at one address apart.  `NULL` is the `None` of `ArcSwapOption`; counting it changes nothing.
* **The control word** is a number whose two lowest bits are a tag (`IDLE`, `GEN_TAG`,
  `REPLACEMENT_TAG`) and whose upper part is a generation or an envelope.  Generations count in steps
  of 4 and wrap at `GenLimit`, which stands for 2^w.  Envelopes are named by the node they were born
  in; that their addresses are multiples of 4 (`repr(align(4))` of `Handover`) is built in.
* **Guards** are values users hold, in a bag: any thread may drop any guard, as `Guard` is `Send`.
* **Instances.**  Rust guarantees that `drop` and `into_inner` have the instance for themselves
  (`Exclusive`) and that a borrowed instance exists (`Shared`).
* **Threads.**  When a thread ends, its identifier stands for a new thread from then on.  A thread in
  `LateThreads` has lost its thread-locals: each of its loads gets a node (`GetStep`) and sends it
  into cooldown (`TmpNodeDrop`) before the guard goes to the user, with the guard's debt still in it.
* **A weak compare_exchange** may fail spuriously: in `compare_and_swap` this is a disjunct of its
  own, in the push of `Node::get` it is a stuttering step.
* **rcu** is a load, a closure that makes any value out of what it is given (`RcuApply`: a new Arc or
  a clone, also of its argument), a `compare_and_swap`, and a comparison of addresses (`ptr_eq`) that
  ends or repeats it.

### The RwLock strategy

One step is one access to the lock, the pointer or a count.  The lock is external; it lets in any
readers or one writer.  `ty` says what `T` is: an `Arc`, an `Option` of one or a `Weak`; `Rc` and
pinned pointers convert the way `Arc` does.  `refs` is the count that `T` manages; for a `Weak` the
memory lives until `arcs`, the Arcs of the users, are gone as well.  `into_ptr`, `from_ptr`, `as_ptr`
and `as_raw` convert between an empty value and the null pointer, as the code does.

### The cell and the refinements

`Cell` has one value per instance.  `store` and `swap` replace it in one step, `compare_and_swap`
replaces it if the *address* is the expected one, `rcu` only if it is the *very Arc* its new value was
computed from.  A read happens at some moment between the call and the return, which the cell says
with a window: the call collects in `seen` what the cell holds meanwhile and returns one of those.
An address is not used for another Arc while a user, an instance or a running call has the one that
lives there.  There are no debts, locks or counts.

The mappings in `ArcSwapCell` and `RwLockCell` say when a call is decided: a writer when it has
swapped, a load when it has its pointer, `compare_and_swap` when it has exchanged or given up, `rcu`
after its last exchange.  A user's `held` values are their guards (whose debts are as good as
references), their Arcs, and what is on its way from one to the other.  `seen` of the detailed
specifications is a history variable and feeds the window.  So the refinement is a linearizability
argument: every interleaving of accesses is one of whole calls.  It also shows that `rcu` loses no
update although it compares addresses only: the guard it keeps holds the address.

### Caches and access objects

`Views` has one `ArcSwapAny` whose loads and stores are steps of the cell.  A cache looks at the
pointer with `Ordering::Relaxed`: `written` is the modification order of the pointer, `known[t]` the
newest write that thread `t` knows of, and a relaxed read finds any write from there on.  A cache that
is moved to another thread takes the knowledge with it, as a move between threads synchronises.  A
guard of an access object is its source (the pointer itself, its target, a constant) and a sequence
of layers; `Deref` folds over them the way the nested `Deref` implementations call each other.

## Properties

| Property | Says |
|---|---|
| `ExclusiveOwnership` | a node, linked or just allocated, has at most one owner and is `NODE_USED` |
| `OwnedNodesLinked`, `ListOnlyGrows` | owned nodes are reachable from the head; chains end, only grow, and keep their links |
| `WritersCounted` | `active_writers` = reservations held |
| `CooldownWaitsForWriters` | a node leaves cooldown after the writers that were on it at its start |
| `RefCountExact` | count + debts = references of storages, guards, Arcs, threads and envelopes |
| `NoUseAfterFree` | what anybody relies on has a count above zero |
| `LoadLinearizable` | a load returns an Arc the storage held during the load |
| `ImplementsCell` | the strategy implements `Cell` (in `ArcSwapCell` and in `RwLockCell`) |
| `DebtsHaveDebtors` | every debt in a slot belongs to a guard or a running call, after exits and on temporary nodes too |
| `EnvelopesUnique` | no two nodes offer the same envelope |
| `DebugAsserts` | the assertions in the code |
| `LoadsDoNotPanic` | the `expect` in `confirm_helping` holds |
| `CallsReturn` | fairly scheduled threads get out of their calls |
| `PointersPinned` | a pointer read under the lock and not yet counted is in the storage or with a writer that still waits |
| `RefsExact` | the count of `T` is the number of references in the storage, with users and in calls |
| `CacheFresh` | `Cache::load` gives nothing older than what the thread knew at the call |
| `ReferencesLive` | what a cache or a guard refers to is alive and still the Arc at its address |
| `GuardsResolve` | a guard derefs to the part its access stands for, of a value that was there |

`TypeOK` (of `ArcSwap` and of `RwLockStrategy`) and `ListTypeOK` are the type invariants.

## Runs

| Run | Instance | Distinct states |
|---|---|---|
| `list_cold` | 3 threads from an empty list, all walking, one exit, 4 nodes | 58 603 |
| `load_store` | reader (2 loads, 1 fast slot) and writer (2 writes), 3 addresses twice each; its second slow load overflows the generation counter | 374 333 |
| `helping` | reader without fast slots, two writers with a store each | 421 107 |
| `rcu` | two threads with one `rcu`, `compare_and_swap` or store each, 3 addresses twice each | 242 804 |
| `destroy` | two instances, reader and a writer that stores, drops, takes apart and creates | 96 275 |
| `exit_help` | readers without fast slots that end and start again, two instances, `None`, a writer | 165 716 |
| `late` | two loads of a thread without thread-locals, a writer with two stores, from an empty list | 140 562 |
| `rw_lock` | `Arc`, `Option` and `Weak`; one call against two, of all kinds | 165 422 |
| `views` | two threads, two caches, four access objects, four writes to two addresses | 1 001 457 |

Three more, `list_cooldown_race`, `wrap_panic` and `reuse`, end in a violation (below).

**Bounds.**  They are chosen so that the cases meet.  One fast slot and two loads take a reader into
the slow path behind a guard; three addresses with two allocations each let memory come back at the
same address while a reader still has the old one; two writers and one reader are what it takes for
two helpers to collide, and for one helper to be helped in its nested load.  In `rcu` both threads
are writers and readers at once, so that every round of one can be spoilt by the other.  `destroy`
and `load_store` stay at two writes: with three, two instances and reused addresses the load of
`reuse` goes wrong, which also breaks `ImplementsCell`.  So the runs with instances that come and go
check linearizability as `ImplementsCell` under that bound only, and two calls are too few to store
into an instance that was created again while a reader's node still announces the address.  What such
a store does to the counts is covered by `CountsAreExact`, and that an open load has announced the
instance it reads from by `Addressed` in `DebtInv`, for any number of calls under the hypotheses of
those proofs.  `exit_help` has no fast slots, so the assertions of `fast.rs` are not met there but in
`late`.  In `late` nobody has a node at the start: the writer and the reader contend for the push,
and the writer may claim the reader's temporary node with the debt of a guard in it.  `MaxNodes` is
in every passing run the number of nodes that its threads and cooldowns can need at once, so the
bound on allocation does not block anybody.  `GenMod = 8` is larger than the number of slow loads of
a run, nested ones included, so generations repeat only where that is the question (`load_store`,
`wrap_panic`, and `exit_help`, where a new thread counts from 0 again).  Threads may stop between
calls for ever, which is the step `Done`; a deadlock anywhere else is an error.

**Symmetry.**  Addresses are permuted, in `views` threads and caches too, in `list_cold` the threads;
not in runs with fairness.  No action or property tells the permuted values apart.  The initial storage is one fixed choice among the
equivalent ones, so every reachable state has its permutations reachable from another choice that
would behave the same.

**Fairness.**  `LiveSpec` of `ArcSwap` assumes weak fairness of the steps of `FairThreads` inside a
call: the scheduler runs them.  Nothing is assumed of the other threads, which may stop anywhere, nor
that anybody makes a call.  That is what wait-free and lock-free mean in `src/strategy/mod.rs`.  In
`late` only the reader is fair, in `exit_help` only the writer.  The number of calls is bounded, so a
writer whose `help` loops because a reader starts load after load for ever is outside of the run.
With a lock everybody has to be scheduled: `LiveSpec` of `RwLockStrategy` has weak fairness of every
thread's steps.  Since the calls are bounded, no fairness of the lock itself is needed.

## What the checks found

Three runs end in a violation of something the code says of itself.

* `list_cooldown_race`.  `check_cooldown` looks at `in_use` and `active_writers` and then ends the
  cooldown by `compare_exchange`.  A thread delayed before the exchange, while the node is claimed,
  used and sent into cooldown again, ends the *second* cooldown, with a writer on the node.  Without
  the cooldown a helper can hand the next owner of the node a pointer of another storage; the run
  `exit_help` and its mutant show that this is what the cooldown prevents.  The chain of both effects
  needs three threads and two exits and is too large to check in one run.
* `wrap_panic`.  A load that overflows the generation counter gives up its node in `new_helping` and
  panics in `confirm_helping`.
* `reuse`.  `attempt` takes a debt that somebody has paid as a proof that its first read is still
  good.  The payer may be a writer of another instance in which a new Arc has the same address; the
  load then returns the Arc of the other instance.  The count is right, the value was never in the
  storage.

## Proofs

Every theorem is for all values of the constants that satisfy the named assumptions: any finite sets
of threads and caches, any number of nodes, addresses, calls, writes and cooldowns.

### The list of nodes (`DebtListProofs`)

* `OwnershipIsExclusive`: `ListSpec => []ExclusiveOwnership`.  Exclusive ownership alone is not
  inductive: the step that pushes a box needs to know that a thread in the push loop has one and
  no node, the step that claims that the thread has a cursor, the steps of a cooldown that the
  thread has a node.  `ListInv` adds `Shape` (types) and `Locals` (what a thread has at hand at each
  label).  The point of the argument is that a claim starts from `NODE_UNUSED`, that only a node in
  `NODE_COOLDOWN` becomes `NODE_UNUSED`, and that the owner alone puts it there.  It holds in spite
  of the race of `list_cooldown_race`.
* `WritersAreCounted`: `ListSpec => []WritersCounted`, on top of `ListInv`, with the library's facts
  about cardinalities: each step adds one thread to the writers of one node, removes one, or leaves
  all alone.
* `ListTypeCorrect`: `ListSpec => []ListTypeOK`.  That `active_writers` stays a natural number
  follows from `WritersCounted` only, which is why `Shape` says `Int`.
* `OwnedNodesAreLinked` and `ListGrows`: `ListSpec => []OwnedNodesLinked` and
  `ListSpec => ListOnlyGrows`.  A chain is defined as the least set that contains the head and is
  closed under `next`, so what has to be shown of it needs no induction: the lemmas `ChainWithin` and
  `ChainStep` compare a chain with a set that is closed.  The invariant `Linked` says that the chain
  has no cycle, that boxes not yet pushed are not in it, and that owners and cursors do not leave it.
  The push is the one step that changes a chain; it puts one node in front.
* `CooldownWaits`: `ListSpec /\ []NoCooldownRace => []CooldownWaitsForWriters`.  The property is false
  in general, see `list_cooldown_race`.  `NoCooldownRace` excludes just that: a cooldown of a node
  that starts between the look of another thread at `active_writers` and its `compare_exchange`.  So
  this race is the only way in which the code can lose the protection.  The invariant `Cooled` follows
  the writers from before a cooldown: they are still visiting, and a node that is not in cooldown, or
  whose cooldown somebody is about to end, has none.  The hypothesis can be satisfied: `list_cold`
  has one cooldown only, and so no behaviour of it has the race.

Assumed of `DebtList`: bounds are natural numbers, `Threads` is finite, and no thread owns two nodes
at the start.

### The list inside of the whole (`HelpingLocals`)

`ImplementsList`: `Spec => ListSpec` for the whole `ArcSwap`, since each of its steps is one of the
list's or leaves the list alone.  So what is proved of the list holds of the system, and
`NodesHaveOneOwner` says it of `ExclusiveOwnership`: with nested loads, overflows and temporary nodes
no two threads put debts into one node.

### The helping protocol (`ArcSwapInv`, `HelpingLocals`, `HelpingProofs`)

Under two hypotheses, `[]NoWrap` and `[]NoCooldownRace`, `Spec` implies

* `EnvelopesAreUnique`: `[]EnvelopesUnique`, no two helpers ever write into one envelope;
* `AssertsNeverFail`: `[]DebugAsserts`, the assertions of `fast.rs`, `helping.rs` and `list.rs` hold;
* `PanicsNeedAWrap`: `[]LoadsDoNotPanic`, the panic that `wrap_panic` shows is the only one.

`NoWrap` says that no generation counter is at its wrap when a load announces itself.  A wrap is where
the load panics (`wrap_panic`), and after one an old control word could be taken for a new one.
`NoCooldownRace` is the hypothesis of `CooldownWaits`: only a node that leaves its cooldown under a
helper can get an owner that starts over with generations the helper has in mind.  Both can be
satisfied: with `InitGeneration` far from the wrap and few calls, without exits, no behaviour violates
them.  The conjuncts of `HelpInv` that are shared by threads follow the argument of the comments in
`helping.rs`:

* `Instances`: who destroys an instance is alone with it, so its pointer stays where it is.
* `Announced`: a control that is not `IDLE` belongs to a load its owner is in, and carries the owner's
  generation or an answer to it.
* `Generational`: the control word that a helper is going to exchange is of the owner's present
  generation or an older one, or the node is in the cooldown that waits for the helper.  Hence a word
  that is no longer in the control never gets there again, and a late answer fails.
* `SlotsFree`: only the owner puts debts into a slot, and only where it found or made it free.
* `EnvelopesUnique`: `Envelope` maps each node to the envelope it will offer next, and each exchange
  permutes that map.  The step that needs the rest is the successful `compare_exchange` of a helper.
* `Exchanges`: as long as a helper's answer can still arrive, the envelope it is going to take in
  exchange is the one the reader offers, and the answer is in its own.

Below them, `Shapes` are types, and `Local(t)` is what thread `t` has at hand at each access: where the
two program counters can be together (a load inside of `help` included), which calls get there, and
which pointers, debts and registers are set.  `HelpInv` is inductive only together with `ListInv`: that
`node[t]` has one owner is used at every slot.  Most of the proof (`HelpingLocals`) is that `Local(t)`
is kept, one step per action and part.

Assumed is in addition `SlotAssumption`, `DeadAssumption` and `ApiAssumption`: pointers are neither
`NULL`, `NONE` nor `Dead` by accident, finitely many instances, and the bounds have their types.

### The reference counts (`RefCountProofs`)

`CountsAreExact`: `Spec /\ []NoWrap /\ []NoCooldownRace => []RefCountExact`.  The count of an Arc plus the
debts on it is what storages, users, guards, answers on their way and running calls have of it.

`Claims` counts the references of running calls by their kind, as sizes of sets of threads; the proof
counts them by thread.  `Share(t, a)` is what thread `t` has of `a`: in its call (`CallShare`), as a
writer that pays (`PayShare`) and in its load (`LoadShare`).  A step of `t` changes no other share
(`SharesAdd`), not even of a reader whose answer it delivers or whose debt it pays: what that reader
is going to receive (`ReceivedStays`) is in the control and the envelope of its own node, or its debt
is turned into a count.  What is left is a balance of one thread's step, `Even(t, a)`: count and debts
change by as much as storages, users, guards, answers and the thread's own share.  There is a lemma for
each group of steps (`ReadEven`, `HelpEven`, `PayEven`, `WalkEven`, `NodeEven`, `ResultEven`,
`CallEven`), and `Ledger` sums up.

`HelpInv` is needed for the steps between two threads.  A load that finds its debt paid has a reference
from the one who paid; a load that finds an answer takes exactly the reference that was put into the
envelope, since envelopes are unique and a helper that is too late fails (`Exchanges`,
`EnvelopesUnique`); a store that destroys the instance takes the pointer nobody else can take
(`Instances`).  The hypotheses are those of `HelpInv` and used for nothing else.  `CopiesFinite` is
proved along with the property, because the guards are a bag and their number a cardinality.

### Debts and what they keep alive (`DebtProofs`)

Under the same two hypotheses `Spec` implies

* `NothingUsedAfterFree`: `[]NoUseAfterFree`, what is stored, held or relied on has a count above zero;
* `DebtsAreRemembered`: `[]DebtsHaveDebtors`, every debt in a slot is one of a guard or of a running call;
* `TypesAreKept`: `[]TypeOK`, and with it that no count is ever below zero.

A count says nothing of an Arc that is only owed, so `CountsAreExact` alone does not rule out that the Arc
of a guard is freed.  The inductive invariant `DebtInv` has these conjuncts:

* `Pinned`: a debt that somebody relies on is on a pointer that an instance stores and nobody is taking
  apart, or on one that a writer took out and whose slot that writer has still to come to (`WillPay`: the
  node is ahead of it in the chain, or it is at the node and has not looked at the slot yet).  Left out
  are only the debts that a load still tries (`Tentative`): before its second look at the storage, or
  after an answer came.  When a load confirms a debt in a fast slot the pointer is in the storage at that
  moment; from then on whoever takes it out walks the whole list, and the debt is in it.
* `CandidatePinned`: a load in the helping slot confirms by its control word alone, without a second look
  at the storage.  As long as the word is its generation, its candidate is in the storage or with a writer
  that has still to help this very load (`WillHelp`).  A writer that has come past without helping has
  changed the control or found another address, which is why `Addressed` is needed: an open load has
  announced the instance it reads from.
* `NoneToHelp`: who destroys an instance takes out nothing that others can still read, and finds no load of
  this instance; so it has never to read from the instance that it is taking apart.
* `OwnDebts`, `DebtsLinked`: the debt that a load is trying is in its slot or has been paid, and every slot
  with a debt is in the chain, also when its owner has exited.
* `Debtors`: each debt in a slot is one of a guard, of a load, of `old` or of `cur`.

That the plans of a writer are kept is one lemma per kind of step (`WriterComes`, `WriterPays`,
`WriterHelps`), for the writer itself, and `OthersPlan` for steps of others, which can only put nodes in
front of the list.

From the invariant to the counts.  A guard or a call has at most one debt, in one slot, so debts are at
most as many as their debtors (`OwedAtMost`, by `CoverCount` of `Counting`), and with `RefCountExact` the
count is at least the number of references that are no debts (`Surplus`).  Suppose nothing but debtors
refers to an Arc (`~Firm`).  Then by `Pinned` every debt on it is one that a load only tries
(`OnlyTrials`), so that a guard, or a call that relies on the Arc, is in excess of the debts and the count
is above zero (`ClaimsGood`).  For `TypesAreKept` the rest is that the stamp of an Arc that is alive was
given to it (`Stamped`): a count goes up from zero only for a new Arc (`CountSteps`), which is again
`NoUseAfterFree`.

Assumed is in addition only that `MaxStamp` is not 0, in `ApiAssumption`: the Arcs of the initial state
have stamp 1.

### The strategy with the lock (`RwLockProofs`)

* `PointersArePinned`: `Spec => []PointersPinned`.  This is why the unlocked `swap` of the strategy
  is right.  The inductive invariant `LockInv` is `TypeOK /\ Locked /\ Alone /\ PointersPinned`.
  `Locked` (who is between lock and unlock is in the lock, and a writer is alone in it) is needed for
  the step in which a waiting writer gets the lock: no reader is then between its load and its
  increment.  `Alone` (one that destroys the instance has no company, and nobody is in a call on an
  instance that does not exist) is needed for the steps that end an instance or make one, which
  change the storage without waiting for anybody.
* `TypesKept`: `Spec => []TypeOK`, from the same invariant: that the pointer a thread reads is a raw
  pointer and not the mark of a dead instance needs `Alone`.
* `RefsAreExact`: `Spec => []RefsExact`.  `CountInv` adds to `LockInv` what a call has in its locals at
  each point (`Frames`).  Each step moves at most one thread between the sets whose sizes are summed
  up; `OneFrame` says how a cardinality changes then.
* `RwLockImplementsCell`: `Spec => ImplementsCell`, the refinement itself, step by step under the
  mapping of `RwLockCell`.  Most steps stutter; the others are one step of the cell each.  It rests on
  `RefsAreExact`: memory whose count is zero is referred to by no user, instance or running call
  (`Referenced`, `FreeNotInUse`), which is what the cell demands of an address that is used again.
  `CellInv` adds that what the storage holds is in the window of each open read (`Observed`).

Assumed is `LockAssumption`: the null pointer and the empty value are no addresses, the mark of a
dead instance is no pointer, there are finitely many threads, and the bounds have their types; and
`InstanceAssumption`, that the mark for no instance is none.

### Caches and access objects (`ViewsProofs`)

* `ReferencesStayLive`: `Spec => []ReferencesLive`.  The conjuncts `Counted` and `Present` of
  `ViewsInv` say that the count is the number of caches, guards and the pointer that refer to an Arc,
  and that each of them refers to the Arc that now lives at its address.
* `CachesAreFresh`: `Spec => []CacheFresh`.  A cache that finds the address it has believes that it
  holds the newest Arc.  That is right because its own reference keeps the address from being used
  again: with `Ordered` (writes of one address are of ever later Arcs) and `Witnessed` (the owner of a
  cache knows of the write it came from) the write that the relaxed read found is of the same Arc
  (`SameAddressSameArc`).  `Loading` carries that to the end of the load.

Assumed is `ViewsAssumption`: finitely many threads and caches, access objects of the given kinds.

### Only model-checked

* `GuardsResolve` of `Views`: `Deref` folds over a sequence of layers, and what a fold computes for
  every sequence needs induction over data.
* `LoadLinearizable` and `ImplementsCell` of `ArcSwap`, which do not hold in general: `reuse` shows the
  counterexample.
* Liveness: `CallsReturn` of both strategies.

## What is not modelled

* Memory orders weaker than sequential consistency, but for the relaxed read of the cache.  The code
  uses `SeqCst` for the accesses the protocol depends on; the other `Relaxed` and `Acquire`/`Release`
  ones (`active_writers`, `check_cooldown`, the look at a slot in `fast.rs`) are taken as stronger
  than they are.
* Stores of a thread whose thread-locals have been destroyed (each would use two temporary nodes at
  once, one of them inside `help`), and the experimental thread-local.
* An overflow of the generation counter in a load nested in `help`, and what happens to a thread after
  the panic (`panicked` is the end of it).
* Destructors of the payload that use the `ArcSwap` again or panic, and so poisoning of the lock.
* `rcu` over the RwLock strategy (it is the same loop over the same contract), and `Weak` over the
  hybrid strategy (the strategy only sees raw pointers and counts).
* Casts of raw pointers and alignment, `Debug` and `Display` (which load and format), serde (which
  loads and constructs).

## Plan

Done: the list, the debts, the hybrid strategy and the API with `rcu`; the strategy with the lock; the
abstract cell and both refinements; caches and access objects; temporary nodes.  Proved: the list,
the helping protocol, the reference counts of the hybrid strategy, that debts keep alive what they are on,
the types of the whole; the strategy with the lock with its refinement of the cell; caches and access
objects.  Open:

1. A condition under which `LoadLinearizable` holds of all instances: the counterexample of `reuse` needs an
   Arc at an address that was used before, in another instance.  With it, the refinement of `Cell` by the
   hybrid strategy for all instances.
2. Stores of threads without thread-locals.
