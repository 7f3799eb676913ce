# Verification of joolia's concurrency core

joolia is a zero-based fork of Julia: a compiler, a runtime in C (`src/src`), a
standard library in Julia (`src/base`, `src/stdlib`) and the tools around them.
This directory models the part of it whose correctness depends on the order in
which tasks, threads and memory accesses take their steps: locks and condition
variables, parking and waking tasks, structured cancellation, the delivery of
^C and the channel that is built on them; and below them, in the C runtime, the
scheduler's sleep and wakeup, the stop-the-world protocol, the garbage
collector with its work-stealing mark queues, and the leases of inference.

Contents: 1 inventory, 2 modules and the code, 3 runs, 4 fairness, 5 proofs,
6 disagreements between code and comments, 7 what is not modelled, 8 plan.

## 1. Inventory

| component | source | state | operations | what makes it correct |
|---|---|---|---|---|
| Reentrant lock | `base/lock.jl`, `base/locks-mt.jl` | `havelock` bits, `locked_by`, `reentrancy_cnt`, queue of parked tasks | trylock, lock, unlock | exclusion, no lost wakeup, a cancelled acquire never keeps the lock |
| Park protocol | `base/park.jl`, `base/condition.jl` | a task's `waiting_on` claim word, wait entries and their slots, condition queues | park!, wait, notify, withdraw!, cleanup | exactly one waker per park, no missed cancellation, nothing outlives a park |
| Cancellation graph | `base/cancellation.jl`, `src/task.c` | per source: severity, children, registered waiters, walk lock | create under parents, cancel!, redeliver!, mark, prune | severity monotone, every reachable source reached, nobody left parked |
| ^C delivery | `base/Base.jl`, `src/signal-handling.c`, `src/scheduler.c` | episode and its C mirror, generation, pending generation, dispatch flag, pass lock, sleeping threads | install/close an episode, press, dispatch pass, sleep, wake | a press hits its own evaluation only, and none is forgotten |
| Channel | `base/channels.jl` | state, buffer, `n_avail_items`, three conditions | put!, take!, fetch, wait, iterate, close, empty! | bounded, nothing lost on close or cancel, nobody sleeps next to work |
| Semaphore, Event, OncePer* | `base/lock.jl` | permits; set flag; once state | acquire/release; wait/notify/reset; first call | permits conserved; no lost notify; initialiser runs once |
| Task lifecycle | `base/task.jl` | `_state`, `queue`, `donenotify` | schedule, wait(t), task_done_hook, throwto, sync_end | waiters always woken, errors collected |
| Task abandonment | `src/task.c` | a thread's request slot | request, deliver, poll, withdraw | one verdict per request, the target bound to one thread |
| Scheduler | `src/scheduler.c`, `src/jl_uv.c`, `base/partr.jl` | sticky and shared queues, `sleep_check_state`, `n_threads_running`, the libuv lock | enqueue and wake, idle loop, run the event loop, sleep, wait_empty | no task is left with every thread asleep, the count is exact, the loop's lock is yielded |
| Work-stealing queue | `src/work-stealing-queue.h` | top, bottom, buffer, the owner's store buffer | push with growth, pop, steal | each item taken exactly once, none lost, no garbage |
| Inference reservations | `src/engine.c` | leases by key, `awaiting`, `engine_nqueued` | reserve, fulfil, reject, sweep | no cycle of waiting threads, nobody sleeps on a lease that is gone |
| Safepoints | `src/safepoint.c`, `src/julia_threads.h` and callers | `gc_state`, `suspend_count`, page protection, `jl_gc_running` | poll, enter and leave safe regions, collect, suspend, resume, adopt | nobody touches the heap during a collection, nobody sleeps for what has happened |
| Garbage collector | `src/gc-stock.c`, `src/gc-wb-stock.h`, `src/gc-common.c` | header bits, remembered sets, mark queues, finalizer lists, weak references | write barrier, mark in parallel, clear, finalize, sweep | nothing reachable is freed, marking ends only when it is complete |
| Pidfile locks | `stdlib/FileWatching/src/pidfile.jl` | the file, its age and pid | create, refresh, remove stale, close | one owner among live processes |
| everything else | compiler, parser, I/O, Pkg, ... | | | not modelled, see section 7 |

How the parts interact. Every blocking operation is a park: the task arms its
`waiting_on` word with a wait entry, links the entry on a condition's queue and,
if a token governs it, on the token's source, and suspends. Whoever turns the
word back to `nothing` owns the wake: a notify under the condition's lock, the
walk of a `cancel!` over the source's entries, or the task itself when its
recheck finds the token cancelled. `ReentrantLock` parks its losers on a
condition over a spin lock; `Channel` uses three conditions over one
`ReentrantLock`; a cancellation source passes its severity down a graph to the
sources constructed under it; ^C marks the source of the current evaluation from
a signal thread and leaves waking its tasks to a dispatch pass that some idle
thread runs. A task that is woken is enqueued and a sleeping thread is woken for
it (the scheduler). A thread that allocates may start a collection: it arms the
safepoint pages, waits until every mutator has stopped, and marks together with
the collector threads, which steal from one another's queues. A thread that
infers a method takes a lease; the collector gives back the leases of
placeholders that have become garbage.

What is hard here: the notifier's and the canceller's claims race for the same
wake; entries are cached, reused for another wait and pruned while a walk goes
over them; sources are attached while their parents are being cancelled; the
signal thread may neither block nor allocate and reads the current episode
through a sequence lock; a thread decides to sleep while a press is under way;
a put! that is thrown out of its wait has to fix a counter under a lock it no
longer has. In the runtime: stores to `sleep_check_state`, `gc_state` and the
queue's `bottom` may become visible after later loads, and the code leaves out
fences where it believes it can; wakeups are counted after they are published;
old objects are written by two threads at once while each decides whether the
object is remembered; and a thread that has nothing to mark must find out that
nobody else has. PROJECT.json lists these as hazards, each with its line and the
properties that would catch it.

## 2. Modules and the code

Every module keeps the code's names for what it models. `map` in PROJECT.json
gives the lines of each definition. A definition introduced by "Mutant:" is a
plausible wrong version of the one that follows it; it is not part of `Next`.

**ReentrantLock** (with **Mutex**). One action per atomic access: the fast path
of `_trylock`, `slowlock`'s spin with its compare-and-swaps, the setting of
`PARKED_BIT` and the check under `cond_wait.lock`, the steps of
`wait_no_relock` (arm, enqueue, recheck of the token, suspend), the cleanup of
an interrupted park, `unlock`'s slow path with `notifywaiters`, and `cancel!` of
a task's token (raise, claim, deliver). `cond_wait`'s spin lock is a variable
of its own. `Mutex` is what a caller may rely on: a call waits, acquires,
returns, fails or, if its token was cancelled, forgoes a lock it has won;
`ImplementsMutex` is the refinement.

**Park.** Tasks wait on and notify one condition; a wait is shielded,
cancellable or a value wait, with a floor (`min_severity`). The model keeps the
entry caches (`cached_wait_entry`, `cached_cancel_entry`), the sticky
registration of an entry on a source, the staged `aux`, the retirement of
entries, the count of dead registrations that triggers a prune, and the walk of
`cancel!` entry by entry. An arm is a release store only: `hidden` lets other
threads miss it until the registrant's fence. Lists are sequences of distinct
entries: `Unlink` takes one out, `Kept` is what a prune leaves.

**CancelGraph.** `jl_new_cancel_source` (attach to each parent, then read its
state), `cancel!` and `redeliver!` (raise, deliver, then a worklist with a
visited set) and `jl_cancel_subtree_mark` (descend where the raise succeeded)
overlap in every way on a given graph. Delivery at one source is one step, whose
contract (a wait parks only while the state is below its floor; a walk leaves
nobody parked whom it reaches) is what Park's `CancelReachesParked` and
`FloorIsHonoured` show.

**Sigint.** The session task swaps episodes (`jl_set_sigint_source`'s sequence
lock, then Base's own record), the signal thread handles each press (snapshot,
verify, mark, publish, notify, wake threads), each Julia thread runs the idle
loop of `jl_task_get_next` (poll, dispatch inline, run the listener, spin, sleep)
and `maybe_dispatch_sigint` (peek, trylock, claim, read the episode, consume,
mark, walk, unlock). The pass lock belongs to a task and is reentrant: `passLock`
keeps its count and the thread that runs its owner, if one does (`SwitchFrom`).
Where another walk holds the walk lock (`Contention`), the pass's task waits for it
in the scheduler loop, the pass lock held (`WalkWaits`); that loop may dispatch
again, and the trylock of the nested pass succeeds; or the task cannot wait,
because it has armed another wait, and the error is caught (`WalkFails`). `missed`
records the sources of such failed walks until their next press. A whole subtree
of sources is one source.

**Channel.** What an operation does between taking the channel's lock and
releasing it is one action; parking, the resumption after a wake, the clean-up
of a thrown wait and the hand-over after `put_unbuffered` unlocks are separate
actions. A queue is the sequence of its entries: `Live` are the places a notify
can still claim, `First` the one it claims, `Unlink` takes a task's own entry
out. `cond_wait` is `cond_take` on a buffered channel and a queue of its own
(`waitq`) on an unbuffered one. A queue keeps the entries of tasks a
cancellation has claimed until they unlink themselves or a notify drops them.
`cancel!` is one step: between the raise of the state and the claim nobody but
the task itself can tell the difference. Where a task waits for the lock is not
modelled (that is ReentrantLock): an operation takes its section at any time.

**Scheduler.** `jl_task_get_next` (pop, spin, publish "sleeping", recheck, last
pop, event loop or condition variable), `wake_thread` and `jl_wakeup_threadpool`
(publish, count, signal, kick the loop), `JL_UV_LOCK`, `jl_exit_threaded_region`
and `jl_task_wait_empty`. The two stores of the comment `[^store_buffering_1]`
(`storing`, `inserting`) reach memory late, up to the next fence. A queue is the
number of its tasks.

**WorkStealingQueue** (with **WorkBag**). One action per access to top, bottom,
array and slots. The owner's stores sit in a buffer from which they reach memory
in any order that the release fences and release stores allow; a store that a
fence stands before is marked `fenced`. `obottom` and `oslots` are what the owner
reads back, its own latest stores included. Growth is an action of its own, and
a replaced array stays readable, as `gc-stock.c` frees it after the mark phase
(`reclaim_set`). A thief's copy of a slot takes two steps, and an overwrite
between them yields garbage. `WorkBag` is the promise; `ImplementsBag` is the
refinement, with the set of items pushed and not handed out as the pool. An
index is masked by a remainder, which for the powers of two the code uses is the
same.

**Safepoint.** A thread polls by a load from a page; the collector or a
suspender arms it. Stores to `gc_state` lag behind the thread's later loads, and
arming a page (mprotect) acts as a barrier on every thread, which is what the
fast path of the state transitions relies on. Modelled with it: `jl_gc_collect`
before and after the collection, the waits on both conditions, suspension and
resumption, the adoption of a foreign thread, the scheduler's announcement under
its sleep lock, and the exclusion the ^C listener uses.

**StockGC.** An object is a cell with one pointer; `root` is what the running
stacks and the globals hold. The pointer of a task is in its stack, which is
written without a barrier (`StackStore`), so an old task is always taken to
refer to young objects. A wait entry or a cancellation source (`MultiPass`) is
scanned in several passes, each of which may remember it. A collection starts
with the threads' roots and remembered sets spread over the markers' queues in
any way. The write barrier reads bits, then swaps them and appends to the
remembered set; image objects are a permanent generation with a remembered set
of their own. The collector and its helpers pop, steal, mark and leave the mark
loop by the observer lock and `gc_n_threads_marking`; then weak references are
cleared, finalizers scheduled, objects promoted and cells swept, quickly or
fully. The order within a mark queue is left to WorkStealingQueue, the stopping
of mutators to Safepoint.

**Engine.** A critical section of `engine_lock` is one step: look the key up,
insert, or walk `awaiting` for a cycle and either give a placeholder outside the
table or sleep. `Fulfill` and `Sweep` remove leases and broadcast. The walk is
stated as the smallest set closed under "waits for the holder of".

## 3. Runs

| run | instance | shows |
|---|---|---|
| `lock` | 3 tasks, 1 cancellable, 1 spin, nesting 2 | exclusion, no lost wakeup, cancel reaches every parked task; every call ends; refinement of `Mutex` |
| `park` | 2 tasks with 2 operations over 5 kinds of wait, 2 sources, 2 cancellers with different severities | one owner per wake, a walk never claims a wait its source does not govern although entries are reused, no eligible wait missed, queue and registry clean, floors honoured; no deadlock |
| `graph` | a diamond of 4 sources: mark of the root, redeliver from it, and a harder cancel of a branch | when a `cancel!` returns, everything below has the severity and nobody it reaches is parked; at rest no source is less cancelled than its parent |
| `sigint_safety` | 2 threads, 2 episodes, 2 presses | only the pressed evaluation is cancelled, no stray exit, no press forgotten while passes wait, nest and fail |
| `channel` | 3 tasks with 3 operations, 0 and 1 slot | exact count of items, nobody asleep next to a value, an offer or a free slot, complete iteration, close and cancel leave nobody parked |
| `engine` | 3 threads, 2 keys, 2 calls each | no cycle of waiters, nobody asleep on a lease that is gone, exact count, every reserve ends |
| `wsq` | an owner, 2 thieves, 4 items, capacity 2 | refinement of `WorkBag`, nothing lost by growth or failed attempts, an empty pop means empty |
| `scheduler` | the I/O thread and a pool of 2, 1 task | no stranded task, exact running count, the libuv lock is yielded, live handles are watched, wait_empty ends early only past an uncounted wakeup |
| `safepoint` | 2 mutators (one suspends), 1 adopted thread, the listener, 2 collections, 1 suspension | the world is stopped while collecting; nobody sleeps on either condition for something that has happened |
| `gc` | 2 mutators, 2 cells (a task with weak reference and finalizer, and a wait entry), 1 image object, 1 helper; any number of collections | nothing reachable is freed, an object is remembered once by the barrier and accounted for once by a collection, marking over when it is declared over, weak before finalizer |
| `sigint_two_passes`, `scheduler_empty` | | the disagreements of section 6 |

Bounds, and why they are enough for the cases of interest.

- `MaxCalls`, `MaxOps`, `MaxDepth`: calls per task. Two operations let a task's
  cached entry be armed for a second wait while a walk still looks at the first;
  three channel operations let a task fill the buffer, block and drain it.
- Three lock or channel tasks are a holder, a live waiter and a cancelled one
  whose entry is still queued, which is what a notify may waste itself on.
- `MAX_SPIN_ITERS = 1` has both a spin and a park.
- The waits of `park`: a shield, a throwing wait, a throwing and a value
  teardown wait with floor 2, and a wait under a second source. The first
  `cancel!` is below the floor, the escalation above it.
- `Threshold = 2`: a prune happens within the bounds.
- Two episodes and two presses let a late press meet the next episode; the
  generation counts by 2, so two swaps exercise the parity of the sequence lock.
- `Contention` is TRUE in `sigint_safety`, so that walks may wait and fail, and
  FALSE in `sigint_two_passes`, whose counterexample needs neither: a failing walk
  would leave a task parked for another reason. One pass waits at a time: a second
  is nested in the first, whose task cannot wait twice.
- The diamond is the smallest graph in which a source is reached twice.
- Three threads and two keys: cycles of two threads, with the third between a
  broadcast and the lock or waiting for one of them. A cycle of three threads needs
  three keys; it is excluded by the theorem `NoDeadlock`, not by the run.
- Four items over a capacity of two: the array grows once and indices wrap.
- One task is enough for `scheduler`: what has to be excluded is that it is
  missed, and every thread may enqueue, pop and sleep before and after. A second
  task multiplies the states beyond what can be explored.
- Two cells and an image object give every pattern of old and young holder and
  target; nothing bounds the number of stores and collections. `MaxPasses = 3` is
  the code's number for wait entries. `MaxRemset = 4`: an object remembered that
  often is not written again, which keeps the copies of a wait entry finite.
  Without the rule for tasks (gc-stock.c:2551) `NoDangling` fails in this instance.
  An earlier instance with
  two helpers and no watched cell also passes (2.6 million states) but is not
  kept as a run.

Symmetry is used only in runs of safety properties, over tasks (or threads, or
sources) that the specification does not tell apart. Deadlock is checked
everywhere except in the Sigint runs, where all presses may be used up and every
thread may sleep. Park and Engine have an action for the states in which
nothing is left to do; any other state without a successor is an error, which in
`park` includes a wait whose source is cancelled at a severity it reacts to and
that nobody wakes.

## 4. Fairness

- Lock: weak fairness of each task's steps while it is inside a call. The
  scheduler runs every runnable task. An acquisition of the lock is not
  starvation free in the code; the bounded number of calls of the other tasks is
  what makes weak fairness enough. A task that holds the lock eventually
  unlocks, and strong fairness of the outermost unlock says that it leaves
  however often it reenters. A `cancel!` that has begun finishes its walk;
  nobody is obliged to call it.
- Engine: a thread inside `jl_engine_reserve` goes on, and a thread that runs
  inference fulfils what it holds. No collection is promised, so `ReserveEnds`
  excepts the time while an abandoned lease is in the table.
- Sigint (`sigint_two_passes`): the signal thread finishes handling a press, a
  swap that has begun ends, and a thread that is awake goes on. Presses are not
  fair.

The other runs check safety only. For Scheduler and Safepoint that is the
stronger form: a state in which a sleeper has been forgotten is excluded, rather
than left eventually by a later wakeup. For Park and Channel the liveness graphs
of the instances above are too large; the invariants (`CancelReachesParked`,
`NoWastedInvitation`, `CloseReleases`) and the deadlock check stand in for the
leads-to forms.

## 5. Proofs

The provers check theorems for every value of the constants that satisfies the
assumption named in the module. Each proof shows that an inductive invariant
(called `IInv`, `Inv`, `GCInv` or `SafeInv`) holds initially, is kept by every
action, and implies the property. TLC checked each of them first. A proof module
extends the module of its component: the invariant with a comment on each part,
the lemmas about the operators, one lemma per part with one step per action, and
the theorems at the end.

**ReentrantLockProofs** (for every set of tasks and every bound): `TypeCorrect`,
`LockIsExclusive`, `ParkedBitCorrect`, `WakeOnceCorrect`, `NoWakeupIsLost`,
`CancelIsComplete`, `LockImplementsMutex`. `MutualExclusion` is not inductive:
the owner's record (`OwnInv`), what a compare-and-swap expects (`SeenInv`) and
the holder of the spin lock (`SpinInv`) are needed. `NoLostWakeup` needs
`SeekInv`, which extends it to the moment at which a notifier is about to clear
`LOCKED_BIT`: that somebody is on the way has to be true before the lock becomes
free. `LockImplementsMutex` is the refinement: `MutexStep` takes each action to
a step of `Mutex` or to none. It needs `ThrowInv`, by which an unlock that ends
in a throw undoes the outermost acquisition of a task whose token is cancelled;
without it a task could be back inside the lock and look as if it still waited.

**ParkProofs** (for every set of tasks, sources, cancellers and kinds of wait and
any number of operations): `TypeCorrect`, `WakeHasOneOwner`, `ClaimsAreGoverned`,
`CancelReaches`, `QueueIsExact`, `FloorHolds`. A claim in anybody's hands
excludes an armed entry and a scheduled wake of the same task (`OwnerInv`,
`ClaimInv`), so a wake changes hands and is never copied. `ClaimInv` also carries
what a claimer knows of the wait it claimed: a fresh entry belongs to one
operation, so a match of the entry is a match of the wait. `CancelReachesParked`
needs to know of every walk under way which waits it still has to reach (`Target`)
and that each of them is ahead of it (`Reached`): an entry ahead of a walk stays
registered unless its operation is over and has retired it (`WalkInv`,
`RetiredInv`), an armed wait has its entry on its own source and on no other
(`CachedInv`), and once the state is raised a registrant's recheck keeps new
targets from appearing. An arm that other
threads may not see yet (`hidden`) is made by the holder of the condition's lock,
so no notify drops its entry meanwhile (`ArmInv`, `QueueInv`).

**CancelGraphProofs** (for every finite or infinite graph and every set of
calls): `TypeCorrect`, `CancelIsComplete`, `CancelWakes`, `SubtreeIsClosed`.
`Reach` is the smallest closed set that holds the call's source, so that
reachability needs no induction over paths: the set of what a walk has visited,
what was born with its severity and what is still under construction is closed.
`Built` ties the constructors to the child lists; `WalkCovers` says of a walk at
any moment which sources it has raised, delivered to and descended into.
`SubtreeIsClosed` has an invariant of its own, `GInv`: for every edge whose
parent is raised and whose child is not, some call is still above the edge and
will come down it, or a mark is on its way along it, or the child is under
construction and will read the parent's state (`EdgeInv`); and whatever is
raised was raised by a call (`CauseInv`). It is here that the assumption that a
mark has severity 1 is needed, which is what the only caller passes
(`signal-handling.c:642`). With a mark of severity 3 that races a `cancel!` at 1
over a diamond with a grandchild, TLC finds a source left behind its parents:
the mark does not descend below what the weaker cancel has raised.

**SigintProofs** (for every set of sources and threads, any number of episodes
and presses): `TypeCorrect`, `PressStaysInEpisode`, `PressIsMarkedFirst`,
`ExitIsAsked`, `PressIsNotForgotten`. The argument of the first is that a
snapshot that verifies has an even generation and the source that generation
installed. It needs the parity of the generation at each step of a swap, the
history of owners, and that a pass consumes a generation only if it is the one
of the episode it has read. `NoPressForgotten` is not inductive: the flag it
counts on may have been raised before the press was published. `CoverInv`
follows the press instead: it is not yet published; or it is, and the flag will
be raised after that, is up, or was claimed by a pass that has yet to consume;
or a pass, perhaps one that waits, has consumed it and has yet to walk the
source. This needs that a source is installed once and parked under only then
(`FreshInv`), that once the current generation is pressed no other is published
(`TargetInv`), and that the passes begun and not ended are those the reentrant
lock counts (`LockInv`).

**MonitorProofs**, Engine (for every finite set of threads and of keys and any
number of calls): `TypeCorrect`, `NoDeadlock`, `NobodyIsForgotten`, `CountIsExact`.
`NoWaitCycle` says that no nonempty set of threads is closed under "waits for
the holder of", so it needs no induction along the chain. A step that only
removes edges keeps it (`FewerEdges`); an insert gives a lease to a thread that
does not wait; and if a thread that starts to wait closed a cycle S, the set R
that shows the walk did not meet it would intersect S in a smaller one. It needs
`AwaitInv` (what `awaiting` says about a thread) and `OwnerInv` (who made a
placeholder). `CountIsExact` is an argument about the cardinality of each
thread's leases on top of that invariant.

**MonitorProofs**, Channel (for every finite set of tasks, every set of sizes and
any number of operations): `ChannelTypeCorrect`, `TakersAreServed`,
`OffersAreCounted`, `InvitationsAreUsed`, `IterationMissesNothing`,
`CloseIsComplete`. `LinkInv` ties the queues to the tasks: an armed task has one
entry, in the queue of the condition it waits on, so what a notify of that
condition does not find is not asleep there. That a notify finds a waiter when
there is a live one is the well-foundedness of the naturals (`LeastExists`), the
only induction, and one of the library. `WakeInv` says that a wake is claimed
for a parked task by one claimer, and by a `put!` until it hands its value over.
The properties about sleepers share one argument: whoever sleeps after a step
slept before it or has just parked (`Sleepers`), and an action that makes work
for a sleeper notifies its condition. `NoWastedInvitation` counts: only a
`put!` that runs takes a notified one out of the set (`InvitedStep`), and each
action that frees a slot or puts a taker to sleep adds one (`InvitedCounts`).
`IterationIsComplete` needs `IterInv`, by which an iteration thrown out of its
`take!` by a close has left nothing to take.

**SchedulerProofs** (for every finite set of threads, every nonempty pool and any
number of tasks): `TypeCorrect`, `TasksAreServed`, `CountIsExact`,
`LockIsYielded`, `HandlesAreWatched`, and the action property
`EmptyIsQuietEnough`. `ServeInv` says of every task in a queue who will see to
it: a thread that still has a look at the queue before it, or a wakeup that has a
candidate before it, or a thread that has been woken. `LagInv` bounds the delay
of the two late stores by the next fence, which is the whole of the argument for
the store-buffering pattern: either the sleeper's recheck sees the task or the
enqueuer's scan sees the sleeper. `BlockInv` is the same for the signal and the
kick of a thread that blocks, `UvInv` for the owner of the libuv lock. The count
of running threads is the cardinality of three sets (`CountInv`), one of them the
wakeups that are published and not yet counted.

**SafepointProofs** (for every finite set of threads and any number of
collections and suspensions): `TypeCorrect`, by which also no counter underflows,
`WorldIsStopped`, `StopsAreSeen`, `EndsAreSeen`. `StopInv` says that a thread the
collector has gone past cannot touch the heap before the collection ends. It
rests on where a store to `gc_state` can lag (`StateInv`), on the armed pages
while somebody collects (`OneInv`) and on the exclusion of adoption and
collection by the disable counter (`AdoptInv`, `CountInv`). `SleepInv` and
`EndInv` name, for each thread asleep on one of the two conditions, the thread
that will broadcast or the fact that it has nothing to be woken for.

**StockGCProofs** (for every set of objects and mutators and every finite set of
collector threads): `TypeCorrect`, `MarkLoopTerminatesSafely`,
`RememberedOnceHolds`, `CollectorIsSafe`, `WeakClearedFirst`. The mark loop:
work in the queue of a thread that is not marking is still to be tried by one
that is (`LoopInv`), so when the last one leaves there is none. `NoDangling`
combines the generational invariant between collections (`OldInv`: an old object
refers to a young one only if it is remembered or its barrier is under way) with
the colour invariant during one (`ColorInv`: a marked object no work waits for
refers to marked ones). `TaskInv` takes the place of the barrier for a task's
stack: outside a collection an old task is never marked and unremembered.
`RememberedOnce` (an invariant and an action property of the barrier) needs that
a single-pass object waits for marking in one place or is remembered once
(`OnceInv`), and, for every object, that a claim waits in one place and its
metadata has not been updated (`ClaimInv`), however many tagged copies are
about. `LiveInv` states what is in use by a closed set of objects, so that
reachability needs no induction over paths.

The same module proves WorkStealingQueue (for any set of thieves, any number of
items and any first capacity): `QueueTypeCorrect`, `QueueHoldsTheRest`, the
action property `QueueEmptyPop`, and `QueueImplementsBag`, the refinement of
`WorkBag`. `oend` is the end of the queue as the owner means it: a pop under way
has lowered bottom and not taken anything yet. The items between top and `oend`
are those pushed and not taken, each once (`ItemInv`). What a thief may see is
`View(n, v)`: once the stores before the n-th are in memory, every array a thief
can then load has each item below index v in its slot or gets it by one of those
stores. `ViewInv` states it for bottom in memory, for every store of bottom in
the buffer and for the end of the buffer, so the step that commits a store of
bottom finds it proved; that commits keep it rests on the release fence
(`OrderInv`: a store of bottom does not overtake) and on the release store of the
array (`NewestInv`). No store under way or to come overwrites an item that is
not taken, because indices less than a capacity apart have different slots
(`MaskedDiffers`). `SightInv` carries that to a thief: if it saw bottom above the
top it read, and top has not moved, then the item of top stays where the thief
looks for it, whichever array it has loaded; so a thief whose compare-and-swap
succeeds hands out that item. The fence of `ws_queue_pop` enters by `Drained`.

`ParkedBitCorrect`, `WakeOnceCorrect`, `PressIsMarkedFirst` and the type
invariants are proved and, to leave the runs to other questions, no longer
model-checked.

Only model-checked: every liveness property (fairness is out of the prover's
reach).

## 6. Disagreements between code and comments

Shown by a run:

- `base/Base.jl:522`: a dispatch pass that has seen the flag clear and not yet
  unlocked makes others' trylock fail; a press in that window is not "retried by
  the next idle iteration" if every thread sleeps (`sigint_two_passes`).
- `src/scheduler.c:224`: `wake_thread` publishes a wakeup before it counts it. A
  thread can consume the wakeup, work and stop before the count, and
  `jl_task_wait_empty` goes on although the waker still runs
  (`scheduler_empty`). `EmptyIsQuietOrUncounted` in `scheduler` shows that this
  window is the only way.

Met while modelling, not kept as runs:

- `base/cancellation.jl:807` reads a slot's `aux` before the armed check at :808;
  the comment at :793 says the armed check must come first. A walk may judge a
  throwing teardown wait by the floor of the wait before it. `FloorIsHonoured`
  holds for value waits, whose entries are fresh.
- `src/signal-handling.c:577` does not descend below a source that another walk
  has raised and not yet walked; the comment at :541 and :551 promises that no
  descendant is missed. `SubtreeClosed` shows that the other walk makes up for
  it by the time both have ended.
- `src/scheduler.c:504`: a thread that polled the ^C flag before the press and
  publishes that it sleeps after the press's wake looks only at the task queues
  again; with the event loop's thread stuck in foreign code, the press waits.
- `src/gc-stock.c:1661`: "objects are in the remset at most once, since the mark
  phase may update page metadata, which is not idempotent". The barrier does that,
  the mark phase does not: a wait entry is scanned in up to three passes (:2597,
  :2604, :2610) and a cancellation source in two (:2574, :2584), and each pass that
  meets a young object pushes the old object to the remembered set (:2057). Each
  copy is scanned again in the next collection, so that, while young objects keep
  being stored into it, copies multiply from one quick collection to the next, until
  a full sweep or a scan that finds nothing young. An image object is queued from both
  remembered sets after a full sweep. None of it touches the metadata, because a
  remembered object is queued with a tag that turns the update off (:2451): this is
  the last conjunct of `InStep` in `RememberedOnce`, and what the comments at :268 and :289
  ("exactly once during marking") ask for.
- `base/cancellation.jl:543` says that "contended walkers sleep", and
  `src/scheduler.c:458` that "any scheduling thread can perform" a pass. A pass
  dispatched inline runs in the context of the task that is parking. That task has
  armed its wait, so if the walk lock is held it can neither yield (`task.jl:1237`
  throws) nor park (`cancellation.jl:520`): the error is printed by
  `Base.jl:527`, the press is consumed and its walk does not happen. The source
  stays marked, and the next press walks it. `NoPressForgotten` excepts just that.
- `src/gc-stock.c:2883`: "once `gc_n_threads_marking` reaches zero, no thread
  will increment it again" is false of a thread that holds the observer lock and
  has counted work; the conclusion drawn from it, `MarkingIsOver`, holds.
- `src/threading.c:502` leaves it as a TODO to exclude other suspenders and
  resumers during `jl_safepoint_suspend_all_threads`: two threads that call it at
  once wait for each other. The model has one suspender.

## 7. Not modelled

- Lock and Park: finalizer inhibition; raw interrupters
  (`schedule(t, exc; error=true)`); `schedule_on_notify!`; waits on several
  waitables at once; parks inside the clean-up of another; the scaling of the
  prune threshold; a head unlink that loses its compare-and-swap within a prune.
- CancelGraph: unlinking of dead sources by the collector (with the world
  stopped) and relinking when an image is loaded.
- Sigint: several thread pools, threaded regions in which any thread runs the
  event loop, the registration of listeners and exit hooks. After a failed wait:
  the spin lock of the walk lock's condition, which `slowlock` holds when `park!`
  throws, and a yielding task that is already in a queue. That some tasks are bound
  to a thread: any thread may resume a pass that waited.
- Channel: which exception a close carries, conversion of the value, starvation
  by the unfair lock, memory orders of the unlocked reads beyond their order.
- Scheduler: deletion and adoption of threads, the broadcast tid -1, an
  exception out of `trypoptask`, `jl_process_events`, the order of tasks in the
  multiqueue.
- Safepoint: waitstates 0, 2 and 3, `jl_gc_enable` by a mutator, the timeout for
  stragglers, the collector threads' own states. A suspended thread that leaves
  a safe region with a stale safepoint pointer may run on to its next safepoint;
  nothing here says otherwise.
- StockGC: pages and free lists, the lists of big objects, chunks of large
  arrays, the weak lists of cancellation sources, snapshots, the heuristics (a
  full sweep may happen at any time), concurrent page sweeping. The remembered sets
  of the threads are one bag. Finalizer functions are not objects: which of them are
  old is any choice. The barrier's
  reads of parent and child bits are one step, and the count of work under the
  observer lock is one step.
- Semaphore, Event, OncePer*, task lifecycle, task abandonment and pidfile
  locks: within reach, see section 8.
- Compiler, parser, lowering, type system, image files: sequential
  transformations of terms and text, out of TLC's reach.
- Streams, files, processes, package loading: wrappers around libuv and the file
  system, whose waits are the conditions modelled here.
- Numbers, strings, arrays, collections, most of stdlib: sequential code.

The map names about 3 700 lines, comments and blank lines included, of which
some 2 600 are code: most of `engine.c`, `safepoint.c` and
`work-stealing-queue.h`, half of `scheduler.c`, a quarter of `gc-stock.c` and
the concurrent parts of `base`. The C and C++ runtime has 167 000, most of them
code generation, subtyping, type and method tables, image files and foreign
interfaces: single-threaded or under a global lock, with unbounded terms as
data. A state machine of that code would say no more than the code does, so a
large share of the implementation stays out on purpose.

## 8. Plan

Done: the modules of section 2 and the proofs of section 5. Next:

1. **Abandon** (`task.c`): the request slot with delivery, polling and
   withdrawal; one verdict per request.
2. **Semaphore, Event, Once** (`lock.jl:564-1062`), on the condition contract
   Channel uses: permits are conserved, the initialiser runs once.
3. **TaskLifecycle** (`task.jl`): wait(t) against task_done_hook, sync_end's
   collection of errors, throwto.
4. **Pidfile**: two processes and a stale file.
5. An abstract **Condition** (claim, wake, cancel) that Park implements and
   Channel composes with.
