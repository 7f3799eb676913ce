----------------------------- MODULE Scheduler ------------------------------
(***************************************************************************)
(* How threads go to sleep and are woken (src/scheduler.c): the idle loop  *)
(* of jl_task_get_next, the wakeups of an enqueue, the libuv lock, the     *)
(* running count and wait_empty.                                           *)
(*                                                                         *)
(* The two stores of [^store_buffering_1], sleep_check_state of a thread   *)
(* about to sleep and the insert into a queue, reach memory some time      *)
(* after they are made and no later than the next fence; everything else   *)
(* is one atomic access per step.                                          *)
(***************************************************************************)
EXTENDS Integers, FiniteSets

CONSTANTS
  Threads,
  IoThread,    \* tid 0, which is also io_loop_tid
  Pool,        \* threads that share a multiqueue
  Shared,      \* the multiqueue
  Nobody,
  MaxTasks     \* bound: tasks enqueued

ASSUME SchedulerAssumption ==
  /\ IoThread \in Threads /\ Pool \subseteq Threads /\ Pool # {} /\ IsFiniteSet(Threads)
  /\ Shared \notin Threads /\ Nobody \notin Threads \cup {Shared}
  /\ MaxTasks \in Nat

Queues == Threads \cup {Shared}

VARIABLES
  pc,
  ret,                \* where a call returns to
  sleep_check_state,  \* "sleeping" or "not_sleeping", in memory
  storing,            \* the thread's store of "sleeping" is not in memory yet
  n_threads_running,
  queue,              \* number of tasks in each sticky queue and the multiqueue
  inserting,          \* the queue an insert of this thread has yet to reach
  candidates,         \* threads a wakeup has yet to look at
  target,             \* the thread it is waking
  uv_owner,           \* owner of jl_uv_mutex
  uv_waiters,         \* who is counted in jl_uv_n_waiters
  kicked,             \* signal_async is pending, or uv_stop was called
  handles,            \* the event loop has live handles
  threadedregion,
  wait_empty,         \* the main task waits for everything to finish
  tasks               \* how many so far

uv == <<uv_owner, uv_waiters, kicked, handles, threadedregion>>
waking == <<candidates, target>>
work == <<queue, inserting, tasks>>
vars == <<pc, ret, sleep_check_state, storing, n_threads_running, work, waking,
          uv, wait_empty>>

Goto(t, l) == pc' = [pc EXCEPT ![t] = l]

Init ==
  /\ pc = [t \in Threads |-> "run"]
  /\ ret = [t \in Threads |-> "run"]
  /\ sleep_check_state = [t \in Threads |-> "not_sleeping"]
  /\ storing = [t \in Threads |-> FALSE]
  /\ n_threads_running = Cardinality(Threads)
  /\ queue = [q \in Queues |-> 0]
  /\ inserting = [t \in Threads |-> Nobody]
  /\ candidates = [t \in Threads |-> {}]
  /\ target = [t \in Threads |-> Nobody]
  /\ uv_owner = Nobody /\ uv_waiters = {} /\ kicked = FALSE
  /\ handles \in BOOLEAN
  /\ threadedregion \in BOOLEAN
  /\ wait_empty = FALSE
  /\ tasks = 0

-----------------------------------------------------------------------------
(* The stores that lag behind *)

SleepStored(t) ==
  /\ storing[t]
  /\ storing' = [storing EXCEPT ![t] = FALSE]
  /\ sleep_check_state' = [sleep_check_state EXCEPT ![t] = "sleeping"]
  /\ UNCHANGED <<pc, ret, n_threads_running, work, waking, uv, wait_empty>>

InsertStored(t) ==
  /\ inserting[t] # Nobody
  /\ queue' = [queue EXCEPT ![inserting[t]] = @ + 1]
  /\ inserting' = [inserting EXCEPT ![t] = Nobody]
  /\ UNCHANGED <<pc, ret, sleep_check_state, storing, n_threads_running, tasks,
                 waking, uv, wait_empty>>

\* Mutant: no fence between the insert and the look at the sleepers.
UnfencedInsert(t) == TRUE

\* jl_fence of the waker: its insert is in memory.
FencedInsert(t) == inserting[t] = Nobody

\* jl_fence of the sleeper: its sleep_check_state is in memory.
FencedSleep(t) == ~storing[t]

-----------------------------------------------------------------------------
(* A task runs *)

\* enq_work: a push to a sticky queue or an insert into the multiqueue, and
\* the call of jl_wakeup_thread or jl_wakeup_threadpool.
EnqWork(t, q, from, to) ==
  /\ pc[t] = from
  /\ tasks < MaxTasks
  /\ tasks' = tasks + 1
  /\ inserting' = [inserting EXCEPT ![t] = q]
  /\ ret' = [ret EXCEPT ![t] = to]
  /\ candidates' = [candidates EXCEPT ![t] = IF q = Shared THEN Pool \cup {t} ELSE {q}]
  /\ Goto(t, "wakeup")
  /\ UNCHANGED <<sleep_check_state, storing, n_threads_running, queue, target, uv_owner,
                 uv_waiters, threadedregion, wait_empty>>

Enqueue(t, q) == EnqWork(t, q, "run", "run") /\ UNCHANGED <<kicked, handles>>

\* The task ends or waits: jl_task_get_next.
Wait(t) ==
  /\ pc[t] = "run"
  /\ Goto(t, "next")
  /\ UNCHANGED <<ret, sleep_check_state, storing, n_threads_running, work, waking, uv,
                 wait_empty>>

\* jl_task_wait_empty of the main task.
WaitEmpty ==
  /\ pc[IoThread] = "run" /\ ~wait_empty
  /\ wait_empty' = TRUE
  /\ Goto(IoThread, "next")
  /\ UNCHANGED <<ret, sleep_check_state, storing, n_threads_running, work, waking, uv>>

\* JL_UV_LOCK: the owner is kicked out of uv_run if it has to be waited for.
UvLock(t, from, granted, wait) ==
  /\ pc[t] = from
  /\ IF uv_owner = Nobody
     THEN uv_owner' = t /\ Goto(t, granted) /\ UNCHANGED uv_waiters
     ELSE uv_waiters' = uv_waiters \cup {t} /\ Goto(t, wait) /\ UNCHANGED uv_owner
  /\ UNCHANGED <<sleep_check_state, storing, n_threads_running, work, waking, kicked,
                 handles, wait_empty>>

\* A task starts an I/O operation under jl_iolock_begin.
IoLock(t) ==
  /\ UvLock(t, "run", "io", "io_kick")
  /\ ret' = [ret EXCEPT ![t] = "run"]
  /\ UNCHANGED threadedregion

\* jl_exit_threaded_region, by the last region's task.
ExitRegion(t) ==
  /\ threadedregion
  /\ threadedregion' = FALSE
  /\ UvLock(t, "run", "io", "io_kick")
  /\ ret' = [ret EXCEPT ![t] = "left_region"]

\* jl_wake_libuv
UvKick(t) ==
  /\ pc[t] \in {"io_kick", "uv_kick"}
  /\ kicked' = TRUE
  /\ Goto(t, IF pc[t] = "io_kick" THEN "io_wait" ELSE "uv_wait")
  /\ UNCHANGED <<ret, sleep_check_state, storing, n_threads_running, work, waking,
                 uv_owner, uv_waiters, handles, threadedregion, wait_empty>>

UvLocked(t) ==
  /\ pc[t] \in {"io_wait", "uv_wait"} /\ uv_owner = Nobody
  /\ uv_owner' = t
  /\ uv_waiters' = uv_waiters \ {t}
  /\ Goto(t, IF pc[t] = "io_wait" THEN "io" ELSE "uv_locked")
  /\ UNCHANGED <<ret, sleep_check_state, storing, n_threads_running, work, waking,
                 kicked, handles, threadedregion, wait_empty>>

\* The end of the critical section; a task may have opened a handle in it.
IoUnlock(t) ==
  /\ pc[t] = "io"
  /\ uv_owner' = Nobody
  /\ IF ret[t] = "run"
     THEN handles' = TRUE /\ Goto(t, "run") /\ UNCHANGED <<ret, candidates>>
     ELSE /\ Goto(t, "wakeup")
          /\ ret' = [ret EXCEPT ![t] = "run"]
          /\ candidates' = [candidates EXCEPT ![t] = {IoThread}]
          /\ UNCHANGED handles
  /\ UNCHANGED <<sleep_check_state, storing, n_threads_running, work, target,
                 uv_waiters, kicked, threadedregion, wait_empty>>

-----------------------------------------------------------------------------
(* jl_wakeup_thread, jl_wakeup_threadpool *)

\* The fence, and the part about the caller itself: it may be running a
\* callback of uv_run, half asleep.
WakeupSelf(t) ==
  /\ pc[t] = "wakeup"
  /\ FencedInsert(t)
  /\ IF t \in candidates[t] /\ sleep_check_state[t] = "sleeping"
     THEN /\ sleep_check_state' = [sleep_check_state EXCEPT ![t] = "not_sleeping"]
          /\ n_threads_running' = n_threads_running + 1
     ELSE UNCHANGED <<sleep_check_state, n_threads_running>>
  /\ candidates' = [candidates EXCEPT ![t] = @ \ {t}]
  /\ Goto(t, "scan")
  /\ UNCHANGED <<ret, storing, work, target, uv, wait_empty>>

\* wake_thread, the load and the compare-and-swap.
WakeThread(t, c) ==
  /\ pc[t] = "scan" /\ c \in candidates[t]
  /\ IF sleep_check_state[c] = "sleeping"
     THEN /\ sleep_check_state' = [sleep_check_state EXCEPT ![c] = "not_sleeping"]
          /\ target' = [target EXCEPT ![t] = c]
          /\ candidates' = [candidates EXCEPT ![t] = {}]
          /\ Goto(t, "count")
     ELSE /\ candidates' = [candidates EXCEPT ![t] = @ \ {c}]
          /\ UNCHANGED <<pc, target, sleep_check_state>>
  /\ UNCHANGED <<ret, storing, n_threads_running, work, uv, wait_empty>>

NobodyAsleep(t) ==
  /\ pc[t] = "scan" /\ candidates[t] = {}
  /\ Goto(t, ret[t])
  /\ UNCHANGED <<ret, sleep_check_state, storing, n_threads_running, work, waking, uv,
                 wait_empty>>

\* wake_thread, the in-flight wakeup is counted.
CountWakeup(t) ==
  /\ pc[t] = "count"
  /\ n_threads_running' = n_threads_running + 1
  /\ Goto(t, "signal")
  /\ UNCHANGED <<ret, sleep_check_state, storing, work, waking, uv, wait_empty>>

\* uv_cond_signal(wake_signal) under the sleep_lock of c.
Signalled(c, f) == IF f[c] = "asleep" THEN [f EXCEPT ![c] = "parked"] ELSE f

SignalThread(t) ==
  /\ pc[t] = "signal"
  /\ pc' = Signalled(target[t], [pc EXCEPT ![t] = "kick"])
  /\ UNCHANGED <<ret, sleep_check_state, storing, n_threads_running, work, waking, uv,
                 wait_empty>>

\* If the woken thread has the event loop, uv_run must return.
KickLoop(t) ==
  /\ pc[t] = "kick"
  /\ kicked' = (kicked \/ uv_owner = target[t])
  /\ target' = [target EXCEPT ![t] = Nobody]
  /\ Goto(t, "scan")
  /\ UNCHANGED <<ret, sleep_check_state, storing, n_threads_running, work, candidates,
                 uv_owner, uv_waiters, handles, threadedregion, wait_empty>>

-----------------------------------------------------------------------------
(* jl_task_get_next *)

\* The queues trypoptask looks into, its own before the multiqueue, and the
\* one checkempty does.
Visible(t) ==
  LET own == IF queue[t] > 0 THEN {t} ELSE {} IN
  IF own # {} \/ t \notin Pool \/ queue[Shared] = 0 THEN own ELSE {Shared}

CheckEmpty(t) == t \notin Pool \/ queue[Shared] = 0

Popped(t) == queue' = [q \in Queues |-> IF q \in Visible(t) THEN queue[q] - 1 ELSE queue[q]]

GetNextTask(t) ==
  /\ pc[t] = "next"
  /\ Popped(t)
  /\ Goto(t, IF Visible(t) # {} THEN "run" ELSE "quick_check")
  /\ UNCHANGED <<ret, sleep_check_state, storing, n_threads_running, inserting, tasks,
                 waking, uv, wait_empty>>

\* The race-y check; spinning for a while more when the threshold has not
\* passed, which the I/O thread does only in a threaded region.
Spin(t) ==
  /\ pc[t] = "quick_check"
  /\ ~CheckEmpty(t) \/ t # IoThread \/ (threadedregion /\ ~wait_empty)
  /\ Goto(t, "next")
  /\ UNCHANGED <<ret, sleep_check_state, storing, n_threads_running, work, waking, uv,
                 wait_empty>>

SleepStore(t) ==
  /\ pc[t] = "quick_check" /\ CheckEmpty(t)
  /\ storing' = [storing EXCEPT ![t] = TRUE]
  /\ Goto(t, "recheck")
  /\ UNCHANGED <<ret, sleep_check_state, n_threads_running, work, waking, uv, wait_empty>>

Recheck(t) ==
  /\ pc[t] = "recheck" /\ FencedSleep(t)
  /\ Goto(t, IF CheckEmpty(t) THEN "last_pop" ELSE "set_not_sleeping")
  /\ ret' = [ret EXCEPT ![t] = "next"]
  /\ UNCHANGED <<sleep_check_state, storing, n_threads_running, work, waking, uv,
                 wait_empty>>

LastPop(t) ==
  /\ pc[t] = "last_pop"
  /\ Popped(t)
  /\ IF Visible(t) # {}
     THEN Goto(t, "set_not_sleeping") /\ ret' = [ret EXCEPT ![t] = "run"]
     ELSE Goto(t, "uv") /\ UNCHANGED ret
  /\ UNCHANGED <<sleep_check_state, storing, n_threads_running, inserting, tasks, waking,
                 uv, wait_empty>>

\* set_not_sleeping: a wakeup that came first has been counted, or will be.
SetNotSleeping(t) ==
  /\ pc[t] = "set_not_sleeping"
  /\ IF sleep_check_state[t] = "sleeping"
     THEN /\ sleep_check_state' = [sleep_check_state EXCEPT ![t] = "not_sleeping"]
          /\ Goto(t, ret[t])
     ELSE Goto(t, "consume") /\ UNCHANGED sleep_check_state
  /\ UNCHANGED <<ret, storing, n_threads_running, work, waking, uv, wait_empty>>

\* Mutant: the wakeup in flight stays counted.
ConsumeNothing(t) ==
  /\ pc[t] = "consume"
  /\ Goto(t, ret[t])
  /\ UNCHANGED <<ret, sleep_check_state, storing, n_threads_running, work, waking, uv,
                 wait_empty>>

ConsumeWakeup(t) ==
  /\ pc[t] = "consume"
  /\ n_threads_running' = n_threads_running - 1
  /\ Goto(t, ret[t])
  /\ UNCHANGED <<ret, sleep_check_state, storing, work, waking, uv, wait_empty>>

-----------------------------------------------------------------------------
(* Who watches the event loop *)

\* Inside a threaded region, whoever gets the lock.
TryUvLock(t) ==
  /\ pc[t] = "uv" /\ threadedregion
  /\ IF uv_owner = Nobody
     THEN uv_owner' = t /\ Goto(t, "uv_locked")
     ELSE Goto(t, "leave") /\ UNCHANGED uv_owner
  /\ UNCHANGED <<ret, sleep_check_state, storing, n_threads_running, work, waking,
                 uv_waiters, kicked, handles, threadedregion, wait_empty>>

TakeUvLock ==
  /\ ~threadedregion
  /\ UvLock(IoThread, "uv", "uv_locked", "uv_kick")
  /\ UNCHANGED <<ret, threadedregion>>

\* Mutant: the I/O thread is not told.
LeaveIoUnwatched(t) ==
  /\ pc[t] = "uv" /\ ~threadedregion /\ t # IoThread
  /\ Goto(t, "leave")
  /\ UNCHANGED <<ret, sleep_check_state, storing, n_threads_running, work, waking, uv,
                 wait_empty>>

\* Outside one, the I/O thread is told if nobody has it.
NotifyIoThread(t) ==
  /\ pc[t] = "uv" /\ ~threadedregion /\ t # IoThread
  /\ IF uv_owner = Nobody
     THEN /\ Goto(t, "wakeup")
          /\ candidates' = [candidates EXCEPT ![t] = {IoThread}]
          /\ ret' = [ret EXCEPT ![t] = "leave"]
     ELSE Goto(t, "leave") /\ UNCHANGED <<candidates, ret>>
  /\ UNCHANGED <<sleep_check_state, storing, n_threads_running, work, target, uv,
                 wait_empty>>

MaySleep(t) == sleep_check_state[t] = "sleeping"

\* Mutant: the loop is entered although somebody wants the lock.
EnterLoopRegardless(t) == MaySleep(t)

MayEnterLoop(t) == MaySleep(t) /\ uv_waiters = {}

\* loop->stop_flag = 0; a pending async survives it.
EnterLoop(t) ==
  /\ pc[t] = "uv_locked"
  /\ Goto(t, IF MayEnterLoop(t) THEN "uv_run" ELSE "uv_skipped")
  /\ UNCHANGED <<ret, sleep_check_state, storing, n_threads_running, work, waking, uv,
                 wait_empty>>

\* uv_run(UV_RUN_ONCE) returns: at once without live handles, or when
\* signal_async is pending.
LoopReturns(t) ==
  /\ pc[t] = "uv_run"
  /\ ~handles \/ kicked
  /\ kicked' = (kicked /\ ~handles)
  /\ Goto(t, "uv_ran")
  /\ UNCHANGED <<ret, sleep_check_state, storing, n_threads_running, work, waking,
                 uv_owner, uv_waiters, handles, threadedregion, wait_empty>>

\* A handle has an event, maybe its last one; a pending async may be seen in
\* the same poll.
LoopEvent(t) ==
  /\ pc[t] = "uv_run" /\ handles
  /\ handles' \in BOOLEAN
  /\ kicked' \in {kicked, FALSE}
  /\ Goto(t, "uv_ran")
  /\ UNCHANGED <<ret, sleep_check_state, storing, n_threads_running, work, waking,
                 uv_owner, uv_waiters, threadedregion, wait_empty>>

\* Its callback schedules a task.
LoopCallback(t, q) ==
  /\ handles
  /\ handles' \in BOOLEAN
  /\ kicked' \in {kicked, FALSE}
  /\ EnqWork(t, q, "uv_run", "uv_ran")

\* JL_UV_UNLOCK, and whether to look for work again.
LeaveLoop(t) ==
  LET entered == pc[t] = "uv_ran"
      active == entered /\ handles
      again == \/ active \/ ~MaySleep(t)
               \/ ~entered /\ ~threadedregion /\ t = IoThread
  IN
  /\ pc[t] \in {"uv_ran", "uv_skipped"}
  /\ uv_owner' = Nobody
  /\ Goto(t, IF again THEN "set_not_sleeping" ELSE "leave")
  /\ ret' = [ret EXCEPT ![t] = "next"]
  /\ UNCHANGED <<sleep_check_state, storing, n_threads_running, work, waking, uv_waiters,
                 kicked, handles, threadedregion, wait_empty>>

-----------------------------------------------------------------------------
(* Sleep *)

\* The last thread to go makes tid 0 look at wait_empty.
StopRunning(t) ==
  /\ pc[t] = "leave"
  /\ n_threads_running' = n_threads_running - 1
  /\ Goto(t, IF n_threads_running = 1 /\ t # IoThread THEN "last_out" ELSE "parked")
  /\ UNCHANGED <<ret, sleep_check_state, storing, work, waking, uv, wait_empty>>

LastOut(t) ==
  /\ pc[t] = "last_out"
  /\ pc' = Signalled(IoThread, [pc EXCEPT ![t] = "parked"])
  /\ UNCHANGED <<ret, sleep_check_state, storing, n_threads_running, work, waking, uv,
                 wait_empty>>

\* Mutant: the count is not looked at.
AnyoneStopped(t) == t = IoThread /\ wait_empty

AllStopped(t) == t = IoThread /\ wait_empty /\ n_threads_running = 0

\* A turn of the loop around uv_cond_wait, under the sleep_lock.
Sleep(t) ==
  /\ pc[t] = "parked" /\ MaySleep(t) /\ ~AllStopped(t)
  /\ Goto(t, "asleep")
  /\ UNCHANGED <<ret, sleep_check_state, storing, n_threads_running, work, waking, uv,
                 wait_empty>>

Resume(t) ==
  /\ pc[t] = "parked" /\ ~MaySleep(t)
  /\ Goto(t, "next")
  /\ UNCHANGED <<ret, sleep_check_state, storing, n_threads_running, work, waking, uv,
                 wait_empty>>

\* Nobody runs: the task that waits for that is the next one.
Emptied ==
  /\ pc[IoThread] = "parked" /\ MaySleep(IoThread) /\ AllStopped(IoThread)
  /\ n_threads_running' = n_threads_running + 1
  /\ sleep_check_state' = [sleep_check_state EXCEPT ![IoThread] = "not_sleeping"]
  /\ wait_empty' = FALSE
  /\ Goto(IoThread, "finished")
  /\ UNCHANGED <<ret, storing, work, waking, uv>>

SpuriousWakeup(t) ==
  /\ pc[t] = "asleep"
  /\ Goto(t, "parked")
  /\ UNCHANGED <<ret, sleep_check_state, storing, n_threads_running, work, waking, uv,
                 wait_empty>>

-----------------------------------------------------------------------------
Stores(t) == SleepStored(t) \/ InsertStored(t)

Running(t) ==
  \/ \E q \in Queues : Enqueue(t, q)
  \/ Wait(t)
  \/ IoLock(t) \/ ExitRegion(t) \/ UvKick(t) \/ UvLocked(t) \/ IoUnlock(t)

Wakeup(t) ==
  \/ WakeupSelf(t) \/ NobodyAsleep(t) \/ \E c \in Threads : WakeThread(t, c)
  \/ CountWakeup(t) \/ SignalThread(t) \/ KickLoop(t)

GetNext(t) ==
  \/ GetNextTask(t) \/ Spin(t) \/ SleepStore(t) \/ Recheck(t) \/ LastPop(t)
  \/ SetNotSleeping(t) \/ ConsumeWakeup(t)

EventLoop(t) ==
  \/ TryUvLock(t) \/ NotifyIoThread(t)
  \/ EnterLoop(t) \/ LoopReturns(t) \/ LoopEvent(t) \/ LeaveLoop(t)
  \/ \E q \in Queues : LoopCallback(t, q)

Sleeping(t) ==
  \/ StopRunning(t) \/ LastOut(t) \/ Sleep(t) \/ Resume(t) \/ SpuriousWakeup(t)

Next ==
  \/ \E t \in Threads :
       Stores(t) \/ Running(t) \/ Wakeup(t) \/ GetNext(t) \/ EventLoop(t) \/ Sleeping(t)
  \/ WaitEmpty \/ TakeUvLock \/ Emptied

Spec == Init /\ [][Next]_vars

-----------------------------------------------------------------------------
\* Every variable has the type scheduler.c and jl_uv.c give it.
TypeOK ==
  /\ DOMAIN pc = Threads
  /\ sleep_check_state \in [Threads -> {"sleeping", "not_sleeping"}]
  /\ storing \in [Threads -> BOOLEAN]
  /\ n_threads_running \in 0 .. 2 * Cardinality(Threads)
  /\ queue \in [Queues -> 0 .. MaxTasks]
  /\ inserting \in [Threads -> Queues \cup {Nobody}]
  /\ candidates \in [Threads -> SUBSET Threads]
  /\ target \in [Threads -> Threads \cup {Nobody}]
  /\ uv_owner \in Threads \cup {Nobody} /\ uv_waiters \subseteq Threads
  /\ {kicked, handles, threadedregion, wait_empty} \subseteq BOOLEAN

\* Nothing makes this thread go on but a wakeup or an event.
Blocked(t) == pc[t] = "asleep" \/ (pc[t] = "uv_run" /\ handles /\ ~kicked)

\* Somebody is on the way to waking it.
BeingWoken(t) ==
  \E w \in Threads : target[w] = t \/ (pc[w] \in {"wakeup", "scan"} /\ t \in candidates[w])

Servers(q) == IF q = Shared THEN Pool ELSE {q}

(***************************************************************************)
(* A task in a queue is not left alone with sleepers: one of the threads   *)
(* that may run it is awake, or is being woken.  This is the argument of   *)
(* [^store_buffering_1] and of waking a single thread of the pool.         *)
(***************************************************************************)
NoStrandedTask ==
  \A q \in Queues :
    queue[q] > 0 => \E t \in Servers(q) : ~Blocked(t) \/ BeingWoken(t)

\* Between the store of "sleeping" and the return of jl_task_get_next.
GoingToSleep(t) ==
  /\ ~storing[t]
  /\ \/ pc[t] \in {"recheck", "last_pop", "set_not_sleeping", "consume", "uv", "uv_kick",
                   "uv_wait", "uv_locked", "uv_run", "uv_ran", "uv_skipped",
                   "leave", "last_out", "parked", "asleep"}
     \/ pc[t] \in {"wakeup", "scan", "count", "signal", "kick"} /\ ret[t] \in {"uv_ran", "leave"}

Stopped(t) == pc[t] \in {"last_out", "parked", "asleep"}

(***************************************************************************)
(* n_threads_running is the threads that have not stopped plus the wakeups *)
(* in flight, less those about to be counted: no path of a sleep that is   *)
(* abandoned, raced by a waker or cut short in uv_run counts a thread      *)
(* twice or drops one.                                                     *)
(***************************************************************************)
RunningCount ==
  n_threads_running =
    Cardinality({t \in Threads : ~Stopped(t)})
      + Cardinality({t \in Threads : GoingToSleep(t) /\ ~MaySleep(t)})
      - Cardinality({w \in Threads : pc[w] = "count"})

Quiet ==
  /\ \A q \in Queues : queue[q] = 0
  /\ \A t \in Threads : Stopped(t) /\ MaySleep(t) /\ inserting[t] = Nobody
  /\ ~handles

Finishes == pc[IoThread] # "finished" /\ pc'[IoThread] = "finished"

(***************************************************************************)
(* "This was the last running thread, and there is no thread with          *)
(* !may_sleep": the task in jl_task_wait_empty goes on only when no task   *)
(* is queued or about to be, every other thread sleeps and none is being   *)
(* woken, and the event loop has nothing to wait for.                      *)
(***************************************************************************)
EmptyIsQuiet == [][Finishes => Quiet]_vars

(***************************************************************************)
(* It does so unless a waker stands between the compare-and-swap and the   *)
(* count of wake_thread, where n_threads_running is one too small.         *)
(***************************************************************************)
EmptyIsQuietOrUncounted ==
  [][Finishes => Quiet \/ \E w \in Threads : pc[w] = "count"]_vars

(***************************************************************************)
(* A thread that wants the libuv lock is not left waiting for a thread     *)
(* that blocks in uv_run: [^store_buffering_2].                            *)
(***************************************************************************)
LoopYieldsLock ==
  uv_waiters # {} /\ uv_owner # Nobody /\ pc[uv_owner] = "uv_run" /\ handles
    => kicked \/ \E w \in uv_waiters : pc[w] \in {"io_kick", "uv_kick"}

(***************************************************************************)
(* With live handles somebody is there to watch the event loop, or will    *)
(* be: not every thread is asleep.                                         *)
(***************************************************************************)
LoopIsWatched == handles => \E t \in Threads : pc[t] # "asleep" \/ BeingWoken(t)
=============================================================================
