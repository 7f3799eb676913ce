----------------------------- MODULE Safepoint ------------------------------
(***************************************************************************)
(* Stopping the world (src/safepoint.c, and its callers in gc-stock.c,     *)
(* julia_threads.h, signals-unix.c and threading.c): a thread polls by a   *)
(* load from a page that the collector, or a thread that suspends it,      *)
(* makes fault.                                                            *)
(*                                                                         *)
(* A thread's store to its gc_state lags behind its later loads, until it  *)
(* takes a lock or another thread changes a page's protection: that is the *)
(* barrier the fast path of a gc_state transition leaves out.  A critical  *)
(* section of safepoint_lock or a sleep_lock in which the thread does not  *)
(* look at anything written outside the lock is one step.                  *)
(***************************************************************************)
EXTENDS Integers, FiniteSets

CONSTANTS
  Threads,
  Foreign,       \* those that are adopted later
  Suspender,     \* the one that calls jl_safepoint_suspend_thread
  Nobody,
  Listener,      \* the SIGINT listener thread, which no collection stops
  MaxGC,         \* bound: calls of jl_gc_collect
  MaxSuspend     \* bound: calls of jl_safepoint_suspend_thread

ASSUME SafepointAssumption ==
  /\ Foreign \subseteq Threads /\ Suspender \in Threads \ Foreign
  /\ IsFiniteSet(Threads)
  /\ {Nobody, Listener} \cap Threads = {} /\ Nobody # Listener
  /\ Nobody \notin {"unsafe", "safe", "waiting"}
  /\ MaxGC \in Nat /\ MaxSuspend \in Nat

VARIABLES
  pc,
  cont,            \* where a thread goes on after its safepoint load
  ret,             \* where jl_safepoint_wait_gc or wait_thread_resume returns to
  saved,           \* gc_state to restore after a wait
  gc_state,        \* in memory: "unsafe", "safe" or "waiting"
  storing,         \* a store to it that is not in memory yet, or Nobody
  suspend_count,
  safepoint_lock,  \* its owner, between the steps of a critical section
  jl_gc_running,
  armed,           \* pages 1 and 2 are protected
  jl_gc_disable_counter,
  jl_all_tls_states,   \* the threads that exist as mutators
  todo,            \* those the collector still waits for
  waits_for,       \* the thread a sleeper on safepoint_cond_begin waits for
  collects, suspends

control == <<cont, ret>>
states == <<gc_state, storing>>
page == <<armed, suspend_count>>
world == <<jl_all_tls_states, jl_gc_disable_counter>>
gc == <<jl_gc_running, todo>>
bounds == <<collects, suspends>>
vars == <<pc, control, saved, states, page, world, gc, safepoint_lock, waits_for, bounds>>

Goto(t, l) == pc' = [pc EXCEPT ![t] = l]
At(t, l) == pc[t] = l

Init ==
  /\ pc = [t \in Threads \cup {Listener} |->
             IF t = Listener THEN "idle" ELSE IF t \in Foreign THEN "foreign" ELSE "managed"]
  /\ cont = [t \in Threads |-> "managed"]
  /\ ret = [t \in Threads |-> "load"]
  /\ saved = [t \in Threads |-> "unsafe"]
  /\ gc_state = [t \in Threads |-> "unsafe"]
  /\ storing = [t \in Threads |-> Nobody]
  /\ suspend_count = [t \in Threads |-> 0]
  /\ safepoint_lock = Nobody
  /\ jl_gc_running = FALSE
  /\ armed = FALSE
  /\ jl_gc_disable_counter = 0
  /\ jl_all_tls_states = Threads \ Foreign
  /\ todo = {}
  /\ waits_for = [t \in Threads |-> Nobody]
  /\ collects = 0 /\ suspends = 0

-----------------------------------------------------------------------------
(* Memory, locks and conditions *)

Store(t, s) == storing' = [storing EXCEPT ![t] = s]

\* A thread's own view of its gc_state.
Own(t) == IF storing[t] = Nobody THEN gc_state[t] ELSE storing[t]

Stored(t) ==
  /\ storing[t] # Nobody
  /\ gc_state' = [gc_state EXCEPT ![t] = storing[t]]
  /\ Store(t, Nobody)
  /\ UNCHANGED <<pc, control, saved, page, world, gc, safepoint_lock, waits_for, bounds>>

\* mprotect interrupts every other thread: whatever they stored is in memory.
Protect ==
  /\ gc_state' = [t \in Threads |-> Own(t)]
  /\ storing' = [t \in Threads |-> Nobody]

\* The thread can enter a critical section of safepoint_lock.
CanLock(t) == safepoint_lock = Nobody /\ (t # Listener => storing[t] = Nobody)

Fenced(t) == storing[t] = Nobody

\* uv_cond_broadcast(&safepoint_cond_begin)
BeginBroadcast(f) ==
  [t \in DOMAIN f |-> CASE f[t] = "world_sleep" -> "world"
                        [] f[t] = "suspend_sleep" -> "suspend_woken"
                        [] OTHER -> f[t]]

\* uv_cond_broadcast(&safepoint_cond_end)
EndBroadcast(f) ==
  [t \in DOMAIN f |-> CASE f[t] = "gc_sleep" -> "wait_gc"
                        [] f[t] = "exclude_sleep" -> "exclude"
                        [] OTHER -> f[t]]

-----------------------------------------------------------------------------
(* gc_state transitions and safepoint loads *)

\* The page the thread's safepoint pointer names is protected.
Faults(t) == armed \/ suspend_count[t] > 0

\* A poll in managed code.
Poll(t) ==
  /\ At(t, "managed") /\ Faults(t)
  /\ Goto(t, "load")
  /\ cont' = [cont EXCEPT ![t] = "managed"]
  /\ UNCHANGED <<ret, saved, states, page, world, gc, safepoint_lock, waits_for, bounds>>

\* jl_gc_safe_enter
SafeEnter(t) ==
  /\ At(t, "managed")
  /\ Store(t, "safe")
  /\ Goto(t, "load")
  /\ cont' = [cont EXCEPT ![t] = "safe"]
  /\ UNCHANGED <<ret, saved, gc_state, page, world, gc, safepoint_lock, waits_for, bounds>>

\* jl_gc_safe_leave
SafeLeave(t) ==
  /\ pc[t] \in {"safe", "asleep"}
  /\ Store(t, "unsafe")
  /\ Goto(t, "load")
  /\ cont' = [cont EXCEPT ![t] = "managed"]
  /\ UNCHANGED <<ret, saved, gc_state, page, world, gc, safepoint_lock, waits_for, bounds>>

SafepointLoad(t) ==
  /\ At(t, "load") /\ ~Faults(t)
  /\ Goto(t, cont[t])
  /\ cont' = [cont EXCEPT ![t] = "managed"]
  /\ UNCHANGED <<ret, saved, states, page, world, gc, safepoint_lock, waits_for, bounds>>

\* segv_handler and the first lines of jl_set_gc_and_wait.
SafepointFault(t) ==
  /\ At(t, "load") /\ Faults(t)
  /\ saved' = [saved EXCEPT ![t] = Own(t)]
  /\ Store(t, "waiting")
  /\ Goto(t, "announce")
  /\ UNCHANGED <<control, gc_state, page, world, gc, safepoint_lock, waits_for,
                 bounds>>

Announce(t) ==
  /\ At(t, "announce") /\ CanLock(t)
  /\ pc' = BeginBroadcast([pc EXCEPT ![t] = "wait_gc"])
  /\ ret' = [ret EXCEPT ![t] = "restore"]
  /\ UNCHANGED <<cont, saved, states, page, world, gc, safepoint_lock, waits_for, bounds>>

\* The end of jl_set_gc_and_wait; after it the faulting load is made again.
Restore(t) ==
  /\ At(t, "restore")
  /\ Store(t, saved[t])
  /\ Goto(t, "resume")
  /\ UNCHANGED <<control, saved, gc_state, page, world, gc, safepoint_lock, waits_for, bounds>>

-----------------------------------------------------------------------------
(* jl_safepoint_wait_gc *)

Return(t) ==
  /\ Goto(t, ret[t])
  /\ ret' = [ret EXCEPT ![t] = "load"]

WaitGc(t) ==
  /\ At(t, "wait_gc")
  /\ IF jl_gc_running THEN Goto(t, "gc_lock") /\ UNCHANGED ret ELSE Return(t)
  /\ UNCHANGED <<cont, saved, states, page, world, gc, safepoint_lock, waits_for, bounds>>

\* Mutant: jl_gc_running is not looked at again under the lock.
GcSleepBlindly(t) ==
  /\ At(t, "gc_lock") /\ CanLock(t)
  /\ Goto(t, "gc_sleep")
  /\ UNCHANGED <<control, saved, states, page, world, gc, safepoint_lock, waits_for, bounds>>

GcSleep(t) ==
  /\ At(t, "gc_lock") /\ CanLock(t)
  /\ Goto(t, IF jl_gc_running THEN "gc_sleep" ELSE "wait_gc")
  /\ UNCHANGED <<control, saved, states, page, world, gc, safepoint_lock, waits_for, bounds>>

-----------------------------------------------------------------------------
(* jl_safepoint_wait_thread_resume *)

ResumeStore(t) ==
  /\ At(t, "resume")
  /\ saved' = [saved EXCEPT ![t] = Own(t)]
  /\ Store(t, "waiting")
  /\ Goto(t, "resume_lock")
  /\ UNCHANGED <<control, gc_state, page, world, gc, safepoint_lock, waits_for, bounds>>

\* The state is restored while sleep_lock is held, and so in memory.
ResumeNow(t) ==
  /\ pc[t] \in {"resume_lock", "resume_woken"} /\ Fenced(t)
  /\ suspend_count[t] = 0
  /\ gc_state' = [gc_state EXCEPT ![t] = saved[t]]
  /\ saved' = [saved EXCEPT ![t] = "unsafe"]
  /\ Return(t)
  /\ UNCHANGED <<cont, storing, page, world, gc, safepoint_lock, waits_for, bounds>>

\* uv_cond_wait(&wake_signal, &sleep_lock), with a broadcast before the first.
ResumeSleep(t) ==
  /\ pc[t] \in {"resume_lock", "resume_woken"} /\ Fenced(t)
  /\ suspend_count[t] > 0
  /\ Goto(t, IF At(t, "resume_lock") THEN "suspended" ELSE "resume_sleep")
  /\ UNCHANGED <<control, saved, states, page, world, gc, safepoint_lock, waits_for, bounds>>

Suspended(t) ==
  /\ At(t, "suspended") /\ CanLock(t)
  /\ pc' = BeginBroadcast([pc EXCEPT ![t] = "resume_woken"])
  /\ UNCHANGED <<control, saved, states, page, world, gc, safepoint_lock, waits_for, bounds>>

-----------------------------------------------------------------------------
(* jl_safepoint_take_sleep_lock and the scheduler's sleep *)

\* Mutant: a thread that finds itself suspended tells nobody.
TakeSleepLockQuietly(t) ==
  /\ At(t, "safe") /\ Fenced(t)
  /\ Goto(t, "asleep")
  /\ UNCHANGED <<control, saved, states, page, world, gc, safepoint_lock, waits_for, bounds>>

TakeSleepLock(t) ==
  /\ At(t, "safe") /\ Fenced(t)
  /\ Goto(t, IF suspend_count[t] > 0 THEN "sleep_announce" ELSE "asleep")
  /\ UNCHANGED <<control, saved, states, page, world, gc, safepoint_lock, waits_for, bounds>>

SleepAnnounce(t) ==
  /\ At(t, "sleep_announce") /\ CanLock(t)
  /\ pc' = BeginBroadcast([pc EXCEPT ![t] = "asleep"])
  /\ UNCHANGED <<control, saved, states, page, world, gc, safepoint_lock, waits_for, bounds>>

-----------------------------------------------------------------------------
(* jl_gc_collect *)

Collect(t) ==
  /\ At(t, "managed") /\ collects < MaxGC
  /\ jl_gc_disable_counter = 0
  /\ collects' = collects + 1
  /\ Store(t, "waiting")
  /\ Goto(t, "start")
  /\ UNCHANGED <<control, saved, gc_state, page, world, gc, safepoint_lock, waits_for,
                 suspends>>

\* jl_safepoint_start_gc takes the lock, the first time with a broadcast.
StartGc(t, l) ==
  /\ pc[t] \in {"start", "relock"} /\ CanLock(t)
  /\ pc' = IF At(t, "start") THEN BeginBroadcast([pc EXCEPT ![t] = l]) ELSE [pc EXCEPT ![t] = l]

\* A suspended thread must not collect.
StopInstead(t) ==
  /\ suspend_count[t] > 0
  /\ StartGc(t, "resume")
  /\ ret' = [ret EXCEPT ![t] = "relock"]
  /\ UNCHANGED <<cont, saved, states, page, world, gc, safepoint_lock, waits_for, bounds>>

\* The compare-and-swap of jl_gc_running.
LoseGc(t) ==
  /\ suspend_count[t] = 0 /\ jl_gc_running
  /\ StartGc(t, "wait_gc")
  /\ ret' = [ret EXCEPT ![t] = "leave"]
  /\ UNCHANGED <<cont, saved, states, page, world, gc, safepoint_lock, waits_for, bounds>>

WinGc(t) ==
  /\ suspend_count[t] = 0 /\ ~jl_gc_running
  /\ StartGc(t, "won")
  /\ jl_gc_running' = TRUE
  /\ safepoint_lock' = t
  /\ UNCHANGED <<control, saved, states, page, world, todo, waits_for, bounds>>

\* Somebody has disabled collections meanwhile.
GiveUpGc(t) ==
  /\ At(t, "won") /\ jl_gc_disable_counter > 0
  /\ jl_gc_running' = FALSE
  /\ safepoint_lock' = Nobody
  /\ Goto(t, "leave")
  /\ UNCHANGED <<control, saved, states, page, world, todo, waits_for, bounds>>

\* Mutant: jl_gc_disable_counter is not looked at again.
EnabledAsBefore == TRUE

GloballyEnabled == jl_gc_disable_counter = 0

ArmGc(t) ==
  /\ At(t, "won") /\ GloballyEnabled
  /\ armed' = TRUE
  /\ Protect
  /\ safepoint_lock' = Nobody
  /\ Goto(t, "snapshot")
  /\ UNCHANGED <<control, saved, suspend_count, world, gc, waits_for, bounds>>

Snapshot(t) ==
  /\ At(t, "snapshot")
  /\ todo' = jl_all_tls_states
  /\ Goto(t, "world")
  /\ UNCHANGED <<control, saved, states, page, world, jl_gc_running, safepoint_lock,
                 waits_for, bounds>>

\* jl_gc_wait_for_the_world
WorldNext(t, u) ==
  /\ At(t, "world") /\ u \in todo
  /\ gc_state[u] # "unsafe"
  /\ todo' = todo \ {u}
  /\ waits_for' = [waits_for EXCEPT ![t] = Nobody]
  /\ UNCHANGED <<pc, control, saved, states, page, world, jl_gc_running, safepoint_lock,
                 bounds>>

WorldSleep(t, u) ==
  /\ At(t, "world") /\ u \in todo /\ CanLock(t)
  /\ gc_state[u] = "unsafe"
  /\ waits_for' = [waits_for EXCEPT ![t] = u]
  /\ Goto(t, "world_sleep")
  /\ UNCHANGED <<control, saved, states, page, world, gc, safepoint_lock, bounds>>

\* _jl_gc_collect, unless a callback or a foreign thread has disabled it.
WorldStops(t) ==
  /\ At(t, "world") /\ todo = {}
  /\ Goto(t, IF jl_gc_disable_counter = 0 THEN "collecting" ELSE "end")
  /\ UNCHANGED <<control, saved, states, page, world, gc, safepoint_lock, waits_for, bounds>>

Collected(t) ==
  /\ At(t, "collecting")
  /\ Goto(t, "end")
  /\ UNCHANGED <<control, saved, states, page, world, gc, safepoint_lock, waits_for, bounds>>

\* jl_safepoint_end_gc
EndGc(t) ==
  /\ At(t, "end") /\ CanLock(t)
  /\ armed' = FALSE
  /\ jl_gc_running' = FALSE
  /\ Goto(t, "end_unlocked")
  /\ UNCHANGED <<control, saved, states, suspend_count, world, todo, safepoint_lock,
                 waits_for, bounds>>

EndGcBroadcast(t) ==
  /\ At(t, "end_unlocked")
  /\ pc' = EndBroadcast([pc EXCEPT ![t] = "leave"])
  /\ UNCHANGED <<control, saved, states, page, world, gc, safepoint_lock, waits_for, bounds>>

\* jl_gc_state_set to the state before with its safepoint load, then
\* wait_thread_resume and the last jl_gc_safepoint.
LeaveGc(t) ==
  /\ At(t, "leave")
  /\ Store(t, "unsafe")
  /\ Goto(t, "load")
  /\ cont' = [cont EXCEPT ![t] = "resume"]
  /\ UNCHANGED <<ret, saved, gc_state, page, world, gc, safepoint_lock, waits_for, bounds>>

-----------------------------------------------------------------------------
(* jl_safepoint_suspend_thread with waitstate 1, jl_safepoint_resume_thread *)

\* The first one protects the page, and only then moves the pointer.
Suspend(t, u) ==
  /\ t = Suspender /\ u # t /\ u \in jl_all_tls_states
  /\ At(t, "managed") /\ suspends < MaxSuspend /\ CanLock(t)
  /\ suspends' = suspends + 1
  /\ IF \A v \in Threads : suspend_count[v] = 0 THEN Protect ELSE UNCHANGED states
  /\ waits_for' = [waits_for EXCEPT ![t] = u]
  /\ safepoint_lock' = t
  /\ Goto(t, "suspend")
  /\ UNCHANGED <<control, saved, page, world, gc, collects>>

\* Return when the thread has stopped or has been resumed, or sleep.
SuspendCheck(t, count) ==
  LET u == waits_for[t] IN
  /\ IF count = 0 \/ gc_state[u] # "unsafe"
     THEN Goto(t, "managed") /\ waits_for' = [waits_for EXCEPT ![t] = Nobody]
     ELSE Goto(t, "suspend_sleep") /\ UNCHANGED waits_for
  /\ UNCHANGED <<control, saved, states, armed, world, gc, bounds>>

SuspendSet(t) ==
  LET u == waits_for[t] IN
  /\ At(t, "suspend")
  /\ suspend_count' = [suspend_count EXCEPT ![u] = @ + 1]
  /\ safepoint_lock' = Nobody
  /\ SuspendCheck(t, suspend_count[u] + 1)

SuspendWoken(t) ==
  /\ At(t, "suspend_woken") /\ safepoint_lock = Nobody
  /\ SuspendCheck(t, suspend_count[waits_for[t]])
  /\ UNCHANGED <<suspend_count, safepoint_lock>>

Resume(t, u) ==
  /\ t = Suspender /\ suspend_count[u] > 0
  /\ At(t, "managed") /\ CanLock(t)
  /\ suspend_count' = [suspend_count EXCEPT ![u] = @ - 1]
  /\ IF suspend_count[u] = 1
     THEN pc' = BeginBroadcast(IF At(u, "resume_sleep")
                               THEN [pc EXCEPT ![u] = "resume_woken"] ELSE pc)
     ELSE UNCHANGED pc
  /\ UNCHANGED <<control, saved, states, armed, world, gc, safepoint_lock, waits_for,
                 bounds>>

-----------------------------------------------------------------------------
(* jl_adopt_thread *)

AdoptDisable(t) ==
  /\ At(t, "foreign")
  /\ jl_gc_disable_counter' = jl_gc_disable_counter + 1
  /\ ret' = [ret EXCEPT ![t] = "adopting"]
  /\ Goto(t, "wait_gc")
  /\ UNCHANGED <<cont, saved, states, page, jl_all_tls_states, gc, safepoint_lock,
                 waits_for, bounds>>

\* jl_init_threadtls and jl_init_root_task, in a gc-unsafe region.
AdoptInit(t) ==
  /\ At(t, "adopting")
  /\ jl_all_tls_states' = jl_all_tls_states \cup {t}
  /\ Goto(t, "adopted")
  /\ UNCHANGED <<control, saved, states, page, jl_gc_disable_counter, gc, safepoint_lock,
                 waits_for, bounds>>

AdoptEnable(t) ==
  /\ At(t, "adopted")
  /\ jl_gc_disable_counter' = jl_gc_disable_counter - 1
  /\ Goto(t, "managed")
  /\ UNCHANGED <<control, saved, states, page, jl_all_tls_states, gc, safepoint_lock,
                 waits_for, bounds>>

-----------------------------------------------------------------------------
(* jl_safepoint_exclude_gc_begin and _end *)

ExcludeBegin ==
  /\ pc[Listener] \in {"idle", "exclude"} /\ CanLock(Listener)
  /\ IF jl_gc_running
     THEN Goto(Listener, "exclude_sleep") /\ UNCHANGED safepoint_lock
     ELSE Goto(Listener, "walk") /\ safepoint_lock' = Listener
  /\ UNCHANGED <<control, saved, states, page, world, gc, waits_for, bounds>>

ExcludeEnd ==
  /\ pc[Listener] = "walk"
  /\ safepoint_lock' = Nobody
  /\ Goto(Listener, "idle")
  /\ UNCHANGED <<control, saved, states, page, world, gc, waits_for, bounds>>

-----------------------------------------------------------------------------
Transition(t) ==
  \/ Stored(t) \/ Poll(t) \/ SafeEnter(t) \/ SafeLeave(t)
  \/ SafepointLoad(t) \/ SafepointFault(t) \/ Announce(t) \/ Restore(t)
  \/ WaitGc(t) \/ GcSleep(t)
  \/ ResumeStore(t) \/ ResumeNow(t) \/ ResumeSleep(t) \/ Suspended(t)
  \/ TakeSleepLock(t) \/ SleepAnnounce(t)

Collection(t) ==
  \/ Collect(t) \/ StopInstead(t) \/ LoseGc(t)
  \/ WinGc(t) \/ GiveUpGc(t) \/ ArmGc(t) \/ Snapshot(t)
  \/ \E u \in Threads : WorldNext(t, u) \/ WorldSleep(t, u)
  \/ WorldStops(t) \/ Collected(t) \/ EndGc(t) \/ EndGcBroadcast(t)
  \/ LeaveGc(t)

Next ==
  \/ \E t \in Threads :
       \/ Transition(t) \/ Collection(t)
       \/ \E u \in Threads : Suspend(t, u) \/ Resume(t, u)
       \/ SuspendSet(t) \/ SuspendWoken(t)
       \/ AdoptDisable(t) \/ AdoptInit(t) \/ AdoptEnable(t)
  \/ ExcludeBegin \/ ExcludeEnd

Spec == Init /\ [][Next]_vars

-----------------------------------------------------------------------------
\* Every variable has the type safepoint.c and its callers give it.
TypeOK ==
  /\ gc_state \in [Threads -> {"unsafe", "safe", "waiting"}]
  /\ storing \in [Threads -> {"unsafe", "safe", "waiting", Nobody}]
  /\ suspend_count \in [Threads -> 0 .. MaxSuspend]
  /\ safepoint_lock \in Threads \cup {Nobody, Listener}
  /\ jl_gc_disable_counter \in 0 .. Cardinality(Foreign)
  /\ todo \subseteq Threads /\ jl_all_tls_states \subseteq Threads

\* The thread may touch the heap.
Mutates(t) ==
  pc[t] \in {"managed", "adopting", "adopted", "suspend", "suspend_sleep", "suspend_woken"}

(***************************************************************************)
(* While a collection marks and sweeps no thread touches the heap, also    *)
(* one that leaves a gc-safe region, has just collected or is being        *)
(* adopted at that moment, and the ^C listener is not in its walk over the *)
(* weak child lists.                                                       *)
(***************************************************************************)
WorldStopped ==
  \A c \in Threads :
    At(c, "collecting") => /\ \A t \in Threads : ~Mutates(t)
                           /\ pc[Listener] # "walk"

\* The thread has stopped, and will not tell anybody any more.
Silent(t) ==
  pc[t] \in {"safe", "asleep", "wait_gc", "gc_lock", "gc_sleep", "resume_sleep", "world",
             "world_sleep", "collecting"}

(***************************************************************************)
(* Nobody sleeps on safepoint_cond_begin for a thread that has stopped     *)
(* already: not the collector, and not a suspender whose target has gone   *)
(* to sleep in the scheduler, or waits to be resumed, having read a stale  *)
(* safepoint pointer.                                                      *)
(***************************************************************************)
StopIsSeen ==
  \A t \in Threads :
    /\ At(t, "world_sleep") => ~Silent(waits_for[t])
    /\ At(t, "suspend_sleep") => pc[waits_for[t]] \notin {"asleep", "resume_sleep"}

(***************************************************************************)
(* Nobody sleeps on safepoint_cond_end when no collection runs, unless the *)
(* broadcast is on its way: also not after a collection that was given up, *)
(* which does not broadcast.                                               *)
(***************************************************************************)
EndIsSeen ==
  (\E t \in Threads : At(t, "gc_sleep")) \/ pc[Listener] = "exclude_sleep"
    => jl_gc_running \/ \E t \in Threads : At(t, "end_unlocked")
=============================================================================
