---------------------------- MODULE Sigint ----------------------------
(***************************************************************************)
(* Delivery of ^C to the current interactive evaluation (the "episode"):   *)
(* base/Base.jl (sigint_new_episode!, sigint_close_episode!,               *)
(* maybe_dispatch_sigint, _sigint_dispatch_pass, sigint_listener),         *)
(* src/signal-handling.c (jl_set_sigint_source,                            *)
(* jl_sigint_request_cancellation, deliver_sigint_notification) and the    *)
(* part of src/scheduler.c (jl_task_get_next, wake_thread) that lets an    *)
(* idle thread run a dispatch pass.                                        *)
(*                                                                         *)
(* Four kinds of actors share the state: the session task that installs    *)
(* and closes episodes, the signal thread that handles each press of ^C,   *)
(* the Julia threads that run tasks, poll, dispatch or sleep, and the      *)
(* tasks of an evaluation, which park under its cancellation source.  A    *)
(* whole subtree of sources is one source here: CancelGraph is the model   *)
(* of the walk over it, Park of the handshake of parking with it.          *)
(***************************************************************************)
EXTENDS Integers, FiniteSets, Functions

CONSTANTS
    Sources,      \* cancellation sources, each installed for one evaluation
    NoSrc,        \* `nothing` in Base, NULL in the C mirror
    Threads,      \* Julia threads of the pool
    IoThread,     \* io_loop_tid: the thread that may run the event loop
    NoThread,     \* no thread runs the owner of sigint_pass_lock
    Interactive,  \* a live REPL backend exists (active_repl_backend)
    MaxSwaps,     \* bound: calls of jl_set_sigint_source
    MaxPresses,   \* bound: presses of ^C
    Contention    \* other walks (pruning, unregistration, cancel!) go on

ASSUME SigintAssumption ==
    /\ NoSrc \notin Sources
    /\ NoThread \notin Threads
    /\ IoThread \in Threads
    /\ Interactive \in BOOLEAN
    /\ MaxSwaps \in Nat /\ MaxPresses \in Nat /\ Contention \in BOOLEAN

VARIABLES
    egen,      \* sigint_episode_gen, odd while a swap is in progress
    mirror,    \* jl_sigint_source
    lock,      \* sigint_state_lock: "free", "session" or "signal"
    episode,   \* _sigint_episode[]: the source and generation Base holds
    ses,       \* the session task: its pc and the source it installs
    sig,       \* the signal thread: pc, its snapshot, the threads left to wake
    presses,   \* presses of ^C so far
    pending,   \* sigint_pending_gen, 0 when there is none
    flag,      \* jl_sigint_dispatch_pending
    async,     \* uv_async_send on the listener's condition not yet handled
    listener,  \* the sigint listener task: "parked", "ready", "running", or
               \* "again": running with its condition set once more
    passLock,  \* sigint_pass_lock, owned by a task: its reentrancy count and the
               \* thread that runs the owner, NoThread while it is switched out
    walk,      \* the pass whose task waits for a walk lock: its source (NoSrc:
               \* there is none) and whether the task is the listener
    th,        \* each thread: pc, the pass's locals, whether it runs the listener
    marked,    \* sources whose state byte says cancelled
    parked,    \* sources with a task parked under them
    handed,    \* sources whose token the session task has returned
    exited,    \* the process has called exit(130)
    owner,     \* history: the source each completed generation installed
    pressed,   \* history: generations some press has targeted
    missed     \* history: sources whose walk failed since their last press

swapVars == <<egen, mirror, episode, ses, handed, owner>>
pressVars == <<sig, presses, pending, pressed>>
threadVars == <<listener, passLock, walk, th, exited>>
vars == <<egen, mirror, lock, episode, ses, sig, presses, pending, flag, async,
          listener, passLock, walk, th, marked, parked, handed, exited,
          owner, pressed, missed>>

MaxGen == 2 + 2 * MaxSwaps
IdleThread == [pc |-> "poll", src |-> NoSrc, gen |-> 0, asListener |-> FALSE]
NoWalk == [src |-> NoSrc, asListener |-> FALSE]

Gens == 0..MaxGen
SessionStates == [pc : {"idle", "store", "finish", "record"},
                  src : Sources \cup {NoSrc}, gen : Gens]
SignalStates == [pc : {"idle", "gen", "src", "verify", "mark", "flag", "pend",
                       "lock", "notify", "wake"},
                 gen : Gens, src : Sources \cup {NoSrc}, left : SUBSET Threads]
ThreadStates == [pc : {"busy", "poll", "look", "sleeping", "asleep", "peek",
                       "trylock", "claim", "read", "consume", "deliver",
                       "walk", "unlock", "exit"},
                 src : Sources \cup {NoSrc}, gen : Gens, asListener : BOOLEAN]

TypeOK ==
    /\ egen \in 2..MaxGen
    /\ mirror \in Sources \cup {NoSrc}
    /\ lock \in {"free", "session", "signal"}
    /\ episode \in [src : Sources \cup {NoSrc}, gen : Gens]
    /\ ses \in SessionStates
    /\ sig \in SignalStates
    /\ presses \in 0..MaxPresses
    /\ pending \in Gens
    /\ flag \in BOOLEAN /\ async \in BOOLEAN /\ exited \in BOOLEAN
    /\ listener \in {"parked", "ready", "running", "again"}
    /\ passLock \in [by : Threads \cup {NoThread}, count : 0..2]
    /\ walk \in [src : Sources \cup {NoSrc}, asListener : BOOLEAN]
    /\ th \in [Threads -> ThreadStates]
    /\ marked \subseteq Sources /\ parked \subseteq Sources /\ handed \subseteq Sources
    /\ owner \in [Gens -> Sources \cup {NoSrc}]
    /\ pressed \subseteq Gens /\ missed \subseteq Sources

Init ==
    /\ egen = 2 /\ mirror = NoSrc /\ lock = "free"
    /\ episode = [src |-> NoSrc, gen |-> 0]
    /\ ses = [pc |-> "idle", src |-> NoSrc, gen |-> 0]
    /\ sig = [pc |-> "idle", gen |-> 0, src |-> NoSrc, left |-> {}]
    /\ presses = 0 /\ pending = 0
    /\ flag = FALSE /\ async = FALSE /\ listener = "parked"
    /\ passLock = [by |-> NoThread, count |-> 0]
    /\ walk = NoWalk
    /\ th = [t \in Threads |-> [IdleThread EXCEPT !.pc = "busy"]]
    /\ marked = {} /\ parked = {} /\ handed = {} /\ exited = FALSE
    /\ owner = [g \in Gens |-> NoSrc]
    /\ pressed = {} /\ missed = {}

-----------------------------------------------------------------------------
(* The session task.                                                        *)

\* jl_set_sigint_source: take sigint_state_lock and make the generation odd.
\* s is a source no earlier episode used, or NoSrc when the episode closes.
SwapBegin ==
    /\ ses.pc = "idle" /\ lock = "free"
    /\ egen + 2 <= MaxGen
    /\ \E s \in (Sources \ Range(owner)) \cup {NoSrc} :
         ses' = [pc |-> "store", src |-> s, gen |-> 0]
    /\ lock' = "session"
    /\ egen' = egen + 1
    /\ UNCHANGED <<mirror, episode, handed, owner, pressVars, flag, async,
                   threadVars, marked, parked, missed>>

SwapStore ==
    /\ ses.pc = "store"
    /\ mirror' = ses.src
    /\ ses' = [ses EXCEPT !.pc = "finish"]
    /\ UNCHANGED <<egen, lock, episode, handed, owner, pressVars, flag, async,
                   threadVars, marked, parked, missed>>

\* Even again: the swap is complete and its generation is returned to Base.
SwapFinish ==
    /\ ses.pc = "finish"
    /\ egen' = egen + 1
    /\ owner' = [owner EXCEPT ![egen + 1] = ses.src]
    /\ lock' = "free"
    /\ ses' = [ses EXCEPT !.pc = "record", !.gen = egen + 1]
    /\ UNCHANGED <<mirror, episode, handed, pressVars, flag, async,
                   threadVars, marked, parked, missed>>

\* Base records (source, generation); a new episode's token is handed out.
Record ==
    /\ ses.pc = "record"
    /\ episode' = [src |-> ses.src, gen |-> ses.gen]
    /\ handed' = handed \cup ({ses.src} \ {NoSrc})
    /\ ses' = [ses EXCEPT !.pc = "idle"]
    /\ UNCHANGED <<egen, mirror, lock, owner, pressVars, flag, async,
                   threadVars, marked, parked, missed>>

Session == SwapBegin \/ SwapStore \/ SwapFinish \/ Record

\* A task in the scope of s parks.  Arming a park is level-triggered: under
\* a cancelled source the task throws instead of parking.
ParkUnder(s) ==
    /\ s \in handed \ (marked \cup parked)
    /\ parked' = parked \cup {s}
    /\ UNCHANGED <<swapVars, lock, pressVars, flag, async, threadVars, marked, missed>>

-----------------------------------------------------------------------------
(* The signal thread: jl_sigint_request_cancellation.                       *)

Press ==
    /\ sig.pc = "idle" /\ presses < MaxPresses
    /\ sig' = [sig EXCEPT !.pc = "gen"]
    /\ presses' = presses + 1
    /\ UNCHANGED <<swapVars, lock, pending, pressed, flag, async, threadVars,
                   marked, parked, missed>>

\* The seqlock read: spin while a swap is in progress ...
SnapGen ==
    /\ sig.pc = "gen" /\ egen % 2 = 0
    /\ sig' = [sig EXCEPT !.pc = "src", !.gen = egen]
    /\ UNCHANGED <<swapVars, lock, presses, pending, pressed, flag, async,
                   threadVars, marked, parked, missed>>

SnapSource ==
    /\ sig.pc = "src"
    /\ sig' = [sig EXCEPT !.pc = "verify", !.src = mirror]
    /\ UNCHANGED <<swapVars, lock, presses, pending, pressed, flag, async,
                   threadVars, marked, parked, missed>>

\* Mutant: the generation is not read again after the source.
SnapNoVerify ==
    /\ sig.pc = "verify"
    /\ sig' = [sig EXCEPT !.pc = IF sig.src = NoSrc THEN "pend" ELSE "mark"]
    /\ pressed' = pressed \cup {sig.gen}
    /\ UNCHANGED <<swapVars, lock, presses, pending, flag, async,
                   threadVars, marked, parked, missed>>

\* ... and take the pair only if the generation has not moved.
SnapVerify ==
    /\ sig.pc = "verify"
    /\ \/ /\ egen = sig.gen
          /\ sig' = [sig EXCEPT !.pc = IF sig.src = NoSrc THEN "pend" ELSE "mark"]
          /\ pressed' = pressed \cup {sig.gen}
          /\ missed' = missed \ {sig.src}
       \/ /\ egen # sig.gen
          /\ sig' = [sig EXCEPT !.pc = "gen"]
          /\ UNCHANGED <<pressed, missed>>
    /\ UNCHANGED <<swapVars, lock, presses, pending, flag, async,
                   threadVars, marked, parked>>

\* jl_cancel_subtree_mark: state bytes only, no waiter is woken.
Mark ==
    /\ sig.pc = "mark"
    /\ marked' = marked \cup {sig.src}
    /\ sig' = [sig EXCEPT !.pc = "flag"]
    /\ UNCHANGED <<swapVars, lock, presses, pending, pressed, flag, async,
                   threadVars, parked, missed>>

\* The dispatch flag goes up before the per-thread sends ...
RaiseFlag ==
    /\ sig.pc = "flag"
    /\ flag' = TRUE
    /\ sig' = [sig EXCEPT !.pc = "pend"]
    /\ UNCHANGED <<swapVars, lock, presses, pending, pressed, async,
                   threadVars, marked, parked, missed>>

\* ... and the targeted generation is published after them.
PublishPending ==
    /\ sig.pc = "pend"
    /\ pending' = sig.gen
    /\ sig' = [sig EXCEPT !.pc = "lock"]
    /\ UNCHANGED <<swapVars, lock, presses, pressed, flag, async,
                   threadVars, marked, parked, missed>>

\* deliver_sigint_notification: under sigint_state_lock, raise the flag
\* again, post the async event, then wake every thread in turn.
NotifyLock ==
    /\ sig.pc = "lock" /\ lock = "free"
    /\ lock' = "signal"
    /\ sig' = [sig EXCEPT !.pc = "notify"]
    /\ UNCHANGED <<swapVars, presses, pending, pressed, flag, async,
                   threadVars, marked, parked, missed>>

\* Mutant: the flag, raised before the press was published, is not raised again.
NotifyOnce ==
    /\ sig.pc = "notify"
    /\ async' = TRUE
    /\ sig' = [sig EXCEPT !.pc = "wake", !.left = Threads]
    /\ UNCHANGED <<swapVars, lock, presses, pending, pressed, flag,
                   threadVars, marked, parked, missed>>

Notify ==
    /\ sig.pc = "notify"
    /\ flag' = TRUE /\ async' = TRUE
    /\ sig' = [sig EXCEPT !.pc = "wake", !.left = Threads]
    /\ UNCHANGED <<swapVars, lock, presses, pending, pressed,
                   threadVars, marked, parked, missed>>

\* wake_thread: only a thread whose sleep_check_state is `sleeping` changes.
Awakened(r) == IF r.pc \in {"sleeping", "asleep"} THEN [r EXCEPT !.pc = "poll"] ELSE r

WakeThread(t) ==
    /\ sig.pc = "wake" /\ t \in sig.left
    /\ th' = [th EXCEPT ![t] = Awakened(@)]
    /\ sig' = [sig EXCEPT !.left = @ \ {t}]
    /\ UNCHANGED <<swapVars, lock, presses, pending, pressed, flag, async,
                   listener, passLock, walk, exited, marked, parked, missed>>

NotifyUnlock ==
    /\ sig.pc = "wake" /\ sig.left = {}
    /\ lock' = "free"
    /\ sig' = [sig EXCEPT !.pc = "idle", !.src = NoSrc, !.gen = 0]
    /\ UNCHANGED <<swapVars, presses, pending, pressed, flag, async,
                   threadVars, marked, parked, missed>>

Signal ==
    \/ SnapGen \/ SnapSource \/ SnapVerify \/ Mark \/ RaiseFlag \/ PublishPending
    \/ NotifyLock \/ Notify \/ NotifyUnlock
    \/ \E t \in Threads : WakeThread(t)

-----------------------------------------------------------------------------
(* A Julia thread in jl_task_get_next.                                      *)

\* What no step of the scheduler or of a dispatch pass touches.
OutsideThreads == <<swapVars, lock, pressVars, flag, async, exited, marked, parked,
                    missed, walk>>

To(t, pc) == th' = [th EXCEPT ![t].pc = pc]

\* Thread t switches to another task: a pass of the task it leaves keeps the
\* lock, but no thread runs it.
SwitchFrom(t) ==
    passLock' = [passLock EXCEPT !.by = IF @ = t THEN NoThread ELSE @]

\* The task a thread runs yields, blocks or ends.
Idle(t) ==
    /\ th[t].pc = "busy"
    /\ To(t, "poll")
    /\ UNCHANGED <<OutsideThreads, listener, passLock>>

\* Top of the loop: a pending ^C is dispatched inline.
Poll(t) ==
    /\ th[t].pc = "poll"
    /\ To(t, IF flag THEN "peek" ELSE "look")
    /\ UNCHANGED <<OutsideThreads, listener, passLock>>

\* get_next_task finds the listener task ready, and runs it.
RunListener(t) ==
    /\ th[t].pc \in {"look", "sleeping"} /\ listener = "ready"
    /\ listener' = "running"
    /\ th' = [th EXCEPT ![t].pc = "peek", ![t].asListener = TRUE]
    /\ SwitchFrom(t)
    /\ UNCHANGED OutsideThreads

\* get_next_task finds some other task.
RunTask(t) ==
    /\ th[t].pc \in {"look", "sleeping"}
    /\ To(t, "busy")
    /\ SwitchFrom(t)
    /\ UNCHANGED <<OutsideThreads, listener>>

\* Nothing to run: spin once more, until the sleep threshold has passed; the
\* event loop's thread does not wait for it.
Spin(t) ==
    /\ th[t].pc = "look" /\ listener # "ready" /\ t # IoThread
    /\ To(t, "poll")
    /\ UNCHANGED <<OutsideThreads, listener, passLock>>

\* sleep_check_state := sleeping, after which only the task queues, and not
\* the ^C flag, are looked at again.
StartSleep(t) ==
    /\ th[t].pc = "look" /\ listener # "ready"
    /\ To(t, "sleeping")
    /\ UNCHANGED <<OutsideThreads, listener, passLock>>

FallAsleep(t) ==
    /\ th[t].pc = "sleeping" /\ listener # "ready"
    /\ To(t, "asleep")
    /\ UNCHANGED <<OutsideThreads, listener, passLock>>

\* uv_run on the event loop's thread handles the async event: the listener
\* is scheduled, which wakes at most one sleeping thread of the pool
\* (jl_wakeup_threadpool), and the thread itself goes round its loop again.
RunLoop(t) ==
    /\ t = IoThread /\ th[t].pc = "asleep" /\ async
    /\ async' = FALSE
    /\ listener' = CASE listener = "parked" -> "ready"
                     [] listener = "running" -> "again"
                     [] OTHER -> listener
    /\ LET others == {u \in Threads \ {t} : th[u].pc \in {"sleeping", "asleep"}}
       IN \E w \in IF others = {} THEN {t} ELSE others :
            th' = [th EXCEPT ![t].pc = "poll", ![w] = Awakened(@)]
    /\ UNCHANGED <<swapVars, lock, pressVars, flag, exited, marked, parked, missed,
                   passLock, walk>>

-----------------------------------------------------------------------------
(* A dispatch pass: maybe_dispatch_sigint on thread t.                      *)

\* The pass is over.  An idle thread goes on with its scheduler loop; the
\* listener waits for its condition, and runs on if it was set meanwhile.
EndPass(t) ==
    \/ /\ ~th[t].asListener
       /\ th' = [th EXCEPT ![t] = [IdleThread EXCEPT !.pc = "look"]]
       /\ UNCHANGED listener
    \/ /\ th[t].asListener /\ listener = "running"
       /\ th' = [th EXCEPT ![t] = IdleThread]
       /\ listener' = "parked"
    \/ /\ th[t].asListener /\ listener = "again"
       /\ th' = [th EXCEPT ![t] = [IdleThread EXCEPT !.pc = "peek", !.asListener = TRUE]]
       /\ listener' = "running"

Peek(t) ==
    /\ th[t].pc = "peek"
    /\ \/ flag /\ To(t, "trylock") /\ UNCHANGED listener
       \/ ~flag /\ EndPass(t)
    /\ UNCHANGED <<OutsideThreads, passLock>>

\* trylock of a ReentrantLock: it succeeds again in the task that owns it,
\* so a pass that waits for a walk lock can have another nested in its wait.
TryLock(t) ==
    /\ th[t].pc = "trylock"
    /\ \/ /\ passLock.count = 0 \/ passLock.by = t
          /\ passLock' = [by |-> t, count |-> passLock.count + 1]
          /\ To(t, "claim")
          /\ UNCHANGED listener
       \/ /\ passLock.count # 0 /\ passLock.by # t
          /\ EndPass(t)
          /\ UNCHANGED passLock
    /\ UNCHANGED OutsideThreads

\* jl_claim_sigint_dispatch: exchange the flag for 0.
Claim(t) ==
    /\ th[t].pc = "claim"
    /\ To(t, IF flag THEN "read" ELSE "unlock")
    /\ flag' = FALSE
    /\ UNCHANGED <<swapVars, lock, pressVars, async, exited, marked, parked, missed,
                   listener, passLock, walk>>

ReadEpisode(t) ==
    /\ th[t].pc = "read"
    /\ th' = [th EXCEPT ![t].pc = "consume", ![t].src = episode.src,
                        ![t].gen = episode.gen]
    /\ UNCHANGED <<OutsideThreads, listener, passLock>>

\* Mutant: any pending press is consumed, whatever episode it targeted.
ConsumesAny(p, gen) == p # 0

\* jl_consume_sigint_pending succeeds for a press of this very generation.
Consumes(p, gen) == p # 0 /\ p = gen

\* After a successful consume the pass delivers to the episode's source; with
\* no episode it ignores the press while a REPL backend lives or the root
\* task still runs, and exits the process otherwise; its thread then runs
\* the exit hooks and does not come back.
Consume(t) ==
    /\ th[t].pc = "consume"
    /\ \/ /\ ~Consumes(pending, th[t].gen)
          /\ To(t, "claim")
          /\ UNCHANGED <<pending, exited>>
       \/ /\ Consumes(pending, th[t].gen)
          /\ pending' = 0
          /\ \/ th[t].src # NoSrc /\ To(t, "deliver") /\ UNCHANGED exited
             \/ th[t].src = NoSrc /\ To(t, "claim") /\ UNCHANGED exited
             \/ /\ th[t].src = NoSrc /\ ~Interactive
                /\ To(t, "exit") /\ exited' = TRUE
    /\ UNCHANGED <<swapVars, lock, sig, presses, pressed, flag, async, marked, parked,
                   missed, listener, passLock, walk>>

\* cancel! of an unmarked source, redeliver! of a marked one: both leave it
\* marked, and then walk it.
Deliver(t) ==
    /\ th[t].pc = "deliver"
    /\ marked' = marked \cup {th[t].src}
    /\ To(t, "walk")
    /\ UNCHANGED <<swapVars, lock, pressVars, flag, async, exited, parked, missed,
                   listener, passLock, walk>>

\* The walk, under the source's walk lock, wakes the tasks parked under it.
WalkSource(t) ==
    /\ th[t].pc = "walk"
    /\ parked' = parked \ {th[t].src}
    /\ To(t, "claim")
    /\ UNCHANGED <<swapVars, lock, pressVars, flag, async, exited, marked, missed,
                   listener, passLock, walk>>

\* Another walk holds the walk lock.  The pass's task waits for it in the
\* scheduler loop of its thread, sigint_pass_lock held.
WalkWaits(t) ==
    /\ th[t].pc = "walk" /\ walk.src = NoSrc /\ Contention
    /\ walk' = [src |-> th[t].src, asListener |-> th[t].asListener]
    /\ th' = [th EXCEPT ![t] = IdleThread]
    /\ UNCHANGED <<swapVars, lock, pressVars, flag, async, exited, marked, parked,
                   missed, listener, passLock>>

\* A task that was parking when its loop ran the pass has a wait already, as
\* has one that waits for a walk lock: it can neither yield nor park again.
\* lock throws, and maybe_dispatch_sigint catches the error and claims on:
\* the press is consumed, and this walk does not happen.
WalkFails(t) ==
    /\ th[t].pc = "walk" /\ ~th[t].asListener /\ Contention
    /\ missed' = missed \cup {th[t].src}
    /\ To(t, "claim")
    /\ UNCHANGED <<swapVars, lock, pressVars, flag, async, exited, marked, parked,
                   listener, passLock, walk>>

\* The walk lock is released and the waiting task made ready: the thread that
\* hosts it, or any that finds it, goes on with its pass.
ResumeWalk(t) ==
    /\ th[t].pc \in {"look", "sleeping", "asleep"}
    /\ walk.src # NoSrc /\ passLock.by \in {t, NoThread}
    /\ th' = [th EXCEPT ![t] = [pc |-> "walk", src |-> walk.src, gen |-> 0,
                                asListener |-> walk.asListener]]
    /\ passLock' = [passLock EXCEPT !.by = t]
    /\ walk' = NoWalk
    /\ UNCHANGED <<swapVars, lock, pressVars, flag, async, exited, marked, parked,
                   missed, listener>>

\* unlock: the lock is free once the outermost pass has ended.
Unlock(t) ==
    /\ th[t].pc = "unlock"
    /\ passLock' = [by |-> IF passLock.count = 1 THEN NoThread ELSE t,
                    count |-> passLock.count - 1]
    /\ EndPass(t)
    /\ UNCHANGED OutsideThreads

Dispatch(t) ==
    \/ Peek(t) \/ TryLock(t) \/ Claim(t) \/ ReadEpisode(t)
    \/ Consume(t) \/ Deliver(t) \/ WalkSource(t) \/ WalkWaits(t) \/ WalkFails(t)
    \/ ResumeWalk(t) \/ Unlock(t)

Schedule(t) ==
    \/ Poll(t) \/ RunListener(t) \/ Spin(t) \/ StartSleep(t) \/ FallAsleep(t)
    \/ RunLoop(t) \/ Dispatch(t)

-----------------------------------------------------------------------------
Next ==
    \/ Session
    \/ \E s \in Sources : ParkUnder(s)
    \/ Press \/ Signal
    \/ \E t \in Threads : Idle(t) \/ RunTask(t) \/ Schedule(t)

Spec == Init /\ [][Next]_vars

\* The signal thread and the session task run on, a Julia thread goes on with
\* its scheduler loop, and the task a thread runs gives the thread back.
Fairness ==
    /\ WF_vars(Signal)
    /\ WF_vars(SwapStore \/ SwapFinish \/ Record)
    /\ \A t \in Threads : WF_vars(Idle(t) \/ Schedule(t))

FairSpec == Spec /\ Fairness

-----------------------------------------------------------------------------
(* Properties.                                                              *)

\* A press for one episode never cancels another: every source marked was the
\* source of a generation some press targeted (Base.jl:409-412, the seqlock
\* snapshot and the generation check of jl_consume_sigint_pending).
OnlyPressedAreCancelled == \A s \in marked : \E g \in pressed : owner[g] = s

\* A press is announced to Base only once its source carries the mark, so a
\* pass that consumes it never finds tasks still able to park (the order of
\* jl_sigint_request_cancellation).
PendingIsMarked ==
    pending # 0 /\ owner[pending] # NoSrc => owner[pending] \in marked

\* The process exits only for a press made while no episode was installed: a
\* late press of an evaluation that has ended is not taken for one
\* (_sigint_dispatch_pass, the `src === nothing` branch).
NoStrayExit == exited => \E g \in pressed : owner[g] = NoSrc

\* While a press is on its way to s: the signal thread has not notified it
\* yet, or the flag is up, or a pass has claimed it and not yet walked s.
UnderWay(s) ==
    \/ sig.pc \in {"mark", "flag", "pend", "lock", "notify"} /\ sig.src = s
    \/ flag
    \/ walk.src = s
    \/ \E t \in Threads : \/ th[t].pc = "read"
                          \/ th[t].pc \in {"consume", "deliver", "walk"} /\ th[t].src = s

\* No press is forgotten: as long as a task is parked under the source of the
\* current episode that a press has marked, that press is under way, through
\* every interleaving of passes, nested ones included, with the handler, which
\* raises the flag before it publishes the press and again after.  A walk that
\* fails is the exception (Base.jl:525, catch): it waits for the next press.
NoPressForgotten ==
    \A s \in (marked \cap parked) \ missed :
        episode.src = s /\ episode.gen = egen /\ ~exited => UnderWay(s)

\* A task parked under the current episode's source after a press marked it
\* is woken, unless that episode ends first or the process exits.
PressWakesParked ==
    \A s \in Sources :
        (s \in marked \cap parked /\ episode.src = s)
            ~> (s \notin parked \/ episode.src # s \/ exited)

=============================================================================
