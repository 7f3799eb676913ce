--------------------------- MODULE ReentrantLock ---------------------------
(***************************************************************************)
(* base/lock.jl: the reentrant lock that every blocking structure of Base  *)
(* is built on.  Tasks run on several threads; each labelled step below is *)
(* one atomic access of the code to shared memory (the `havelock` word,    *)
(* the spin lock of `cond_wait`, a task's `waiting_on` claim word).        *)
(*                                                                         *)
(* `havelock` is the set of bits that are set.  `cond_wait` is a           *)
(* GenericCondition over a SpinLock: `waitq` holds the entries of the      *)
(* parked tasks (one entry per task) and `spin` the holder of the lock.    *)
(* A parked task is woken by whoever turns its `waiting_on` word back to   *)
(* nothing: a notify, the cancellation walk or the task itself.            *)
(***************************************************************************)
EXTENDS Naturals, Sequences

CONSTANTS
  Tasks,           \* tasks that lock, unlock and trylock
  Cancellable,     \* tasks that lock under a cancellation token of their own
  MAX_SPIN_ITERS,  \* times slowlock yields before it sets PARKED_BIT
  MaxDepth,        \* bound: nesting of one task's acquisitions
  MaxCalls,        \* bound: outermost lock/trylock calls of one task
  NoTask           \* the value `nothing` of locked_by and of an unowned spin lock

ASSUME RLAssumption ==
  /\ Cancellable \subseteq Tasks
  /\ NoTask \notin Tasks
  /\ MAX_SPIN_ITERS \in Nat
  /\ MaxDepth \in Nat \ {0}
  /\ MaxCalls \in Nat \ {0}

VARIABLES
  havelock,  \* the atomic state word: a subset of {LOCKED, PARKED}
  locked_by, \* owning task, or NoTask
  cnt,       \* reentrancy_cnt
  spin,      \* holder of cond_wait.lock, or NoTask
  waitq,     \* cond_wait.waitq: tasks whose entry is linked, in order
  armed,     \* armed[t]: t.waiting_on names t's entry (its wake is unclaimed)
  wake,      \* wake[t]: the wake scheduled for t and not yet consumed
  cancelled, \* cancelled[t]: the source of t's token has been cancelled
  walk,      \* walk[t]: progress of cancel! on that source
  pc,        \* pc[t]: where t is
  seen,      \* seen[t]: the value of havelock t read last
  iter,      \* iter[t]: `iteration` of slowlock
  throws,    \* throws[t]: the unlock under way ends in a CancellationRequest
  calls      \* calls[t]: outermost calls made (bounded by MaxCalls)

vars == <<havelock, locked_by, cnt, spin, waitq, armed, wake, cancelled, walk,
          pc, seen, iter, throws, calls>>

LOCKED == "LOCKED_BIT"
PARKED == "PARKED_BIT"
Bits == {LOCKED, PARKED}

\* Program counters: outside, holding the lock, and the steps of the calls.
Locations == {"idle", "held",
              "try", "trylock", "cas", "own",                   \* _trylock
              "slow", "slowcas", "slowown", "slowcheck",        \* slowlock
              "setparked", "lockc", "recheck",
              "arm", "enqueue", "checktok", "unlockc", "parked",
              "cleanup", "unlink",
              "unlock", "release", "lockn", "notify", "clear", "unlockn"}

\* The steps during which a task has LOCKED_BIT to itself.
Owning == {"held", "own", "slowown", "slowcheck", "unlock", "release",
           "lockn", "notify", "clear"}

\* The steps during which a task holds cond_wait.lock.
Spinning == {"recheck", "arm", "enqueue", "checktok", "unlockc", "unlink",
             "notify", "clear", "unlockn"}

InQueue(q, t) == \E i \in 1..Len(q) : q[i] = t
Linked(t) == InQueue(waitq, t)

\* list_deletefirst!(q, w): unlink t's entry, a no-op when it is not linked.
list_deletefirst(q, t) ==
  IF InQueue(q, t)
  THEN LET k == CHOOSE i \in 1..Len(q) : q[i] = t
       IN  [i \in 1..(Len(q) - 1) |-> IF i < k THEN q[i] ELSE q[i + 1]]
  ELSE q

Init ==
  /\ havelock = {}
  /\ locked_by = NoTask
  /\ cnt = 0
  /\ spin = NoTask
  /\ waitq = <<>>
  /\ armed = [t \in Tasks |-> FALSE]
  /\ wake = [t \in Tasks |-> "none"]
  /\ cancelled = [t \in Tasks |-> FALSE]
  /\ walk = [t \in Tasks |-> "raise"]
  /\ pc = [t \in Tasks |-> "idle"]
  /\ seen = [t \in Tasks |-> {}]
  /\ iter = [t \in Tasks |-> 0]
  /\ throws = [t \in Tasks |-> FALSE]
  /\ calls = [t \in Tasks |-> 0]

Goto(t, l) == pc' = [pc EXCEPT ![t] = l]

cancelVars == <<cancelled, walk>>
parkVars == <<waitq, armed, wake>>

-----------------------------------------------------------------------------
(* lock and trylock, fast path *)

\* lock(rl; cancel): an explicitly passed token is checked on entry, a scoped
\* default one is not (precheck_cancel_arg); then trylock.
Lock(t) ==
  /\ pc[t] = "idle" /\ calls[t] < MaxCalls
  /\ calls' = [calls EXCEPT ![t] = @ + 1]
  /\ \/ Goto(t, "try")
     \/ t \in Cancellable /\ cancelled[t] /\ Goto(t, "idle")
  /\ UNCHANGED <<havelock, locked_by, cnt, spin, parkVars, cancelVars, seen,
                 iter, throws>>

\* lock or trylock by the owner: only the count changes.
Reenter(t) ==
  /\ pc[t] = "held" /\ locked_by = t /\ cnt < MaxDepth
  /\ cnt' = cnt + 1
  /\ UNCHANGED <<havelock, locked_by, spin, parkVars, cancelVars, pc, seen,
                 iter, throws, calls>>

\* trylock(rl) called by itself: fails without waiting.
TryLock(t) ==
  /\ pc[t] = "idle" /\ calls[t] < MaxCalls
  /\ calls' = [calls EXCEPT ![t] = @ + 1]
  /\ seen' = [seen EXCEPT ![t] = havelock \cap {PARKED}]
  /\ Goto(t, "trylock")
  /\ UNCHANGED <<havelock, locked_by, cnt, spin, parkVars, cancelVars, iter,
                 throws>>

\* _trylock called by lock: state = havelock & PARKED_BIT.
ReadState(t) ==
  /\ pc[t] = "try"
  /\ seen' = [seen EXCEPT ![t] = havelock \cap {PARKED}]
  /\ Goto(t, "cas")
  /\ UNCHANGED <<havelock, locked_by, cnt, spin, parkVars, cancelVars, iter,
                 throws, calls>>

\* Mutant: test and set in two accesses, without the compare.
CasLockedBlind(t) ==
  /\ pc[t] \in {"cas", "trylock"}
  /\ IF LOCKED \notin seen[t]
     THEN havelock' = seen[t] \cup {LOCKED} /\ Goto(t, "own")
     ELSE Goto(t, "slow") /\ UNCHANGED havelock
  /\ UNCHANGED <<locked_by, cnt, spin, parkVars, cancelVars, seen, iter,
                 throws, calls>>

\* The compare-and-swap state => state | LOCKED_BIT of _trylock.
CasLocked(t) ==
  /\ pc[t] \in {"cas", "trylock"}
  /\ IF havelock = seen[t]
     THEN /\ havelock' = havelock \cup {LOCKED}
          /\ Goto(t, "own")
          /\ UNCHANGED iter
     ELSE /\ Goto(t, IF pc[t] = "cas" THEN "slow" ELSE "idle")
          /\ iter' = [iter EXCEPT ![t] = 1]
          /\ UNCHANGED havelock
  /\ UNCHANGED <<locked_by, cnt, spin, parkVars, cancelVars, seen, throws,
                 calls>>

\* reentrancy_cnt = 1 and the release store of locked_by.
TakeOwnership(t) ==
  /\ pc[t] \in {"own", "slowown"}
  /\ cnt' = 1
  /\ locked_by' = t
  /\ Goto(t, IF pc[t] = "own" THEN "held" ELSE "slowcheck")
  /\ UNCHANGED <<havelock, spin, parkVars, cancelVars, seen, iter, throws,
                 calls>>

-----------------------------------------------------------------------------
(* slowlock *)

\* The top of the loop: look at havelock and choose between taking the lock,
\* yielding, setting PARKED_BIT and joining the queue.
SlowRead(t) ==
  /\ pc[t] = "slow"
  /\ seen' = [seen EXCEPT ![t] = havelock]
  /\ \/ LOCKED \notin havelock /\ Goto(t, "slowcas") /\ UNCHANGED iter
     \/ /\ LOCKED \in havelock /\ PARKED \notin havelock
        /\ iter[t] <= MAX_SPIN_ITERS
        /\ iter' = [iter EXCEPT ![t] = @ + 1]
        /\ UNCHANGED pc
     \/ /\ LOCKED \in havelock /\ PARKED \notin havelock
        /\ iter[t] > MAX_SPIN_ITERS
        /\ Goto(t, "setparked") /\ UNCHANGED iter
     \/ havelock = Bits /\ Goto(t, "lockc") /\ UNCHANGED iter
  /\ UNCHANGED <<havelock, locked_by, cnt, spin, parkVars, cancelVars, throws,
                 calls>>

\* Take the lock although others may be queued for it.
SlowCas(t) ==
  /\ pc[t] = "slowcas"
  /\ IF havelock = seen[t]
     THEN havelock' = havelock \cup {LOCKED} /\ Goto(t, "slowown")
     ELSE Goto(t, "slow") /\ UNCHANGED havelock
  /\ UNCHANGED <<locked_by, cnt, spin, parkVars, cancelVars, seen, iter,
                 throws, calls>>

\* Mutant: throw the CancellationRequest without the unlock before it.
SlowCheckKeepsLock(t) ==
  /\ pc[t] = "slowcheck"
  /\ Goto(t, IF cancelled[t] THEN "idle" ELSE "held")
  /\ UNCHANGED <<havelock, locked_by, cnt, spin, parkVars, cancelVars, seen,
                 iter, throws, calls>>

\* A token cancelled in the meantime must not hand out the lock: unlock it
\* again and throw.
SlowCheck(t) ==
  /\ pc[t] = "slowcheck"
  /\ IF cancelled[t]
     THEN throws' = [throws EXCEPT ![t] = TRUE] /\ Goto(t, "unlock")
     ELSE Goto(t, "held") /\ UNCHANGED throws
  /\ UNCHANGED <<havelock, locked_by, cnt, spin, parkVars, cancelVars, seen,
                 iter, calls>>

\* The compare-and-swap state => state | PARKED_BIT; its outcome is ignored.
SetParked(t) ==
  /\ pc[t] = "setparked"
  /\ havelock' = IF havelock = seen[t] THEN havelock \cup {PARKED} ELSE havelock
  /\ Goto(t, "lockc")
  /\ UNCHANGED <<locked_by, cnt, spin, parkVars, cancelVars, seen, iter,
                 throws, calls>>

\* lock(c.lock): a spin lock.
LockCond(t) ==
  /\ pc[t] = "lockc" /\ spin = NoTask
  /\ spin' = t
  /\ Goto(t, "recheck")
  /\ UNCHANGED <<havelock, locked_by, cnt, parkVars, cancelVars, seen, iter,
                 throws, calls>>

\* The last check before parking: an unlock that won the race to c.lock has
\* cleared a bit, and then the loop starts over.
Recheck(t) ==
  /\ pc[t] = "recheck"
  /\ IF havelock = Bits
     THEN Goto(t, "arm") /\ UNCHANGED spin
     ELSE spin' = NoTask /\ Goto(t, "slow")
  /\ UNCHANGED <<havelock, locked_by, cnt, parkVars, cancelVars, seen, iter,
                 throws, calls>>

-----------------------------------------------------------------------------
(* wait_no_relock *)

\* park!, phase 3: publish the entry in waiting_on.
Arm(t) ==
  /\ pc[t] = "arm"
  /\ armed' = [armed EXCEPT ![t] = TRUE]
  /\ Goto(t, "enqueue")
  /\ UNCHANGED <<havelock, locked_by, cnt, spin, waitq, wake, cancelVars, seen,
                 iter, throws, calls>>

\* park!, phase 4: link the entry at the tail (first = false) and register it
\* with the token's source.
Enqueue(t) ==
  /\ pc[t] = "enqueue"
  /\ waitq' = Append(waitq, t)
  /\ Goto(t, IF t \in Cancellable THEN "checktok" ELSE "unlockc")
  /\ UNCHANGED <<havelock, locked_by, cnt, spin, armed, wake, cancelVars, seen,
                 iter, throws, calls>>

\* Mutant: no recheck of the token after the registration.
RecheckTokenSkipped(t) ==
  /\ pc[t] = "checktok"
  /\ Goto(t, "unlockc")
  /\ UNCHANGED <<havelock, locked_by, cnt, spin, parkVars, cancelVars, seen,
                 iter, throws, calls>>

\* park!, phase 5: a source cancelled by now refuses the park, if the task can
\* take back its own registration.  It then withdraws the entry, releases
\* c.lock and throws.  If not, the walk has claimed the wake: suspend.
RecheckToken(t) ==
  /\ pc[t] = "checktok"
  /\ IF cancelled[t] /\ armed[t]
     THEN /\ armed' = [armed EXCEPT ![t] = FALSE]
          /\ waitq' = list_deletefirst(waitq, t)
          /\ spin' = NoTask
          /\ Goto(t, "idle")
     ELSE Goto(t, "unlockc") /\ UNCHANGED <<armed, waitq, spin>>
  /\ UNCHANGED <<havelock, locked_by, cnt, wake, cancelVars, seen, iter,
                 throws, calls>>

\* unlockall(c.lock), after which the task suspends in wait().
UnlockCond(t) ==
  /\ pc[t] = "unlockc"
  /\ spin' = NoTask
  /\ Goto(t, "parked")
  /\ UNCHANGED <<havelock, locked_by, cnt, parkVars, cancelVars, seen, iter,
                 throws, calls>>

\* Resumed by a notify: loop back and try again, with iteration = 1.
ResumeNotified(t) ==
  /\ pc[t] = "parked" /\ wake[t] = "value"
  /\ wake' = [wake EXCEPT ![t] = "none"]
  /\ iter' = [iter EXCEPT ![t] = 1]
  /\ Goto(t, "slow")
  /\ UNCHANGED <<havelock, locked_by, cnt, spin, waitq, armed, cancelVars,
                 seen, throws, calls>>

\* Resumed by a cancellation: interrupted_park_cleanup! disarms, ...
ResumeCancelled(t) ==
  /\ pc[t] = "parked" /\ wake[t] = "exception"
  /\ wake' = [wake EXCEPT ![t] = "none"]
  /\ armed' = [armed EXCEPT ![t] = FALSE]
  /\ Goto(t, "cleanup")
  /\ UNCHANGED <<havelock, locked_by, cnt, spin, waitq, cancelVars, seen, iter,
                 throws, calls>>

\* ... takes c.lock for its own unlink (wait_dequeue! with WAKE_INTERRUPTED) ...
CleanupLock(t) ==
  /\ pc[t] = "cleanup" /\ spin = NoTask
  /\ spin' = t
  /\ Goto(t, "unlink")
  /\ UNCHANGED <<havelock, locked_by, cnt, parkVars, cancelVars, seen, iter,
                 throws, calls>>

\* ... unlinks, drops a wake that was scheduled meanwhile, and rethrows.
CleanupUnlink(t) ==
  /\ pc[t] = "unlink"
  /\ waitq' = list_deletefirst(waitq, t)
  /\ wake' = [wake EXCEPT ![t] = "none"]
  /\ spin' = NoTask
  /\ Goto(t, "idle")
  /\ UNCHANGED <<havelock, locked_by, cnt, armed, cancelVars, seen, iter,
                 throws, calls>>

-----------------------------------------------------------------------------
(* unlock *)

\* The caller leaves its critical section.
CallUnlock(t) ==
  /\ pc[t] = "held"
  /\ Goto(t, "unlock")
  /\ UNCHANGED <<havelock, locked_by, cnt, spin, parkVars, cancelVars, seen,
                 iter, throws, calls>>

\* Count down; the outermost unlock gives up ownership.
Unlock(t) ==
  /\ pc[t] = "unlock" /\ locked_by = t
  /\ cnt' = cnt - 1
  /\ IF cnt = 1
     THEN locked_by' = NoTask /\ Goto(t, "release")
     ELSE Goto(t, "held") /\ UNCHANGED locked_by
  /\ UNCHANGED <<havelock, spin, parkVars, cancelVars, seen, iter, throws,
                 calls>>

\* The compare-and-swap LOCKED_BIT => 0; it fails when somebody parked.
Release(t) ==
  /\ pc[t] = "release"
  /\ IF havelock = {LOCKED}
     THEN havelock' = {} /\ Goto(t, "idle") /\ throws' = [throws EXCEPT ![t] = FALSE]
     ELSE Goto(t, "lockn") /\ UNCHANGED <<havelock, throws>>
  /\ UNCHANGED <<locked_by, cnt, spin, parkVars, cancelVars, seen, iter, calls>>

\* notifywaiters: lock(cond_wait).
LockNotify(t) ==
  /\ pc[t] = "lockn" /\ spin = NoTask
  /\ spin' = t
  /\ Goto(t, "notify")
  /\ UNCHANGED <<havelock, locked_by, cnt, parkVars, cancelVars, seen, iter,
                 throws, calls>>

\* Mutant: an entry that was claimed by a cancellation uses up the notify.
NotifyOneEntry(t) ==
  /\ pc[t] = "notify"
  /\ Goto(t, "clear")
  /\ IF waitq = <<>>
     THEN UNCHANGED parkVars
     ELSE LET u == Head(waitq) IN
          /\ waitq' = Tail(waitq)
          /\ armed' = [armed EXCEPT ![u] = FALSE]
          /\ wake' = IF armed[u] THEN [wake EXCEPT ![u] = "value"] ELSE wake
  /\ UNCHANGED <<havelock, locked_by, cnt, spin, cancelVars, seen, iter,
                 throws, calls>>

\* One turn of the loop of notify(cond_wait, all=false): pop the first entry
\* and claim its wake.  An entry whose wake is already claimed is dropped and
\* the loop goes on; a claimed task is scheduled and the loop ends.
Notify(t) ==
  /\ pc[t] = "notify"
  /\ IF waitq = <<>>
     THEN Goto(t, "clear") /\ UNCHANGED parkVars
     ELSE LET u == Head(waitq) IN
          /\ waitq' = Tail(waitq)
          /\ IF armed[u]
             THEN /\ armed' = [armed EXCEPT ![u] = FALSE]
                  /\ wake' = [wake EXCEPT ![u] = "value"]
                  /\ Goto(t, "clear")
             ELSE UNCHANGED <<armed, wake, pc>>
  /\ UNCHANGED <<havelock, locked_by, cnt, spin, cancelVars, seen, iter,
                 throws, calls>>

\* Mutant: PARKED_BIT is cleared although entries are left in the queue.
ClearBothBits(t) ==
  /\ pc[t] = "clear"
  /\ havelock' = {}
  /\ Goto(t, "unlockn")
  /\ UNCHANGED <<locked_by, cnt, spin, parkVars, cancelVars, seen, iter,
                 throws, calls>>

\* Give up the lock; PARKED_BIT stays set when entries are left.
ClearLocked(t) ==
  /\ pc[t] = "clear"
  /\ havelock' = IF waitq = <<>> THEN {} ELSE {PARKED}
  /\ Goto(t, "unlockn")
  /\ UNCHANGED <<locked_by, cnt, spin, parkVars, cancelVars, seen, iter,
                 throws, calls>>

UnlockNotify(t) ==
  /\ pc[t] = "unlockn"
  /\ spin' = NoTask
  /\ throws' = [throws EXCEPT ![t] = FALSE]
  /\ Goto(t, "idle")
  /\ UNCHANGED <<havelock, locked_by, cnt, parkVars, cancelVars, seen, iter,
                 calls>>

-----------------------------------------------------------------------------
(* cancel!, run by another task on the source of t's token *)

\* _raise_state!: the source is cancelled from here on.
CancelRaise(t) ==
  /\ walk[t] = "raise"
  /\ cancelled' = [cancelled EXCEPT ![t] = TRUE]
  /\ walk' = [walk EXCEPT ![t] = "walk"]
  /\ UNCHANGED <<havelock, locked_by, cnt, spin, parkVars, pc, seen, iter,
                 throws, calls>>

\* _walk_waiters!: claim the wake if t is armed; the walk is made once.
CancelWalk(t) ==
  /\ walk[t] = "walk"
  /\ armed' = [armed EXCEPT ![t] = FALSE]
  /\ walk' = [walk EXCEPT ![t] = IF armed[t] THEN "deliver" ELSE "done"]
  /\ UNCHANGED <<havelock, locked_by, cnt, spin, waitq, wake, cancelled, pc,
                 seen, iter, throws, calls>>

\* deliver_claimed_wake!: unlink the entry if c.lock is free at this moment
\* (try_unlink_claimed!), and schedule the exception.
CancelDeliver(t) ==
  /\ walk[t] = "deliver"
  /\ waitq' = IF spin = NoTask THEN list_deletefirst(waitq, t) ELSE waitq
  /\ wake' = [wake EXCEPT ![t] = "exception"]
  /\ walk' = [walk EXCEPT ![t] = "done"]
  /\ UNCHANGED <<havelock, locked_by, cnt, spin, armed, cancelled, pc, seen,
                 iter, throws, calls>>

-----------------------------------------------------------------------------
Cancel(t) == CancelRaise(t) \/ CancelWalk(t) \/ CancelDeliver(t)

LockSteps(t) ==
  \/ ReadState(t) \/ CasLocked(t) \/ TakeOwnership(t)
  \/ SlowRead(t) \/ SlowCas(t) \/ SlowCheck(t) \/ SetParked(t)
  \/ LockCond(t) \/ Recheck(t)

ParkSteps(t) ==
  \/ Arm(t) \/ Enqueue(t) \/ RecheckToken(t) \/ UnlockCond(t)
  \/ ResumeNotified(t) \/ ResumeCancelled(t)
  \/ CleanupLock(t) \/ CleanupUnlink(t)

UnlockSteps(t) ==
  \/ Unlock(t) \/ Release(t) \/ LockNotify(t) \/ Notify(t)
  \/ ClearLocked(t) \/ UnlockNotify(t)

\* What a scheduled task does by itself once it is inside a call.
Step(t) == LockSteps(t) \/ ParkSteps(t) \/ UnlockSteps(t)

\* All calls that the bound allows have been made: the program is over.
Quiescent ==
  /\ \A t \in Tasks : pc[t] = "idle" /\ calls[t] = MaxCalls
  /\ UNCHANGED vars

Next ==
  \/ \E t \in Tasks : Lock(t) \/ TryLock(t) \/ Reenter(t) \/ CallUnlock(t) \/ Step(t)
  \/ \E t \in Cancellable : Cancel(t)
  \/ Quiescent

\* A running task keeps running, a holder eventually unlocks, to the outermost
\* level however often it reenters, and a cancel! that has begun walks and
\* delivers.  Nobody has to call lock or cancel!.
Fairness ==
  /\ \A t \in Tasks :
       WF_vars(Step(t)) /\ WF_vars(CallUnlock(t)) /\ SF_vars(cnt = 1 /\ CallUnlock(t))
  /\ \A t \in Cancellable : WF_vars(CancelWalk(t) \/ CancelDeliver(t))

Spec == Init /\ [][Next]_vars
FairSpec == Spec /\ Fairness

-----------------------------------------------------------------------------
(* Properties *)

\* Every variable has the type the code declares for it.
TypeOK ==
  /\ havelock \in SUBSET Bits
  /\ locked_by \in Tasks \cup {NoTask}
  /\ cnt \in 0..MaxDepth
  /\ spin \in Tasks \cup {NoTask}
  /\ waitq \in Seq(Tasks)
  /\ armed \in [Tasks -> BOOLEAN]
  /\ wake \in [Tasks -> {"none", "value", "exception"}]
  /\ cancelled \in [Tasks -> BOOLEAN]
  /\ walk \in [Tasks -> {"raise", "walk", "deliver", "done"}]
  /\ pc \in [Tasks -> Locations]
  /\ seen \in [Tasks -> SUBSET Bits]
  /\ iter \in [Tasks -> 0..(MAX_SPIN_ITERS + 1)]
  /\ throws \in [Tasks -> BOOLEAN]
  /\ calls \in [Tasks -> 0..MaxCalls]

\* At most one task is between winning the compare-and-swap and giving the
\* lock up, and LOCKED_BIT says exactly whether there is one: a cancelled
\* acquisition never keeps the lock, a barging task never shares it.
MutualExclusion ==
  /\ \A t, u \in Tasks : pc[t] \in Owning /\ pc[u] \in Owning => t = u
  /\ LOCKED \in havelock <=> \E t \in Tasks : pc[t] \in Owning

\* The state table of ReentrantLock: there are never parked tasks while
\* PARKED_BIT is not set, and a task that has decided to park sees the lock
\* held until its entry is linked.
ParkedBitSet ==
  /\ waitq # <<>> => PARKED \in havelock
  /\ \A t \in Tasks : pc[t] \in {"arm", "enqueue"} => havelock = Bits

\* A task on its way to the lock: woken by a notify, or going round slowlock.
Seeking(t) ==
  \/ pc[t] = "parked" /\ wake[t] = "value"
  \/ pc[t] \in {"slow", "slowcas", "setparked", "lockc", "recheck"}

\* No lost wakeup: while the lock is free and a parked task still waits for
\* its wake, some other task is on its way to take the lock and will, when it
\* unlocks, notify the queue.  A wake given to a task whose token has been
\* cancelled is not lost either.
NoLostWakeup ==
  (LOCKED \notin havelock /\ \E t \in Tasks : pc[t] = "parked" /\ armed[t])
    => \E u \in Tasks : Seeking(u)

\* A park is woken once: an armed registration, a scheduled wake and a claim
\* that the walk is about to deliver exclude one another, and none of them
\* (nor, past its cleanup, the queue entry) outlives the park it was made for.
\* A task that is parked and unclaimed is in the queue.
WakeOnce ==
  \A t \in Tasks :
    /\ armed[t] => wake[t] = "none" /\ walk[t] # "deliver"
    /\ wake[t] # "none" => walk[t] # "deliver"
    /\ wake[t] = "value" => pc[t] = "parked" /\ ~Linked(t)
    /\ pc[t] \in {"checktok", "unlockc", "parked"} /\ armed[t] => Linked(t)
    /\ pc[t] \notin {"enqueue", "checktok", "unlockc", "parked"} =>
         ~armed[t] /\ wake[t] = "none" /\ walk[t] # "deliver"
    /\ pc[t] \notin {"checktok", "unlockc", "parked", "cleanup", "unlink"} =>
         ~Linked(t)

\* When cancel! has made its walk, no task is left parked and unclaimed under
\* the cancelled token, however the walk and the park were interleaved.
CancelReachesParked ==
  \A t \in Cancellable :
    walk[t] = "done" /\ pc[t] \in {"unlockc", "parked"} => ~armed[t]

\* Every call of lock, trylock and unlock comes to an end: it returns, with
\* the lock or without it, or throws.
CallsEnd ==
  \A t \in Tasks : pc[t] \notin {"idle", "held"} ~> pc[t] \in {"idle", "held"}

\* The lock as its callers see it: the holder is the task that has LOCKED_BIT,
\* and a call that ends in a throw is still waiting until it throws.
holderOf == IF \E t \in Tasks : pc[t] \in Owning
            THEN CHOOSE t \in Tasks : pc[t] \in Owning ELSE NoTask

phaseOf ==
  [t \in Tasks |->
     CASE pc[t] = "idle" -> "out"
       [] pc[t] \in {"held", "unlock", "release", "lockn", "notify", "clear"}
          /\ ~throws[t] -> "in"
       [] pc[t] = "unlockn" /\ ~throws[t] -> "out"
       [] OTHER -> "waiting"]

AbstractMutex == INSTANCE Mutex WITH holder <- holderOf, phase <- phaseOf

\* lock.jl implements the abstract mutual exclusion lock: every step of the
\* code is a step of Mutex or none, so a thrown CancellationRequest leaves the
\* caller without the lock and a return leaves it with the lock.
ImplementsMutex == AbstractMutex!Spec
=============================================================================
