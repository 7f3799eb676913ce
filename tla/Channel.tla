------------------------------ MODULE Channel ------------------------------
(***************************************************************************)
(* base/channels.jl: a Channel of size > 0 buffers values, a Channel of    *)
(* size 0 hands each value from a put! to a take!.  Every operation runs   *)
(* under the channel's lock, so what an operation does between taking the  *)
(* lock and releasing it (by returning, throwing or parking in wait) is    *)
(* one action; between two of them any other task may run.  Outside the    *)
(* lock happen the reads of isopen and isready, the claim of a parked task *)
(* by cancel!, and the hand-over of a value to the taker a put! claimed.   *)
(*                                                                         *)
(* A parked task is armed until a notify or a cancellation claims it; an   *)
(* entry whose task was claimed by a cancellation stays in its queue until *)
(* that task cleans up or somebody drops it (see Park).                    *)
(***************************************************************************)
EXTENDS Integers, Sequences, FiniteSets

CONSTANTS
    Tasks,     \* the tasks that use the channel; a put! puts its task's name
    NoTask,
    Sizes,     \* the sizes a channel may be constructed with
    MaxOps     \* bound: operations each task begins

ASSUME ChannelAssumption ==
    /\ NoTask \notin Tasks
    /\ Sizes \subseteq Nat /\ MaxOps \in Nat
    /\ IsFiniteSet(Tasks)

VARIABLES
    sz_max,     \* the channel's size, 0 if it is unbuffered
    state,      \* "open" or "closed"
    data,       \* the buffer
    navail,     \* n_avail_items
    takeq,      \* waiters of cond_take
    putq,       \* waiters of cond_put
    waitq,      \* waiters of cond_wait when it is not cond_take (sz_max = 0)
    at,         \* where each task is
    wake,       \* who has claimed a parked task's wake, and how it resumes
    give,       \* the taker an unbuffered put! has claimed
    iter,       \* whether the task's take! is a step of iterate
    cancelled,  \* tasks whose cancellation token is cancelled
    ops,        \* operations each task has begun
    ended       \* history: some iteration over the channel has ended

queues == <<takeq, putq, waitq>>
channelVars == <<sz_max, state, data, navail, takeq, putq, waitq, at, wake, give,
                 iter, cancelled, ops, ended>>

Parks == {"parkPut", "parkTake", "parkFetch", "parkWait"}
Entries == {"put", "take", "fetch", "wait"}
Places == Parks \cup Entries \cup {"idle", "iterReady", "hand", "undo"}

ChannelInit ==
    /\ sz_max \in Sizes
    /\ state = "open" /\ data = <<>> /\ navail = 0
    /\ takeq = <<>> /\ putq = <<>> /\ waitq = <<>>
    /\ at = [t \in Tasks |-> "idle"]
    /\ wake = [t \in Tasks |-> "none"]
    /\ give = [t \in Tasks |-> NoTask]
    /\ iter = [t \in Tasks |-> FALSE]
    /\ cancelled = {}
    /\ ops = [t \in Tasks |-> 0]
    /\ ended = FALSE

-----------------------------------------------------------------------------
(* Waiting and notifying.                                                   *)

Armed(t) == at[t] \in Parks /\ wake[t] = "none"

\* Where in q the waiters are that a notify can still claim.
Live(q) == {i \in 1..Len(q) : Armed(q[i])}

\* Mutant: notify looks only at the first entry, live or not.
FirstEntry(q) == {i \in Live(q) : i = 1}

\* notify(all=false): entries claimed by a cancellation are dropped on the way
\* to the first live waiter; without one the queue is emptied.
First(q) == {i \in Live(q) : \A j \in Live(q) : i <= j}
Notified(q) == {q[i] : i \in First(q)}
AfterFirst(q) ==
    IF First(q) = {} THEN <<>>
    ELSE LET k == CHOOSE i \in First(q) : TRUE
         IN  [i \in 1..(Len(q) - k) |-> q[i + k]]

\* notify(all=true)
All(q) == {q[i] : i \in Live(q)}

Queued(q, t) == \E i \in 1..Len(q) : q[i] = t

\* list_deletefirst!(q, entry of t): nothing if it is not linked any more.
Unlink(q, t) ==
    IF Queued(q, t)
    THEN LET k == CHOOSE i \in 1..Len(q) : q[i] = t
         IN  [i \in 1..(Len(q) - 1) |-> IF i < k THEN q[i] ELSE q[i + 1]]
    ELSE q

\* The wakes after waiters S are claimed to resume as how says, when task t
\* itself stops being woken.
Woken(S, how, t) ==
    [u \in Tasks |-> IF u \in S THEN how ELSE IF u = t THEN "none" ELSE wake[u]]

\* wait(cond, tok) under the lock: a task whose token is already cancelled is
\* refused before it is queued, and throws out of its operation instead.
Refused(t) == t \in cancelled
Enqueue(q, t) == IF Refused(t) THEN q ELSE Append(q, t)
Goto(t, where) == at' = [at EXCEPT ![t] = where]
ParkAt(t, park) ==
    Goto(t, IF ~Refused(t) THEN park ELSE IF park = "parkPut" THEN "undo" ELSE "idle")

\* Task t has just taken the lock: on entry, or back from a notified park.
Enters(t, entry, park) == at[t] = entry \/ (at[t] = park /\ wake[t] = "value")

-----------------------------------------------------------------------------
(* put!                                                                     *)

\* _increment_n_avail: a put! is counted from its first section on.
Counted(t) == navail + (IF at[t] = "put" THEN 1 ELSE 0)

\* The channel is closed: throw, and take back the count.
PutThrow(t) ==
    /\ Enters(t, "put", "parkPut") /\ state = "closed"
    /\ navail' = Counted(t) - 1
    /\ wake' = Woken({}, "none", t)
    /\ Goto(t, "idle")
    /\ UNCHANGED <<state, data, queues, give, iter, cancelled, ops, ended, sz_max>>

\* Mutant: only one waiter of cond_take is notified.
PutBufferNotifyOne(t) ==
    /\ sz_max > 0 /\ Enters(t, "put", "parkPut") /\ state = "open"
    /\ Len(data) # sz_max
    /\ data' = Append(data, t)
    /\ navail' = Counted(t)
    /\ wake' = Woken(Notified(takeq), "value", t)
    /\ takeq' = AfterFirst(takeq)
    /\ Goto(t, "idle")
    /\ UNCHANGED <<state, putq, waitq, give, iter, cancelled, ops, ended, sz_max>>

\* put_buffered with a free slot: all of cond_take is notified, as some of
\* its waiters may be in fetch.
PutBuffer(t) ==
    /\ sz_max > 0 /\ Enters(t, "put", "parkPut") /\ state = "open"
    /\ Len(data) # sz_max
    /\ data' = Append(data, t)
    /\ navail' = Counted(t)
    /\ wake' = Woken(All(takeq), "value", t)
    /\ takeq' = <<>>
    /\ Goto(t, "idle")
    /\ UNCHANGED <<state, putq, waitq, give, iter, cancelled, ops, ended, sz_max>>

\* put_buffered on a full buffer.
PutWaitFull(t) ==
    /\ sz_max > 0 /\ Enters(t, "put", "parkPut") /\ state = "open"
    /\ Len(data) = sz_max
    /\ navail' = Counted(t)
    /\ putq' = Enqueue(putq, t)
    /\ wake' = Woken({}, "none", t)
    /\ ParkAt(t, "parkPut")
    /\ UNCHANGED <<state, data, takeq, waitq, give, iter, cancelled, ops, ended, sz_max>>

\* Mutant: wait(c) is not told of the offer.
PutWaitTakerSilent(t) ==
    /\ sz_max = 0 /\ Enters(t, "put", "parkPut") /\ state = "open"
    /\ Live(takeq) = {}
    /\ navail' = Counted(t)
    /\ takeq' = <<>>
    /\ putq' = Enqueue(putq, t)
    /\ wake' = Woken({}, "none", t)
    /\ ParkAt(t, "parkPut")
    /\ UNCHANGED <<state, data, waitq, give, iter, cancelled, ops, ended, sz_max>>

\* put_unbuffered without a taker: tell wait(c) that a value is on offer.
PutWaitTaker(t) ==
    /\ sz_max = 0 /\ Enters(t, "put", "parkPut") /\ state = "open"
    /\ Live(takeq) = {}
    /\ navail' = Counted(t)
    /\ takeq' = <<>>
    /\ waitq' = <<>>
    /\ putq' = Enqueue(putq, t)
    /\ wake' = Woken(All(waitq), "value", t)
    /\ ParkAt(t, "parkPut")
    /\ UNCHANGED <<state, data, give, iter, cancelled, ops, ended, sz_max>>

\* put_unbuffered claims the first live taker ...
PutClaim(t) ==
    /\ sz_max = 0 /\ Enters(t, "put", "parkPut") /\ state = "open"
    /\ \E u \in Notified(takeq) :
         /\ give' = [give EXCEPT ![t] = u]
         /\ wake' = Woken({u}, "claimed", t)
    /\ takeq' = AfterFirst(takeq)
    /\ navail' = Counted(t) - 1
    /\ Goto(t, "hand")
    /\ UNCHANGED <<state, data, putq, waitq, iter, cancelled, ops, ended, sz_max>>

\* ... and schedules it with the value after unlocking.
Hand(t) ==
    /\ at[t] = "hand"
    /\ wake' = [wake EXCEPT ![give[t]] = "value"]
    /\ give' = [give EXCEPT ![t] = NoTask]
    /\ Goto(t, "idle")
    /\ UNCHANGED <<state, data, navail, queues, iter, cancelled, ops, ended, sz_max>>

-----------------------------------------------------------------------------
(* take!, fetch, wait, iterate                                              *)

\* The take! of an iterate turns the closed channel's exception into the end
\* of the iteration.
ThrowClosed(t) ==
    /\ ended' = (ended \/ iter[t])
    /\ iter' = [iter EXCEPT ![t] = FALSE]
    /\ wake' = Woken({}, "none", t)
    /\ Goto(t, "idle")

\* Only one waiter of cond_put is notified: one slot has become free.
TakeItem(t) ==
    /\ sz_max > 0 /\ Enters(t, "take", "parkTake")
    /\ data # <<>>
    /\ data' = Tail(data)
    /\ navail' = navail - 1
    /\ wake' = Woken(Notified(putq), "value", t)
    /\ putq' = AfterFirst(putq)
    /\ iter' = [iter EXCEPT ![t] = FALSE]
    /\ Goto(t, "idle")
    /\ UNCHANGED <<state, takeq, waitq, give, cancelled, ops, ended, sz_max>>

TakeWait(t) ==
    /\ sz_max > 0 /\ Enters(t, "take", "parkTake") /\ state = "open"
    /\ data = <<>>
    /\ takeq' = Enqueue(takeq, t)
    /\ wake' = Woken({}, "none", t)
    /\ iter' = [iter EXCEPT ![t] = @ /\ ~Refused(t)]
    /\ ParkAt(t, "parkTake")
    /\ UNCHANGED <<state, data, navail, putq, waitq, give, cancelled, ops, ended, sz_max>>

\* take_unbuffered: invite one waiting put!, and park in any case.
TakeInvite(t) ==
    /\ sz_max = 0 /\ at[t] = "take" /\ state = "open"
    /\ putq' = AfterFirst(putq)
    /\ takeq' = Enqueue(takeq, t)
    /\ wake' = Woken(Notified(putq), "value", t)
    /\ iter' = [iter EXCEPT ![t] = @ /\ ~Refused(t)]
    /\ ParkAt(t, "parkTake")
    /\ UNCHANGED <<state, data, navail, waitq, give, cancelled, ops, ended, sz_max>>

TakeHanded(t) ==
    /\ sz_max = 0 /\ at[t] = "parkTake" /\ wake[t] = "value"
    /\ wake' = Woken({}, "none", t)
    /\ iter' = [iter EXCEPT ![t] = FALSE]
    /\ Goto(t, "idle")
    /\ UNCHANGED <<state, data, navail, queues, give, cancelled, ops, ended, sz_max>>

TakeThrow(t) ==
    /\ state = "closed"
    /\ \/ sz_max > 0 /\ Enters(t, "take", "parkTake") /\ data = <<>>
       \/ sz_max = 0 /\ at[t] = "take"
    /\ ThrowClosed(t)
    /\ UNCHANGED <<state, data, navail, queues, give, cancelled, ops, sz_max>>

\* fetch_buffered; fetch is an error on an unbuffered channel.
Fetch(t) ==
    /\ Enters(t, "fetch", "parkFetch")
    /\ \/ /\ sz_max = 0 \/ data # <<>> \/ state = "closed"
          /\ wake' = Woken({}, "none", t)
          /\ Goto(t, "idle")
          /\ UNCHANGED takeq
       \/ /\ sz_max > 0 /\ data = <<>> /\ state = "open"
          /\ takeq' = Enqueue(takeq, t)
          /\ wake' = Woken({}, "none", t)
          /\ ParkAt(t, "parkFetch")
    /\ UNCHANGED <<state, data, navail, putq, waitq, give, iter, cancelled, ops, ended, sz_max>>

\* wait(c): returns when isready.  cond_wait is cond_take on a buffered
\* channel and a condition of its own on an unbuffered one.
Wait(t) ==
    /\ Enters(t, "wait", "parkWait")
    /\ \/ /\ navail > 0 \/ state = "closed"
          /\ wake' = Woken({}, "none", t)
          /\ Goto(t, "idle")
          /\ UNCHANGED <<takeq, waitq>>
       \/ /\ navail = 0 /\ state = "open"
          /\ takeq' = IF sz_max = 0 THEN takeq ELSE Enqueue(takeq, t)
          /\ waitq' = IF sz_max = 0 THEN Enqueue(waitq, t) ELSE waitq
          /\ wake' = Woken({}, "none", t)
          /\ ParkAt(t, "parkWait")
    /\ UNCHANGED <<state, data, navail, putq, give, iter, cancelled, ops, ended, sz_max>>

\* Mutant: a closed channel ends the iteration whatever it still holds.
IterReadyClosed(t) ==
    /\ at[t] = "iterReady"
    /\ ended' = TRUE
    /\ iter' = [iter EXCEPT ![t] = FALSE]
    /\ Goto(t, "idle")
    /\ UNCHANGED <<state, data, navail, queues, wake, give, cancelled, ops, sz_max>>

\* iterate on a channel that was closed: isready, read after isopen and
\* outside the lock, tells whether there is something left to take.
IterReady(t) ==
    /\ at[t] = "iterReady"
    /\ \/ navail > 0 /\ Goto(t, "take") /\ UNCHANGED <<ended, iter>>
       \/ /\ navail = 0
          /\ ended' = TRUE
          /\ iter' = [iter EXCEPT ![t] = FALSE]
          /\ Goto(t, "idle")
    /\ UNCHANGED <<state, data, navail, queues, wake, give, cancelled, ops, sz_max>>

-----------------------------------------------------------------------------
(* Throws out of a park.                                                    *)

\* close has claimed the waiter: a put! takes back its count under the lock
\* it has to acquire again, the others just throw.
ResumeError(t) ==
    /\ at[t] \in Parks /\ wake[t] = "error"
    /\ \/ /\ at[t] = "parkPut"
          /\ wake' = Woken({}, "none", t) /\ Goto(t, "undo")
          /\ UNCHANGED <<ended, iter>>
       \/ at[t] # "parkPut" /\ ThrowClosed(t)
    /\ UNCHANGED <<state, data, navail, queues, give, cancelled, ops, sz_max>>

\* A cancellation has claimed the waiter: unlink the entry if it is still
\* queued, and throw.
ResumeCancelled(t) ==
    /\ at[t] \in Parks /\ wake[t] = "cancel"
    /\ putq' = Unlink(putq, t)
    /\ takeq' = Unlink(takeq, t)
    /\ waitq' = Unlink(waitq, t)
    /\ wake' = Woken({}, "none", t)
    /\ iter' = [iter EXCEPT ![t] = FALSE]
    /\ Goto(t, IF at[t] = "parkPut" THEN "undo" ELSE "idle")
    /\ UNCHANGED <<state, data, navail, give, cancelled, ops, ended, sz_max>>

\* The finally clause of put!: _increment_n_avail(c, -1).
Undo(t) ==
    /\ at[t] = "undo"
    /\ navail' = navail - 1
    /\ Goto(t, "idle")
    /\ UNCHANGED <<state, data, queues, wake, give, iter, cancelled, ops, ended, sz_max>>

\* lock(c; cancel) of an operation that has not entered yet is cancelled.
LockThrow(t) ==
    /\ at[t] \in Entries /\ t \in cancelled
    /\ iter' = [iter EXCEPT ![t] = FALSE]
    /\ Goto(t, "idle")
    /\ UNCHANGED <<state, data, navail, queues, wake, give, cancelled, ops, ended, sz_max>>

-----------------------------------------------------------------------------
(* Beginning an operation, and what others do to the channel.               *)

\* put! looks at the state before it takes the lock; iterate looks at it
\* before isready; a cancelled token refuses every operation.
Begin(t) ==
    /\ at[t] = "idle" /\ ops[t] < MaxOps /\ t \notin cancelled
    /\ ops' = [ops EXCEPT ![t] = @ + 1]
    /\ \/ state = "open" /\ Goto(t, "put") /\ UNCHANGED iter
       \/ \E op \in {"take", "fetch"} : Goto(t, op) /\ UNCHANGED iter
       \/ navail = 0 /\ Goto(t, "wait") /\ UNCHANGED iter
       \/ /\ iter' = [iter EXCEPT ![t] = TRUE]
          /\ Goto(t, IF state = "open" THEN "take" ELSE "iterReady")
    /\ UNCHANGED <<state, data, navail, queues, wake, give, cancelled, ended, sz_max>>

\* cancel! of t's token: claims t if it is parked and armed.
Cancel(t) ==
    /\ t \notin cancelled
    /\ cancelled' = cancelled \cup {t}
    /\ wake' = IF Armed(t) THEN [wake EXCEPT ![t] = "cancel"] ELSE wake
    /\ UNCHANGED <<state, data, navail, queues, at, give, iter, ops, ended, sz_max>>

\* Mutant: close forgets the put!s.
CloseTakersOnly ==
    /\ state' = "closed"
    /\ wake' = Woken(All(takeq) \cup All(waitq), "error", NoTask)
    /\ takeq' = <<>> /\ waitq' = <<>>
    /\ UNCHANGED <<data, navail, putq, at, give, iter, cancelled, ops, ended, sz_max>>

\* close: every waiter of every condition is claimed to throw.
Close ==
    /\ state' = "closed"
    /\ wake' = Woken(All(takeq) \cup All(waitq) \cup All(putq), "error", NoTask)
    /\ takeq' = <<>> /\ waitq' = <<>> /\ putq' = <<>>
    /\ UNCHANGED <<data, navail, at, give, iter, cancelled, ops, ended, sz_max>>

\* empty!: every put! waiting for a slot is notified.
Empty ==
    /\ data' = <<>>
    /\ navail' = navail - Len(data)
    /\ wake' = Woken(All(putq), "value", NoTask)
    /\ putq' = <<>>
    /\ UNCHANGED <<state, takeq, waitq, at, give, iter, cancelled, ops, ended, sz_max>>

Run(t) ==
    \/ PutThrow(t) \/ PutBuffer(t) \/ PutWaitFull(t) \/ PutWaitTaker(t)
    \/ PutClaim(t) \/ Hand(t)
    \/ TakeItem(t) \/ TakeWait(t) \/ TakeInvite(t) \/ TakeHanded(t) \/ TakeThrow(t)
    \/ Fetch(t) \/ Wait(t) \/ IterReady(t)
    \/ ResumeError(t) \/ ResumeCancelled(t) \/ Undo(t)

ChannelNext ==
    \/ \E t \in Tasks : Begin(t) \/ Run(t) \/ LockThrow(t) \/ Cancel(t)
    \/ Close \/ Empty

ChannelSpec == ChannelInit /\ [][ChannelNext]_channelVars

-----------------------------------------------------------------------------
(* Properties.                                                              *)

\* Every variable has the type channels.jl gives it.
ChannelTypeOK ==
    /\ sz_max \in Nat /\ state \in {"open", "closed"}
    /\ data \in Seq(Tasks) /\ navail \in Int
    /\ takeq \in Seq(Tasks) /\ putq \in Seq(Tasks) /\ waitq \in Seq(Tasks)
    /\ at \in [Tasks -> Places]
    /\ wake \in [Tasks -> {"none", "value", "claimed", "error", "cancel"}]
    /\ give \in [Tasks -> Tasks \cup {NoTask}]
    /\ iter \in [Tasks -> BOOLEAN]
    /\ cancelled \subseteq Tasks
    /\ ops \in [Tasks -> Nat]
    /\ ended \in BOOLEAN

\* A value in the buffer is never left with a taker asleep next to it.
TakersSeeItems ==
    \A t \in Tasks : Armed(t) /\ at[t] \in {"parkTake", "parkFetch"} => data = <<>>

\* A put! that is counted: parked, or thrown out of its park and not yet undone.
InPut(t) == at[t] \in {"parkPut", "undo"}

\* n_avail_items never drifts, whichever put!s are cancelled or closed out (the
\* finally clauses of put_buffered and put_unbuffered): it is the number of
\* buffered values plus the number of put!s under way.  So a caller of wait(c),
\* who sleeps only while it is zero, sleeps only while nothing is on offer.
WaitersSeeOffers ==
    /\ navail = Len(data) + Cardinality({t \in Tasks : InPut(t)})
    /\ \A t \in Tasks : Armed(t) /\ at[t] = "parkWait" => navail = 0

\* The put!s that were notified and have not run yet.
Invited == {t \in Tasks : at[t] = "parkPut" /\ wake[t] = "value"}

\* While a put! sleeps, there are notified put!s on their way for every free
\* slot (buffered) and for every sleeping taker (unbuffered): take! notifies
\* only one, so a notify that was wasted would leave both asleep.
NoWastedInvitation ==
    (\E t \in Tasks : Armed(t) /\ at[t] = "parkPut") =>
        IF sz_max > 0 THEN sz_max - Len(data) <= Cardinality(Invited)
        ELSE Cardinality({u \in Tasks : Armed(u) /\ at[u] = "parkTake"})
               <= Cardinality(Invited)

\* An iteration ends only when the channel is closed and drained: no value a
\* put! has buffered is missed (isopen is read before isready).
IterationIsComplete == ended => state = "closed" /\ data = <<>>

\* Once the channel is closed, or a task's token cancelled, no task is left
\* parked with its wake unclaimed, the ones that were about to park when it
\* happened included: a claimed put! or take! resumes and throws.
CloseReleases ==
    \A t \in Tasks : state = "closed" \/ t \in cancelled => ~Armed(t)
=============================================================================
