------------------------------- MODULE Park -------------------------------
(***************************************************************************)
(* The park protocol: base/park.jl, the condition variable of              *)
(* base/condition.jl that tasks park on, and the delivery half of          *)
(* base/cancellation.jl that interrupts them.                              *)
(*                                                                         *)
(* Tasks wait on one condition c and notify it, under c's lock.  A wait is *)
(* a shield (no token), cancellable (the request is thrown) or a value     *)
(* wait (the request is returned), and names the lowest severity that may  *)
(* wake it.  Cancellers run cancel! on the sources.  A wake belongs to     *)
(* whoever turns the task's waiting_on word from its entry to nothing.     *)
(*                                                                         *)
(* The arm of waiting_on is a release operation only: until the task's     *)
(* next fence other threads may not see it, which `hidden` models.         *)
(***************************************************************************)
EXTENDS Naturals, Sequences, FiniteSets, SequencesExt

CONSTANTS
  Tasks,       \* tasks that wait on and notify the condition
  Sources,     \* cancellation token sources
  Waits,       \* waits a task may ask for: records [mode, src, floor]
  Cancellers,  \* calls of cancel!
  Cancels,     \* Cancels[k]: the source and the severity of the call k
  Threshold,   \* dead registrations that trigger a prune of a source's list
  MaxOps,      \* bound: operations (wait or notify) of one task
  None         \* `nothing`

ASSUME ParkAssumption ==
  /\ Waits \subseteq [mode : {"shield", "throw", "value"}, src : Sources, floor : 0..5]
  /\ Cancels \in [Cancellers -> [src : Sources, sev : {1, 3, 4}]]
  /\ Threshold \in Nat \ {0} /\ MaxOps \in Nat \ {0}
  /\ Waits # {}
  /\ None \notin Tasks \cup Cancellers \cup (Tasks \X (0..(MaxOps + 1)))

VARIABLES
  state,    \* state[s]: the severity s was cancelled at, 0 if it was not
  reg,      \* reg[s]: the registered wait entries, last pushed first
  walk,     \* walk[s]: holder of s's walk lock, or None
  dead,     \* dead[s]: dead_count, retired entries still registered
  lck,      \* holder of c's lock, or None
  waitq,    \* c's queue of wait entries
  on,       \* on[t]: t.waiting_on, the entry whose wake is unclaimed, or None
  hidden,   \* hidden[t]: t armed its entry but no other thread sees it yet
  aux,      \* aux[e]: the floor and watcher bit staged on e's source slot
  retired,  \* entries that are done waiting (w.task is nothing)
  wake,     \* wake[t]: how t was scheduled and at which severity, or NoWake
  pc, want, ops,                  \* per task: step, the wait asked for, count
  kpc, ksev, ktodo, kaux, kclaim  \* per canceller: step and locals of the walk

taskVars == <<pc, want, ops>>
walkerVars == <<kpc, ksev, ktodo, kaux, kclaim>>
sourceVars == <<state, reg, walk, dead>>
entryVars == <<on, hidden, aux, retired>>
vars == <<sourceVars, lck, waitq, entryVars, wake, taskVars, walkerVars>>

\* The entries of a task: the two cached ones, and a fresh one per operation.
Plain == 0
Cancellable == 1
Fresh(n) == 1 + n
Entries == Tasks \X (0..(MaxOps + 1))
TaskOf(e) == e[1]

NoWake == [how |-> "none", sev |-> 0]
NoAux == [floor |-> 0, watcher |-> FALSE]

\* min_severity normalised as each kind of wait does it.
FloorOf(w) == IF w.mode = "value" THEN Max({w.floor, 1}) ELSE w.floor

\* Mutant: shields park with the entry that cancellable waits register.
EntryOfShared(t) == <<t, IF want[t].mode = "value" THEN Fresh(ops[t]) ELSE Cancellable>>

\* The entry a wait parks with: _cached_wait_entry, _cancel_wait_entry, or a
\* new WaitEntry2 for a value wait.
EntryOf(t) ==
  <<t, CASE want[t].mode = "shield" -> Plain
         [] want[t].mode = "throw" -> Cancellable
         [] want[t].mode = "value" -> Fresh(ops[t])>>

\* The wait of t is one that severity st of its source satisfies.
Fires(t, st) == st # 0 /\ st >= FloorOf(want[t])

Registered(e) == {s \in Sources : Contains(reg[s], e)}

\* list_deletefirst! on c's queue, and the unlinking of an entry from a source's
\* list: a no-op when it is not linked.
Unlink(q, e) ==
  IF Contains(q, e)
  THEN LET k == CHOOSE i \in 1..Len(q) : q[i] = e
       IN  [i \in 1..(Len(q) - 1) |-> IF i < k THEN q[i] ELSE q[i + 1]]
  ELSE q

\* The sequences that list the elements of q at the positions in K, in order
\* (there is one).
Kept(q, K) ==
  {[i \in 1..Cardinality(K) |-> q[f[i]]] :
     f \in {g \in [1..Cardinality(K) -> K] :
             /\ K \subseteq {g[i] : i \in DOMAIN g}
             /\ \A i, j \in DOMAIN g : i < j => g[i] < g[j]}}

Init ==
  /\ state = [s \in Sources |-> 0]
  /\ reg = [s \in Sources |-> <<>>]
  /\ walk = [s \in Sources |-> None]
  /\ dead = [s \in Sources |-> 0]
  /\ lck = None
  /\ waitq = <<>>
  /\ on = [t \in Tasks |-> None]
  /\ hidden = [t \in Tasks |-> FALSE]
  /\ aux = [e \in Entries |-> NoAux]
  /\ retired = {}
  /\ wake = [t \in Tasks |-> NoWake]
  /\ pc = [t \in Tasks |-> "idle"]
  /\ want = [t \in Tasks |-> CHOOSE w \in Waits : TRUE]
  /\ ops = [t \in Tasks |-> 0]
  /\ kpc = [k \in Cancellers |-> "raise"]
  /\ ksev = [k \in Cancellers |-> 0]
  /\ ktodo = [k \in Cancellers |-> <<>>]
  /\ kaux = [k \in Cancellers |-> NoAux]
  /\ kclaim = [k \in Cancellers |-> {}]

Goto(t, l) == pc' = [pc EXCEPT ![t] = l]

-----------------------------------------------------------------------------
(* Entering a wait *)

\* The caller takes c's lock to wait for w.  A wait with a floor is a teardown
\* wait: its task has acknowledged a delivery of the severity below.
LockToWait(t, w) ==
  /\ pc[t] = "idle" /\ ops[t] < MaxOps /\ lck = None
  /\ w.floor <= state[w.src] + 1
  /\ lck' = t
  /\ want' = [want EXCEPT ![t] = w]
  /\ ops' = [ops EXCEPT ![t] = @ + 1]
  /\ Goto(t, "check")
  /\ UNCHANGED <<sourceVars, waitq, entryVars, wake, walkerVars>>

\* The entry check of wait(c, tok): a cancelled token is refused before
\* anything is published.  A throwing wait gives up the lock and throws, a
\* value wait returns the request; both are over.  A throwing wait that has a
\* floor (a teardown wait) skips the check.
EntryCheck(t) ==
  LET w == want[t] IN
  /\ pc[t] = "check"
  /\ IF \/ w.mode = "value" /\ Fires(t, state[w.src])
        \/ w.mode = "throw" /\ w.floor = 0 /\ state[w.src] # 0
     THEN lck' = None /\ Goto(t, "idle")
     ELSE Goto(t, IF w.mode = "throw" THEN "entry" ELSE "arm") /\ UNCHANGED lck
  /\ UNCHANGED <<sourceVars, waitq, entryVars, wake, want, ops, walkerVars>>

\* _cancel_wait_entry: the cached entry may still be registered with another
\* source; unregister_cancellation! takes it off that list, under that
\* source's walk lock.  Then the floor is staged.
AcquireCancelEntry(t) ==
  LET e == EntryOf(t)
      s == want[t].src
      old == Registered(e) \ {s} IN
  /\ pc[t] = "entry"
  /\ \A o \in old : walk[o] = None
  /\ reg' = [o \in Sources |-> IF o \in old THEN Unlink(reg[o], e) ELSE reg[o]]
  /\ aux' = [aux EXCEPT ![e] = [floor |-> FloorOf(want[t]), watcher |-> FALSE]]
  /\ Goto(t, "arm")
  /\ UNCHANGED <<state, walk, dead, lck, waitq, on, hidden, retired, wake, want,
                 ops, walkerVars>>

\* park!, phase 3: _arm_wait.  The store may linger in the store buffer.
Arm(t) ==
  /\ pc[t] = "arm"
  /\ hidden' = [hidden EXCEPT ![t] = TRUE]
  /\ Goto(t, "enqueue")
  /\ UNCHANGED <<sourceVars, lck, waitq, on, aux, retired, wake, want, ops,
                 walkerVars>>

Publish(t) == on' = [on EXCEPT ![t] = EntryOf(t)] /\ hidden' = [hidden EXCEPT ![t] = FALSE]

\* The hardware may drain the store buffer at any time.
Drain(t) ==
  /\ hidden[t]
  /\ Publish(t)
  /\ UNCHANGED <<sourceVars, lck, waitq, aux, retired, wake, taskVars, walkerVars>>

\* park!, phase 4, the condition: link the entry, first or last.
Enqueue(t) ==
  /\ pc[t] = "enqueue"
  /\ waitq' \in {<<EntryOf(t)>> \o waitq, Append(waitq, EntryOf(t))}
  /\ Goto(t, IF want[t].mode = "shield" THEN "suspend" ELSE "register")
  /\ UNCHANGED <<sourceVars, lck, entryVars, wake, want, ops, walkerVars>>

\* Mutant: a re-arm of a registered entry has no fence.
RegisterNoFence(t) ==
  LET e == EntryOf(t)
      s == want[t].src IN
  /\ pc[t] = "register"
  /\ IF Contains(reg[s], e)
     THEN UNCHANGED <<reg, aux, on, hidden>>
     ELSE /\ reg' = [reg EXCEPT ![s] = <<e>> \o @]
          /\ aux' = [aux EXCEPT ![e] =
               [floor |-> FloorOf(want[t]), watcher |-> want[t].mode = "value"]]
          /\ IF hidden[t] THEN Publish(t) ELSE UNCHANGED <<on, hidden>>
  /\ Goto(t, "recheck")
  /\ UNCHANGED <<state, walk, dead, lck, waitq, retired, wake, want, ops,
                 walkerVars>>

\* park!, phase 4, the source: _source_wait_enqueue!.  The first registration
\* stages the slot and pushes the entry on the source's list; a re-arm of a
\* registered entry is a fence.  Either way the arm is visible afterwards.
Register(t) ==
  LET e == EntryOf(t)
      s == want[t].src IN
  /\ pc[t] = "register"
  /\ IF Contains(reg[s], e)
     THEN UNCHANGED <<reg, aux>>
     ELSE /\ reg' = [reg EXCEPT ![s] = <<e>> \o @]
          /\ aux' = [aux EXCEPT ![e] =
               [floor |-> FloorOf(want[t]), watcher |-> want[t].mode = "value"]]
  /\ IF hidden[t] THEN Publish(t) ELSE UNCHANGED <<on, hidden>>
  /\ Goto(t, "recheck")
  /\ UNCHANGED <<state, walk, dead, lck, waitq, retired, wake, want, ops,
                 walkerVars>>

\* park!, phase 5: read the source's state again.
Recheck(t) ==
  /\ pc[t] = "recheck"
  /\ Goto(t, IF Fires(t, state[want[t].src]) THEN "disarm" ELSE "suspend")
  /\ UNCHANGED <<sourceVars, lck, waitq, entryVars, wake, want, ops, walkerVars>>

\* The source has fired: if the task wins its own claim it withdraws the entry
\* and returns or throws, without the lock; if not, a waker has it: suspend.
Disarm(t) ==
  LET e == EntryOf(t) IN
  /\ pc[t] = "disarm"
  /\ IF on[t] = e
     THEN /\ on' = [on EXCEPT ![t] = None]
          /\ waitq' = Unlink(waitq, e)
          /\ Goto(t, IF want[t].mode = "value" THEN "retire" ELSE "unlock")
     ELSE Goto(t, "suspend") /\ UNCHANGED <<on, waitq>>
  /\ UNCHANGED <<sourceVars, lck, hidden, aux, retired, wake, want, ops,
                 walkerVars>>

\* unlockall(c.lock), a release, and wait().
Suspend(t) ==
  /\ pc[t] = "suspend"
  /\ lck' = None
  /\ IF hidden[t] THEN Publish(t) ELSE UNCHANGED <<on, hidden>>
  /\ Goto(t, "parked")
  /\ UNCHANGED <<sourceVars, waitq, aux, retired, wake, want, ops, walkerVars>>

-----------------------------------------------------------------------------
(* Leaving a wait *)

\* A normal wake: relockall, shielded ...
Resume(t) ==
  /\ pc[t] = "parked" /\ wake[t].how = "value" /\ lck = None
  /\ lck' = t
  /\ wake' = [wake EXCEPT ![t] = NoWake]
  /\ Goto(t, "settle")
  /\ UNCHANGED <<sourceVars, waitq, entryVars, want, ops, walkerVars>>

\* ... and withdraw!: a value wake of the walk left the entry linked.
Settle(t) ==
  /\ pc[t] = "settle"
  /\ waitq' = Unlink(waitq, EntryOf(t))
  /\ Goto(t, IF want[t].mode = "value" THEN "retire" ELSE "unlock")
  /\ UNCHANGED <<sourceVars, lck, entryVars, wake, want, ops, walkerVars>>

\* release_wait_entry! of a fresh entry: it is counted as dead on the source
\* it is registered with, and enough of those prune the list, unless a walk is
\* under way.
Retire(t) ==
  LET e == EntryOf(t)
      s == want[t].src
      prunes == dead[s] + 1 >= Threshold /\ walk[s] = None IN
  /\ pc[t] = "retire"
  /\ retired' = retired \cup {e}
  /\ dead' = [dead EXCEPT ![s] = IF prunes THEN 0 ELSE @ + 1]
  /\ IF prunes
     THEN \E q \in Kept(reg[s], {i \in 1..Len(reg[s]) : reg[s][i] \notin retired'}) :
            reg' = [reg EXCEPT ![s] = q]
     ELSE UNCHANGED reg
  /\ Goto(t, "unlock")
  /\ UNCHANGED <<state, walk, lck, waitq, on, hidden, aux, wake, want, ops,
                 walkerVars>>

\* The caller unlocks (after a return), or wait itself did (before a throw).
Unlock(t) ==
  /\ pc[t] = "unlock"
  /\ lck' = None
  /\ Goto(t, "idle")
  /\ UNCHANGED <<sourceVars, waitq, entryVars, wake, want, ops, walkerVars>>

\* An exceptional wake: interrupted_park_cleanup! disarms, takes c's lock for
\* its own unlink and drops a wake that is still pending; then the exception
\* goes on, and the caller's lock level with it.
Interrupted(t) ==
  /\ pc[t] = "parked" /\ wake[t].how = "throw" /\ lck = None
  /\ on' = [on EXCEPT ![t] = IF @ = EntryOf(t) THEN None ELSE @]
  /\ lck' = t
  /\ wake' = [wake EXCEPT ![t] = NoWake]
  /\ Goto(t, "cleanup")
  /\ UNCHANGED <<sourceVars, waitq, hidden, aux, retired, want, ops, walkerVars>>

\* Mutant: an interrupted wait leaves its entry in c's queue.
CleanupKeepsEntry(t) ==
  /\ pc[t] = "cleanup"
  /\ wake' = [wake EXCEPT ![t] = NoWake]
  /\ lck' = None
  /\ Goto(t, "idle")
  /\ UNCHANGED <<sourceVars, waitq, entryVars, want, ops, walkerVars>>

\* ... then unlinks the entry and gives up the lock.
Cleanup(t) ==
  /\ pc[t] = "cleanup"
  /\ waitq' = Unlink(waitq, EntryOf(t))
  /\ wake' = [wake EXCEPT ![t] = NoWake]
  /\ lck' = None
  /\ Goto(t, "idle")
  /\ UNCHANGED <<sourceVars, entryVars, want, ops, walkerVars>>

-----------------------------------------------------------------------------
(* notify *)

LockToNotify(t) ==
  /\ pc[t] = "idle" /\ ops[t] < MaxOps /\ lck = None
  /\ lck' = t
  /\ ops' = [ops EXCEPT ![t] = @ + 1]
  /\ Goto(t, "notify")
  /\ UNCHANGED <<sourceVars, waitq, entryVars, wake, want, walkerVars>>

\* One turn of notify's loop: pop an entry and claim it.  An entry that was
\* claimed before, or retired, is dropped.  notify(all=false) stops after one.
Notify(t) ==
  LET e == Head(waitq)
      u == TaskOf(e) IN
  /\ pc[t] = "notify" /\ waitq # <<>>
  /\ waitq' = Tail(waitq)
  /\ IF e \notin retired /\ on[u] = e
     THEN /\ on' = [on EXCEPT ![u] = None]
          /\ wake' = [wake EXCEPT ![u] = [how |-> "value", sev |-> 0]]
          /\ pc' \in {pc, [pc EXCEPT ![t] = "unlock"]}
     ELSE UNCHANGED <<on, wake, pc>>
  /\ UNCHANGED <<sourceVars, lck, hidden, aux, retired, want, ops, walkerVars>>

NotifyEnds(t) ==
  /\ pc[t] = "notify" /\ waitq = <<>>
  /\ Goto(t, "unlock")
  /\ UNCHANGED <<sourceVars, lck, waitq, entryVars, wake, want, ops, walkerVars>>

-----------------------------------------------------------------------------
(* cancel! *)

SourceOf(k) == Cancels[k].src
KGoto(k, l) == kpc' = [kpc EXCEPT ![k] = l]

\* _raise_state!: the state only grows.
Raise(k) ==
  /\ kpc[k] = "raise"
  /\ state' = [state EXCEPT ![SourceOf(k)] = Max({@, Cancels[k].sev})]
  /\ KGoto(k, "lock")
  /\ UNCHANGED <<reg, walk, dead, lck, waitq, entryVars, wake, taskVars, ksev,
                 ktodo, kaux, kclaim>>

\* _cancel_walk_node!: take the walk lock and read the state again: another
\* cancel! may have escalated it.
WalkLock(k) ==
  /\ kpc[k] = "lock" /\ walk[SourceOf(k)] = None
  /\ walk' = [walk EXCEPT ![SourceOf(k)] = k]
  /\ ksev' = [ksev EXCEPT ![k] = Max({state[SourceOf(k)], Cancels[k].sev})]
  /\ KGoto(k, "head")
  /\ UNCHANGED <<state, reg, dead, lck, waitq, entryVars, wake, taskVars, ktodo,
                 kaux, kclaim>>

\* _walk_waiters!: reset dead_count and read the head of the list.
WalkHead(k) ==
  /\ kpc[k] = "head"
  /\ dead' = [dead EXCEPT ![SourceOf(k)] = 0]
  /\ ktodo' = [ktodo EXCEPT ![k] = reg[SourceOf(k)]]
  /\ KGoto(k, "entry")
  /\ UNCHANGED <<state, reg, walk, lck, waitq, entryVars, wake, taskVars, ksev,
                 kaux, kclaim>>

Advance(k) == ktodo' = [ktodo EXCEPT ![k] = Tail(@)]

\* A retired entry is unlinked from the list, unless it was its head and a
\* push has come in between.
WalkRetired(k) ==
  LET s == SourceOf(k)
      e == Head(ktodo[k]) IN
  /\ kpc[k] = "entry" /\ ktodo[k] # <<>> /\ e \in retired
  /\ reg' \in {[reg EXCEPT ![s] = Unlink(@, e)]}
              \cup (IF Head(reg[s]) # e THEN {reg} ELSE {})
  /\ Advance(k)
  /\ UNCHANGED <<state, walk, dead, lck, waitq, entryVars, wake, taskVars, kpc,
                 ksev, kaux, kclaim>>

\* A live entry: read its aux ...
WalkAux(k) ==
  /\ kpc[k] = "entry" /\ ktodo[k] # <<>> /\ Head(ktodo[k]) \notin retired
  /\ kaux' = [kaux EXCEPT ![k] = aux[Head(ktodo[k])]]
  /\ KGoto(k, "armed")
  /\ UNCHANGED <<sourceVars, lck, waitq, entryVars, wake, taskVars, ksev, ktodo,
                 kclaim>>

\* Mutant: the floor of an armed entry is ignored.
WalkArmedNoFloor(k) ==
  LET e == Head(ktodo[k]) IN
  /\ kpc[k] = "armed"
  /\ IF on[TaskOf(e)] = e
     THEN KGoto(k, "claim") /\ UNCHANGED ktodo
     ELSE KGoto(k, "entry") /\ Advance(k)
  /\ UNCHANGED <<sourceVars, lck, waitq, entryVars, wake, taskVars, ksev, kaux,
                 kclaim>>

\* ... see whether it is armed and eligible at this severity ...
WalkArmed(k) ==
  LET e == Head(ktodo[k]) IN
  /\ kpc[k] = "armed"
  /\ IF on[TaskOf(e)] = e /\ kaux[k].floor <= ksev[k]
     THEN KGoto(k, "claim") /\ UNCHANGED ktodo
     ELSE KGoto(k, "entry") /\ Advance(k)
  /\ UNCHANGED <<sourceVars, lck, waitq, entryVars, wake, taskVars, ksev, kaux,
                 kclaim>>

\* Mutant: the claim is a store, not a compare-and-swap.
WalkClaimStores(k) ==
  LET e == Head(ktodo[k]) IN
  /\ kpc[k] = "claim"
  /\ on' = [on EXCEPT ![TaskOf(e)] = None]
  /\ kclaim' = [kclaim EXCEPT ![k] = @ \cup {<<e, kaux[k].watcher>>}]
  /\ KGoto(k, "entry")
  /\ Advance(k)
  /\ UNCHANGED <<sourceVars, lck, waitq, hidden, aux, retired, wake, taskVars,
                 ksev, kaux>>

\* ... and claim its wake, unless somebody else has meanwhile.
WalkClaim(k) ==
  LET e == Head(ktodo[k])
      won == on[TaskOf(e)] = e IN
  /\ kpc[k] = "claim"
  /\ on' = [on EXCEPT ![TaskOf(e)] = IF won THEN None ELSE @]
  /\ kclaim' = [kclaim EXCEPT ![k] = IF won THEN @ \cup {<<e, kaux[k].watcher>>} ELSE @]
  /\ KGoto(k, "entry")
  /\ Advance(k)
  /\ UNCHANGED <<sourceVars, lck, waitq, hidden, aux, retired, wake, taskVars,
                 ksev, kaux>>

WalkUnlock(k) ==
  /\ kpc[k] = "entry" /\ ktodo[k] = <<>>
  /\ walk' = [walk EXCEPT ![SourceOf(k)] = None]
  /\ KGoto(k, "deliver")
  /\ UNCHANGED <<state, reg, dead, lck, waitq, entryVars, wake, taskVars, ksev,
                 ktodo, kaux, kclaim>>

\* deliver_claimed_wake!, deliver_claimed_value_wake!: nothing is delivered to
\* a task that has armed another wait; the queue entry is unlinked if c's lock
\* is free at this moment.
WalkDeliver(k) ==
  /\ kpc[k] = "deliver"
  /\ \E m \in kclaim[k] :
       LET t == TaskOf(m[1]) IN
       /\ kclaim' = [kclaim EXCEPT ![k] = @ \ {m}]
       /\ waitq' = IF on[t] = None /\ lck = None THEN Unlink(waitq, m[1]) ELSE waitq
       /\ wake' = IF on[t] = None
                  THEN [wake EXCEPT ![t] =
                          [how |-> IF m[2] THEN "value" ELSE "throw", sev |-> ksev[k]]]
                  ELSE wake
  /\ UNCHANGED <<sourceVars, lck, entryVars, taskVars, kpc, ksev, ktodo, kaux>>

\* cancel! returns.
WalkEnds(k) ==
  /\ kpc[k] = "deliver" /\ kclaim[k] = {}
  /\ KGoto(k, "done")
  /\ UNCHANGED <<sourceVars, lck, waitq, entryVars, wake, taskVars, ksev, ktodo,
                 kaux, kclaim>>

-----------------------------------------------------------------------------
\* Nothing is left to do: each task has made its calls, or is parked with its
\* wake unclaimed and no cancellation it would have to react to.
Quiescent ==
  /\ \A t \in Tasks :
       \/ pc[t] = "idle" /\ ops[t] = MaxOps
       \/ /\ pc[t] = "parked" /\ on[t] = EntryOf(t)
          /\ want[t].mode = "shield" \/ ~Fires(t, state[want[t].src])
  /\ \A k \in Cancellers : kpc[k] = "done"
  /\ UNCHANGED vars

WaitSteps(t) ==
  \/ EntryCheck(t) \/ AcquireCancelEntry(t) \/ Arm(t) \/ Drain(t)
  \/ Enqueue(t) \/ Register(t) \/ Recheck(t) \/ Disarm(t) \/ Suspend(t)
  \/ Resume(t) \/ Settle(t) \/ Retire(t) \/ Unlock(t)
  \/ Interrupted(t) \/ Cleanup(t) \/ Notify(t) \/ NotifyEnds(t)

WalkSteps(k) ==
  \/ WalkLock(k) \/ WalkHead(k) \/ WalkRetired(k) \/ WalkAux(k) \/ WalkArmed(k)
  \/ WalkClaim(k) \/ WalkUnlock(k) \/ WalkDeliver(k) \/ WalkEnds(k)

Next ==
  \/ \E t \in Tasks : WaitSteps(t) \/ LockToNotify(t) \/ \E w \in Waits : LockToWait(t, w)
  \/ \E k \in Cancellers : Raise(k) \/ WalkSteps(k)
  \/ Quiescent

Spec == Init /\ [][Next]_vars

-----------------------------------------------------------------------------
(* Properties *)

\* The claims on t's wake that walks hold but have not delivered.
Undelivered(t) == {k \in Cancellers : \E m \in kclaim[k] : TaskOf(m[1]) = t}

Armed(t) == on[t] # None \/ hidden[t]

\* From the arm to the resume exactly one party owns a task's wake: the arm is
\* unclaimed, a walk has claimed it, or it is scheduled.  Outside that time
\* nobody does, so no stale wake reaches the task's next wait, and a delivery
\* is never dropped because the task has armed another wait.
OneOwnerOfWake ==
  \A t \in Tasks :
    (IF Armed(t) THEN 1 ELSE 0) + (IF wake[t] # NoWake THEN 1 ELSE 0)
      + Cardinality(Undelivered(t))
    = IF pc[t] \in {"enqueue", "register", "recheck", "disarm", "suspend", "parked"}
      THEN 1 ELSE 0

\* A walk only ever claims a wait that its source governs: never a shield,
\* never a wait that has moved to another token, and it returns the request to
\* a value wait and throws it into the others.
ClaimIsGoverned ==
  \A k \in Cancellers : \A m \in kclaim[k] :
    LET w == want[TaskOf(m[1])] IN
    /\ w.mode # "shield" /\ w.src = SourceOf(k)
    /\ m[2] <=> w.mode = "value"

\* When a cancel! has made its walk, nobody is parked and unclaimed whom its
\* severity entitles to be woken, however arms and walk were interleaved and
\* whatever floor an entry had in an earlier wait.
CancelReachesParked ==
  \A k \in Cancellers : \A t \in Tasks :
    /\ kpc[k] \in {"deliver", "done"}
    /\ pc[t] \in {"suspend", "parked"}
    /\ want[t].mode # "shield" /\ want[t].src = SourceOf(k)
    /\ Fires(t, Cancels[k].sev)
    => ~Armed(t)

\* A task that waits unclaimed is in the queue, and an entry that stays in the
\* queue belongs to a wait that is still under way: a later wait of the task
\* finds its cached entry free.
QueueMatchesWaits ==
  /\ \A t \in Tasks : pc[t] = "parked" /\ Armed(t) => Contains(waitq, EntryOf(t))
  /\ \A t \in Tasks : \A i \in 1..Len(waitq) :
       TaskOf(waitq[i]) = t =>
         /\ waitq[i] = EntryOf(t)
         /\ pc[t] \notin {"idle", "check", "entry", "arm", "enqueue", "retire"}

\* A value wait is never completed by a severity below its floor: its entry is
\* fresh, so no walk can judge it by the floor of an earlier wait.  (A throwing
\* teardown wait re-arms a cached entry, and may be.)
FloorIsHonoured ==
  \A t \in Tasks :
    want[t].mode = "value" /\ wake[t].sev # 0 => Fires(t, wake[t].sev)

=============================================================================
