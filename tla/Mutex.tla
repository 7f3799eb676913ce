------------------------------- MODULE Mutex -------------------------------
(***************************************************************************)
(* What lock/unlock of base/lock.jl promise their callers.  A call waits   *)
(* until the lock is free; a call under a cancelled token may throw        *)
(* instead, and then its task does not have the lock.                      *)
(***************************************************************************)
CONSTANTS Tasks, Cancellable, NoTask

VARIABLES holder,    \* the task that has the lock, or NoTask
          phase,     \* phase[t]: "out" of any call, "waiting", or "in" the lock
          cancelled  \* cancelled[t]: t's token has been cancelled

vars == <<holder, phase, cancelled>>

Init ==
  /\ holder = NoTask
  /\ phase = [t \in Tasks |-> "out"]
  /\ cancelled = [t \in Tasks |-> FALSE]

\* A call of lock or trylock begins.
Request(t) ==
  /\ phase[t] = "out"
  /\ phase' = [phase EXCEPT ![t] = "waiting"]
  /\ UNCHANGED <<holder, cancelled>>

\* The lock passes to a waiting task, and to nobody else while it is held.
Acquire(t) ==
  /\ phase[t] = "waiting" /\ holder = NoTask
  /\ holder' = t
  /\ UNCHANGED <<phase, cancelled>>

\* The call returns to a task that has the lock.
Return(t) ==
  /\ phase[t] = "waiting" /\ holder = t
  /\ phase' = [phase EXCEPT ![t] = "in"]
  /\ UNCHANGED <<holder, cancelled>>

\* The call fails: trylock found the lock taken, or the token is cancelled.
\* A task that fails does not have the lock.
Fail(t) ==
  /\ phase[t] = "waiting" /\ holder # t
  /\ phase' = [phase EXCEPT ![t] = "out"]
  /\ UNCHANGED <<holder, cancelled>>

\* A task whose token was cancelled while it waited gives up the lock that it
\* won but will not get to see.
Forgo(t) ==
  /\ phase[t] = "waiting" /\ holder = t /\ cancelled[t]
  /\ holder' = NoTask
  /\ phase' \in {phase, [phase EXCEPT ![t] = "out"]}
  /\ UNCHANGED cancelled

\* unlock: the lock is given up, and the call returns.
Release(t) ==
  /\ phase[t] = "in" /\ holder = t
  /\ holder' = NoTask
  /\ phase' = [phase EXCEPT ![t] = "out"]
  /\ UNCHANGED cancelled

Cancel(t) ==
  /\ cancelled' = [cancelled EXCEPT ![t] = TRUE]
  /\ UNCHANGED <<holder, phase>>

Next ==
  \/ \E t \in Tasks : \/ Request(t) \/ Acquire(t) \/ Return(t)
                      \/ Fail(t) \/ Forgo(t) \/ Release(t)
  \/ \E t \in Cancellable : Cancel(t)

Spec == Init /\ [][Next]_vars
=============================================================================
