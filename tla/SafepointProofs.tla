-------------------------- MODULE SafepointProofs ---------------------------
(* Proofs about Safepoint, for any finite set of threads and any number of   *)
(* collections and suspensions.                                              *)
EXTENDS Safepoint, FiniteSetTheorems, TLAPS

\* Where a thread is in its collection, with the pages armed or not yet.
ArmedAt == {"snapshot", "world", "world_sleep", "collecting", "end"}
CollectorAt == ArmedAt \cup {"won"}
SuspendAt == {"suspend", "suspend_sleep", "suspend_woken"}
WaitAt == {"wait_gc", "gc_lock", "gc_sleep"}
ResumeAt == {"resume_lock", "suspended", "resume_woken", "resume_sleep"}
ThreadLabel ==
  {"managed", "load", "announce", "restore", "resume", "safe", "asleep", "sleep_announce", "start",
   "relock", "leave", "end_unlocked", "foreign", "adopting", "adopted"}
  \cup CollectorAt \cup SuspendAt \cup WaitAt \cup ResumeAt

ListenerLabel == {"idle", "exclude", "exclude_sleep", "walk"}

State == {"unsafe", "safe", "waiting"}

LabelOK ==
  /\ pc \in [Threads \cup {Listener} -> ThreadLabel \cup ListenerLabel]
  /\ \A t \in Threads : pc[t] \in ThreadLabel
  /\ pc[Listener] \in ListenerLabel
  /\ cont \in [Threads -> {"managed", "safe", "resume"}]
  /\ ret \in [Threads -> {"load", "restore", "leave", "relock", "adopting"}]
  /\ saved \in [Threads -> State]
  /\ gc_state \in [Threads -> State] /\ storing \in [Threads -> State \cup {Nobody}]
  /\ suspend_count \in [Threads -> Nat]
  /\ jl_gc_running \in BOOLEAN /\ armed \in BOOLEAN
  /\ jl_gc_disable_counter \in Int
  /\ jl_all_tls_states \subseteq Threads /\ todo \subseteq Threads
  /\ waits_for \in [Threads -> Threads \cup {Nobody}]
  /\ safepoint_lock \in Threads \cup {Nobody, Listener}
  /\ collects \in Nat /\ suspends \in Nat

-----------------------------------------------------------------------------
\* Where each kind of wait returns to.
RetInv ==
  \A t \in Threads :
    /\ pc[t] \in WaitAt <=> ret[t] \in {"restore", "leave", "adopting"}
    /\ ret[t] = "relock" => pc[t] \in ResumeAt \cup {"resume"}

\* safepoint_lock is held by whom the code says, and by nobody else.
LockInv ==
  /\ \A t \in Threads : pc[t] \in {"won", "suspend"} <=> safepoint_lock = t
  /\ pc[Listener] = "walk" <=> safepoint_lock = Listener
  /\ pc[Listener] = "walk" => ~jl_gc_running

\* One thread collects at a time, and the pages are armed while it does.
OneInv ==
  /\ \A t, u \in Threads : pc[t] \in CollectorAt /\ pc[u] \in CollectorAt => t = u
  /\ jl_gc_running <=> \E t \in Threads : pc[t] \in CollectorAt
  /\ armed <=> \E t \in Threads : pc[t] \in ArmedAt

\* The state a thread goes on with after its safepoint load, and the one it is
\* in, as itself sees it.
StateAfter(t) == IF cont[t] = "safe" THEN "safe" ELSE "unsafe"
Expected(t) ==
  CASE pc[t] \in {"safe", "asleep", "sleep_announce"} -> "safe"
    [] pc[t] \in {"managed", "foreign", "adopting", "adopted"} \cup SuspendAt -> "unsafe"
    [] pc[t] = "load" -> StateAfter(t)
    [] pc[t] = "resume" /\ ret[t] # "relock" -> StateAfter(t)
    [] pc[t] \in WaitAt /\ ret[t] = "adopting" -> "unsafe"
    [] OTHER -> "waiting"

\* Where a store to gc_state may still be on its way to memory.
LagAt == {"managed", "safe", "load", "announce", "resume", "resume_lock", "start"}

StateInv ==
  \A t \in Threads :
    /\ Own(t) = Expected(t)
    /\ storing[t] # Nobody => pc[t] \in LagAt
    /\ armed /\ storing[t] # Nobody => pc[t] \notin {"managed", "safe"}
    /\ ret[t] = "relock" => gc_state[t] = "waiting"
    /\ (pc[t] \in WaitAt /\ ret[t] = "restore") \/ pc[t] \in {"announce", "restore"} => saved[t] = StateAfter(t)
    /\ pc[t] \in ResumeAt => saved[t] = IF ret[t] = "relock" THEN "waiting" ELSE StateAfter(t)

\* A thread is known to the collector from its adoption on, and collections
\* are disabled while it is adopted.
InAdoption == {t \in Threads : \/ pc[t] \in {"adopting", "adopted"}
                               \/ pc[t] \in WaitAt /\ ret[t] = "adopting"}
CountInv == jl_gc_disable_counter = Cardinality(InAdoption)

AdoptInv ==
  /\ InAdoption \subseteq Foreign
  /\ \A t \in Threads : /\ pc[t] = "foreign" => t \in Foreign
                        /\ (t \in jl_all_tls_states <=> pc[t] # "foreign" /\ (t \in InAdoption => pc[t] = "adopted"))
  /\ armed => \A t \in Threads : pc[t] \notin {"adopting", "adopted"}

\* The threads the collector has gone past cannot touch the heap.
StopInv ==
  /\ \A c \in Threads : pc[c] \in {"world", "world_sleep", "collecting"} =>
       /\ \A u \in jl_all_tls_states \ todo : ~Mutates(u)
       /\ todo \subseteq jl_all_tls_states
       /\ pc[c] = "collecting" => todo = {}

\* Threads that broadcast safepoint_cond_begin before they stop for good.
Noisy(u) ==
  \/ pc[u] \in {"managed", "load", "announce", "start"} \cup SuspendAt
  \/ pc[u] \in {"resume", "resume_lock", "suspended"} /\ ret[u] = "load"

SleepInv ==
  \A t \in Threads :
    /\ pc[t] \in SuspendAt => t = Suspender /\ waits_for[t] \in Threads \ {t}
    /\ pc[t] = "world_sleep" => waits_for[t] \in Threads /\ Noisy(waits_for[t])
    /\ pc[t] = "suspend_sleep" => /\ suspend_count[waits_for[t]] > 0
                                  /\ pc[waits_for[t]] \notin {"asleep", "resume_sleep", "resume_woken"}

EndInv ==
  (\E t \in Threads : pc[t] = "gc_sleep") \/ pc[Listener] = "exclude_sleep"
    => armed \/ \E t \in Threads : pc[t] = "end_unlocked"

BoundInv ==
  /\ suspends <= MaxSuspend
  /\ \A u \in Threads : suspend_count[u] + (IF pc[Suspender] = "suspend" THEN 1 ELSE 0) <= suspends

-----------------------------------------------------------------------------
(* Types and labels. *)
LEMMA LabelStep ==
  ASSUME LabelOK, SleepInv, [Next]_vars
  PROVE  LabelOK'
<1> USE SafepointAssumption DEF At, Goto, Store, control, states, page, world, gc, bounds,
      LabelOK, ThreadLabel, ListenerLabel, CollectorAt, ArmedAt, SuspendAt, WaitAt, ResumeAt,
      State
<1>1. ASSUME NEW t \in Threads, Stored(t) PROVE LabelOK'
  BY <1>1 DEF Stored
<1>2. ASSUME NEW t \in Threads, Poll(t) PROVE LabelOK'
  BY <1>2 DEF Poll, Faults
<1>3. ASSUME NEW t \in Threads, SafeEnter(t) PROVE LabelOK'
  BY <1>3 DEF SafeEnter
<1>4. ASSUME NEW t \in Threads, SafeLeave(t) PROVE LabelOK'
  BY <1>4 DEF SafeLeave
<1>5. ASSUME NEW t \in Threads, SafepointLoad(t) PROVE LabelOK'
  BY <1>5 DEF SafepointLoad, Faults
<1>6. ASSUME NEW t \in Threads, SafepointFault(t) PROVE LabelOK'
  BY <1>6 DEF SafepointFault, Own, Faults
<1>7. ASSUME NEW t \in Threads, Announce(t) PROVE LabelOK'
  BY <1>7 DEF Announce, CanLock, BeginBroadcast
<1>8. ASSUME NEW t \in Threads, Restore(t) PROVE LabelOK'
  BY <1>8 DEF Restore
<1>9. ASSUME NEW t \in Threads, WaitGc(t) PROVE LabelOK'
  BY <1>9 DEF WaitGc, Return
<1>10. ASSUME NEW t \in Threads, GcSleep(t) PROVE LabelOK'
  BY <1>10 DEF GcSleep, CanLock
<1>11. ASSUME NEW t \in Threads, ResumeStore(t) PROVE LabelOK'
  BY <1>11 DEF ResumeStore, Own
<1>12. ASSUME NEW t \in Threads, ResumeNow(t) PROVE LabelOK'
  BY <1>12 DEF ResumeNow, Fenced, Return
<1>13. ASSUME NEW t \in Threads, ResumeSleep(t) PROVE LabelOK'
  BY <1>13 DEF ResumeSleep, Fenced
<1>14. ASSUME NEW t \in Threads, Suspended(t) PROVE LabelOK'
  BY <1>14 DEF Suspended, CanLock, BeginBroadcast
<1>15. ASSUME NEW t \in Threads, TakeSleepLock(t) PROVE LabelOK'
  BY <1>15 DEF TakeSleepLock, Fenced
<1>16. ASSUME NEW t \in Threads, SleepAnnounce(t) PROVE LabelOK'
  BY <1>16 DEF SleepAnnounce, CanLock, BeginBroadcast
<1>17. ASSUME NEW t \in Threads, Collect(t) PROVE LabelOK'
  BY <1>17 DEF Collect
<1>18. ASSUME NEW t \in Threads, StopInstead(t) PROVE LabelOK'
  BY <1>18 DEF StopInstead, StartGc, CanLock, BeginBroadcast
<1>19. ASSUME NEW t \in Threads, LoseGc(t) PROVE LabelOK'
  BY <1>19 DEF LoseGc, StartGc, CanLock, BeginBroadcast
<1>20. ASSUME NEW t \in Threads, WinGc(t) PROVE LabelOK'
  BY <1>20 DEF WinGc, StartGc, CanLock, BeginBroadcast
<1>21. ASSUME NEW t \in Threads, GiveUpGc(t) PROVE LabelOK'
  BY <1>21 DEF GiveUpGc
<1>22. ASSUME NEW t \in Threads, ArmGc(t) PROVE LabelOK'
  BY <1>22 DEF ArmGc, Protect, GloballyEnabled, Own
<1>23. ASSUME NEW t \in Threads, Snapshot(t) PROVE LabelOK'
  BY <1>23 DEF Snapshot
<1>24. ASSUME NEW t \in Threads, NEW u \in Threads, WorldNext(t, u) PROVE LabelOK'
  BY <1>24 DEF WorldNext
<1>25. ASSUME NEW t \in Threads, NEW u \in Threads, WorldSleep(t, u) PROVE LabelOK'
  BY <1>25 DEF WorldSleep, CanLock
<1>26. ASSUME NEW t \in Threads, WorldStops(t) PROVE LabelOK'
  BY <1>26 DEF WorldStops
<1>27. ASSUME NEW t \in Threads, Collected(t) PROVE LabelOK'
  BY <1>27 DEF Collected
<1>28. ASSUME NEW t \in Threads, EndGc(t) PROVE LabelOK'
  BY <1>28 DEF EndGc, CanLock
<1>29. ASSUME NEW t \in Threads, EndGcBroadcast(t) PROVE LabelOK'
  BY <1>29 DEF EndGcBroadcast, EndBroadcast
<1>30. ASSUME NEW t \in Threads, LeaveGc(t) PROVE LabelOK'
  BY <1>30 DEF LeaveGc
<1>31. ASSUME NEW t \in Threads, NEW u \in Threads, Suspend(t, u) PROVE LabelOK'
  BY <1>31 DEF Suspend, Protect, CanLock, Own
<1>32. ASSUME NEW t \in Threads, NEW u \in Threads, Resume(t, u) PROVE LabelOK'
  BY <1>32 DEF Resume, CanLock, BeginBroadcast
<1>33. ASSUME NEW t \in Threads, SuspendSet(t) PROVE LabelOK'
  <2>1. waits_for[t] \in Threads
    BY <1>33 DEF SuspendSet, SleepInv
  <2>2. QED
    BY <1>33, <2>1 DEF SuspendSet, SuspendCheck
<1>34. ASSUME NEW t \in Threads, SuspendWoken(t) PROVE LabelOK'
  BY <1>34 DEF SuspendWoken, SuspendCheck
<1>35. ASSUME NEW t \in Threads, AdoptDisable(t) PROVE LabelOK'
  BY <1>35 DEF AdoptDisable
<1>36. ASSUME NEW t \in Threads, AdoptInit(t) PROVE LabelOK'
  BY <1>36 DEF AdoptInit
<1>37. ASSUME NEW t \in Threads, AdoptEnable(t) PROVE LabelOK'
  BY <1>37 DEF AdoptEnable
<1>38. ASSUME ExcludeBegin PROVE LabelOK'
  BY <1>38 DEF ExcludeBegin, CanLock
<1>39. ASSUME ExcludeEnd PROVE LabelOK'
  BY <1>39 DEF ExcludeEnd
<1>40. ASSUME UNCHANGED vars PROVE LabelOK'
  BY <1>40 DEF vars
<1> HIDE DEF At, Goto, Store, control, states, page, world, gc, bounds, LabelOK,
    ThreadLabel, ListenerLabel, CollectorAt, ArmedAt, SuspendAt, WaitAt, ResumeAt, State
<1>41. QED BY <1>1, <1>2, <1>3, <1>4, <1>5, <1>6, <1>7, <1>8, <1>9, <1>10, <1>11, <1>12,
  <1>13, <1>14, <1>15, <1>16, <1>17, <1>18, <1>19, <1>20, <1>21, <1>22, <1>23, <1>24, <1>25,
  <1>26, <1>27, <1>28, <1>29, <1>30, <1>31, <1>32, <1>33, <1>34, <1>35, <1>36, <1>37, <1>38,
  <1>39, <1>40 DEF Next, Transition, Collection

(* A wait for a collection returns to one of three places, and only then. *)
LEMMA RetStep ==
  ASSUME LabelOK, RetInv, [Next]_vars
  PROVE  RetInv'
<1> USE SafepointAssumption DEF At, Goto, Store, control, states, page, world, gc, bounds,
      RetInv, LabelOK, ThreadLabel, ListenerLabel, CollectorAt, ArmedAt, SuspendAt, WaitAt,
      ResumeAt, State
<1>1. ASSUME NEW t \in Threads, Stored(t) PROVE RetInv'
  BY <1>1 DEF Stored
<1>2. ASSUME NEW t \in Threads, Poll(t) PROVE RetInv'
  BY <1>2 DEF Poll, Faults
<1>3. ASSUME NEW t \in Threads, SafeEnter(t) PROVE RetInv'
  BY <1>3 DEF SafeEnter
<1>4. ASSUME NEW t \in Threads, SafeLeave(t) PROVE RetInv'
  BY <1>4 DEF SafeLeave
<1>5. ASSUME NEW t \in Threads, SafepointLoad(t) PROVE RetInv'
  BY <1>5 DEF SafepointLoad, Faults
<1>6. ASSUME NEW t \in Threads, SafepointFault(t) PROVE RetInv'
  BY <1>6 DEF SafepointFault, Own, Faults
<1>7. ASSUME NEW t \in Threads, Announce(t) PROVE RetInv'
  BY <1>7 DEF Announce, CanLock, BeginBroadcast
<1>8. ASSUME NEW t \in Threads, Restore(t) PROVE RetInv'
  BY <1>8 DEF Restore
<1>9. ASSUME NEW t \in Threads, WaitGc(t) PROVE RetInv'
  BY <1>9 DEF WaitGc, Return
<1>10. ASSUME NEW t \in Threads, GcSleep(t) PROVE RetInv'
  BY <1>10 DEF GcSleep, CanLock
<1>11. ASSUME NEW t \in Threads, ResumeStore(t) PROVE RetInv'
  BY <1>11 DEF ResumeStore, Own
<1>12. ASSUME NEW t \in Threads, ResumeNow(t) PROVE RetInv'
  BY <1>12 DEF ResumeNow, Fenced, Return
<1>13. ASSUME NEW t \in Threads, ResumeSleep(t) PROVE RetInv'
  BY <1>13 DEF ResumeSleep, Fenced
<1>14. ASSUME NEW t \in Threads, Suspended(t) PROVE RetInv'
  BY <1>14 DEF Suspended, CanLock, BeginBroadcast
<1>15. ASSUME NEW t \in Threads, TakeSleepLock(t) PROVE RetInv'
  BY <1>15 DEF TakeSleepLock, Fenced
<1>16. ASSUME NEW t \in Threads, SleepAnnounce(t) PROVE RetInv'
  BY <1>16 DEF SleepAnnounce, CanLock, BeginBroadcast
<1>17. ASSUME NEW t \in Threads, Collect(t) PROVE RetInv'
  BY <1>17 DEF Collect
<1>18. ASSUME NEW t \in Threads, StopInstead(t) PROVE RetInv'
  BY <1>18 DEF StopInstead, StartGc, CanLock, BeginBroadcast
<1>19. ASSUME NEW t \in Threads, LoseGc(t) PROVE RetInv'
  BY <1>19 DEF LoseGc, StartGc, CanLock, BeginBroadcast
<1>20. ASSUME NEW t \in Threads, WinGc(t) PROVE RetInv'
  BY <1>20 DEF WinGc, StartGc, CanLock, BeginBroadcast
<1>21. ASSUME NEW t \in Threads, GiveUpGc(t) PROVE RetInv'
  BY <1>21 DEF GiveUpGc
<1>22. ASSUME NEW t \in Threads, ArmGc(t) PROVE RetInv'
  BY <1>22 DEF ArmGc, Protect, GloballyEnabled, Own
<1>23. ASSUME NEW t \in Threads, Snapshot(t) PROVE RetInv'
  BY <1>23 DEF Snapshot
<1>24. ASSUME NEW t \in Threads, NEW u \in Threads, WorldNext(t, u) PROVE RetInv'
  BY <1>24 DEF WorldNext
<1>25. ASSUME NEW t \in Threads, NEW u \in Threads, WorldSleep(t, u) PROVE RetInv'
  BY <1>25 DEF WorldSleep, CanLock
<1>26. ASSUME NEW t \in Threads, WorldStops(t) PROVE RetInv'
  BY <1>26 DEF WorldStops
<1>27. ASSUME NEW t \in Threads, Collected(t) PROVE RetInv'
  BY <1>27 DEF Collected
<1>28. ASSUME NEW t \in Threads, EndGc(t) PROVE RetInv'
  BY <1>28 DEF EndGc, CanLock
<1>29. ASSUME NEW t \in Threads, EndGcBroadcast(t) PROVE RetInv'
  BY <1>29 DEF EndGcBroadcast, EndBroadcast
<1>30. ASSUME NEW t \in Threads, LeaveGc(t) PROVE RetInv'
  BY <1>30 DEF LeaveGc
<1>31. ASSUME NEW t \in Threads, NEW u \in Threads, Suspend(t, u) PROVE RetInv'
  BY <1>31 DEF Suspend, Protect, CanLock, Own
<1>32. ASSUME NEW t \in Threads, NEW u \in Threads, Resume(t, u) PROVE RetInv'
  BY <1>32 DEF Resume, CanLock, BeginBroadcast
<1>33. ASSUME NEW t \in Threads, SuspendSet(t) PROVE RetInv'
  BY <1>33 DEF SuspendSet, SuspendCheck
<1>34. ASSUME NEW t \in Threads, SuspendWoken(t) PROVE RetInv'
  BY <1>34 DEF SuspendWoken, SuspendCheck
<1>35. ASSUME NEW t \in Threads, AdoptDisable(t) PROVE RetInv'
  BY <1>35 DEF AdoptDisable
<1>36. ASSUME NEW t \in Threads, AdoptInit(t) PROVE RetInv'
  BY <1>36 DEF AdoptInit
<1>37. ASSUME NEW t \in Threads, AdoptEnable(t) PROVE RetInv'
  BY <1>37 DEF AdoptEnable
<1>38. ASSUME ExcludeBegin PROVE RetInv'
  BY <1>38 DEF ExcludeBegin, CanLock
<1>39. ASSUME ExcludeEnd PROVE RetInv'
  BY <1>39 DEF ExcludeEnd
<1>40. ASSUME UNCHANGED vars PROVE RetInv'
  BY <1>40 DEF vars
<1> HIDE DEF At, Goto, Store, control, states, page, world, gc, bounds, RetInv, LabelOK,
    ThreadLabel, ListenerLabel, CollectorAt, ArmedAt, SuspendAt, WaitAt, ResumeAt, State
<1>41. QED BY <1>1, <1>2, <1>3, <1>4, <1>5, <1>6, <1>7, <1>8, <1>9, <1>10, <1>11, <1>12,
  <1>13, <1>14, <1>15, <1>16, <1>17, <1>18, <1>19, <1>20, <1>21, <1>22, <1>23, <1>24, <1>25,
  <1>26, <1>27, <1>28, <1>29, <1>30, <1>31, <1>32, <1>33, <1>34, <1>35, <1>36, <1>37, <1>38,
  <1>39, <1>40 DEF Next, Transition, Collection

(* Mutual exclusion of safepoint_lock, across the steps that hold it. *)
LEMMA LockStep ==
  ASSUME LabelOK, RetInv, LockInv, OneInv, [Next]_vars
  PROVE  LockInv'
<1> USE SafepointAssumption DEF At, Goto, Store, control, states, page, world, gc, bounds,
      LockInv, LabelOK, RetInv, OneInv, ThreadLabel, ListenerLabel, CollectorAt, ArmedAt,
      SuspendAt, WaitAt, ResumeAt, State
<1>1. ASSUME NEW t \in Threads, Stored(t) PROVE LockInv'
  BY <1>1 DEF Stored
<1>2. ASSUME NEW t \in Threads, Poll(t) PROVE LockInv'
  BY <1>2 DEF Poll, Faults
<1>3. ASSUME NEW t \in Threads, SafeEnter(t) PROVE LockInv'
  BY <1>3 DEF SafeEnter
<1>4. ASSUME NEW t \in Threads, SafeLeave(t) PROVE LockInv'
  BY <1>4 DEF SafeLeave
<1>5. ASSUME NEW t \in Threads, SafepointLoad(t) PROVE LockInv'
  BY <1>5 DEF SafepointLoad, Faults
<1>6. ASSUME NEW t \in Threads, SafepointFault(t) PROVE LockInv'
  BY <1>6 DEF SafepointFault, Own, Faults
<1>7. ASSUME NEW t \in Threads, Announce(t) PROVE LockInv'
  BY <1>7 DEF Announce, CanLock, BeginBroadcast
<1>8. ASSUME NEW t \in Threads, Restore(t) PROVE LockInv'
  BY <1>8 DEF Restore
<1>9. ASSUME NEW t \in Threads, WaitGc(t) PROVE LockInv'
  BY <1>9 DEF WaitGc, Return
<1>10. ASSUME NEW t \in Threads, GcSleep(t) PROVE LockInv'
  BY <1>10 DEF GcSleep, CanLock
<1>11. ASSUME NEW t \in Threads, ResumeStore(t) PROVE LockInv'
  BY <1>11 DEF ResumeStore, Own
<1>12. ASSUME NEW t \in Threads, ResumeNow(t) PROVE LockInv'
  BY <1>12 DEF ResumeNow, Fenced, Return
<1>13. ASSUME NEW t \in Threads, ResumeSleep(t) PROVE LockInv'
  BY <1>13 DEF ResumeSleep, Fenced
<1>14. ASSUME NEW t \in Threads, Suspended(t) PROVE LockInv'
  BY <1>14 DEF Suspended, CanLock, BeginBroadcast
<1>15. ASSUME NEW t \in Threads, TakeSleepLock(t) PROVE LockInv'
  BY <1>15 DEF TakeSleepLock, Fenced
<1>16. ASSUME NEW t \in Threads, SleepAnnounce(t) PROVE LockInv'
  BY <1>16 DEF SleepAnnounce, CanLock, BeginBroadcast
<1>17. ASSUME NEW t \in Threads, Collect(t) PROVE LockInv'
  BY <1>17 DEF Collect
<1>18. ASSUME NEW t \in Threads, StopInstead(t) PROVE LockInv'
  BY <1>18 DEF StopInstead, StartGc, CanLock, BeginBroadcast
<1>19. ASSUME NEW t \in Threads, LoseGc(t) PROVE LockInv'
  BY <1>19 DEF LoseGc, StartGc, CanLock, BeginBroadcast
<1>20. ASSUME NEW t \in Threads, WinGc(t) PROVE LockInv'
  BY <1>20 DEF WinGc, StartGc, CanLock, BeginBroadcast
<1>21. ASSUME NEW t \in Threads, GiveUpGc(t) PROVE LockInv'
  BY <1>21 DEF GiveUpGc
<1>22. ASSUME NEW t \in Threads, ArmGc(t) PROVE LockInv'
  BY <1>22 DEF ArmGc, Protect, GloballyEnabled, Own
<1>23. ASSUME NEW t \in Threads, Snapshot(t) PROVE LockInv'
  BY <1>23 DEF Snapshot
<1>24. ASSUME NEW t \in Threads, NEW u \in Threads, WorldNext(t, u) PROVE LockInv'
  BY <1>24 DEF WorldNext
<1>25. ASSUME NEW t \in Threads, NEW u \in Threads, WorldSleep(t, u) PROVE LockInv'
  BY <1>25 DEF WorldSleep, CanLock
<1>26. ASSUME NEW t \in Threads, WorldStops(t) PROVE LockInv'
  BY <1>26 DEF WorldStops
<1>27. ASSUME NEW t \in Threads, Collected(t) PROVE LockInv'
  BY <1>27 DEF Collected
<1>28. ASSUME NEW t \in Threads, EndGc(t) PROVE LockInv'
  BY <1>28 DEF EndGc, CanLock
<1>29. ASSUME NEW t \in Threads, EndGcBroadcast(t) PROVE LockInv'
  BY <1>29 DEF EndGcBroadcast, EndBroadcast
<1>30. ASSUME NEW t \in Threads, LeaveGc(t) PROVE LockInv'
  BY <1>30 DEF LeaveGc
<1>31. ASSUME NEW t \in Threads, NEW u \in Threads, Suspend(t, u) PROVE LockInv'
  BY <1>31 DEF Suspend, Protect, CanLock, Own
<1>32. ASSUME NEW t \in Threads, NEW u \in Threads, Resume(t, u) PROVE LockInv'
  BY <1>32 DEF Resume, CanLock, BeginBroadcast
<1>33. ASSUME NEW t \in Threads, SuspendSet(t) PROVE LockInv'
  BY <1>33 DEF SuspendSet, SuspendCheck
<1>34. ASSUME NEW t \in Threads, SuspendWoken(t) PROVE LockInv'
  BY <1>34 DEF SuspendWoken, SuspendCheck
<1>35. ASSUME NEW t \in Threads, AdoptDisable(t) PROVE LockInv'
  BY <1>35 DEF AdoptDisable
<1>36. ASSUME NEW t \in Threads, AdoptInit(t) PROVE LockInv'
  BY <1>36 DEF AdoptInit
<1>37. ASSUME NEW t \in Threads, AdoptEnable(t) PROVE LockInv'
  BY <1>37 DEF AdoptEnable
<1>38. ASSUME ExcludeBegin PROVE LockInv'
  BY <1>38 DEF ExcludeBegin, CanLock
<1>39. ASSUME ExcludeEnd PROVE LockInv'
  BY <1>39 DEF ExcludeEnd
<1>40. ASSUME UNCHANGED vars PROVE LockInv'
  BY <1>40 DEF vars
<1> HIDE DEF At, Goto, Store, control, states, page, world, gc, bounds, LockInv, LabelOK,
    RetInv, OneInv, ThreadLabel, ListenerLabel, CollectorAt, ArmedAt, SuspendAt, WaitAt,
    ResumeAt, State
<1>41. QED BY <1>1, <1>2, <1>3, <1>4, <1>5, <1>6, <1>7, <1>8, <1>9, <1>10, <1>11, <1>12,
  <1>13, <1>14, <1>15, <1>16, <1>17, <1>18, <1>19, <1>20, <1>21, <1>22, <1>23, <1>24, <1>25,
  <1>26, <1>27, <1>28, <1>29, <1>30, <1>31, <1>32, <1>33, <1>34, <1>35, <1>36, <1>37, <1>38,
  <1>39, <1>40 DEF Next, Transition, Collection

(* jl_gc_running and the armed pages belong to one collector. *)
LEMMA OneStep ==
  ASSUME LabelOK, RetInv, OneInv, [Next]_vars
  PROVE  OneInv'
<1> USE SafepointAssumption DEF At, Goto, Store, control, states, page, world, gc, bounds,
      OneInv, LabelOK, RetInv, ThreadLabel, ListenerLabel, CollectorAt, ArmedAt, SuspendAt,
      WaitAt, ResumeAt, State
<1>1. ASSUME NEW t \in Threads, Stored(t) PROVE OneInv'
  BY <1>1 DEF Stored
<1>2. ASSUME NEW t \in Threads, Poll(t) PROVE OneInv'
  BY <1>2 DEF Poll, Faults
<1>3. ASSUME NEW t \in Threads, SafeEnter(t) PROVE OneInv'
  BY <1>3 DEF SafeEnter
<1>4. ASSUME NEW t \in Threads, SafeLeave(t) PROVE OneInv'
  BY <1>4 DEF SafeLeave
<1>5. ASSUME NEW t \in Threads, SafepointLoad(t) PROVE OneInv'
  BY <1>5 DEF SafepointLoad, Faults
<1>6. ASSUME NEW t \in Threads, SafepointFault(t) PROVE OneInv'
  BY <1>6 DEF SafepointFault, Own, Faults
<1>7. ASSUME NEW t \in Threads, Announce(t) PROVE OneInv'
  <2>1. \A v \in Threads :
          /\ (pc'[v] \in CollectorAt <=> pc[v] \in CollectorAt)
          /\ (pc'[v] \in ArmedAt <=> pc[v] \in ArmedAt)
    BY <1>7 DEF Announce, CanLock, BeginBroadcast
  <2>2. UNCHANGED <<jl_gc_running, armed>> BY <1>7 DEF Announce, CanLock, BeginBroadcast
  <2>3. QED BY <2>1, <2>2
<1>8. ASSUME NEW t \in Threads, Restore(t) PROVE OneInv'
  BY <1>8 DEF Restore
<1>9. ASSUME NEW t \in Threads, WaitGc(t) PROVE OneInv'
  BY <1>9 DEF WaitGc, Return
<1>10. ASSUME NEW t \in Threads, GcSleep(t) PROVE OneInv'
  BY <1>10 DEF GcSleep, CanLock
<1>11. ASSUME NEW t \in Threads, ResumeStore(t) PROVE OneInv'
  BY <1>11 DEF ResumeStore, Own
<1>12. ASSUME NEW t \in Threads, ResumeNow(t) PROVE OneInv'
  BY <1>12 DEF ResumeNow, Fenced, Return
<1>13. ASSUME NEW t \in Threads, ResumeSleep(t) PROVE OneInv'
  BY <1>13 DEF ResumeSleep, Fenced
<1>14. ASSUME NEW t \in Threads, Suspended(t) PROVE OneInv'
  <2>1. \A v \in Threads :
          /\ (pc'[v] \in CollectorAt <=> pc[v] \in CollectorAt)
          /\ (pc'[v] \in ArmedAt <=> pc[v] \in ArmedAt)
    BY <1>14 DEF Suspended, CanLock, BeginBroadcast
  <2>2. UNCHANGED <<jl_gc_running, armed>> BY <1>14 DEF Suspended, CanLock, BeginBroadcast
  <2>3. QED BY <2>1, <2>2
<1>15. ASSUME NEW t \in Threads, TakeSleepLock(t) PROVE OneInv'
  BY <1>15 DEF TakeSleepLock, Fenced
<1>16. ASSUME NEW t \in Threads, SleepAnnounce(t) PROVE OneInv'
  <2>1. \A v \in Threads :
          /\ (pc'[v] \in CollectorAt <=> pc[v] \in CollectorAt)
          /\ (pc'[v] \in ArmedAt <=> pc[v] \in ArmedAt)
    BY <1>16 DEF SleepAnnounce, CanLock, BeginBroadcast
  <2>2. UNCHANGED <<jl_gc_running, armed>> BY <1>16 DEF SleepAnnounce, CanLock, BeginBroadcast
  <2>3. QED BY <2>1, <2>2
<1>17. ASSUME NEW t \in Threads, Collect(t) PROVE OneInv'
  BY <1>17 DEF Collect
<1>18. ASSUME NEW t \in Threads, StopInstead(t) PROVE OneInv'
  <2>1. \A v \in Threads :
          /\ (pc'[v] \in CollectorAt <=> pc[v] \in CollectorAt)
          /\ (pc'[v] \in ArmedAt <=> pc[v] \in ArmedAt)
    BY <1>18 DEF StopInstead, StartGc, CanLock, BeginBroadcast
  <2>2. UNCHANGED <<jl_gc_running, armed>> BY <1>18 DEF StopInstead, StartGc, CanLock,
    BeginBroadcast
  <2>3. QED BY <2>1, <2>2
<1>19. ASSUME NEW t \in Threads, LoseGc(t) PROVE OneInv'
  <2>1. \A v \in Threads :
          /\ (pc'[v] \in CollectorAt <=> pc[v] \in CollectorAt)
          /\ (pc'[v] \in ArmedAt <=> pc[v] \in ArmedAt)
    BY <1>19 DEF LoseGc, StartGc, CanLock, BeginBroadcast
  <2>2. UNCHANGED <<jl_gc_running, armed>> BY <1>19 DEF LoseGc, StartGc, CanLock,
    BeginBroadcast
  <2>3. QED BY <2>1, <2>2
<1>20. ASSUME NEW t \in Threads, WinGc(t) PROVE OneInv'
  <2>1. \A v \in Threads :
          /\ (pc'[v] \in CollectorAt <=> pc[v] \in CollectorAt \/ v = t)
          /\ (pc'[v] \in ArmedAt <=> pc[v] \in ArmedAt)
    BY <1>20 DEF WinGc, StartGc, CanLock, BeginBroadcast
  <2>2. ~jl_gc_running /\ jl_gc_running' /\ armed' = armed BY <1>20 DEF WinGc
  <2>3. QED BY <2>1, <2>2
<1>21. ASSUME NEW t \in Threads, GiveUpGc(t) PROVE OneInv'
  BY <1>21 DEF GiveUpGc
<1>22. ASSUME NEW t \in Threads, ArmGc(t) PROVE OneInv'
  BY <1>22 DEF ArmGc, Protect, GloballyEnabled, Own
<1>23. ASSUME NEW t \in Threads, Snapshot(t) PROVE OneInv'
  BY <1>23 DEF Snapshot
<1>24. ASSUME NEW t \in Threads, NEW u \in Threads, WorldNext(t, u) PROVE OneInv'
  BY <1>24 DEF WorldNext
<1>25. ASSUME NEW t \in Threads, NEW u \in Threads, WorldSleep(t, u) PROVE OneInv'
  BY <1>25 DEF WorldSleep, CanLock
<1>26. ASSUME NEW t \in Threads, WorldStops(t) PROVE OneInv'
  BY <1>26 DEF WorldStops
<1>27. ASSUME NEW t \in Threads, Collected(t) PROVE OneInv'
  BY <1>27 DEF Collected
<1>28. ASSUME NEW t \in Threads, EndGc(t) PROVE OneInv'
  BY <1>28 DEF EndGc, CanLock
<1>29. ASSUME NEW t \in Threads, EndGcBroadcast(t) PROVE OneInv'
  <2>1. \A v \in Threads :
          /\ (pc'[v] \in CollectorAt <=> pc[v] \in CollectorAt)
          /\ (pc'[v] \in ArmedAt <=> pc[v] \in ArmedAt)
    BY <1>29 DEF EndGcBroadcast, EndBroadcast
  <2>2. UNCHANGED <<jl_gc_running, armed>> BY <1>29 DEF EndGcBroadcast, EndBroadcast
  <2>3. QED BY <2>1, <2>2
<1>30. ASSUME NEW t \in Threads, LeaveGc(t) PROVE OneInv'
  BY <1>30 DEF LeaveGc
<1>31. ASSUME NEW t \in Threads, NEW u \in Threads, Suspend(t, u) PROVE OneInv'
  BY <1>31 DEF Suspend, Protect, CanLock, Own
<1>32. ASSUME NEW t \in Threads, NEW u \in Threads, Resume(t, u) PROVE OneInv'
  <2>1. \A v \in Threads :
          /\ (pc'[v] \in CollectorAt <=> pc[v] \in CollectorAt)
          /\ (pc'[v] \in ArmedAt <=> pc[v] \in ArmedAt)
    BY <1>32 DEF Resume, CanLock, BeginBroadcast
  <2>2. UNCHANGED <<jl_gc_running, armed>> BY <1>32 DEF Resume, CanLock, BeginBroadcast
  <2>3. QED BY <2>1, <2>2
<1>33. ASSUME NEW t \in Threads, SuspendSet(t) PROVE OneInv'
  BY <1>33 DEF SuspendSet, SuspendCheck
<1>34. ASSUME NEW t \in Threads, SuspendWoken(t) PROVE OneInv'
  BY <1>34 DEF SuspendWoken, SuspendCheck
<1>35. ASSUME NEW t \in Threads, AdoptDisable(t) PROVE OneInv'
  BY <1>35 DEF AdoptDisable
<1>36. ASSUME NEW t \in Threads, AdoptInit(t) PROVE OneInv'
  BY <1>36 DEF AdoptInit
<1>37. ASSUME NEW t \in Threads, AdoptEnable(t) PROVE OneInv'
  BY <1>37 DEF AdoptEnable
<1>38. ASSUME ExcludeBegin PROVE OneInv'
  BY <1>38 DEF ExcludeBegin, CanLock
<1>39. ASSUME ExcludeEnd PROVE OneInv'
  BY <1>39 DEF ExcludeEnd
<1>40. ASSUME UNCHANGED vars PROVE OneInv'
  BY <1>40 DEF vars
<1> HIDE DEF At, Goto, Store, control, states, page, world, gc, bounds, OneInv, LabelOK,
    RetInv, ThreadLabel, ListenerLabel, CollectorAt, ArmedAt, SuspendAt, WaitAt, ResumeAt,
    State
<1>41. QED BY <1>1, <1>2, <1>3, <1>4, <1>5, <1>6, <1>7, <1>8, <1>9, <1>10, <1>11, <1>12,
  <1>13, <1>14, <1>15, <1>16, <1>17, <1>18, <1>19, <1>20, <1>21, <1>22, <1>23, <1>24, <1>25,
  <1>26, <1>27, <1>28, <1>29, <1>30, <1>31, <1>32, <1>33, <1>34, <1>35, <1>36, <1>37, <1>38,
  <1>39, <1>40 DEF Next, Transition, Collection

(* gc_state, as its thread sees it, says what the thread does. *)
LEMMA StateStep ==
  ASSUME LabelOK, RetInv, OneInv, StateInv, [Next]_vars
  PROVE  StateInv'
<1> USE SafepointAssumption DEF At, Goto, Store, control, states, page, world, gc, bounds,
      StateInv, LabelOK, RetInv, OneInv, Own, Expected, StateAfter, LagAt, ThreadLabel,
      ListenerLabel, CollectorAt, ArmedAt, SuspendAt, WaitAt, ResumeAt, State
<1>1. ASSUME NEW t \in Threads, Stored(t) PROVE StateInv'
  BY <1>1 DEF Stored
<1>2. ASSUME NEW t \in Threads, Poll(t) PROVE StateInv'
  BY <1>2 DEF Poll, Faults
<1>3. ASSUME NEW t \in Threads, SafeEnter(t) PROVE StateInv'
  BY <1>3 DEF SafeEnter
<1>4. ASSUME NEW t \in Threads, SafeLeave(t) PROVE StateInv'
  BY <1>4 DEF SafeLeave
<1>5. ASSUME NEW t \in Threads, SafepointLoad(t) PROVE StateInv'
  BY <1>5 DEF SafepointLoad, Faults
<1>6. ASSUME NEW t \in Threads, SafepointFault(t) PROVE StateInv'
  BY <1>6 DEF SafepointFault, Faults
<1>7. ASSUME NEW t \in Threads, Announce(t) PROVE StateInv'
  BY <1>7 DEF Announce, CanLock, BeginBroadcast
<1>8. ASSUME NEW t \in Threads, Restore(t) PROVE StateInv'
  BY <1>8 DEF Restore
<1>9. ASSUME NEW t \in Threads, WaitGc(t) PROVE StateInv'
  BY <1>9 DEF WaitGc, Return
<1>10. ASSUME NEW t \in Threads, GcSleep(t) PROVE StateInv'
  BY <1>10 DEF GcSleep, CanLock
<1>11. ASSUME NEW t \in Threads, ResumeStore(t) PROVE StateInv'
  BY <1>11 DEF ResumeStore
<1>12. ASSUME NEW t \in Threads, ResumeNow(t) PROVE StateInv'
  BY <1>12 DEF ResumeNow, Fenced, Return
<1>13. ASSUME NEW t \in Threads, ResumeSleep(t) PROVE StateInv'
  BY <1>13 DEF ResumeSleep, Fenced
<1>14. ASSUME NEW t \in Threads, Suspended(t) PROVE StateInv'
  BY <1>14 DEF Suspended, CanLock, BeginBroadcast
<1>15. ASSUME NEW t \in Threads, TakeSleepLock(t) PROVE StateInv'
  BY <1>15 DEF TakeSleepLock, Fenced
<1>16. ASSUME NEW t \in Threads, SleepAnnounce(t) PROVE StateInv'
  BY <1>16 DEF SleepAnnounce, CanLock, BeginBroadcast
<1>17. ASSUME NEW t \in Threads, Collect(t) PROVE StateInv'
  BY <1>17 DEF Collect
<1>18. ASSUME NEW t \in Threads, StopInstead(t) PROVE StateInv'
  BY <1>18, SMTT(30) DEF StopInstead, StartGc, CanLock, BeginBroadcast
<1>19. ASSUME NEW t \in Threads, LoseGc(t) PROVE StateInv'
  BY <1>19, SMTT(30) DEF LoseGc, StartGc, CanLock, BeginBroadcast
<1>20. ASSUME NEW t \in Threads, WinGc(t) PROVE StateInv'
  BY <1>20, SMTT(30) DEF WinGc, StartGc, CanLock, BeginBroadcast
<1>21. ASSUME NEW t \in Threads, GiveUpGc(t) PROVE StateInv'
  BY <1>21 DEF GiveUpGc
<1>22. ASSUME NEW t \in Threads, ArmGc(t) PROVE StateInv'
  BY <1>22 DEF ArmGc, Protect, GloballyEnabled
<1>23. ASSUME NEW t \in Threads, Snapshot(t) PROVE StateInv'
  BY <1>23 DEF Snapshot
<1>24. ASSUME NEW t \in Threads, NEW u \in Threads, WorldNext(t, u) PROVE StateInv'
  BY <1>24 DEF WorldNext
<1>25. ASSUME NEW t \in Threads, NEW u \in Threads, WorldSleep(t, u) PROVE StateInv'
  BY <1>25 DEF WorldSleep, CanLock
<1>26. ASSUME NEW t \in Threads, WorldStops(t) PROVE StateInv'
  BY <1>26 DEF WorldStops
<1>27. ASSUME NEW t \in Threads, Collected(t) PROVE StateInv'
  BY <1>27 DEF Collected
<1>28. ASSUME NEW t \in Threads, EndGc(t) PROVE StateInv'
  BY <1>28 DEF EndGc, CanLock
<1>29. ASSUME NEW t \in Threads, EndGcBroadcast(t) PROVE StateInv'
  BY <1>29 DEF EndGcBroadcast, EndBroadcast
<1>30. ASSUME NEW t \in Threads, LeaveGc(t) PROVE StateInv'
  BY <1>30 DEF LeaveGc
<1>31. ASSUME NEW t \in Threads, NEW u \in Threads, Suspend(t, u) PROVE StateInv'
  BY <1>31 DEF Suspend, Protect, CanLock
<1>32. ASSUME NEW t \in Threads, NEW u \in Threads, Resume(t, u) PROVE StateInv'
  BY <1>32 DEF Resume, CanLock, BeginBroadcast
<1>33. ASSUME NEW t \in Threads, SuspendSet(t) PROVE StateInv'
  BY <1>33 DEF SuspendSet, SuspendCheck
<1>34. ASSUME NEW t \in Threads, SuspendWoken(t) PROVE StateInv'
  BY <1>34 DEF SuspendWoken, SuspendCheck
<1>35. ASSUME NEW t \in Threads, AdoptDisable(t) PROVE StateInv'
  BY <1>35 DEF AdoptDisable
<1>36. ASSUME NEW t \in Threads, AdoptInit(t) PROVE StateInv'
  BY <1>36 DEF AdoptInit
<1>37. ASSUME NEW t \in Threads, AdoptEnable(t) PROVE StateInv'
  BY <1>37 DEF AdoptEnable
<1>38. ASSUME ExcludeBegin PROVE StateInv'
  BY <1>38 DEF ExcludeBegin, CanLock
<1>39. ASSUME ExcludeEnd PROVE StateInv'
  BY <1>39 DEF ExcludeEnd
<1>40. ASSUME UNCHANGED vars PROVE StateInv'
  BY <1>40 DEF vars
<1> HIDE DEF At, Goto, Store, control, states, page, world, gc, bounds, StateInv, LabelOK,
    RetInv, OneInv, Own, Expected, StateAfter, LagAt, ThreadLabel, ListenerLabel,
    CollectorAt, ArmedAt, SuspendAt, WaitAt, ResumeAt, State
<1>41. QED BY <1>1, <1>2, <1>3, <1>4, <1>5, <1>6, <1>7, <1>8, <1>9, <1>10, <1>11, <1>12,
  <1>13, <1>14, <1>15, <1>16, <1>17, <1>18, <1>19, <1>20, <1>21, <1>22, <1>23, <1>24, <1>25,
  <1>26, <1>27, <1>28, <1>29, <1>30, <1>31, <1>32, <1>33, <1>34, <1>35, <1>36, <1>37, <1>38,
  <1>39, <1>40, ZenonT(60) DEF Next, Transition, Collection

(* Adoptions under way are counted. *)
LEMMA AdoptionFinite == IsFiniteSet(InAdoption)
BY FS_Subset, SafepointAssumption DEF InAdoption

LEMMA EnabledMeansNoAdoption ==
  ASSUME CountInv, jl_gc_disable_counter = 0 PROVE InAdoption = {}
BY AdoptionFinite, FS_EmptySet DEF CountInv

LEMMA CountStep ==
  ASSUME LabelOK, RetInv, AdoptInv, CountInv, [Next]_vars
  PROVE  CountInv'
<1> USE SafepointAssumption DEF At, Goto, Store, control, states, page, world, gc, bounds
<1>1. ASSUME NEW t \in Threads, Stored(t) PROVE CountInv'
  <2>1. InAdoption' = InAdoption
    BY <1>1 DEF Stored, InAdoption, LabelOK, RetInv, ThreadLabel, ListenerLabel, CollectorAt,
      ArmedAt, SuspendAt, WaitAt, ResumeAt, State
  <2>2. UNCHANGED jl_gc_disable_counter BY <1>1 DEF Stored
  <2>3. QED BY <2>1, <2>2 DEF CountInv
<1>2. ASSUME NEW t \in Threads, Poll(t) PROVE CountInv'
  <2>1. InAdoption' = InAdoption
    BY <1>2 DEF Poll, Faults, InAdoption, LabelOK, RetInv, ThreadLabel, ListenerLabel,
      CollectorAt, ArmedAt, SuspendAt, WaitAt, ResumeAt, State
  <2>2. UNCHANGED jl_gc_disable_counter BY <1>2 DEF Poll, Faults
  <2>3. QED BY <2>1, <2>2 DEF CountInv
<1>3. ASSUME NEW t \in Threads, SafeEnter(t) PROVE CountInv'
  <2>1. InAdoption' = InAdoption
    BY <1>3 DEF SafeEnter, InAdoption, LabelOK, RetInv, ThreadLabel, ListenerLabel,
      CollectorAt, ArmedAt, SuspendAt, WaitAt, ResumeAt, State
  <2>2. UNCHANGED jl_gc_disable_counter BY <1>3 DEF SafeEnter
  <2>3. QED BY <2>1, <2>2 DEF CountInv
<1>4. ASSUME NEW t \in Threads, SafeLeave(t) PROVE CountInv'
  <2>1. InAdoption' = InAdoption
    BY <1>4 DEF SafeLeave, InAdoption, LabelOK, RetInv, ThreadLabel, ListenerLabel,
      CollectorAt, ArmedAt, SuspendAt, WaitAt, ResumeAt, State
  <2>2. UNCHANGED jl_gc_disable_counter BY <1>4 DEF SafeLeave
  <2>3. QED BY <2>1, <2>2 DEF CountInv
<1>5. ASSUME NEW t \in Threads, SafepointLoad(t) PROVE CountInv'
  <2>1. InAdoption' = InAdoption
    BY <1>5 DEF SafepointLoad, Faults, InAdoption, LabelOK, RetInv, ThreadLabel,
      ListenerLabel, CollectorAt, ArmedAt, SuspendAt, WaitAt, ResumeAt, State
  <2>2. UNCHANGED jl_gc_disable_counter BY <1>5 DEF SafepointLoad, Faults
  <2>3. QED BY <2>1, <2>2 DEF CountInv
<1>6. ASSUME NEW t \in Threads, SafepointFault(t) PROVE CountInv'
  <2>1. InAdoption' = InAdoption
    BY <1>6 DEF SafepointFault, Own, Faults, InAdoption, LabelOK, RetInv, ThreadLabel,
      ListenerLabel, CollectorAt, ArmedAt, SuspendAt, WaitAt, ResumeAt, State
  <2>2. UNCHANGED jl_gc_disable_counter BY <1>6 DEF SafepointFault, Own, Faults
  <2>3. QED BY <2>1, <2>2 DEF CountInv
<1>7. ASSUME NEW t \in Threads, Announce(t) PROVE CountInv'
  <2>1. InAdoption' = InAdoption
    BY <1>7 DEF Announce, CanLock, BeginBroadcast, InAdoption, LabelOK, RetInv, ThreadLabel,
      ListenerLabel, CollectorAt, ArmedAt, SuspendAt, WaitAt, ResumeAt, State
  <2>2. UNCHANGED jl_gc_disable_counter BY <1>7 DEF Announce, CanLock, BeginBroadcast
  <2>3. QED BY <2>1, <2>2 DEF CountInv
<1>8. ASSUME NEW t \in Threads, Restore(t) PROVE CountInv'
  <2>1. InAdoption' = InAdoption
    BY <1>8 DEF Restore, InAdoption, LabelOK, RetInv, ThreadLabel, ListenerLabel, CollectorAt,
      ArmedAt, SuspendAt, WaitAt, ResumeAt, State
  <2>2. UNCHANGED jl_gc_disable_counter BY <1>8 DEF Restore
  <2>3. QED BY <2>1, <2>2 DEF CountInv
<1>9. ASSUME NEW t \in Threads, WaitGc(t) PROVE CountInv'
  <2>1. InAdoption' = InAdoption
    BY <1>9 DEF WaitGc, Return, InAdoption, LabelOK, RetInv, ThreadLabel, ListenerLabel,
      CollectorAt, ArmedAt, SuspendAt, WaitAt, ResumeAt, State
  <2>2. UNCHANGED jl_gc_disable_counter BY <1>9 DEF WaitGc, Return
  <2>3. QED BY <2>1, <2>2 DEF CountInv
<1>10. ASSUME NEW t \in Threads, GcSleep(t) PROVE CountInv'
  <2>1. InAdoption' = InAdoption
    BY <1>10 DEF GcSleep, CanLock, InAdoption, LabelOK, RetInv, ThreadLabel, ListenerLabel,
      CollectorAt, ArmedAt, SuspendAt, WaitAt, ResumeAt, State
  <2>2. UNCHANGED jl_gc_disable_counter BY <1>10 DEF GcSleep, CanLock
  <2>3. QED BY <2>1, <2>2 DEF CountInv
<1>11. ASSUME NEW t \in Threads, ResumeStore(t) PROVE CountInv'
  <2>1. InAdoption' = InAdoption
    BY <1>11 DEF ResumeStore, Own, InAdoption, LabelOK, RetInv, ThreadLabel, ListenerLabel,
      CollectorAt, ArmedAt, SuspendAt, WaitAt, ResumeAt, State
  <2>2. UNCHANGED jl_gc_disable_counter BY <1>11 DEF ResumeStore, Own
  <2>3. QED BY <2>1, <2>2 DEF CountInv
<1>12. ASSUME NEW t \in Threads, ResumeNow(t) PROVE CountInv'
  <2>1. InAdoption' = InAdoption
    BY <1>12 DEF ResumeNow, Fenced, Return, InAdoption, LabelOK, RetInv, ThreadLabel,
      ListenerLabel, CollectorAt, ArmedAt, SuspendAt, WaitAt, ResumeAt, State
  <2>2. UNCHANGED jl_gc_disable_counter BY <1>12 DEF ResumeNow, Fenced, Return
  <2>3. QED BY <2>1, <2>2 DEF CountInv
<1>13. ASSUME NEW t \in Threads, ResumeSleep(t) PROVE CountInv'
  <2>1. InAdoption' = InAdoption
    BY <1>13 DEF ResumeSleep, Fenced, InAdoption, LabelOK, RetInv, ThreadLabel, ListenerLabel,
      CollectorAt, ArmedAt, SuspendAt, WaitAt, ResumeAt, State
  <2>2. UNCHANGED jl_gc_disable_counter BY <1>13 DEF ResumeSleep, Fenced
  <2>3. QED BY <2>1, <2>2 DEF CountInv
<1>14. ASSUME NEW t \in Threads, Suspended(t) PROVE CountInv'
  <2>1. InAdoption' = InAdoption
    BY <1>14 DEF Suspended, CanLock, BeginBroadcast, InAdoption, LabelOK, RetInv, ThreadLabel,
      ListenerLabel, CollectorAt, ArmedAt, SuspendAt, WaitAt, ResumeAt, State
  <2>2. UNCHANGED jl_gc_disable_counter BY <1>14 DEF Suspended, CanLock, BeginBroadcast
  <2>3. QED BY <2>1, <2>2 DEF CountInv
<1>15. ASSUME NEW t \in Threads, TakeSleepLock(t) PROVE CountInv'
  <2>1. InAdoption' = InAdoption
    BY <1>15 DEF TakeSleepLock, Fenced, InAdoption, LabelOK, RetInv, ThreadLabel,
      ListenerLabel, CollectorAt, ArmedAt, SuspendAt, WaitAt, ResumeAt, State
  <2>2. UNCHANGED jl_gc_disable_counter BY <1>15 DEF TakeSleepLock, Fenced
  <2>3. QED BY <2>1, <2>2 DEF CountInv
<1>16. ASSUME NEW t \in Threads, SleepAnnounce(t) PROVE CountInv'
  <2>1. InAdoption' = InAdoption
    BY <1>16 DEF SleepAnnounce, CanLock, BeginBroadcast, InAdoption, LabelOK, RetInv,
      ThreadLabel, ListenerLabel, CollectorAt, ArmedAt, SuspendAt, WaitAt, ResumeAt, State
  <2>2. UNCHANGED jl_gc_disable_counter BY <1>16 DEF SleepAnnounce, CanLock, BeginBroadcast
  <2>3. QED BY <2>1, <2>2 DEF CountInv
<1>17. ASSUME NEW t \in Threads, Collect(t) PROVE CountInv'
  <2>1. InAdoption' = InAdoption
    BY <1>17 DEF Collect, InAdoption, LabelOK, RetInv, ThreadLabel, ListenerLabel,
      CollectorAt, ArmedAt, SuspendAt, WaitAt, ResumeAt, State
  <2>2. UNCHANGED jl_gc_disable_counter BY <1>17 DEF Collect
  <2>3. QED BY <2>1, <2>2 DEF CountInv
<1>18. ASSUME NEW t \in Threads, StopInstead(t) PROVE CountInv'
  <2>1. InAdoption' = InAdoption
    BY <1>18 DEF StopInstead, StartGc, CanLock, BeginBroadcast, InAdoption, LabelOK, RetInv,
      ThreadLabel, ListenerLabel, CollectorAt, ArmedAt, SuspendAt, WaitAt, ResumeAt, State
  <2>2. UNCHANGED jl_gc_disable_counter BY <1>18 DEF StopInstead, StartGc, CanLock,
    BeginBroadcast
  <2>3. QED BY <2>1, <2>2 DEF CountInv
<1>19. ASSUME NEW t \in Threads, LoseGc(t) PROVE CountInv'
  <2>1. InAdoption' = InAdoption
    BY <1>19 DEF LoseGc, StartGc, CanLock, BeginBroadcast, InAdoption, LabelOK, RetInv,
      ThreadLabel, ListenerLabel, CollectorAt, ArmedAt, SuspendAt, WaitAt, ResumeAt, State
  <2>2. UNCHANGED jl_gc_disable_counter BY <1>19 DEF LoseGc, StartGc, CanLock, BeginBroadcast
  <2>3. QED BY <2>1, <2>2 DEF CountInv
<1>20. ASSUME NEW t \in Threads, WinGc(t) PROVE CountInv'
  <2>1. InAdoption' = InAdoption
    BY <1>20 DEF WinGc, StartGc, CanLock, BeginBroadcast, InAdoption, LabelOK, RetInv,
      ThreadLabel, ListenerLabel, CollectorAt, ArmedAt, SuspendAt, WaitAt, ResumeAt, State
  <2>2. UNCHANGED jl_gc_disable_counter BY <1>20 DEF WinGc, StartGc, CanLock, BeginBroadcast
  <2>3. QED BY <2>1, <2>2 DEF CountInv
<1>21. ASSUME NEW t \in Threads, GiveUpGc(t) PROVE CountInv'
  <2>1. InAdoption' = InAdoption
    BY <1>21 DEF GiveUpGc, InAdoption, LabelOK, RetInv, ThreadLabel, ListenerLabel,
      CollectorAt, ArmedAt, SuspendAt, WaitAt, ResumeAt, State
  <2>2. UNCHANGED jl_gc_disable_counter BY <1>21 DEF GiveUpGc
  <2>3. QED BY <2>1, <2>2 DEF CountInv
<1>22. ASSUME NEW t \in Threads, ArmGc(t) PROVE CountInv'
  <2>1. InAdoption' = InAdoption
    BY <1>22 DEF ArmGc, Protect, GloballyEnabled, Own, InAdoption, LabelOK, RetInv,
      ThreadLabel, ListenerLabel, CollectorAt, ArmedAt, SuspendAt, WaitAt, ResumeAt, State
  <2>2. UNCHANGED jl_gc_disable_counter BY <1>22 DEF ArmGc, Protect, GloballyEnabled, Own
  <2>3. QED BY <2>1, <2>2 DEF CountInv
<1>23. ASSUME NEW t \in Threads, Snapshot(t) PROVE CountInv'
  <2>1. InAdoption' = InAdoption
    BY <1>23 DEF Snapshot, InAdoption, LabelOK, RetInv, ThreadLabel, ListenerLabel,
      CollectorAt, ArmedAt, SuspendAt, WaitAt, ResumeAt, State
  <2>2. UNCHANGED jl_gc_disable_counter BY <1>23 DEF Snapshot
  <2>3. QED BY <2>1, <2>2 DEF CountInv
<1>24. ASSUME NEW t \in Threads, NEW u \in Threads, WorldNext(t, u) PROVE CountInv'
  <2>1. InAdoption' = InAdoption
    BY <1>24 DEF WorldNext, InAdoption, LabelOK, RetInv, ThreadLabel, ListenerLabel,
      CollectorAt, ArmedAt, SuspendAt, WaitAt, ResumeAt, State
  <2>2. UNCHANGED jl_gc_disable_counter BY <1>24 DEF WorldNext
  <2>3. QED BY <2>1, <2>2 DEF CountInv
<1>25. ASSUME NEW t \in Threads, NEW u \in Threads, WorldSleep(t, u) PROVE CountInv'
  <2>1. InAdoption' = InAdoption
    BY <1>25 DEF WorldSleep, CanLock, InAdoption, LabelOK, RetInv, ThreadLabel, ListenerLabel,
      CollectorAt, ArmedAt, SuspendAt, WaitAt, ResumeAt, State
  <2>2. UNCHANGED jl_gc_disable_counter BY <1>25 DEF WorldSleep, CanLock
  <2>3. QED BY <2>1, <2>2 DEF CountInv
<1>26. ASSUME NEW t \in Threads, WorldStops(t) PROVE CountInv'
  <2>1. InAdoption' = InAdoption
    BY <1>26 DEF WorldStops, InAdoption, LabelOK, RetInv, ThreadLabel, ListenerLabel,
      CollectorAt, ArmedAt, SuspendAt, WaitAt, ResumeAt, State
  <2>2. UNCHANGED jl_gc_disable_counter BY <1>26 DEF WorldStops
  <2>3. QED BY <2>1, <2>2 DEF CountInv
<1>27. ASSUME NEW t \in Threads, Collected(t) PROVE CountInv'
  <2>1. InAdoption' = InAdoption
    BY <1>27 DEF Collected, InAdoption, LabelOK, RetInv, ThreadLabel, ListenerLabel,
      CollectorAt, ArmedAt, SuspendAt, WaitAt, ResumeAt, State
  <2>2. UNCHANGED jl_gc_disable_counter BY <1>27 DEF Collected
  <2>3. QED BY <2>1, <2>2 DEF CountInv
<1>28. ASSUME NEW t \in Threads, EndGc(t) PROVE CountInv'
  <2>1. InAdoption' = InAdoption
    BY <1>28 DEF EndGc, CanLock, InAdoption, LabelOK, RetInv, ThreadLabel, ListenerLabel,
      CollectorAt, ArmedAt, SuspendAt, WaitAt, ResumeAt, State
  <2>2. UNCHANGED jl_gc_disable_counter BY <1>28 DEF EndGc, CanLock
  <2>3. QED BY <2>1, <2>2 DEF CountInv
<1>29. ASSUME NEW t \in Threads, EndGcBroadcast(t) PROVE CountInv'
  <2>1. InAdoption' = InAdoption
    BY <1>29 DEF EndGcBroadcast, EndBroadcast, InAdoption, LabelOK, RetInv, ThreadLabel,
      ListenerLabel, CollectorAt, ArmedAt, SuspendAt, WaitAt, ResumeAt, State
  <2>2. UNCHANGED jl_gc_disable_counter BY <1>29 DEF EndGcBroadcast, EndBroadcast
  <2>3. QED BY <2>1, <2>2 DEF CountInv
<1>30. ASSUME NEW t \in Threads, LeaveGc(t) PROVE CountInv'
  <2>1. InAdoption' = InAdoption
    BY <1>30 DEF LeaveGc, InAdoption, LabelOK, RetInv, ThreadLabel, ListenerLabel,
      CollectorAt, ArmedAt, SuspendAt, WaitAt, ResumeAt, State
  <2>2. UNCHANGED jl_gc_disable_counter BY <1>30 DEF LeaveGc
  <2>3. QED BY <2>1, <2>2 DEF CountInv
<1>31. ASSUME NEW t \in Threads, NEW u \in Threads, Suspend(t, u) PROVE CountInv'
  <2>1. InAdoption' = InAdoption
    BY <1>31 DEF Suspend, Protect, CanLock, Own, InAdoption, LabelOK, RetInv, ThreadLabel,
      ListenerLabel, CollectorAt, ArmedAt, SuspendAt, WaitAt, ResumeAt, State
  <2>2. UNCHANGED jl_gc_disable_counter BY <1>31 DEF Suspend, Protect, CanLock, Own
  <2>3. QED BY <2>1, <2>2 DEF CountInv
<1>32. ASSUME NEW t \in Threads, NEW u \in Threads, Resume(t, u) PROVE CountInv'
  <2>1. InAdoption' = InAdoption
    BY <1>32 DEF Resume, CanLock, BeginBroadcast, InAdoption, LabelOK, RetInv, ThreadLabel,
      ListenerLabel, CollectorAt, ArmedAt, SuspendAt, WaitAt, ResumeAt, State
  <2>2. UNCHANGED jl_gc_disable_counter BY <1>32 DEF Resume, CanLock, BeginBroadcast
  <2>3. QED BY <2>1, <2>2 DEF CountInv
<1>33. ASSUME NEW t \in Threads, SuspendSet(t) PROVE CountInv'
  <2>1. InAdoption' = InAdoption
    BY <1>33 DEF SuspendSet, SuspendCheck, InAdoption, LabelOK, RetInv, ThreadLabel,
      ListenerLabel, CollectorAt, ArmedAt, SuspendAt, WaitAt, ResumeAt, State
  <2>2. UNCHANGED jl_gc_disable_counter BY <1>33 DEF SuspendSet, SuspendCheck
  <2>3. QED BY <2>1, <2>2 DEF CountInv
<1>34. ASSUME NEW t \in Threads, SuspendWoken(t) PROVE CountInv'
  <2>1. InAdoption' = InAdoption
    BY <1>34 DEF SuspendWoken, SuspendCheck, InAdoption, LabelOK, RetInv, ThreadLabel,
      ListenerLabel, CollectorAt, ArmedAt, SuspendAt, WaitAt, ResumeAt, State
  <2>2. UNCHANGED jl_gc_disable_counter BY <1>34 DEF SuspendWoken, SuspendCheck
  <2>3. QED BY <2>1, <2>2 DEF CountInv
<1>35. ASSUME NEW t \in Threads, AdoptDisable(t) PROVE CountInv'
  <2>1. InAdoption' = InAdoption \cup {t} /\ t \notin InAdoption
    BY <1>35 DEF AdoptDisable, InAdoption, LabelOK, RetInv, ThreadLabel, ListenerLabel,
      CollectorAt, ArmedAt, SuspendAt, WaitAt, ResumeAt, State
  <2>2. IsFiniteSet(InAdoption) BY AdoptionFinite
  <2>3. QED BY <1>35, <2>1, <2>2, FS_AddElement, FS_CardinalityType DEF AdoptDisable, CountInv
<1>36. ASSUME NEW t \in Threads, AdoptInit(t) PROVE CountInv'
  <2>1. InAdoption' = InAdoption
    BY <1>36 DEF AdoptInit, InAdoption, LabelOK, RetInv, ThreadLabel, ListenerLabel,
      CollectorAt, ArmedAt, SuspendAt, WaitAt, ResumeAt, State
  <2>2. UNCHANGED jl_gc_disable_counter BY <1>36 DEF AdoptInit
  <2>3. QED BY <2>1, <2>2 DEF CountInv
<1>37. ASSUME NEW t \in Threads, AdoptEnable(t) PROVE CountInv'
  <2>1. InAdoption' = InAdoption \ {t} /\ t \in InAdoption
    BY <1>37 DEF AdoptEnable, InAdoption, LabelOK, RetInv, ThreadLabel, ListenerLabel,
      CollectorAt, ArmedAt, SuspendAt, WaitAt, ResumeAt, State
  <2>2. IsFiniteSet(InAdoption) BY AdoptionFinite
  <2>3. QED BY <1>37, <2>1, <2>2, FS_RemoveElement, FS_CardinalityType DEF AdoptEnable,
    CountInv
<1>38. ASSUME ExcludeBegin PROVE CountInv'
  <2>1. InAdoption' = InAdoption
    BY <1>38 DEF ExcludeBegin, CanLock, InAdoption, LabelOK, RetInv, ThreadLabel,
      ListenerLabel, CollectorAt, ArmedAt, SuspendAt, WaitAt, ResumeAt, State
  <2>2. UNCHANGED jl_gc_disable_counter BY <1>38 DEF ExcludeBegin, CanLock
  <2>3. QED BY <2>1, <2>2 DEF CountInv
<1>39. ASSUME ExcludeEnd PROVE CountInv'
  <2>1. InAdoption' = InAdoption
    BY <1>39 DEF ExcludeEnd, InAdoption, LabelOK, RetInv, ThreadLabel, ListenerLabel,
      CollectorAt, ArmedAt, SuspendAt, WaitAt, ResumeAt, State
  <2>2. UNCHANGED jl_gc_disable_counter BY <1>39 DEF ExcludeEnd
  <2>3. QED BY <2>1, <2>2 DEF CountInv
<1>40. ASSUME UNCHANGED vars PROVE CountInv'
  BY <1>40 DEF vars, CountInv, LabelOK, RetInv, InAdoption, ThreadLabel, ListenerLabel,
    CollectorAt, ArmedAt, SuspendAt, WaitAt, ResumeAt, State
<1> HIDE DEF At, Goto, Store, control, states, page, world, gc, bounds
<1>41. QED BY <1>1, <1>2, <1>3, <1>4, <1>5, <1>6, <1>7, <1>8, <1>9, <1>10, <1>11, <1>12,
  <1>13, <1>14, <1>15, <1>16, <1>17, <1>18, <1>19, <1>20, <1>21, <1>22, <1>23, <1>24, <1>25,
  <1>26, <1>27, <1>28, <1>29, <1>30, <1>31, <1>32, <1>33, <1>34, <1>35, <1>36, <1>37, <1>38,
  <1>39, <1>40 DEF Next, Transition, Collection

(* The collector knows every thread whose adoption has gone far enough. *)
LEMMA AdoptStep ==
  ASSUME LabelOK, RetInv, OneInv, AdoptInv, CountInv, [Next]_vars
  PROVE  AdoptInv'
<1> USE SafepointAssumption DEF At, Goto, Store, control, states, page, world, gc, bounds,
      AdoptInv, InAdoption, LabelOK, RetInv, OneInv, ThreadLabel, ListenerLabel, CollectorAt,
      ArmedAt, SuspendAt, WaitAt, ResumeAt, State
<1>1. ASSUME NEW t \in Threads, Stored(t) PROVE AdoptInv'
  BY <1>1 DEF Stored
<1>2. ASSUME NEW t \in Threads, Poll(t) PROVE AdoptInv'
  BY <1>2 DEF Poll, Faults
<1>3. ASSUME NEW t \in Threads, SafeEnter(t) PROVE AdoptInv'
  BY <1>3 DEF SafeEnter
<1>4. ASSUME NEW t \in Threads, SafeLeave(t) PROVE AdoptInv'
  BY <1>4 DEF SafeLeave
<1>5. ASSUME NEW t \in Threads, SafepointLoad(t) PROVE AdoptInv'
  BY <1>5 DEF SafepointLoad, Faults
<1>6. ASSUME NEW t \in Threads, SafepointFault(t) PROVE AdoptInv'
  BY <1>6 DEF SafepointFault, Own, Faults
<1>7. ASSUME NEW t \in Threads, Announce(t) PROVE AdoptInv'
  BY <1>7 DEF Announce, CanLock, BeginBroadcast
<1>8. ASSUME NEW t \in Threads, Restore(t) PROVE AdoptInv'
  BY <1>8 DEF Restore
<1>9. ASSUME NEW t \in Threads, WaitGc(t) PROVE AdoptInv'
  BY <1>9 DEF WaitGc, Return
<1>10. ASSUME NEW t \in Threads, GcSleep(t) PROVE AdoptInv'
  BY <1>10 DEF GcSleep, CanLock
<1>11. ASSUME NEW t \in Threads, ResumeStore(t) PROVE AdoptInv'
  BY <1>11 DEF ResumeStore, Own
<1>12. ASSUME NEW t \in Threads, ResumeNow(t) PROVE AdoptInv'
  BY <1>12 DEF ResumeNow, Fenced, Return
<1>13. ASSUME NEW t \in Threads, ResumeSleep(t) PROVE AdoptInv'
  BY <1>13 DEF ResumeSleep, Fenced
<1>14. ASSUME NEW t \in Threads, Suspended(t) PROVE AdoptInv'
  BY <1>14 DEF Suspended, CanLock, BeginBroadcast
<1>15. ASSUME NEW t \in Threads, TakeSleepLock(t) PROVE AdoptInv'
  BY <1>15 DEF TakeSleepLock, Fenced
<1>16. ASSUME NEW t \in Threads, SleepAnnounce(t) PROVE AdoptInv'
  BY <1>16 DEF SleepAnnounce, CanLock, BeginBroadcast
<1>17. ASSUME NEW t \in Threads, Collect(t) PROVE AdoptInv'
  BY <1>17 DEF Collect
<1>18. ASSUME NEW t \in Threads, StopInstead(t) PROVE AdoptInv'
  BY <1>18 DEF StopInstead, StartGc, CanLock, BeginBroadcast
<1>19. ASSUME NEW t \in Threads, LoseGc(t) PROVE AdoptInv'
  BY <1>19 DEF LoseGc, StartGc, CanLock, BeginBroadcast
<1>20. ASSUME NEW t \in Threads, WinGc(t) PROVE AdoptInv'
  BY <1>20 DEF WinGc, StartGc, CanLock, BeginBroadcast
<1>21. ASSUME NEW t \in Threads, GiveUpGc(t) PROVE AdoptInv'
  BY <1>21 DEF GiveUpGc
<1>22. ASSUME NEW t \in Threads, ArmGc(t) PROVE AdoptInv'
  <2>1. InAdoption = {}
    BY <1>22, EnabledMeansNoAdoption DEF ArmGc, GloballyEnabled, CountInv
  <2>2. QED
    BY <1>22, <2>1 DEF ArmGc, Protect, GloballyEnabled, Own
<1>23. ASSUME NEW t \in Threads, Snapshot(t) PROVE AdoptInv'
  BY <1>23 DEF Snapshot
<1>24. ASSUME NEW t \in Threads, NEW u \in Threads, WorldNext(t, u) PROVE AdoptInv'
  BY <1>24 DEF WorldNext
<1>25. ASSUME NEW t \in Threads, NEW u \in Threads, WorldSleep(t, u) PROVE AdoptInv'
  BY <1>25 DEF WorldSleep, CanLock
<1>26. ASSUME NEW t \in Threads, WorldStops(t) PROVE AdoptInv'
  BY <1>26 DEF WorldStops
<1>27. ASSUME NEW t \in Threads, Collected(t) PROVE AdoptInv'
  BY <1>27 DEF Collected
<1>28. ASSUME NEW t \in Threads, EndGc(t) PROVE AdoptInv'
  BY <1>28 DEF EndGc, CanLock
<1>29. ASSUME NEW t \in Threads, EndGcBroadcast(t) PROVE AdoptInv'
  BY <1>29 DEF EndGcBroadcast, EndBroadcast
<1>30. ASSUME NEW t \in Threads, LeaveGc(t) PROVE AdoptInv'
  BY <1>30 DEF LeaveGc
<1>31. ASSUME NEW t \in Threads, NEW u \in Threads, Suspend(t, u) PROVE AdoptInv'
  BY <1>31 DEF Suspend, Protect, CanLock, Own
<1>32. ASSUME NEW t \in Threads, NEW u \in Threads, Resume(t, u) PROVE AdoptInv'
  BY <1>32 DEF Resume, CanLock, BeginBroadcast
<1>33. ASSUME NEW t \in Threads, SuspendSet(t) PROVE AdoptInv'
  BY <1>33 DEF SuspendSet, SuspendCheck
<1>34. ASSUME NEW t \in Threads, SuspendWoken(t) PROVE AdoptInv'
  BY <1>34 DEF SuspendWoken, SuspendCheck
<1>35. ASSUME NEW t \in Threads, AdoptDisable(t) PROVE AdoptInv'
  BY <1>35 DEF AdoptDisable
<1>36. ASSUME NEW t \in Threads, AdoptInit(t) PROVE AdoptInv'
  BY <1>36 DEF AdoptInit
<1>37. ASSUME NEW t \in Threads, AdoptEnable(t) PROVE AdoptInv'
  BY <1>37 DEF AdoptEnable
<1>38. ASSUME ExcludeBegin PROVE AdoptInv'
  BY <1>38 DEF ExcludeBegin, CanLock
<1>39. ASSUME ExcludeEnd PROVE AdoptInv'
  BY <1>39 DEF ExcludeEnd
<1>40. ASSUME UNCHANGED vars PROVE AdoptInv'
  BY <1>40 DEF vars
<1> HIDE DEF At, Goto, Store, control, states, page, world, gc, bounds, AdoptInv,
    InAdoption, LabelOK, RetInv, OneInv, ThreadLabel, ListenerLabel, CollectorAt, ArmedAt,
    SuspendAt, WaitAt, ResumeAt, State
<1>41. QED BY <1>1, <1>2, <1>3, <1>4, <1>5, <1>6, <1>7, <1>8, <1>9, <1>10, <1>11, <1>12,
  <1>13, <1>14, <1>15, <1>16, <1>17, <1>18, <1>19, <1>20, <1>21, <1>22, <1>23, <1>24, <1>25,
  <1>26, <1>27, <1>28, <1>29, <1>30, <1>31, <1>32, <1>33, <1>34, <1>35, <1>36, <1>37, <1>38,
  <1>39, <1>40, SMTT(30) DEF Next, Transition, Collection

(* A thread the collector has gone past cannot start to touch the heap again:
   the pages are armed, and every way back to managed code is through a load. *)
LEMMA StopStep ==
  ASSUME LabelOK, RetInv, OneInv, StateInv, AdoptInv, StopInv, [Next]_vars
  PROVE  StopInv'
<1> USE SafepointAssumption DEF At, Goto, Store, control, states, page, world, gc, bounds,
      StopInv, Mutates, LabelOK, RetInv, OneInv, StateInv, AdoptInv, InAdoption, Own,
      Expected, StateAfter, LagAt, ThreadLabel, ListenerLabel, CollectorAt, ArmedAt,
      SuspendAt, WaitAt, ResumeAt, State
<1>1. ASSUME NEW t \in Threads, Stored(t) PROVE StopInv'
  BY <1>1 DEF Stored
<1>2. ASSUME NEW t \in Threads, Poll(t) PROVE StopInv'
  BY <1>2 DEF Poll, Faults
<1>3. ASSUME NEW t \in Threads, SafeEnter(t) PROVE StopInv'
  BY <1>3 DEF SafeEnter
<1>4. ASSUME NEW t \in Threads, SafeLeave(t) PROVE StopInv'
  BY <1>4 DEF SafeLeave
<1>5. ASSUME NEW t \in Threads, SafepointLoad(t) PROVE StopInv'
  BY <1>5 DEF SafepointLoad, Faults
<1>6. ASSUME NEW t \in Threads, SafepointFault(t) PROVE StopInv'
  BY <1>6 DEF SafepointFault, Faults
<1>7. ASSUME NEW t \in Threads, Announce(t) PROVE StopInv'
  BY <1>7 DEF Announce, CanLock, BeginBroadcast
<1>8. ASSUME NEW t \in Threads, Restore(t) PROVE StopInv'
  BY <1>8 DEF Restore
<1>9. ASSUME NEW t \in Threads, WaitGc(t) PROVE StopInv'
  BY <1>9 DEF WaitGc, Return
<1>10. ASSUME NEW t \in Threads, GcSleep(t) PROVE StopInv'
  BY <1>10 DEF GcSleep, CanLock
<1>11. ASSUME NEW t \in Threads, ResumeStore(t) PROVE StopInv'
  BY <1>11 DEF ResumeStore
<1>12. ASSUME NEW t \in Threads, ResumeNow(t) PROVE StopInv'
  BY <1>12 DEF ResumeNow, Fenced, Return
<1>13. ASSUME NEW t \in Threads, ResumeSleep(t) PROVE StopInv'
  BY <1>13 DEF ResumeSleep, Fenced
<1>14. ASSUME NEW t \in Threads, Suspended(t) PROVE StopInv'
  BY <1>14 DEF Suspended, CanLock, BeginBroadcast
<1>15. ASSUME NEW t \in Threads, TakeSleepLock(t) PROVE StopInv'
  BY <1>15 DEF TakeSleepLock, Fenced
<1>16. ASSUME NEW t \in Threads, SleepAnnounce(t) PROVE StopInv'
  BY <1>16 DEF SleepAnnounce, CanLock, BeginBroadcast
<1>17. ASSUME NEW t \in Threads, Collect(t) PROVE StopInv'
  BY <1>17 DEF Collect
<1>18. ASSUME NEW t \in Threads, StopInstead(t) PROVE StopInv'
  BY <1>18 DEF StopInstead, StartGc, CanLock, BeginBroadcast
<1>19. ASSUME NEW t \in Threads, LoseGc(t) PROVE StopInv'
  BY <1>19 DEF LoseGc, StartGc, CanLock, BeginBroadcast
<1>20. ASSUME NEW t \in Threads, WinGc(t) PROVE StopInv'
  BY <1>20 DEF WinGc, StartGc, CanLock, BeginBroadcast
<1>21. ASSUME NEW t \in Threads, GiveUpGc(t) PROVE StopInv'
  BY <1>21 DEF GiveUpGc
<1>22. ASSUME NEW t \in Threads, ArmGc(t) PROVE StopInv'
  BY <1>22 DEF ArmGc, Protect, GloballyEnabled
<1>23. ASSUME NEW t \in Threads, Snapshot(t) PROVE StopInv'
  BY <1>23 DEF Snapshot
<1>24. ASSUME NEW t \in Threads, NEW u \in Threads, WorldNext(t, u) PROVE StopInv'
  BY <1>24 DEF WorldNext
<1>25. ASSUME NEW t \in Threads, NEW u \in Threads, WorldSleep(t, u) PROVE StopInv'
  BY <1>25 DEF WorldSleep, CanLock
<1>26. ASSUME NEW t \in Threads, WorldStops(t) PROVE StopInv'
  BY <1>26 DEF WorldStops
<1>27. ASSUME NEW t \in Threads, Collected(t) PROVE StopInv'
  BY <1>27 DEF Collected
<1>28. ASSUME NEW t \in Threads, EndGc(t) PROVE StopInv'
  BY <1>28 DEF EndGc, CanLock
<1>29. ASSUME NEW t \in Threads, EndGcBroadcast(t) PROVE StopInv'
  BY <1>29 DEF EndGcBroadcast, EndBroadcast
<1>30. ASSUME NEW t \in Threads, LeaveGc(t) PROVE StopInv'
  BY <1>30 DEF LeaveGc
<1>31. ASSUME NEW t \in Threads, NEW u \in Threads, Suspend(t, u) PROVE StopInv'
  BY <1>31 DEF Suspend, Protect, CanLock
<1>32. ASSUME NEW t \in Threads, NEW u \in Threads, Resume(t, u) PROVE StopInv'
  BY <1>32 DEF Resume, CanLock, BeginBroadcast
<1>33. ASSUME NEW t \in Threads, SuspendSet(t) PROVE StopInv'
  BY <1>33 DEF SuspendSet, SuspendCheck
<1>34. ASSUME NEW t \in Threads, SuspendWoken(t) PROVE StopInv'
  BY <1>34 DEF SuspendWoken, SuspendCheck
<1>35. ASSUME NEW t \in Threads, AdoptDisable(t) PROVE StopInv'
  BY <1>35 DEF AdoptDisable
<1>36. ASSUME NEW t \in Threads, AdoptInit(t) PROVE StopInv'
  BY <1>36 DEF AdoptInit
<1>37. ASSUME NEW t \in Threads, AdoptEnable(t) PROVE StopInv'
  BY <1>37 DEF AdoptEnable
<1>38. ASSUME ExcludeBegin PROVE StopInv'
  BY <1>38 DEF ExcludeBegin, CanLock
<1>39. ASSUME ExcludeEnd PROVE StopInv'
  BY <1>39 DEF ExcludeEnd
<1>40. ASSUME UNCHANGED vars PROVE StopInv'
  BY <1>40 DEF vars
<1> HIDE DEF At, Goto, Store, control, states, page, world, gc, bounds, StopInv, Mutates,
    LabelOK, RetInv, OneInv, StateInv, AdoptInv, InAdoption, Own, Expected, StateAfter,
    LagAt, ThreadLabel, ListenerLabel, CollectorAt, ArmedAt, SuspendAt, WaitAt, ResumeAt,
    State
<1>41. QED BY <1>1, <1>2, <1>3, <1>4, <1>5, <1>6, <1>7, <1>8, <1>9, <1>10, <1>11, <1>12,
  <1>13, <1>14, <1>15, <1>16, <1>17, <1>18, <1>19, <1>20, <1>21, <1>22, <1>23, <1>24, <1>25,
  <1>26, <1>27, <1>28, <1>29, <1>30, <1>31, <1>32, <1>33, <1>34, <1>35, <1>36, <1>37, <1>38,
  <1>39, <1>40 DEF Next, Transition, Collection

(* A sleeper on safepoint_cond_begin waits for a thread that will broadcast. *)
LEMMA SleepStep ==
  ASSUME LabelOK, RetInv, LockInv, OneInv, StateInv, AdoptInv, StopInv, SleepInv, [Next]_vars
  PROVE  SleepInv'
<1> USE SafepointAssumption DEF At, Goto, Store, control, states, page, world, gc, bounds,
      SleepInv, Noisy, LabelOK, RetInv, LockInv, OneInv, StateInv, AdoptInv, InAdoption, Own,
      Expected, StateAfter, LagAt, ThreadLabel, ListenerLabel, CollectorAt, ArmedAt,
      SuspendAt, WaitAt, ResumeAt, State
<1>1. ASSUME NEW t \in Threads, Stored(t) PROVE SleepInv'
  BY <1>1 DEF Stored
<1>2. ASSUME NEW t \in Threads, Poll(t) PROVE SleepInv'
  BY <1>2 DEF Poll, Faults
<1>3. ASSUME NEW t \in Threads, SafeEnter(t) PROVE SleepInv'
  BY <1>3 DEF SafeEnter
<1>4. ASSUME NEW t \in Threads, SafeLeave(t) PROVE SleepInv'
  BY <1>4 DEF SafeLeave
<1>5. ASSUME NEW t \in Threads, SafepointLoad(t) PROVE SleepInv'
  BY <1>5 DEF SafepointLoad, Faults
<1>6. ASSUME NEW t \in Threads, SafepointFault(t) PROVE SleepInv'
  BY <1>6 DEF SafepointFault, Faults
<1>7. ASSUME NEW t \in Threads, Announce(t) PROVE SleepInv'
  BY <1>7, SMTT(30) DEF Announce, CanLock, BeginBroadcast
<1>8. ASSUME NEW t \in Threads, Restore(t) PROVE SleepInv'
  BY <1>8 DEF Restore
<1>9. ASSUME NEW t \in Threads, WaitGc(t) PROVE SleepInv'
  BY <1>9 DEF WaitGc, Return
<1>10. ASSUME NEW t \in Threads, GcSleep(t) PROVE SleepInv'
  BY <1>10 DEF GcSleep, CanLock
<1>11. ASSUME NEW t \in Threads, ResumeStore(t) PROVE SleepInv'
  BY <1>11 DEF ResumeStore
<1>12. ASSUME NEW t \in Threads, ResumeNow(t) PROVE SleepInv'
  BY <1>12 DEF ResumeNow, Fenced, Return
<1>13. ASSUME NEW t \in Threads, ResumeSleep(t) PROVE SleepInv'
  BY <1>13 DEF ResumeSleep, Fenced
<1>14. ASSUME NEW t \in Threads, Suspended(t) PROVE SleepInv'
  BY <1>14 DEF Suspended, CanLock, BeginBroadcast
<1>15. ASSUME NEW t \in Threads, TakeSleepLock(t) PROVE SleepInv'
  BY <1>15 DEF TakeSleepLock, Fenced
<1>16. ASSUME NEW t \in Threads, SleepAnnounce(t) PROVE SleepInv'
  BY <1>16 DEF SleepAnnounce, CanLock, BeginBroadcast
<1>17. ASSUME NEW t \in Threads, Collect(t) PROVE SleepInv'
  BY <1>17 DEF Collect
<1>18. ASSUME NEW t \in Threads, StopInstead(t) PROVE SleepInv'
  BY <1>18 DEF StopInstead, StartGc, CanLock, BeginBroadcast
<1>19. ASSUME NEW t \in Threads, LoseGc(t) PROVE SleepInv'
  BY <1>19 DEF LoseGc, StartGc, CanLock, BeginBroadcast
<1>20. ASSUME NEW t \in Threads, WinGc(t) PROVE SleepInv'
  BY <1>20 DEF WinGc, StartGc, CanLock, BeginBroadcast
<1>21. ASSUME NEW t \in Threads, GiveUpGc(t) PROVE SleepInv'
  BY <1>21 DEF GiveUpGc
<1>22. ASSUME NEW t \in Threads, ArmGc(t) PROVE SleepInv'
  BY <1>22 DEF ArmGc, Protect, GloballyEnabled
<1>23. ASSUME NEW t \in Threads, Snapshot(t) PROVE SleepInv'
  BY <1>23 DEF Snapshot
<1>24. ASSUME NEW t \in Threads, NEW u \in Threads, WorldNext(t, u) PROVE SleepInv'
  BY <1>24 DEF WorldNext
<1>25. ASSUME NEW t \in Threads, NEW u \in Threads, WorldSleep(t, u) PROVE SleepInv'
  <2>1. u \in jl_all_tls_states /\ gc_state[u] = "unsafe"
    BY <1>25 DEF WorldSleep, StopInv
  <2>2. Noisy(u) /\ u # t
    <3>1. pc[u] # "foreign" /\ ~(pc[u] \in WaitAt /\ ret[u] = "adopting") /\ pc[u] \notin
      {"adopting", "adopted"}
      BY <1>25, <2>1 DEF WorldSleep
    <3>2. Own(u) = Expected(u) /\ (storing[u] # Nobody => pc[u] \in LagAt \ {"managed",
      "safe"})
      BY <1>25 DEF WorldSleep
    <3>3. Noisy(u)
      BY <2>1, <3>1, <3>2, <1>25 DEF WorldSleep
    <3>4. QED BY <3>3, <1>25 DEF WorldSleep
  <2>3. pc' = [pc EXCEPT ![t] = "world_sleep"] /\ waits_for' = [waits_for EXCEPT ![t] = u]
        /\ UNCHANGED <<ret, suspend_count>>
    BY <1>25 DEF WorldSleep
  <2>4. Noisy(u)'
    BY <2>2, <2>3
  <2>5. \A v \in Threads : pc[v] \in CollectorAt => v = t
    BY <1>25 DEF WorldSleep
  <2>6. QED
    BY <2>3, <2>4, <2>5, <1>25 DEF WorldSleep
<1>26. ASSUME NEW t \in Threads, WorldStops(t) PROVE SleepInv'
  BY <1>26 DEF WorldStops
<1>27. ASSUME NEW t \in Threads, Collected(t) PROVE SleepInv'
  BY <1>27 DEF Collected
<1>28. ASSUME NEW t \in Threads, EndGc(t) PROVE SleepInv'
  BY <1>28 DEF EndGc, CanLock
<1>29. ASSUME NEW t \in Threads, EndGcBroadcast(t) PROVE SleepInv'
  BY <1>29 DEF EndGcBroadcast, EndBroadcast
<1>30. ASSUME NEW t \in Threads, LeaveGc(t) PROVE SleepInv'
  BY <1>30 DEF LeaveGc
<1>31. ASSUME NEW t \in Threads, NEW u \in Threads, Suspend(t, u) PROVE SleepInv'
  BY <1>31 DEF Suspend, Protect, CanLock
<1>32. ASSUME NEW t \in Threads, NEW u \in Threads, Resume(t, u) PROVE SleepInv'
  BY <1>32 DEF Resume, CanLock, BeginBroadcast
<1>33. ASSUME NEW t \in Threads, SuspendSet(t) PROVE SleepInv'
  BY <1>33 DEF SuspendSet, SuspendCheck
<1>34. ASSUME NEW t \in Threads, SuspendWoken(t) PROVE SleepInv'
  BY <1>34 DEF SuspendWoken, SuspendCheck
<1>35. ASSUME NEW t \in Threads, AdoptDisable(t) PROVE SleepInv'
  BY <1>35 DEF AdoptDisable
<1>36. ASSUME NEW t \in Threads, AdoptInit(t) PROVE SleepInv'
  BY <1>36 DEF AdoptInit
<1>37. ASSUME NEW t \in Threads, AdoptEnable(t) PROVE SleepInv'
  BY <1>37 DEF AdoptEnable
<1>38. ASSUME ExcludeBegin PROVE SleepInv'
  BY <1>38 DEF ExcludeBegin, CanLock
<1>39. ASSUME ExcludeEnd PROVE SleepInv'
  BY <1>39 DEF ExcludeEnd
<1>40. ASSUME UNCHANGED vars PROVE SleepInv'
  BY <1>40 DEF vars
<1> HIDE DEF At, Goto, Store, control, states, page, world, gc, bounds, SleepInv, Noisy,
    LabelOK, RetInv, LockInv, OneInv, StateInv, AdoptInv, InAdoption, Own, Expected,
    StateAfter, LagAt, ThreadLabel, ListenerLabel, CollectorAt, ArmedAt, SuspendAt,
    WaitAt, ResumeAt, State
<1>41. QED BY <1>1, <1>2, <1>3, <1>4, <1>5, <1>6, <1>7, <1>8, <1>9, <1>10, <1>11, <1>12,
  <1>13, <1>14, <1>15, <1>16, <1>17, <1>18, <1>19, <1>20, <1>21, <1>22, <1>23, <1>24, <1>25,
  <1>26, <1>27, <1>28, <1>29, <1>30, <1>31, <1>32, <1>33, <1>34, <1>35, <1>36, <1>37, <1>38,
  <1>39, <1>40, SMTT(30) DEF Next, Transition, Collection

(* A sleeper on safepoint_cond_end has somebody to wake it. *)
LEMMA EndStep ==
  ASSUME LabelOK, RetInv, LockInv, OneInv, EndInv, [Next]_vars
  PROVE  EndInv'
<1> USE SafepointAssumption DEF At, Goto, Store, control, states, page, world, gc, bounds,
      EndInv, LabelOK, RetInv, OneInv, LockInv, ThreadLabel, ListenerLabel, CollectorAt,
      ArmedAt, SuspendAt, WaitAt, ResumeAt, State
<1>1. ASSUME NEW t \in Threads, Stored(t) PROVE EndInv'
  BY <1>1 DEF Stored
<1>2. ASSUME NEW t \in Threads, Poll(t) PROVE EndInv'
  BY <1>2 DEF Poll, Faults
<1>3. ASSUME NEW t \in Threads, SafeEnter(t) PROVE EndInv'
  BY <1>3 DEF SafeEnter
<1>4. ASSUME NEW t \in Threads, SafeLeave(t) PROVE EndInv'
  BY <1>4 DEF SafeLeave
<1>5. ASSUME NEW t \in Threads, SafepointLoad(t) PROVE EndInv'
  BY <1>5 DEF SafepointLoad, Faults
<1>6. ASSUME NEW t \in Threads, SafepointFault(t) PROVE EndInv'
  BY <1>6 DEF SafepointFault, Own, Faults
<1>7. ASSUME NEW t \in Threads, Announce(t) PROVE EndInv'
  BY <1>7 DEF Announce, CanLock, BeginBroadcast
<1>8. ASSUME NEW t \in Threads, Restore(t) PROVE EndInv'
  BY <1>8 DEF Restore
<1>9. ASSUME NEW t \in Threads, WaitGc(t) PROVE EndInv'
  BY <1>9 DEF WaitGc, Return
<1>10. ASSUME NEW t \in Threads, GcSleep(t) PROVE EndInv'
  BY <1>10 DEF GcSleep, CanLock
<1>11. ASSUME NEW t \in Threads, ResumeStore(t) PROVE EndInv'
  BY <1>11 DEF ResumeStore, Own
<1>12. ASSUME NEW t \in Threads, ResumeNow(t) PROVE EndInv'
  BY <1>12 DEF ResumeNow, Fenced, Return
<1>13. ASSUME NEW t \in Threads, ResumeSleep(t) PROVE EndInv'
  BY <1>13 DEF ResumeSleep, Fenced
<1>14. ASSUME NEW t \in Threads, Suspended(t) PROVE EndInv'
  BY <1>14 DEF Suspended, CanLock, BeginBroadcast
<1>15. ASSUME NEW t \in Threads, TakeSleepLock(t) PROVE EndInv'
  BY <1>15 DEF TakeSleepLock, Fenced
<1>16. ASSUME NEW t \in Threads, SleepAnnounce(t) PROVE EndInv'
  BY <1>16 DEF SleepAnnounce, CanLock, BeginBroadcast
<1>17. ASSUME NEW t \in Threads, Collect(t) PROVE EndInv'
  BY <1>17 DEF Collect
<1>18. ASSUME NEW t \in Threads, StopInstead(t) PROVE EndInv'
  BY <1>18 DEF StopInstead, StartGc, CanLock, BeginBroadcast
<1>19. ASSUME NEW t \in Threads, LoseGc(t) PROVE EndInv'
  BY <1>19 DEF LoseGc, StartGc, CanLock, BeginBroadcast
<1>20. ASSUME NEW t \in Threads, WinGc(t) PROVE EndInv'
  BY <1>20 DEF WinGc, StartGc, CanLock, BeginBroadcast
<1>21. ASSUME NEW t \in Threads, GiveUpGc(t) PROVE EndInv'
  BY <1>21 DEF GiveUpGc
<1>22. ASSUME NEW t \in Threads, ArmGc(t) PROVE EndInv'
  BY <1>22 DEF ArmGc, Protect, GloballyEnabled, Own
<1>23. ASSUME NEW t \in Threads, Snapshot(t) PROVE EndInv'
  BY <1>23 DEF Snapshot
<1>24. ASSUME NEW t \in Threads, NEW u \in Threads, WorldNext(t, u) PROVE EndInv'
  BY <1>24 DEF WorldNext
<1>25. ASSUME NEW t \in Threads, NEW u \in Threads, WorldSleep(t, u) PROVE EndInv'
  BY <1>25 DEF WorldSleep, CanLock
<1>26. ASSUME NEW t \in Threads, WorldStops(t) PROVE EndInv'
  BY <1>26 DEF WorldStops
<1>27. ASSUME NEW t \in Threads, Collected(t) PROVE EndInv'
  BY <1>27 DEF Collected
<1>28. ASSUME NEW t \in Threads, EndGc(t) PROVE EndInv'
  BY <1>28 DEF EndGc, CanLock
<1>29. ASSUME NEW t \in Threads, EndGcBroadcast(t) PROVE EndInv'
  BY <1>29 DEF EndGcBroadcast, EndBroadcast
<1>30. ASSUME NEW t \in Threads, LeaveGc(t) PROVE EndInv'
  BY <1>30 DEF LeaveGc
<1>31. ASSUME NEW t \in Threads, NEW u \in Threads, Suspend(t, u) PROVE EndInv'
  BY <1>31 DEF Suspend, Protect, CanLock, Own
<1>32. ASSUME NEW t \in Threads, NEW u \in Threads, Resume(t, u) PROVE EndInv'
  BY <1>32 DEF Resume, CanLock, BeginBroadcast
<1>33. ASSUME NEW t \in Threads, SuspendSet(t) PROVE EndInv'
  BY <1>33 DEF SuspendSet, SuspendCheck
<1>34. ASSUME NEW t \in Threads, SuspendWoken(t) PROVE EndInv'
  BY <1>34 DEF SuspendWoken, SuspendCheck
<1>35. ASSUME NEW t \in Threads, AdoptDisable(t) PROVE EndInv'
  BY <1>35 DEF AdoptDisable
<1>36. ASSUME NEW t \in Threads, AdoptInit(t) PROVE EndInv'
  BY <1>36 DEF AdoptInit
<1>37. ASSUME NEW t \in Threads, AdoptEnable(t) PROVE EndInv'
  BY <1>37 DEF AdoptEnable
<1>38. ASSUME ExcludeBegin PROVE EndInv'
  BY <1>38 DEF ExcludeBegin, CanLock
<1>39. ASSUME ExcludeEnd PROVE EndInv'
  BY <1>39 DEF ExcludeEnd
<1>40. ASSUME UNCHANGED vars PROVE EndInv'
  BY <1>40 DEF vars
<1> HIDE DEF At, Goto, Store, control, states, page, world, gc, bounds, EndInv, LabelOK,
    RetInv, OneInv, LockInv, ThreadLabel, ListenerLabel, CollectorAt, ArmedAt, SuspendAt,
    WaitAt, ResumeAt, State
<1>41. QED BY <1>1, <1>2, <1>3, <1>4, <1>5, <1>6, <1>7, <1>8, <1>9, <1>10, <1>11, <1>12,
  <1>13, <1>14, <1>15, <1>16, <1>17, <1>18, <1>19, <1>20, <1>21, <1>22, <1>23, <1>24, <1>25,
  <1>26, <1>27, <1>28, <1>29, <1>30, <1>31, <1>32, <1>33, <1>34, <1>35, <1>36, <1>37, <1>38,
  <1>39, <1>40 DEF Next, Transition, Collection

(* Every suspension counted was asked for. *)
LEMMA BoundStep ==
  ASSUME LabelOK, RetInv, SleepInv, BoundInv, [Next]_vars
  PROVE  BoundInv'
<1> USE SafepointAssumption DEF At, Goto, Store, control, states, page, world, gc, bounds,
      BoundInv, LabelOK, RetInv, SleepInv, ThreadLabel, ListenerLabel, CollectorAt, ArmedAt,
      SuspendAt, WaitAt, ResumeAt, State
<1>1. ASSUME NEW t \in Threads, Stored(t) PROVE BoundInv'
  BY <1>1 DEF Stored
<1>2. ASSUME NEW t \in Threads, Poll(t) PROVE BoundInv'
  BY <1>2 DEF Poll, Faults
<1>3. ASSUME NEW t \in Threads, SafeEnter(t) PROVE BoundInv'
  BY <1>3 DEF SafeEnter
<1>4. ASSUME NEW t \in Threads, SafeLeave(t) PROVE BoundInv'
  BY <1>4 DEF SafeLeave
<1>5. ASSUME NEW t \in Threads, SafepointLoad(t) PROVE BoundInv'
  BY <1>5 DEF SafepointLoad, Faults
<1>6. ASSUME NEW t \in Threads, SafepointFault(t) PROVE BoundInv'
  BY <1>6 DEF SafepointFault, Own, Faults
<1>7. ASSUME NEW t \in Threads, Announce(t) PROVE BoundInv'
  BY <1>7 DEF Announce, CanLock, BeginBroadcast
<1>8. ASSUME NEW t \in Threads, Restore(t) PROVE BoundInv'
  BY <1>8 DEF Restore
<1>9. ASSUME NEW t \in Threads, WaitGc(t) PROVE BoundInv'
  BY <1>9 DEF WaitGc, Return
<1>10. ASSUME NEW t \in Threads, GcSleep(t) PROVE BoundInv'
  BY <1>10 DEF GcSleep, CanLock
<1>11. ASSUME NEW t \in Threads, ResumeStore(t) PROVE BoundInv'
  BY <1>11 DEF ResumeStore, Own
<1>12. ASSUME NEW t \in Threads, ResumeNow(t) PROVE BoundInv'
  BY <1>12 DEF ResumeNow, Fenced, Return
<1>13. ASSUME NEW t \in Threads, ResumeSleep(t) PROVE BoundInv'
  BY <1>13 DEF ResumeSleep, Fenced
<1>14. ASSUME NEW t \in Threads, Suspended(t) PROVE BoundInv'
  BY <1>14 DEF Suspended, CanLock, BeginBroadcast
<1>15. ASSUME NEW t \in Threads, TakeSleepLock(t) PROVE BoundInv'
  BY <1>15 DEF TakeSleepLock, Fenced
<1>16. ASSUME NEW t \in Threads, SleepAnnounce(t) PROVE BoundInv'
  BY <1>16 DEF SleepAnnounce, CanLock, BeginBroadcast
<1>17. ASSUME NEW t \in Threads, Collect(t) PROVE BoundInv'
  BY <1>17 DEF Collect
<1>18. ASSUME NEW t \in Threads, StopInstead(t) PROVE BoundInv'
  BY <1>18 DEF StopInstead, StartGc, CanLock, BeginBroadcast
<1>19. ASSUME NEW t \in Threads, LoseGc(t) PROVE BoundInv'
  BY <1>19 DEF LoseGc, StartGc, CanLock, BeginBroadcast
<1>20. ASSUME NEW t \in Threads, WinGc(t) PROVE BoundInv'
  BY <1>20 DEF WinGc, StartGc, CanLock, BeginBroadcast
<1>21. ASSUME NEW t \in Threads, GiveUpGc(t) PROVE BoundInv'
  BY <1>21 DEF GiveUpGc
<1>22. ASSUME NEW t \in Threads, ArmGc(t) PROVE BoundInv'
  BY <1>22 DEF ArmGc, Protect, GloballyEnabled, Own
<1>23. ASSUME NEW t \in Threads, Snapshot(t) PROVE BoundInv'
  BY <1>23 DEF Snapshot
<1>24. ASSUME NEW t \in Threads, NEW u \in Threads, WorldNext(t, u) PROVE BoundInv'
  BY <1>24 DEF WorldNext
<1>25. ASSUME NEW t \in Threads, NEW u \in Threads, WorldSleep(t, u) PROVE BoundInv'
  BY <1>25 DEF WorldSleep, CanLock
<1>26. ASSUME NEW t \in Threads, WorldStops(t) PROVE BoundInv'
  BY <1>26 DEF WorldStops
<1>27. ASSUME NEW t \in Threads, Collected(t) PROVE BoundInv'
  BY <1>27 DEF Collected
<1>28. ASSUME NEW t \in Threads, EndGc(t) PROVE BoundInv'
  BY <1>28 DEF EndGc, CanLock
<1>29. ASSUME NEW t \in Threads, EndGcBroadcast(t) PROVE BoundInv'
  BY <1>29 DEF EndGcBroadcast, EndBroadcast
<1>30. ASSUME NEW t \in Threads, LeaveGc(t) PROVE BoundInv'
  BY <1>30 DEF LeaveGc
<1>31. ASSUME NEW t \in Threads, NEW u \in Threads, Suspend(t, u) PROVE BoundInv'
  BY <1>31 DEF Suspend, Protect, CanLock, Own
<1>32. ASSUME NEW t \in Threads, NEW u \in Threads, Resume(t, u) PROVE BoundInv'
  BY <1>32 DEF Resume, CanLock, BeginBroadcast
<1>33. ASSUME NEW t \in Threads, SuspendSet(t) PROVE BoundInv'
  BY <1>33 DEF SuspendSet, SuspendCheck
<1>34. ASSUME NEW t \in Threads, SuspendWoken(t) PROVE BoundInv'
  BY <1>34 DEF SuspendWoken, SuspendCheck
<1>35. ASSUME NEW t \in Threads, AdoptDisable(t) PROVE BoundInv'
  BY <1>35 DEF AdoptDisable
<1>36. ASSUME NEW t \in Threads, AdoptInit(t) PROVE BoundInv'
  BY <1>36 DEF AdoptInit
<1>37. ASSUME NEW t \in Threads, AdoptEnable(t) PROVE BoundInv'
  BY <1>37 DEF AdoptEnable
<1>38. ASSUME ExcludeBegin PROVE BoundInv'
  BY <1>38 DEF ExcludeBegin, CanLock
<1>39. ASSUME ExcludeEnd PROVE BoundInv'
  BY <1>39 DEF ExcludeEnd
<1>40. ASSUME UNCHANGED vars PROVE BoundInv'
  BY <1>40 DEF vars
<1> HIDE DEF At, Goto, Store, control, states, page, world, gc, bounds, BoundInv, LabelOK,
    RetInv, SleepInv, ThreadLabel, ListenerLabel, CollectorAt, ArmedAt, SuspendAt, WaitAt,
    ResumeAt, State
<1>41. QED BY <1>1, <1>2, <1>3, <1>4, <1>5, <1>6, <1>7, <1>8, <1>9, <1>10, <1>11, <1>12,
  <1>13, <1>14, <1>15, <1>16, <1>17, <1>18, <1>19, <1>20, <1>21, <1>22, <1>23, <1>24, <1>25,
  <1>26, <1>27, <1>28, <1>29, <1>30, <1>31, <1>32, <1>33, <1>34, <1>35, <1>36, <1>37, <1>38,
  <1>39, <1>40 DEF Next, Transition, Collection

-----------------------------------------------------------------------------
Inv ==
  /\ LabelOK /\ RetInv /\ LockInv /\ OneInv /\ StateInv /\ CountInv /\ AdoptInv
  /\ StopInv /\ SleepInv /\ EndInv /\ BoundInv

LEMMA InitInv == Init => Inv
<1> SUFFICES ASSUME Init PROVE Inv
  OBVIOUS
<1> USE SafepointAssumption DEF Init
<1> USE DEF ThreadLabel, ListenerLabel, CollectorAt, ArmedAt, SuspendAt, WaitAt, ResumeAt, State
<1>0. /\ \A t \in Threads : pc[t] \in {"foreign", "managed"}
      /\ pc[Listener] = "idle"
  OBVIOUS
<1>1. LabelOK /\ RetInv /\ LockInv /\ OneInv
  <2>1. pc \in [Threads \cup {Listener} -> ThreadLabel \cup ListenerLabel]
    BY Zenon
  <2>2. (\A t \in Threads : pc[t] \in ThreadLabel) /\ pc[Listener] \in ListenerLabel
    BY <1>0
  <2>3. /\ cont \in [Threads -> {"managed", "safe", "resume"}]
        /\ ret \in [Threads -> {"load", "restore", "leave", "relock", "adopting"}]
        /\ saved \in [Threads -> State]
        /\ gc_state \in [Threads -> State] /\ storing \in [Threads -> State \cup {Nobody}]
        /\ suspend_count \in [Threads -> Nat]
        /\ waits_for \in [Threads -> Threads \cup {Nobody}]
    OBVIOUS
  <2>4. jl_gc_running \in BOOLEAN /\ armed \in BOOLEAN
    BY Zenon
  <2>5. jl_gc_disable_counter \in Int /\ collects \in Nat /\ suspends \in Nat
    OBVIOUS
  <2>6. /\ jl_all_tls_states \subseteq Threads /\ todo \subseteq Threads
        /\ safepoint_lock \in Threads \cup {Nobody, Listener}
    BY Zenon
  <2>7. RetInv BY <1>0 DEF RetInv
  <2>8. LockInv BY <1>0 DEF LockInv
  <2>9. OneInv BY <1>0 DEF OneInv
  <2> HIDE DEF Init, ThreadLabel, ListenerLabel, State
  <2>10. LabelOK BY <2>1, <2>2, <2>3, <2>4, <2>5, <2>6 DEF LabelOK
  <2>11. QED BY <2>7, <2>8, <2>9, <2>10
<1>2. StateInv
  BY DEF StateInv, Own, Expected, StateAfter, LagAt
<1>3. InAdoption = {}
  BY DEF InAdoption
<1>4. CountInv /\ AdoptInv
  BY <1>3, FS_EmptySet DEF CountInv, AdoptInv
<1>5. StopInv /\ SleepInv /\ EndInv /\ BoundInv
  BY DEF StopInv, SleepInv, EndInv, BoundInv
<1>6. QED BY <1>1, <1>2, <1>4, <1>5 DEF Inv

LEMMA NextInv == Inv /\ [Next]_vars => Inv'
BY LabelStep, RetStep, LockStep, OneStep, StateStep, CountStep, AdoptStep, StopStep, SleepStep,
   EndStep, BoundStep DEF Inv

(* The conjunction is inductive: each part is preserved with the help of the others. *)
THEOREM InvHolds == Spec => []Inv
BY InitInv, NextInv, PTL DEF Spec

(***************************************************************************)
(* Every variable keeps its type; in particular jl_gc_disable_counter      *)
(* never goes below zero or above the number of foreign threads, however   *)
(* adoptions and collections interleave, and no suspend_count underflows.  *)
(***************************************************************************)
THEOREM TypeCorrect == Spec => []TypeOK
<1>1. Inv => TypeOK
  <2> SUFFICES ASSUME Inv PROVE TypeOK
    OBVIOUS
  <2>1. Cardinality(InAdoption) \in 0 .. Cardinality(Foreign)
    <3>1. IsFiniteSet(Foreign)
      BY FS_Subset, SafepointAssumption
    <3>2. QED BY <3>1, FS_Subset, FS_CardinalityType, AdoptionFinite DEF Inv, AdoptInv
  <2>2. ASSUME NEW t \in Threads PROVE suspend_count[t] \in 0 .. MaxSuspend
    BY SafepointAssumption DEF Inv, BoundInv, LabelOK
  <2>3. QED BY <2>1, <2>2, SafepointAssumption DEF Inv, LabelOK, CountInv, TypeOK, State
<1>2. QED BY <1>1, InvHolds, PTL

(***************************************************************************)
(* The world is stopped while a collection marks and sweeps, for any       *)
(* number of threads, adoptions, suspensions and collections: no thread    *)
(* touches the heap, and the listener does not walk the child lists.       *)
(***************************************************************************)
THEOREM WorldIsStopped == Spec => []WorldStopped
<1>1. Inv => WorldStopped
  <2> SUFFICES ASSUME Inv, NEW c \in Threads, pc[c] = "collecting"
               PROVE  (\A t \in Threads : ~Mutates(t)) /\ pc[Listener] # "walk"
    BY DEF WorldStopped, At
  <2>1. jl_gc_running /\ armed
    BY DEF Inv, OneInv, CollectorAt, ArmedAt
  <2>2. ASSUME NEW t \in jl_all_tls_states PROVE ~Mutates(t)
    BY DEF Inv, StopInv
  <2>3. ASSUME NEW t \in Threads \ jl_all_tls_states PROVE ~Mutates(t)
    BY <2>1 DEF Inv, AdoptInv, InAdoption, Mutates, WaitAt
  <2>4. QED BY <2>1, <2>2, <2>3 DEF Inv, LockInv
<1>2. QED BY <1>1, InvHolds, PTL

(***************************************************************************)
(* No lost wakeup on safepoint_cond_begin: a collector or suspender sleeps *)
(* only while the thread it waits for has yet to broadcast.                *)
(***************************************************************************)
THEOREM StopsAreSeen == Spec => []StopIsSeen
<1>1. Inv => StopIsSeen
  <2> SUFFICES ASSUME Inv, NEW t \in Threads
               PROVE  /\ pc[t] = "world_sleep" => ~Silent(waits_for[t])
                      /\ pc[t] = "suspend_sleep" =>
                           pc[waits_for[t]] \notin {"asleep", "resume_sleep"}
    BY DEF StopIsSeen, At
  <2>1. ASSUME pc[t] = "world_sleep" PROVE ~Silent(waits_for[t])
    BY <2>1 DEF Inv, SleepInv, Noisy, Silent, SuspendAt
  <2>2. QED BY <2>1 DEF Inv, SleepInv
<1>2. QED BY <1>1, InvHolds, PTL

(***************************************************************************)
(* No lost wakeup on safepoint_cond_end, although a collection that is     *)
(* given up does not broadcast: it holds the lock from the moment it sets  *)
(* jl_gc_running until it clears it, so nobody can have gone to sleep.     *)
(***************************************************************************)
THEOREM EndsAreSeen == Spec => []EndIsSeen
<1>1. Inv => EndIsSeen
  BY DEF Inv, EndInv, OneInv, EndIsSeen, At, CollectorAt
<1>2. QED BY <1>1, InvHolds, PTL
=============================================================================
