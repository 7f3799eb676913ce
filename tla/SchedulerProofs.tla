-------------------------- MODULE SchedulerProofs ---------------------------
(* Proofs about Scheduler, for any finite set of threads, any pool and any   *)
(* number of tasks.                                                          *)
EXTENDS Scheduler, FiniteSetTheorems, TLAPS

\* In a wakeup of another thread; in the wait for the libuv lock; from the
\* last look into the queues to the end of the sleep.
WakeAt == {"wakeup", "scan", "count", "signal", "kick"}
LockWaitAt == {"io_kick", "io_wait", "uv_kick", "uv_wait"}
SleepAt == {"uv", "uv_kick", "uv_wait", "uv_locked", "uv_run", "uv_ran", "uv_skipped",
            "leave", "last_out", "parked", "asleep"}
Label ==
  {"run", "next", "quick_check", "recheck", "last_pop", "set_not_sleeping", "consume", "io",
   "finished"} \cup WakeAt \cup LockWaitAt \cup SleepAt

DataOK ==
  /\ pc \in [Threads -> Label]
  /\ ret \in [Threads -> {"run", "left_region", "next", "uv_ran", "leave"}]
  /\ sleep_check_state \in [Threads -> {"sleeping", "not_sleeping"}]
  /\ storing \in [Threads -> BOOLEAN]
  /\ n_threads_running \in Int
  /\ queue \in [Queues -> Nat]
  /\ inserting \in [Threads -> Queues \cup {Nobody}]
  /\ candidates \in [Threads -> SUBSET Threads]
  /\ target \in [Threads -> Threads \cup {Nobody}]
  /\ uv_owner \in Threads \cup {Nobody} /\ uv_waiters \subseteq Threads
  /\ tasks \in 0 .. MaxTasks

FlagOK ==
  /\ kicked \in BOOLEAN /\ handles \in BOOLEAN /\ threadedregion \in BOOLEAN
  /\ wait_empty \in BOOLEAN

LabelOK == DataOK /\ FlagOK

-----------------------------------------------------------------------------
\* Where each call returns to, and whom a wakeup has.
RetInv ==
  \A t \in Threads :
    /\ pc[t] \in WakeAt => ret[t] \in {"run", "uv_ran", "leave"}
    /\ pc[t] \in {"set_not_sleeping", "consume"} => ret[t] \in {"next", "run"}
    /\ pc[t] \in {"io", "io_kick", "io_wait"} => ret[t] \in {"run", "left_region"}
    /\ pc[t] \in {"count", "signal", "kick"} => target[t] \in Threads

\* A store that has not reached memory is held up by a fence ahead.
LagInv ==
  \A t \in Threads :
    /\ storing[t] => pc[t] = "recheck"
    /\ inserting[t] # Nobody =>
         /\ pc[t] = "wakeup"
         /\ candidates[t] = IF inserting[t] = Shared THEN Pool \cup {t} ELSE {inserting[t]}

\* A thread is marked as sleeping only on its way to sleep.
MarkInv ==
  \A t \in Threads :
    /\ MaySleep(t) => GoingToSleep(t)
    /\ pc[t] = "consume" => ~MaySleep(t)

\* A wakeup looks for any thread of the pool, or for one thread.
CandInv ==
  \A w \in Threads :
    \/ \E x \in Threads : candidates[w] \subseteq {x}
    \/ pc[w] = "wakeup" /\ candidates[w] \subseteq Pool \cup {w}
    \/ candidates[w] \subseteq Pool

\* The libuv lock has one owner, in its critical section or in uv_run.
Owns(t) ==
  \/ pc[t] \in {"io", "uv_locked", "uv_run", "uv_ran", "uv_skipped"}
  \/ pc[t] \in WakeAt /\ ret[t] = "uv_ran"

UvInv ==
  /\ \A t \in Threads : (uv_owner = t) <=> Owns(t)
  /\ uv_waiters = {t \in Threads : pc[t] \in LockWaitAt}
  /\ \A t \in Threads : pc[t] = "uv_skipped" /\ MaySleep(t) => uv_waiters # {}

\* A thread that blocks although it has been told to wake up has yet to be
\* signalled, or kicked out of uv_run.
Signalling(t, at) == \E w \in Threads : target[w] = t /\ pc[w] \in at

BlockInv ==
  \A t \in Threads :
    /\ pc[t] = "asleep" => MaySleep(t) \/ Signalling(t, {"count", "signal"})
    /\ pc[t] = "uv_run" => MaySleep(t) \/ kicked \/ Signalling(t, {"count", "signal", "kick"})

\* Past its last look into the queues, and not going to look again unless it is
\* woken.
Past(t) == pc[t] \in SleepAt \/ (pc[t] \in WakeAt /\ ret[t] \in {"uv_ran", "leave"})

Alert(t) == ~Past(t) \/ ~MaySleep(t)

\* A wakeup has t before it, and for a sticky queue nobody it might wake instead.
Called(t, q) ==
  \E w \in Threads :
    /\ pc[w] \in {"wakeup", "scan"} /\ t \in candidates[w]
    /\ q = Shared \/ candidates[w] = {t}

ServeInv ==
  \A q \in Queues : queue[q] > 0 =>
    \E t \in Servers(q) : Alert(t) \/ Called(t, q)

\* On the way to sleep with the event loop left to others.
Leaving(t) ==
  \/ pc[t] \in {"leave", "last_out", "parked", "asleep"}
  \/ pc[t] \in WakeAt /\ ret[t] = "leave"

Sought(t) == \E w \in Threads : pc[w] \in {"wakeup", "scan"} /\ t \in candidates[w]

WatchInv == handles => \E t \in Threads : ~Leaving(t) \/ ~MaySleep(t) \/ Sought(t)

\* The tasks in a queue or on their way to it were enqueued.
Inserting(q) == {t \in Threads : inserting[t] = q}
TaskInv == \A q \in Queues : queue[q] + Cardinality(Inserting(q)) <= tasks

\* The three sets of RunningCount.
NotStopped == {t \in Threads : ~Stopped(t)}
IsWoken(t) == GoingToSleep(t) /\ ~MaySleep(t)
Woken == {t \in Threads : IsWoken(t)}
Uncounted == {w \in Threads : pc[w] = "count"}
CountInv ==
  n_threads_running = Cardinality(NotStopped) + Cardinality(Woken) - Cardinality(Uncounted)

Inv ==
  /\ LabelOK /\ RetInv /\ LagInv /\ MarkInv /\ CandInv /\ UvInv /\ LoopYieldsLock
  /\ BlockInv /\ ServeInv /\ WatchInv /\ TaskInv /\ CountInv

-----------------------------------------------------------------------------
(* Types and labels. *)
LEMMA LabelStep ==
  ASSUME LabelOK, RetInv, [Next]_vars
  PROVE  LabelOK'
<1> USE SchedulerAssumption DEF Goto, uv, waking, work, LabelOK, RetInv, DataOK, FlagOK,
      Label, WakeAt, LockWaitAt, SleepAt, Queues
<1>1. ASSUME NEW t \in Threads, SleepStored(t) PROVE LabelOK'
  BY <1>1 DEF SleepStored
<1>2. ASSUME NEW t \in Threads, InsertStored(t) PROVE LabelOK'
  BY <1>2 DEF InsertStored
<1>3. ASSUME NEW t \in Threads, NEW q \in Queues, Enqueue(t, q) PROVE LabelOK'
  BY <1>3 DEF Enqueue, EnqWork
<1>4. ASSUME NEW t \in Threads, Wait(t) PROVE LabelOK'
  BY <1>4 DEF Wait
<1>5. ASSUME NEW t \in Threads, IoLock(t) PROVE LabelOK'
  BY <1>5 DEF IoLock, UvLock
<1>6. ASSUME NEW t \in Threads, ExitRegion(t) PROVE LabelOK'
  <2>1. FlagOK'
    BY <1>6, Zenon DEF ExitRegion, UvLock
  <2>2. DataOK'
    BY <1>6 DEF ExitRegion, UvLock
  <2>3. QED BY <2>1, <2>2
<1>7. ASSUME NEW t \in Threads, UvKick(t) PROVE LabelOK'
  BY <1>7 DEF UvKick
<1>8. ASSUME NEW t \in Threads, UvLocked(t) PROVE LabelOK'
  BY <1>8 DEF UvLocked
<1>9. ASSUME NEW t \in Threads, IoUnlock(t) PROVE LabelOK'
  <2>1. FlagOK'
    BY <1>9, Zenon DEF IoUnlock
  <2>2. DataOK'
    BY <1>9 DEF IoUnlock
  <2>3. QED BY <2>1, <2>2
<1>10. ASSUME NEW t \in Threads, WakeupSelf(t) PROVE LabelOK'
  BY <1>10 DEF WakeupSelf, FencedInsert
<1>11. ASSUME NEW t \in Threads, NobodyAsleep(t) PROVE LabelOK'
  BY <1>11 DEF NobodyAsleep
<1>12. ASSUME NEW t \in Threads, NEW c \in Threads, WakeThread(t, c) PROVE LabelOK'
  BY <1>12 DEF WakeThread
<1>13. ASSUME NEW t \in Threads, CountWakeup(t) PROVE LabelOK'
  BY <1>13 DEF CountWakeup
<1>14. ASSUME NEW t \in Threads, SignalThread(t) PROVE LabelOK'
  BY <1>14 DEF SignalThread, Signalled
<1>15. ASSUME NEW t \in Threads, KickLoop(t) PROVE LabelOK'
  BY <1>15 DEF KickLoop
<1>16. ASSUME NEW t \in Threads, GetNextTask(t) PROVE LabelOK'
  BY <1>16 DEF GetNextTask, Visible, Popped
<1>17. ASSUME NEW t \in Threads, Spin(t) PROVE LabelOK'
  BY <1>17 DEF Spin, CheckEmpty
<1>18. ASSUME NEW t \in Threads, SleepStore(t) PROVE LabelOK'
  BY <1>18 DEF SleepStore, CheckEmpty
<1>19. ASSUME NEW t \in Threads, Recheck(t) PROVE LabelOK'
  BY <1>19 DEF Recheck, FencedSleep, CheckEmpty
<1>20. ASSUME NEW t \in Threads, LastPop(t) PROVE LabelOK'
  BY <1>20 DEF LastPop, Visible, Popped
<1>21. ASSUME NEW t \in Threads, SetNotSleeping(t) PROVE LabelOK'
  BY <1>21 DEF SetNotSleeping
<1>22. ASSUME NEW t \in Threads, ConsumeWakeup(t) PROVE LabelOK'
  BY <1>22 DEF ConsumeWakeup
<1>23. ASSUME NEW t \in Threads, TryUvLock(t) PROVE LabelOK'
  BY <1>23 DEF TryUvLock
<1>24. ASSUME NEW t \in Threads, NotifyIoThread(t) PROVE LabelOK'
  BY <1>24 DEF NotifyIoThread
<1>25. ASSUME NEW t \in Threads, EnterLoop(t) PROVE LabelOK'
  BY <1>25 DEF EnterLoop, MayEnterLoop, MaySleep
<1>26. ASSUME NEW t \in Threads, LoopReturns(t) PROVE LabelOK'
  BY <1>26 DEF LoopReturns
<1>27. ASSUME NEW t \in Threads, LoopEvent(t) PROVE LabelOK'
  BY <1>27 DEF LoopEvent
<1>28. ASSUME NEW t \in Threads, LeaveLoop(t) PROVE LabelOK'
  BY <1>28 DEF LeaveLoop, MaySleep
<1>29. ASSUME NEW t \in Threads, NEW q \in Queues, LoopCallback(t, q) PROVE LabelOK'
  <2>1. FlagOK'
    BY <1>29, Zenon DEF LoopCallback, EnqWork
  <2>2. DataOK'
    BY <1>29 DEF LoopCallback, EnqWork
  <2>3. QED BY <2>1, <2>2
<1>30. ASSUME NEW t \in Threads, StopRunning(t) PROVE LabelOK'
  BY <1>30 DEF StopRunning
<1>31. ASSUME NEW t \in Threads, LastOut(t) PROVE LabelOK'
  BY <1>31 DEF LastOut, Signalled
<1>32. ASSUME NEW t \in Threads, Sleep(t) PROVE LabelOK'
  BY <1>32 DEF Sleep, MaySleep, AllStopped
<1>33. ASSUME NEW t \in Threads, Resume(t) PROVE LabelOK'
  BY <1>33 DEF Resume, MaySleep
<1>34. ASSUME NEW t \in Threads, SpuriousWakeup(t) PROVE LabelOK'
  BY <1>34 DEF SpuriousWakeup
<1>35. ASSUME WaitEmpty PROVE LabelOK'
  BY <1>35 DEF WaitEmpty
<1>36. ASSUME TakeUvLock PROVE LabelOK'
  BY <1>36 DEF TakeUvLock, UvLock
<1>37. ASSUME Emptied PROVE LabelOK'
  <2>1. FlagOK'
    BY <1>37, Zenon DEF Emptied, MaySleep, AllStopped
  <2>2. DataOK'
    BY <1>37 DEF Emptied, MaySleep, AllStopped
  <2>3. QED BY <2>1, <2>2
<1>38. ASSUME UNCHANGED vars PROVE LabelOK'
  BY <1>38 DEF vars, MaySleep
<1>39. QED BY <1>1, <1>2, <1>3, <1>4, <1>5, <1>6, <1>7, <1>8, <1>9, <1>10, <1>11, <1>12,
  <1>13, <1>14, <1>15, <1>16, <1>17, <1>18, <1>19, <1>20, <1>21, <1>22, <1>23, <1>24, <1>25,
  <1>26, <1>27, <1>28, <1>29, <1>30, <1>31, <1>32, <1>33, <1>34, <1>35, <1>36, <1>37, <1>38
  DEF Next, Stores, Running, Wakeup, GetNext, EventLoop, Sleeping

(* A call returns to where it was made from. *)
LEMMA RetStep ==
  ASSUME LabelOK, RetInv, [Next]_vars
  PROVE  RetInv'
<1> USE SchedulerAssumption DEF Goto, uv, waking, work, RetInv, LabelOK, DataOK, FlagOK,
      Label, WakeAt, LockWaitAt, SleepAt, Queues
<1>1. ASSUME NEW t \in Threads, SleepStored(t) PROVE RetInv'
  BY <1>1 DEF SleepStored
<1>2. ASSUME NEW t \in Threads, InsertStored(t) PROVE RetInv'
  BY <1>2 DEF InsertStored
<1>3. ASSUME NEW t \in Threads, NEW q \in Queues, Enqueue(t, q) PROVE RetInv'
  BY <1>3 DEF Enqueue, EnqWork
<1>4. ASSUME NEW t \in Threads, Wait(t) PROVE RetInv'
  BY <1>4 DEF Wait
<1>5. ASSUME NEW t \in Threads, IoLock(t) PROVE RetInv'
  BY <1>5 DEF IoLock, UvLock
<1>6. ASSUME NEW t \in Threads, ExitRegion(t) PROVE RetInv'
  BY <1>6 DEF ExitRegion, UvLock
<1>7. ASSUME NEW t \in Threads, UvKick(t) PROVE RetInv'
  BY <1>7 DEF UvKick
<1>8. ASSUME NEW t \in Threads, UvLocked(t) PROVE RetInv'
  BY <1>8 DEF UvLocked
<1>9. ASSUME NEW t \in Threads, IoUnlock(t) PROVE RetInv'
  BY <1>9 DEF IoUnlock
<1>10. ASSUME NEW t \in Threads, WakeupSelf(t) PROVE RetInv'
  BY <1>10 DEF WakeupSelf, FencedInsert
<1>11. ASSUME NEW t \in Threads, NobodyAsleep(t) PROVE RetInv'
  BY <1>11 DEF NobodyAsleep
<1>12. ASSUME NEW t \in Threads, NEW c \in Threads, WakeThread(t, c) PROVE RetInv'
  BY <1>12 DEF WakeThread
<1>13. ASSUME NEW t \in Threads, CountWakeup(t) PROVE RetInv'
  BY <1>13 DEF CountWakeup
<1>14. ASSUME NEW t \in Threads, SignalThread(t) PROVE RetInv'
  <2>1. target[t] \in Threads
    BY <1>14 DEF SignalThread, Signalled
  <2>2. \A v \in Threads : pc'[v] = pc[v] \/ pc'[v] \in {"kick", "parked"}
    BY <1>14, <2>1 DEF SignalThread, Signalled
  <2>3. UNCHANGED <<ret, target>> /\ pc'[t] = "kick"
    BY <1>14, <2>1 DEF SignalThread, Signalled
  <2>4. \A v \in Threads : v # t /\ pc'[v] = "kick" => pc[v] = "kick"
    BY <1>14, <2>1 DEF SignalThread, Signalled
  <2>5. QED BY <1>14, <2>1, <2>2, <2>3, <2>4 DEF SignalThread
<1>15. ASSUME NEW t \in Threads, KickLoop(t) PROVE RetInv'
  BY <1>15 DEF KickLoop
<1>16. ASSUME NEW t \in Threads, GetNextTask(t) PROVE RetInv'
  BY <1>16 DEF GetNextTask
<1>17. ASSUME NEW t \in Threads, Spin(t) PROVE RetInv'
  BY <1>17 DEF Spin
<1>18. ASSUME NEW t \in Threads, SleepStore(t) PROVE RetInv'
  BY <1>18 DEF SleepStore
<1>19. ASSUME NEW t \in Threads, Recheck(t) PROVE RetInv'
  BY <1>19 DEF Recheck, FencedSleep
<1>20. ASSUME NEW t \in Threads, LastPop(t) PROVE RetInv'
  BY <1>20 DEF LastPop
<1>21. ASSUME NEW t \in Threads, SetNotSleeping(t) PROVE RetInv'
  BY <1>21 DEF SetNotSleeping
<1>22. ASSUME NEW t \in Threads, ConsumeWakeup(t) PROVE RetInv'
  BY <1>22 DEF ConsumeWakeup
<1>23. ASSUME NEW t \in Threads, TryUvLock(t) PROVE RetInv'
  BY <1>23 DEF TryUvLock
<1>24. ASSUME NEW t \in Threads, NotifyIoThread(t) PROVE RetInv'
  BY <1>24 DEF NotifyIoThread
<1>25. ASSUME NEW t \in Threads, EnterLoop(t) PROVE RetInv'
  BY <1>25 DEF EnterLoop, MayEnterLoop, MaySleep
<1>26. ASSUME NEW t \in Threads, LoopReturns(t) PROVE RetInv'
  BY <1>26 DEF LoopReturns
<1>27. ASSUME NEW t \in Threads, LoopEvent(t) PROVE RetInv'
  BY <1>27 DEF LoopEvent
<1>28. ASSUME NEW t \in Threads, LeaveLoop(t) PROVE RetInv'
  BY <1>28 DEF LeaveLoop, MaySleep
<1>29. ASSUME NEW t \in Threads, NEW q \in Queues, LoopCallback(t, q) PROVE RetInv'
  BY <1>29 DEF LoopCallback, EnqWork
<1>30. ASSUME NEW t \in Threads, StopRunning(t) PROVE RetInv'
  BY <1>30 DEF StopRunning
<1>31. ASSUME NEW t \in Threads, LastOut(t) PROVE RetInv'
  BY <1>31 DEF LastOut, Signalled
<1>32. ASSUME NEW t \in Threads, Sleep(t) PROVE RetInv'
  BY <1>32 DEF Sleep, MaySleep, AllStopped
<1>33. ASSUME NEW t \in Threads, Resume(t) PROVE RetInv'
  BY <1>33 DEF Resume, MaySleep
<1>34. ASSUME NEW t \in Threads, SpuriousWakeup(t) PROVE RetInv'
  BY <1>34 DEF SpuriousWakeup
<1>35. ASSUME WaitEmpty PROVE RetInv'
  BY <1>35 DEF WaitEmpty
<1>36. ASSUME TakeUvLock PROVE RetInv'
  BY <1>36 DEF TakeUvLock, UvLock
<1>37. ASSUME Emptied PROVE RetInv'
  BY <1>37 DEF Emptied, MaySleep, AllStopped
<1>38. ASSUME UNCHANGED vars PROVE RetInv'
  BY <1>38 DEF vars, MaySleep
<1>39. QED BY <1>1, <1>2, <1>3, <1>4, <1>5, <1>6, <1>7, <1>8, <1>9, <1>10, <1>11, <1>12,
  <1>13, <1>14, <1>15, <1>16, <1>17, <1>18, <1>19, <1>20, <1>21, <1>22, <1>23, <1>24, <1>25,
  <1>26, <1>27, <1>28, <1>29, <1>30, <1>31, <1>32, <1>33, <1>34, <1>35, <1>36, <1>37, <1>38
  DEF Next, Stores, Running, Wakeup, GetNext, EventLoop, Sleeping

(* A store leaves the buffer before its thread goes past the fence. *)
LEMMA LagStep ==
  ASSUME LabelOK, RetInv, LagInv, [Next]_vars
  PROVE  LagInv'
<1> USE SchedulerAssumption DEF Goto, uv, waking, work, LagInv, LabelOK, RetInv, DataOK,
      FlagOK, Label, WakeAt, LockWaitAt, SleepAt, Queues
<1>1. ASSUME NEW t \in Threads, SleepStored(t) PROVE LagInv'
  BY <1>1 DEF SleepStored
<1>2. ASSUME NEW t \in Threads, InsertStored(t) PROVE LagInv'
  BY <1>2 DEF InsertStored
<1>3. ASSUME NEW t \in Threads, NEW q \in Queues, Enqueue(t, q) PROVE LagInv'
  BY <1>3 DEF Enqueue, EnqWork
<1>4. ASSUME NEW t \in Threads, Wait(t) PROVE LagInv'
  BY <1>4 DEF Wait
<1>5. ASSUME NEW t \in Threads, IoLock(t) PROVE LagInv'
  <2>1. inserting[t] = Nobody /\ ~storing[t]
    BY <1>5 DEF IoLock, UvLock
  <2>2. UNCHANGED <<inserting, storing>>
    BY <1>5 DEF IoLock, UvLock
  <2>3. \A v \in Threads \ {t} : pc'[v] = pc[v] /\ candidates'[v] = candidates[v]
    BY <1>5 DEF IoLock, UvLock
  <2>4. QED BY <2>1, <2>2, <2>3, ZenonT(60)
<1>6. ASSUME NEW t \in Threads, ExitRegion(t) PROVE LagInv'
  <2>1. inserting[t] = Nobody /\ ~storing[t]
    BY <1>6 DEF ExitRegion, UvLock
  <2>2. UNCHANGED <<inserting, storing>>
    BY <1>6 DEF ExitRegion, UvLock
  <2>3. \A v \in Threads \ {t} : pc'[v] = pc[v] /\ candidates'[v] = candidates[v]
    BY <1>6 DEF ExitRegion, UvLock
  <2>4. QED BY <2>1, <2>2, <2>3, ZenonT(60)
<1>7. ASSUME NEW t \in Threads, UvKick(t) PROVE LagInv'
  BY <1>7 DEF UvKick
<1>8. ASSUME NEW t \in Threads, UvLocked(t) PROVE LagInv'
  BY <1>8 DEF UvLocked
<1>9. ASSUME NEW t \in Threads, IoUnlock(t) PROVE LagInv'
  <2>1. inserting[t] = Nobody /\ ~storing[t]
    BY <1>9 DEF IoUnlock
  <2>2. UNCHANGED <<inserting, storing>>
    BY <1>9 DEF IoUnlock
  <2>3. \A v \in Threads \ {t} : pc'[v] = pc[v] /\ candidates'[v] = candidates[v]
    BY <1>9 DEF IoUnlock
  <2>4. QED BY <2>1, <2>2, <2>3, ZenonT(60)
<1>10. ASSUME NEW t \in Threads, WakeupSelf(t) PROVE LagInv'
  BY <1>10 DEF WakeupSelf, FencedInsert
<1>11. ASSUME NEW t \in Threads, NobodyAsleep(t) PROVE LagInv'
  BY <1>11 DEF NobodyAsleep
<1>12. ASSUME NEW t \in Threads, NEW c \in Threads, WakeThread(t, c) PROVE LagInv'
  <2>1. inserting[t] = Nobody /\ ~storing[t]
    BY <1>12 DEF WakeThread
  <2>2. UNCHANGED <<inserting, storing>>
    BY <1>12 DEF WakeThread
  <2>3. \A v \in Threads \ {t} : pc'[v] = pc[v] /\ candidates'[v] = candidates[v]
    BY <1>12 DEF WakeThread
  <2>4. QED BY <2>1, <2>2, <2>3, ZenonT(60)
<1>13. ASSUME NEW t \in Threads, CountWakeup(t) PROVE LagInv'
  BY <1>13 DEF CountWakeup
<1>14. ASSUME NEW t \in Threads, SignalThread(t) PROVE LagInv'
  BY <1>14 DEF SignalThread, Signalled
<1>15. ASSUME NEW t \in Threads, KickLoop(t) PROVE LagInv'
  BY <1>15 DEF KickLoop
<1>16. ASSUME NEW t \in Threads, GetNextTask(t) PROVE LagInv'
  BY <1>16 DEF GetNextTask
<1>17. ASSUME NEW t \in Threads, Spin(t) PROVE LagInv'
  BY <1>17 DEF Spin
<1>18. ASSUME NEW t \in Threads, SleepStore(t) PROVE LagInv'
  BY <1>18 DEF SleepStore
<1>19. ASSUME NEW t \in Threads, Recheck(t) PROVE LagInv'
  BY <1>19 DEF Recheck, FencedSleep
<1>20. ASSUME NEW t \in Threads, LastPop(t) PROVE LagInv'
  BY <1>20 DEF LastPop
<1>21. ASSUME NEW t \in Threads, SetNotSleeping(t) PROVE LagInv'
  BY <1>21 DEF SetNotSleeping
<1>22. ASSUME NEW t \in Threads, ConsumeWakeup(t) PROVE LagInv'
  BY <1>22 DEF ConsumeWakeup
<1>23. ASSUME NEW t \in Threads, TryUvLock(t) PROVE LagInv'
  BY <1>23 DEF TryUvLock
<1>24. ASSUME NEW t \in Threads, NotifyIoThread(t) PROVE LagInv'
  BY <1>24, ZenonT(60) DEF NotifyIoThread
<1>25. ASSUME NEW t \in Threads, EnterLoop(t) PROVE LagInv'
  BY <1>25 DEF EnterLoop, MayEnterLoop, MaySleep
<1>26. ASSUME NEW t \in Threads, LoopReturns(t) PROVE LagInv'
  BY <1>26 DEF LoopReturns
<1>27. ASSUME NEW t \in Threads, LoopEvent(t) PROVE LagInv'
  BY <1>27 DEF LoopEvent
<1>28. ASSUME NEW t \in Threads, LeaveLoop(t) PROVE LagInv'
  BY <1>28 DEF LeaveLoop, MaySleep
<1>29. ASSUME NEW t \in Threads, NEW q \in Queues, LoopCallback(t, q) PROVE LagInv'
  BY <1>29 DEF LoopCallback, EnqWork
<1>30. ASSUME NEW t \in Threads, StopRunning(t) PROVE LagInv'
  BY <1>30 DEF StopRunning
<1>31. ASSUME NEW t \in Threads, LastOut(t) PROVE LagInv'
  BY <1>31 DEF LastOut, Signalled
<1>32. ASSUME NEW t \in Threads, Sleep(t) PROVE LagInv'
  BY <1>32 DEF Sleep, MaySleep, AllStopped
<1>33. ASSUME NEW t \in Threads, Resume(t) PROVE LagInv'
  BY <1>33 DEF Resume, MaySleep
<1>34. ASSUME NEW t \in Threads, SpuriousWakeup(t) PROVE LagInv'
  BY <1>34 DEF SpuriousWakeup
<1>35. ASSUME WaitEmpty PROVE LagInv'
  BY <1>35 DEF WaitEmpty
<1>36. ASSUME TakeUvLock PROVE LagInv'
  BY <1>36 DEF TakeUvLock, UvLock
<1>37. ASSUME Emptied PROVE LagInv'
  BY <1>37 DEF Emptied, MaySleep, AllStopped
<1>38. ASSUME UNCHANGED vars PROVE LagInv'
  BY <1>38 DEF vars, MaySleep
<1>39. QED BY <1>1, <1>2, <1>3, <1>4, <1>5, <1>6, <1>7, <1>8, <1>9, <1>10, <1>11, <1>12,
  <1>13, <1>14, <1>15, <1>16, <1>17, <1>18, <1>19, <1>20, <1>21, <1>22, <1>23, <1>24, <1>25,
  <1>26, <1>27, <1>28, <1>29, <1>30, <1>31, <1>32, <1>33, <1>34, <1>35, <1>36, <1>37, <1>38
  DEF Next, Stores, Running, Wakeup, GetNext, EventLoop, Sleeping

(* sleep_check_state says sleeping only between the store and the end of the
   sleep: every way out of it clears the mark or finds it cleared. *)
LEMMA MarkStep ==
  ASSUME LabelOK, RetInv, LagInv, MarkInv, [Next]_vars
  PROVE  MarkInv'
<1> USE SchedulerAssumption DEF Goto, uv, waking, work, MarkInv, LabelOK, RetInv, LagInv,
      GoingToSleep, MaySleep, DataOK, FlagOK, Label, WakeAt, LockWaitAt, SleepAt, Queues
<1>1. ASSUME NEW t \in Threads, SleepStored(t) PROVE MarkInv'
  BY <1>1 DEF SleepStored
<1>2. ASSUME NEW t \in Threads, InsertStored(t) PROVE MarkInv'
  BY <1>2 DEF InsertStored
<1>3. ASSUME NEW t \in Threads, NEW q \in Queues, Enqueue(t, q) PROVE MarkInv'
  BY <1>3 DEF Enqueue, EnqWork
<1>4. ASSUME NEW t \in Threads, Wait(t) PROVE MarkInv'
  BY <1>4 DEF Wait
<1>5. ASSUME NEW t \in Threads, IoLock(t) PROVE MarkInv'
  BY <1>5 DEF IoLock, UvLock
<1>6. ASSUME NEW t \in Threads, ExitRegion(t) PROVE MarkInv'
  BY <1>6 DEF ExitRegion, UvLock
<1>7. ASSUME NEW t \in Threads, UvKick(t) PROVE MarkInv'
  BY <1>7 DEF UvKick
<1>8. ASSUME NEW t \in Threads, UvLocked(t) PROVE MarkInv'
  BY <1>8 DEF UvLocked
<1>9. ASSUME NEW t \in Threads, IoUnlock(t) PROVE MarkInv'
  BY <1>9 DEF IoUnlock
<1>10. ASSUME NEW t \in Threads, WakeupSelf(t) PROVE MarkInv'
  BY <1>10 DEF WakeupSelf, FencedInsert
<1>11. ASSUME NEW t \in Threads, NobodyAsleep(t) PROVE MarkInv'
  BY <1>11 DEF NobodyAsleep
<1>12. ASSUME NEW t \in Threads, NEW c \in Threads, WakeThread(t, c) PROVE MarkInv'
  BY <1>12 DEF WakeThread
<1>13. ASSUME NEW t \in Threads, CountWakeup(t) PROVE MarkInv'
  BY <1>13 DEF CountWakeup
<1>14. ASSUME NEW t \in Threads, SignalThread(t) PROVE MarkInv'
  BY <1>14 DEF SignalThread, Signalled
<1>15. ASSUME NEW t \in Threads, KickLoop(t) PROVE MarkInv'
  BY <1>15 DEF KickLoop
<1>16. ASSUME NEW t \in Threads, GetNextTask(t) PROVE MarkInv'
  BY <1>16 DEF GetNextTask
<1>17. ASSUME NEW t \in Threads, Spin(t) PROVE MarkInv'
  BY <1>17 DEF Spin
<1>18. ASSUME NEW t \in Threads, SleepStore(t) PROVE MarkInv'
  BY <1>18 DEF SleepStore
<1>19. ASSUME NEW t \in Threads, Recheck(t) PROVE MarkInv'
  BY <1>19 DEF Recheck, FencedSleep
<1>20. ASSUME NEW t \in Threads, LastPop(t) PROVE MarkInv'
  BY <1>20 DEF LastPop
<1>21. ASSUME NEW t \in Threads, SetNotSleeping(t) PROVE MarkInv'
  BY <1>21 DEF SetNotSleeping
<1>22. ASSUME NEW t \in Threads, ConsumeWakeup(t) PROVE MarkInv'
  BY <1>22 DEF ConsumeWakeup
<1>23. ASSUME NEW t \in Threads, TryUvLock(t) PROVE MarkInv'
  BY <1>23 DEF TryUvLock
<1>24. ASSUME NEW t \in Threads, NotifyIoThread(t) PROVE MarkInv'
  BY <1>24 DEF NotifyIoThread
<1>25. ASSUME NEW t \in Threads, EnterLoop(t) PROVE MarkInv'
  BY <1>25 DEF EnterLoop, MayEnterLoop
<1>26. ASSUME NEW t \in Threads, LoopReturns(t) PROVE MarkInv'
  BY <1>26 DEF LoopReturns
<1>27. ASSUME NEW t \in Threads, LoopEvent(t) PROVE MarkInv'
  BY <1>27 DEF LoopEvent
<1>28. ASSUME NEW t \in Threads, LeaveLoop(t) PROVE MarkInv'
  BY <1>28 DEF LeaveLoop
<1>29. ASSUME NEW t \in Threads, NEW q \in Queues, LoopCallback(t, q) PROVE MarkInv'
  BY <1>29 DEF LoopCallback, EnqWork
<1>30. ASSUME NEW t \in Threads, StopRunning(t) PROVE MarkInv'
  BY <1>30 DEF StopRunning
<1>31. ASSUME NEW t \in Threads, LastOut(t) PROVE MarkInv'
  BY <1>31 DEF LastOut, Signalled
<1>32. ASSUME NEW t \in Threads, Sleep(t) PROVE MarkInv'
  BY <1>32 DEF Sleep, AllStopped
<1>33. ASSUME NEW t \in Threads, Resume(t) PROVE MarkInv'
  BY <1>33 DEF Resume
<1>34. ASSUME NEW t \in Threads, SpuriousWakeup(t) PROVE MarkInv'
  BY <1>34 DEF SpuriousWakeup
<1>35. ASSUME WaitEmpty PROVE MarkInv'
  BY <1>35 DEF WaitEmpty
<1>36. ASSUME TakeUvLock PROVE MarkInv'
  BY <1>36 DEF TakeUvLock, UvLock
<1>37. ASSUME Emptied PROVE MarkInv'
  BY <1>37 DEF Emptied, AllStopped
<1>38. ASSUME UNCHANGED vars PROVE MarkInv'
  BY <1>38 DEF vars
<1>39. QED BY <1>1, <1>2, <1>3, <1>4, <1>5, <1>6, <1>7, <1>8, <1>9, <1>10, <1>11, <1>12,
  <1>13, <1>14, <1>15, <1>16, <1>17, <1>18, <1>19, <1>20, <1>21, <1>22, <1>23, <1>24, <1>25,
  <1>26, <1>27, <1>28, <1>29, <1>30, <1>31, <1>32, <1>33, <1>34, <1>35, <1>36, <1>37, <1>38
  DEF Next, Stores, Running, Wakeup, GetNext, EventLoop, Sleeping

(* A wakeup of the pool may take any thread of it, another wakeup only one. *)
LEMMA CandStep ==
  ASSUME LabelOK, CandInv, [Next]_vars
  PROVE  CandInv'
<1> USE SchedulerAssumption DEF Goto, uv, waking, work, CandInv, LabelOK, DataOK, FlagOK,
      Label, WakeAt, LockWaitAt, SleepAt, Queues
<1>1. ASSUME NEW t \in Threads, SleepStored(t) PROVE CandInv'
  BY <1>1 DEF SleepStored
<1>2. ASSUME NEW t \in Threads, InsertStored(t) PROVE CandInv'
  BY <1>2 DEF InsertStored
<1>3. ASSUME NEW t \in Threads, NEW q \in Queues, Enqueue(t, q) PROVE CandInv'
  BY <1>3 DEF Enqueue, EnqWork
<1>4. ASSUME NEW t \in Threads, Wait(t) PROVE CandInv'
  BY <1>4 DEF Wait
<1>5. ASSUME NEW t \in Threads, IoLock(t) PROVE CandInv'
  BY <1>5 DEF IoLock, UvLock
<1>6. ASSUME NEW t \in Threads, ExitRegion(t) PROVE CandInv'
  BY <1>6 DEF ExitRegion, UvLock
<1>7. ASSUME NEW t \in Threads, UvKick(t) PROVE CandInv'
  BY <1>7 DEF UvKick
<1>8. ASSUME NEW t \in Threads, UvLocked(t) PROVE CandInv'
  BY <1>8 DEF UvLocked
<1>9. ASSUME NEW t \in Threads, IoUnlock(t) PROVE CandInv'
  BY <1>9 DEF IoUnlock
<1>10. ASSUME NEW t \in Threads, WakeupSelf(t) PROVE CandInv'
  BY <1>10 DEF WakeupSelf, FencedInsert
<1>11. ASSUME NEW t \in Threads, NobodyAsleep(t) PROVE CandInv'
  BY <1>11 DEF NobodyAsleep
<1>12. ASSUME NEW t \in Threads, NEW c \in Threads, WakeThread(t, c) PROVE CandInv'
  BY <1>12 DEF WakeThread
<1>13. ASSUME NEW t \in Threads, CountWakeup(t) PROVE CandInv'
  BY <1>13 DEF CountWakeup
<1>14. ASSUME NEW t \in Threads, SignalThread(t) PROVE CandInv'
  BY <1>14 DEF SignalThread, Signalled
<1>15. ASSUME NEW t \in Threads, KickLoop(t) PROVE CandInv'
  BY <1>15 DEF KickLoop
<1>16. ASSUME NEW t \in Threads, GetNextTask(t) PROVE CandInv'
  BY <1>16 DEF GetNextTask
<1>17. ASSUME NEW t \in Threads, Spin(t) PROVE CandInv'
  BY <1>17 DEF Spin
<1>18. ASSUME NEW t \in Threads, SleepStore(t) PROVE CandInv'
  BY <1>18 DEF SleepStore
<1>19. ASSUME NEW t \in Threads, Recheck(t) PROVE CandInv'
  BY <1>19 DEF Recheck, FencedSleep
<1>20. ASSUME NEW t \in Threads, LastPop(t) PROVE CandInv'
  BY <1>20 DEF LastPop
<1>21. ASSUME NEW t \in Threads, SetNotSleeping(t) PROVE CandInv'
  BY <1>21 DEF SetNotSleeping
<1>22. ASSUME NEW t \in Threads, ConsumeWakeup(t) PROVE CandInv'
  BY <1>22 DEF ConsumeWakeup
<1>23. ASSUME NEW t \in Threads, TryUvLock(t) PROVE CandInv'
  BY <1>23 DEF TryUvLock
<1>24. ASSUME NEW t \in Threads, NotifyIoThread(t) PROVE CandInv'
  BY <1>24 DEF NotifyIoThread
<1>25. ASSUME NEW t \in Threads, EnterLoop(t) PROVE CandInv'
  BY <1>25 DEF EnterLoop, MayEnterLoop, MaySleep
<1>26. ASSUME NEW t \in Threads, LoopReturns(t) PROVE CandInv'
  BY <1>26 DEF LoopReturns
<1>27. ASSUME NEW t \in Threads, LoopEvent(t) PROVE CandInv'
  BY <1>27 DEF LoopEvent
<1>28. ASSUME NEW t \in Threads, LeaveLoop(t) PROVE CandInv'
  BY <1>28 DEF LeaveLoop, MaySleep
<1>29. ASSUME NEW t \in Threads, NEW q \in Queues, LoopCallback(t, q) PROVE CandInv'
  BY <1>29 DEF LoopCallback, EnqWork
<1>30. ASSUME NEW t \in Threads, StopRunning(t) PROVE CandInv'
  BY <1>30 DEF StopRunning
<1>31. ASSUME NEW t \in Threads, LastOut(t) PROVE CandInv'
  BY <1>31 DEF LastOut, Signalled
<1>32. ASSUME NEW t \in Threads, Sleep(t) PROVE CandInv'
  BY <1>32 DEF Sleep, MaySleep, AllStopped
<1>33. ASSUME NEW t \in Threads, Resume(t) PROVE CandInv'
  BY <1>33 DEF Resume, MaySleep
<1>34. ASSUME NEW t \in Threads, SpuriousWakeup(t) PROVE CandInv'
  BY <1>34 DEF SpuriousWakeup
<1>35. ASSUME WaitEmpty PROVE CandInv'
  BY <1>35 DEF WaitEmpty
<1>36. ASSUME TakeUvLock PROVE CandInv'
  BY <1>36 DEF TakeUvLock, UvLock
<1>37. ASSUME Emptied PROVE CandInv'
  BY <1>37 DEF Emptied, MaySleep, AllStopped
<1>38. ASSUME UNCHANGED vars PROVE CandInv'
  BY <1>38 DEF vars, MaySleep
<1>39. QED BY <1>1, <1>2, <1>3, <1>4, <1>5, <1>6, <1>7, <1>8, <1>9, <1>10, <1>11, <1>12,
  <1>13, <1>14, <1>15, <1>16, <1>17, <1>18, <1>19, <1>20, <1>21, <1>22, <1>23, <1>24, <1>25,
  <1>26, <1>27, <1>28, <1>29, <1>30, <1>31, <1>32, <1>33, <1>34, <1>35, <1>36, <1>37, <1>38
  DEF Next, Stores, Running, Wakeup, GetNext, EventLoop, Sleeping

(* jl_uv_mutex and jl_uv_n_waiters, across uv_run and its callbacks. *)
LEMMA UvStep ==
  ASSUME LabelOK, RetInv, LagInv, MarkInv, UvInv, [Next]_vars
  PROVE  UvInv'
<1> USE SchedulerAssumption DEF Goto, uv, waking, work, UvInv, LabelOK, RetInv, LagInv,
      MarkInv, Owns, GoingToSleep, MaySleep, DataOK, FlagOK, Label, WakeAt, LockWaitAt,
      SleepAt, Queues
<1>1. ASSUME NEW t \in Threads, SleepStored(t) PROVE UvInv'
  BY <1>1 DEF SleepStored
<1>2. ASSUME NEW t \in Threads, InsertStored(t) PROVE UvInv'
  BY <1>2 DEF InsertStored
<1>3. ASSUME NEW t \in Threads, NEW q \in Queues, Enqueue(t, q) PROVE UvInv'
  BY <1>3 DEF Enqueue, EnqWork
<1>4. ASSUME NEW t \in Threads, Wait(t) PROVE UvInv'
  BY <1>4 DEF Wait
<1>5. ASSUME NEW t \in Threads, IoLock(t) PROVE UvInv'
  BY <1>5 DEF IoLock, UvLock
<1>6. ASSUME NEW t \in Threads, ExitRegion(t) PROVE UvInv'
  BY <1>6 DEF ExitRegion, UvLock
<1>7. ASSUME NEW t \in Threads, UvKick(t) PROVE UvInv'
  BY <1>7 DEF UvKick
<1>8. ASSUME NEW t \in Threads, UvLocked(t) PROVE UvInv'
  BY <1>8 DEF UvLocked
<1>9. ASSUME NEW t \in Threads, IoUnlock(t) PROVE UvInv'
  BY <1>9 DEF IoUnlock
<1>10. ASSUME NEW t \in Threads, WakeupSelf(t) PROVE UvInv'
  BY <1>10 DEF WakeupSelf, FencedInsert
<1>11. ASSUME NEW t \in Threads, NobodyAsleep(t) PROVE UvInv'
  BY <1>11 DEF NobodyAsleep
<1>12. ASSUME NEW t \in Threads, NEW c \in Threads, WakeThread(t, c) PROVE UvInv'
  BY <1>12 DEF WakeThread
<1>13. ASSUME NEW t \in Threads, CountWakeup(t) PROVE UvInv'
  BY <1>13 DEF CountWakeup
<1>14. ASSUME NEW t \in Threads, SignalThread(t) PROVE UvInv'
  BY <1>14 DEF SignalThread, Signalled
<1>15. ASSUME NEW t \in Threads, KickLoop(t) PROVE UvInv'
  BY <1>15 DEF KickLoop
<1>16. ASSUME NEW t \in Threads, GetNextTask(t) PROVE UvInv'
  BY <1>16 DEF GetNextTask
<1>17. ASSUME NEW t \in Threads, Spin(t) PROVE UvInv'
  BY <1>17 DEF Spin
<1>18. ASSUME NEW t \in Threads, SleepStore(t) PROVE UvInv'
  BY <1>18 DEF SleepStore
<1>19. ASSUME NEW t \in Threads, Recheck(t) PROVE UvInv'
  BY <1>19 DEF Recheck, FencedSleep
<1>20. ASSUME NEW t \in Threads, LastPop(t) PROVE UvInv'
  BY <1>20 DEF LastPop
<1>21. ASSUME NEW t \in Threads, SetNotSleeping(t) PROVE UvInv'
  BY <1>21 DEF SetNotSleeping
<1>22. ASSUME NEW t \in Threads, ConsumeWakeup(t) PROVE UvInv'
  BY <1>22 DEF ConsumeWakeup
<1>23. ASSUME NEW t \in Threads, TryUvLock(t) PROVE UvInv'
  BY <1>23 DEF TryUvLock
<1>24. ASSUME NEW t \in Threads, NotifyIoThread(t) PROVE UvInv'
  BY <1>24 DEF NotifyIoThread
<1>25. ASSUME NEW t \in Threads, EnterLoop(t) PROVE UvInv'
  BY <1>25 DEF EnterLoop, MayEnterLoop
<1>26. ASSUME NEW t \in Threads, LoopReturns(t) PROVE UvInv'
  BY <1>26 DEF LoopReturns
<1>27. ASSUME NEW t \in Threads, LoopEvent(t) PROVE UvInv'
  BY <1>27 DEF LoopEvent
<1>28. ASSUME NEW t \in Threads, LeaveLoop(t) PROVE UvInv'
  BY <1>28 DEF LeaveLoop
<1>29. ASSUME NEW t \in Threads, NEW q \in Queues, LoopCallback(t, q) PROVE UvInv'
  BY <1>29 DEF LoopCallback, EnqWork
<1>30. ASSUME NEW t \in Threads, StopRunning(t) PROVE UvInv'
  BY <1>30 DEF StopRunning
<1>31. ASSUME NEW t \in Threads, LastOut(t) PROVE UvInv'
  BY <1>31 DEF LastOut, Signalled
<1>32. ASSUME NEW t \in Threads, Sleep(t) PROVE UvInv'
  BY <1>32 DEF Sleep, AllStopped
<1>33. ASSUME NEW t \in Threads, Resume(t) PROVE UvInv'
  BY <1>33 DEF Resume
<1>34. ASSUME NEW t \in Threads, SpuriousWakeup(t) PROVE UvInv'
  BY <1>34 DEF SpuriousWakeup
<1>35. ASSUME WaitEmpty PROVE UvInv'
  BY <1>35 DEF WaitEmpty
<1>36. ASSUME TakeUvLock PROVE UvInv'
  BY <1>36 DEF TakeUvLock, UvLock
<1>37. ASSUME Emptied PROVE UvInv'
  BY <1>37 DEF Emptied, AllStopped
<1>38. ASSUME UNCHANGED vars PROVE UvInv'
  BY <1>38 DEF vars
<1>39. QED BY <1>1, <1>2, <1>3, <1>4, <1>5, <1>6, <1>7, <1>8, <1>9, <1>10, <1>11, <1>12,
  <1>13, <1>14, <1>15, <1>16, <1>17, <1>18, <1>19, <1>20, <1>21, <1>22, <1>23, <1>24, <1>25,
  <1>26, <1>27, <1>28, <1>29, <1>30, <1>31, <1>32, <1>33, <1>34, <1>35, <1>36, <1>37, <1>38
  DEF Next, Stores, Running, Wakeup, GetNext, EventLoop, Sleeping

(* A waiter kicks the owner out of uv_run, and uv_run is not entered past one. *)
LEMMA YieldStep ==
  ASSUME LabelOK, RetInv, UvInv, LoopYieldsLock, [Next]_vars
  PROVE  LoopYieldsLock'
<1> USE SchedulerAssumption DEF Goto, uv, waking, work, LoopYieldsLock, LabelOK, RetInv,
      UvInv, Owns, DataOK, FlagOK, Label, WakeAt, LockWaitAt, SleepAt, Queues
<1>1. ASSUME NEW t \in Threads, SleepStored(t) PROVE LoopYieldsLock'
  BY <1>1 DEF SleepStored
<1>2. ASSUME NEW t \in Threads, InsertStored(t) PROVE LoopYieldsLock'
  BY <1>2 DEF InsertStored
<1>3. ASSUME NEW t \in Threads, NEW q \in Queues, Enqueue(t, q) PROVE LoopYieldsLock'
  BY <1>3 DEF Enqueue, EnqWork
<1>4. ASSUME NEW t \in Threads, Wait(t) PROVE LoopYieldsLock'
  BY <1>4 DEF Wait
<1>5. ASSUME NEW t \in Threads, IoLock(t) PROVE LoopYieldsLock'
  BY <1>5 DEF IoLock, UvLock
<1>6. ASSUME NEW t \in Threads, ExitRegion(t) PROVE LoopYieldsLock'
  BY <1>6 DEF ExitRegion, UvLock
<1>7. ASSUME NEW t \in Threads, UvKick(t) PROVE LoopYieldsLock'
  BY <1>7 DEF UvKick
<1>8. ASSUME NEW t \in Threads, UvLocked(t) PROVE LoopYieldsLock'
  BY <1>8 DEF UvLocked
<1>9. ASSUME NEW t \in Threads, IoUnlock(t) PROVE LoopYieldsLock'
  BY <1>9 DEF IoUnlock
<1>10. ASSUME NEW t \in Threads, WakeupSelf(t) PROVE LoopYieldsLock'
  BY <1>10 DEF WakeupSelf, FencedInsert
<1>11. ASSUME NEW t \in Threads, NobodyAsleep(t) PROVE LoopYieldsLock'
  BY <1>11 DEF NobodyAsleep
<1>12. ASSUME NEW t \in Threads, NEW c \in Threads, WakeThread(t, c) PROVE LoopYieldsLock'
  BY <1>12 DEF WakeThread
<1>13. ASSUME NEW t \in Threads, CountWakeup(t) PROVE LoopYieldsLock'
  BY <1>13 DEF CountWakeup
<1>14. ASSUME NEW t \in Threads, SignalThread(t) PROVE LoopYieldsLock'
  BY <1>14 DEF SignalThread, Signalled
<1>15. ASSUME NEW t \in Threads, KickLoop(t) PROVE LoopYieldsLock'
  BY <1>15 DEF KickLoop
<1>16. ASSUME NEW t \in Threads, GetNextTask(t) PROVE LoopYieldsLock'
  BY <1>16 DEF GetNextTask
<1>17. ASSUME NEW t \in Threads, Spin(t) PROVE LoopYieldsLock'
  BY <1>17 DEF Spin
<1>18. ASSUME NEW t \in Threads, SleepStore(t) PROVE LoopYieldsLock'
  BY <1>18 DEF SleepStore
<1>19. ASSUME NEW t \in Threads, Recheck(t) PROVE LoopYieldsLock'
  BY <1>19 DEF Recheck, FencedSleep
<1>20. ASSUME NEW t \in Threads, LastPop(t) PROVE LoopYieldsLock'
  BY <1>20 DEF LastPop
<1>21. ASSUME NEW t \in Threads, SetNotSleeping(t) PROVE LoopYieldsLock'
  BY <1>21 DEF SetNotSleeping
<1>22. ASSUME NEW t \in Threads, ConsumeWakeup(t) PROVE LoopYieldsLock'
  BY <1>22 DEF ConsumeWakeup
<1>23. ASSUME NEW t \in Threads, TryUvLock(t) PROVE LoopYieldsLock'
  BY <1>23 DEF TryUvLock
<1>24. ASSUME NEW t \in Threads, NotifyIoThread(t) PROVE LoopYieldsLock'
  BY <1>24 DEF NotifyIoThread
<1>25. ASSUME NEW t \in Threads, EnterLoop(t) PROVE LoopYieldsLock'
  BY <1>25 DEF EnterLoop, MayEnterLoop, MaySleep
<1>26. ASSUME NEW t \in Threads, LoopReturns(t) PROVE LoopYieldsLock'
  BY <1>26 DEF LoopReturns
<1>27. ASSUME NEW t \in Threads, LoopEvent(t) PROVE LoopYieldsLock'
  BY <1>27 DEF LoopEvent
<1>28. ASSUME NEW t \in Threads, LeaveLoop(t) PROVE LoopYieldsLock'
  BY <1>28 DEF LeaveLoop, MaySleep
<1>29. ASSUME NEW t \in Threads, NEW q \in Queues, LoopCallback(t, q) PROVE LoopYieldsLock'
  BY <1>29 DEF LoopCallback, EnqWork
<1>30. ASSUME NEW t \in Threads, StopRunning(t) PROVE LoopYieldsLock'
  BY <1>30 DEF StopRunning
<1>31. ASSUME NEW t \in Threads, LastOut(t) PROVE LoopYieldsLock'
  BY <1>31 DEF LastOut, Signalled
<1>32. ASSUME NEW t \in Threads, Sleep(t) PROVE LoopYieldsLock'
  BY <1>32 DEF Sleep, MaySleep, AllStopped
<1>33. ASSUME NEW t \in Threads, Resume(t) PROVE LoopYieldsLock'
  BY <1>33 DEF Resume, MaySleep
<1>34. ASSUME NEW t \in Threads, SpuriousWakeup(t) PROVE LoopYieldsLock'
  BY <1>34 DEF SpuriousWakeup
<1>35. ASSUME WaitEmpty PROVE LoopYieldsLock'
  BY <1>35 DEF WaitEmpty
<1>36. ASSUME TakeUvLock PROVE LoopYieldsLock'
  BY <1>36 DEF TakeUvLock, UvLock
<1>37. ASSUME Emptied PROVE LoopYieldsLock'
  BY <1>37 DEF Emptied, MaySleep, AllStopped
<1>38. ASSUME UNCHANGED vars PROVE LoopYieldsLock'
  BY <1>38 DEF vars, MaySleep
<1>39. QED BY <1>1, <1>2, <1>3, <1>4, <1>5, <1>6, <1>7, <1>8, <1>9, <1>10, <1>11, <1>12,
  <1>13, <1>14, <1>15, <1>16, <1>17, <1>18, <1>19, <1>20, <1>21, <1>22, <1>23, <1>24, <1>25,
  <1>26, <1>27, <1>28, <1>29, <1>30, <1>31, <1>32, <1>33, <1>34, <1>35, <1>36, <1>37, <1>38
  DEF Next, Stores, Running, Wakeup, GetNext, EventLoop, Sleeping

(* Between the compare-and-swap of a waker and its signal. *)
LEMMA BlockStep ==
  ASSUME LabelOK, RetInv, LagInv, UvInv, BlockInv, [Next]_vars
  PROVE  BlockInv'
<1> USE SchedulerAssumption DEF Goto, uv, waking, work, BlockInv, LabelOK, RetInv, LagInv,
      UvInv, Owns, Signalling, MaySleep, DataOK, FlagOK, Label, WakeAt, LockWaitAt, SleepAt,
      Queues
<1>1. ASSUME NEW t \in Threads, SleepStored(t) PROVE BlockInv'
  BY <1>1 DEF SleepStored
<1>2. ASSUME NEW t \in Threads, InsertStored(t) PROVE BlockInv'
  BY <1>2 DEF InsertStored
<1>3. ASSUME NEW t \in Threads, NEW q \in Queues, Enqueue(t, q) PROVE BlockInv'
  BY <1>3 DEF Enqueue, EnqWork
<1>4. ASSUME NEW t \in Threads, Wait(t) PROVE BlockInv'
  BY <1>4 DEF Wait
<1>5. ASSUME NEW t \in Threads, IoLock(t) PROVE BlockInv'
  BY <1>5 DEF IoLock, UvLock
<1>6. ASSUME NEW t \in Threads, ExitRegion(t) PROVE BlockInv'
  BY <1>6 DEF ExitRegion, UvLock
<1>7. ASSUME NEW t \in Threads, UvKick(t) PROVE BlockInv'
  BY <1>7 DEF UvKick
<1>8. ASSUME NEW t \in Threads, UvLocked(t) PROVE BlockInv'
  BY <1>8 DEF UvLocked
<1>9. ASSUME NEW t \in Threads, IoUnlock(t) PROVE BlockInv'
  BY <1>9 DEF IoUnlock
<1>10. ASSUME NEW t \in Threads, WakeupSelf(t) PROVE BlockInv'
  BY <1>10 DEF WakeupSelf, FencedInsert
<1>11. ASSUME NEW t \in Threads, NobodyAsleep(t) PROVE BlockInv'
  BY <1>11 DEF NobodyAsleep
<1>12. ASSUME NEW t \in Threads, NEW c \in Threads, WakeThread(t, c) PROVE BlockInv'
  BY <1>12 DEF WakeThread
<1>13. ASSUME NEW t \in Threads, CountWakeup(t) PROVE BlockInv'
  BY <1>13 DEF CountWakeup
<1>14. ASSUME NEW t \in Threads, SignalThread(t) PROVE BlockInv'
  BY <1>14 DEF SignalThread, Signalled
<1>15. ASSUME NEW t \in Threads, KickLoop(t) PROVE BlockInv'
  <2>1. UNCHANGED sleep_check_state /\ (kicked => kicked') /\ (uv_owner = target[t] => kicked')
    BY <1>15 DEF KickLoop
  <2>2. \A v \in Threads \ {t} : pc'[v] = pc[v] /\ target'[v] = target[v]
    BY <1>15 DEF KickLoop
  <2>3. pc[t] = "kick" /\ pc'[t] = "scan"
    BY <1>15 DEF KickLoop
  <2>4. ASSUME NEW v \in Threads, pc[v] = "uv_run" PROVE uv_owner = v
    BY <2>4
  <2>5. QED BY <2>1, <2>2, <2>3, <2>4
<1>16. ASSUME NEW t \in Threads, GetNextTask(t) PROVE BlockInv'
  BY <1>16 DEF GetNextTask
<1>17. ASSUME NEW t \in Threads, Spin(t) PROVE BlockInv'
  BY <1>17 DEF Spin
<1>18. ASSUME NEW t \in Threads, SleepStore(t) PROVE BlockInv'
  BY <1>18 DEF SleepStore
<1>19. ASSUME NEW t \in Threads, Recheck(t) PROVE BlockInv'
  BY <1>19 DEF Recheck, FencedSleep
<1>20. ASSUME NEW t \in Threads, LastPop(t) PROVE BlockInv'
  BY <1>20 DEF LastPop
<1>21. ASSUME NEW t \in Threads, SetNotSleeping(t) PROVE BlockInv'
  BY <1>21 DEF SetNotSleeping
<1>22. ASSUME NEW t \in Threads, ConsumeWakeup(t) PROVE BlockInv'
  BY <1>22 DEF ConsumeWakeup
<1>23. ASSUME NEW t \in Threads, TryUvLock(t) PROVE BlockInv'
  BY <1>23 DEF TryUvLock
<1>24. ASSUME NEW t \in Threads, NotifyIoThread(t) PROVE BlockInv'
  BY <1>24 DEF NotifyIoThread
<1>25. ASSUME NEW t \in Threads, EnterLoop(t) PROVE BlockInv'
  BY <1>25 DEF EnterLoop, MayEnterLoop
<1>26. ASSUME NEW t \in Threads, LoopReturns(t) PROVE BlockInv'
  BY <1>26 DEF LoopReturns
<1>27. ASSUME NEW t \in Threads, LoopEvent(t) PROVE BlockInv'
  BY <1>27 DEF LoopEvent
<1>28. ASSUME NEW t \in Threads, LeaveLoop(t) PROVE BlockInv'
  BY <1>28 DEF LeaveLoop
<1>29. ASSUME NEW t \in Threads, NEW q \in Queues, LoopCallback(t, q) PROVE BlockInv'
  BY <1>29 DEF LoopCallback, EnqWork
<1>30. ASSUME NEW t \in Threads, StopRunning(t) PROVE BlockInv'
  BY <1>30 DEF StopRunning
<1>31. ASSUME NEW t \in Threads, LastOut(t) PROVE BlockInv'
  BY <1>31 DEF LastOut, Signalled
<1>32. ASSUME NEW t \in Threads, Sleep(t) PROVE BlockInv'
  BY <1>32 DEF Sleep, AllStopped
<1>33. ASSUME NEW t \in Threads, Resume(t) PROVE BlockInv'
  BY <1>33 DEF Resume
<1>34. ASSUME NEW t \in Threads, SpuriousWakeup(t) PROVE BlockInv'
  BY <1>34 DEF SpuriousWakeup
<1>35. ASSUME WaitEmpty PROVE BlockInv'
  BY <1>35 DEF WaitEmpty
<1>36. ASSUME TakeUvLock PROVE BlockInv'
  BY <1>36 DEF TakeUvLock, UvLock
<1>37. ASSUME Emptied PROVE BlockInv'
  BY <1>37 DEF Emptied, AllStopped
<1>38. ASSUME UNCHANGED vars PROVE BlockInv'
  BY <1>38 DEF vars
<1>39. QED BY <1>1, <1>2, <1>3, <1>4, <1>5, <1>6, <1>7, <1>8, <1>9, <1>10, <1>11, <1>12,
  <1>13, <1>14, <1>15, <1>16, <1>17, <1>18, <1>19, <1>20, <1>21, <1>22, <1>23, <1>24, <1>25,
  <1>26, <1>27, <1>28, <1>29, <1>30, <1>31, <1>32, <1>33, <1>34, <1>35, <1>36, <1>37, <1>38
  DEF Next, Stores, Running, Wakeup, GetNext, EventLoop, Sleeping

(* A queue with a task has a server that is awake or about to be woken.  The
   steps that could break it: an insert reaches memory, which its thread follows
   with a look at all the servers; a waker of the pool contents itself with one
   thread, which then serves; and a thread gives up after its last pop, which
   has found its queues empty. *)
LEMMA ServersAreThreads == \A q \in Queues : Servers(q) \subseteq Threads /\ Servers(q) # {}
BY SchedulerAssumption DEF Queues, Servers

LEMMA ServeStep ==
  ASSUME LabelOK, RetInv, LagInv, MarkInv, CandInv, ServeInv, [Next]_vars
  PROVE  ServeInv'
<1> USE SchedulerAssumption DEF Goto, uv, waking, work, LabelOK, RetInv, LagInv,
      MarkInv, GoingToSleep, MaySleep, DataOK, FlagOK, Label, WakeAt, LockWaitAt, SleepAt,
      Queues
<1>1. ASSUME NEW t \in Threads, SleepStored(t) PROVE ServeInv'
  <2>1. ASSUME NEW v \in Threads, Alert(v) PROVE Alert(v)'
    BY <1>1, <2>1 DEF SleepStored, Alert, Past
  <2>2. ASSUME NEW v \in Threads, NEW p \in Queues, Called(v, p) PROVE Alert(v)' \/ Called(v,
    p)'
    BY <1>1, <2>2 DEF SleepStored, Alert, Called
  <2>3. ASSUME NEW p \in Queues, queue'[p] > 0 PROVE queue[p] > 0
    BY <1>1, <2>3 DEF SleepStored
  <2>4. QED BY <2>1, <2>2, <2>3, ServersAreThreads DEF ServeInv
<1>2. ASSUME NEW t \in Threads, InsertStored(t) PROVE ServeInv'
  <2>0. PICK i \in Queues : inserting[t] = i
    BY <1>2 DEF InsertStored
  <2>1. ASSUME NEW v \in Threads, Alert(v) PROVE Alert(v)'
    BY <1>2, <2>1 DEF InsertStored, Alert, Past
  <2>2. ASSUME NEW v \in Threads, NEW p \in Queues, Called(v, p) PROVE Called(v, p)'
    BY <1>2, <2>2 DEF InsertStored, Called
  <2>3. \A p \in Queues : queue'[p] > 0 => queue[p] > 0 \/ p = i
    BY <1>2, <2>0 DEF InsertStored
  <2>4. PICK v \in Servers(i) : v \in Threads
    BY <2>0, ServersAreThreads DEF Servers
  <2>5. Called(v, i)'
    BY <1>2, <2>0, <2>4 DEF InsertStored, Called, Servers
  <2>6. QED BY <2>1, <2>2, <2>3, <2>4, <2>5, ServersAreThreads DEF ServeInv
<1>3. ASSUME NEW t \in Threads, NEW q \in Queues, Enqueue(t, q) PROVE ServeInv'
  <2>1. ASSUME NEW v \in Threads, Alert(v) PROVE Alert(v)'
    BY <1>3, <2>1 DEF Enqueue, EnqWork, Alert, Past
  <2>2. ASSUME NEW v \in Threads, NEW p \in Queues, Called(v, p) PROVE Alert(v)' \/ Called(v,
    p)'
    BY <1>3, <2>2 DEF Enqueue, EnqWork, Alert, Called
  <2>3. ASSUME NEW p \in Queues, queue'[p] > 0 PROVE queue[p] > 0
    BY <1>3, <2>3 DEF Enqueue, EnqWork
  <2>4. QED BY <2>1, <2>2, <2>3, ServersAreThreads DEF ServeInv
<1>4. ASSUME NEW t \in Threads, Wait(t) PROVE ServeInv'
  <2>1. ASSUME NEW v \in Threads, Alert(v) PROVE Alert(v)'
    BY <1>4, <2>1 DEF Wait, Alert, Past
  <2>2. ASSUME NEW v \in Threads, NEW p \in Queues, Called(v, p) PROVE Alert(v)' \/ Called(v,
    p)'
    BY <1>4, <2>2 DEF Wait, Alert, Called
  <2>3. ASSUME NEW p \in Queues, queue'[p] > 0 PROVE queue[p] > 0
    BY <1>4, <2>3 DEF Wait
  <2>4. QED BY <2>1, <2>2, <2>3, ServersAreThreads DEF ServeInv
<1>5. ASSUME NEW t \in Threads, IoLock(t) PROVE ServeInv'
  <2>1. ASSUME NEW v \in Threads, Alert(v) PROVE Alert(v)'
    BY <1>5, <2>1 DEF IoLock, UvLock, Alert, Past
  <2>2. ASSUME NEW v \in Threads, NEW p \in Queues, Called(v, p) PROVE Alert(v)' \/ Called(v,
    p)'
    BY <1>5, <2>2 DEF IoLock, UvLock, Alert, Called
  <2>3. ASSUME NEW p \in Queues, queue'[p] > 0 PROVE queue[p] > 0
    BY <1>5, <2>3 DEF IoLock, UvLock
  <2>4. QED BY <2>1, <2>2, <2>3, ServersAreThreads DEF ServeInv
<1>6. ASSUME NEW t \in Threads, ExitRegion(t) PROVE ServeInv'
  <2>1. ASSUME NEW v \in Threads, Alert(v) PROVE Alert(v)'
    BY <1>6, <2>1 DEF ExitRegion, UvLock, Alert, Past
  <2>2. ASSUME NEW v \in Threads, NEW p \in Queues, Called(v, p) PROVE Alert(v)' \/ Called(v,
    p)'
    BY <1>6, <2>2 DEF ExitRegion, UvLock, Alert, Called
  <2>3. ASSUME NEW p \in Queues, queue'[p] > 0 PROVE queue[p] > 0
    BY <1>6, <2>3 DEF ExitRegion, UvLock
  <2>4. QED BY <2>1, <2>2, <2>3, ServersAreThreads DEF ServeInv
<1>7. ASSUME NEW t \in Threads, UvKick(t) PROVE ServeInv'
  <2>1. ASSUME NEW v \in Threads, Alert(v) PROVE Alert(v)'
    BY <1>7, <2>1 DEF UvKick, Alert, Past
  <2>2. ASSUME NEW v \in Threads, NEW p \in Queues, Called(v, p) PROVE Alert(v)' \/ Called(v,
    p)'
    BY <1>7, <2>2 DEF UvKick, Alert, Called
  <2>3. ASSUME NEW p \in Queues, queue'[p] > 0 PROVE queue[p] > 0
    BY <1>7, <2>3 DEF UvKick
  <2>4. QED BY <2>1, <2>2, <2>3, ServersAreThreads DEF ServeInv
<1>8. ASSUME NEW t \in Threads, UvLocked(t) PROVE ServeInv'
  <2>1. ASSUME NEW v \in Threads, Alert(v) PROVE Alert(v)'
    BY <1>8, <2>1 DEF UvLocked, Alert, Past
  <2>2. ASSUME NEW v \in Threads, NEW p \in Queues, Called(v, p) PROVE Alert(v)' \/ Called(v,
    p)'
    BY <1>8, <2>2 DEF UvLocked, Alert, Called
  <2>3. ASSUME NEW p \in Queues, queue'[p] > 0 PROVE queue[p] > 0
    BY <1>8, <2>3 DEF UvLocked
  <2>4. QED BY <2>1, <2>2, <2>3, ServersAreThreads DEF ServeInv
<1>9. ASSUME NEW t \in Threads, IoUnlock(t) PROVE ServeInv'
  <2>1. ASSUME NEW v \in Threads, Alert(v) PROVE Alert(v)'
    BY <1>9, <2>1 DEF IoUnlock, Alert, Past
  <2>2. ASSUME NEW v \in Threads, NEW p \in Queues, Called(v, p) PROVE Alert(v)' \/ Called(v,
    p)'
    BY <1>9, <2>2 DEF IoUnlock, Alert, Called
  <2>3. ASSUME NEW p \in Queues, queue'[p] > 0 PROVE queue[p] > 0
    BY <1>9, <2>3 DEF IoUnlock
  <2>4. QED BY <2>1, <2>2, <2>3, ServersAreThreads DEF ServeInv
<1>10. ASSUME NEW t \in Threads, WakeupSelf(t) PROVE ServeInv'
  <2>1. ASSUME NEW v \in Threads, Alert(v) PROVE Alert(v)'
    BY <1>10, <2>1 DEF WakeupSelf, FencedInsert, Alert, Past
  <2>2. ASSUME NEW v \in Threads, NEW p \in Queues, Called(v, p) PROVE Alert(v)' \/ Called(v,
    p)'
    BY <1>10, <2>2 DEF WakeupSelf, FencedInsert, Alert, Called
  <2>3. ASSUME NEW p \in Queues, queue'[p] > 0 PROVE queue[p] > 0
    BY <1>10, <2>3 DEF WakeupSelf, FencedInsert
  <2>4. QED BY <2>1, <2>2, <2>3, ServersAreThreads DEF ServeInv
<1>11. ASSUME NEW t \in Threads, NobodyAsleep(t) PROVE ServeInv'
  <2>1. ASSUME NEW v \in Threads, Alert(v) PROVE Alert(v)'
    BY <1>11, <2>1 DEF NobodyAsleep, Alert, Past
  <2>2. ASSUME NEW v \in Threads, NEW p \in Queues, Called(v, p) PROVE Alert(v)' \/ Called(v,
    p)'
    BY <1>11, <2>2 DEF NobodyAsleep, Alert, Called
  <2>3. ASSUME NEW p \in Queues, queue'[p] > 0 PROVE queue[p] > 0
    BY <1>11, <2>3 DEF NobodyAsleep
  <2>4. QED BY <2>1, <2>2, <2>3, ServersAreThreads DEF ServeInv
<1>12. ASSUME NEW t \in Threads, NEW c \in Threads, WakeThread(t, c) PROVE ServeInv'
  <2>1. ASSUME NEW v \in Threads, Alert(v) PROVE Alert(v)'
    BY <1>12, <2>1 DEF WakeThread, Alert, Past
  <2>2. ASSUME NEW p \in Queues, NEW v \in Servers(p), Called(v, p)
        PROVE  \E u \in Servers(p) : Alert(u)' \/ Called(u, p)'
    <3>1. v \in Threads
      BY ServersAreThreads
    <3>2. PICK w \in Threads : /\ pc[w] \in {"wakeup", "scan"} /\ v \in candidates[w]
                              /\ (p = Shared \/ candidates[w] = {v})
      BY <2>2 DEF Called
    <3>3. CASE w # t
      <4>1. pc'[w] = pc[w] /\ candidates'[w] = candidates[w]
        BY <1>12, <3>3 DEF WakeThread
      <4>2. QED BY <3>2, <4>1 DEF Called
    <3>4. CASE w = t
      <4>1. c \in Servers(p)
        BY <1>12, <3>1, <3>2, <3>4 DEF WakeThread, CandInv, Servers
      <4>2. CASE sleep_check_state[c] = "sleeping" \/ v = c
        BY <1>12, <4>1, <4>2 DEF WakeThread, Alert
      <4>3. CASE ~(sleep_check_state[c] = "sleeping" \/ v = c)
        BY <1>12, <3>1, <3>2, <3>4, <4>3 DEF WakeThread, Called
      <4>4. QED BY <4>2, <4>3
    <3>5. QED BY <3>3, <3>4
  <2>3. ASSUME NEW p \in Queues, queue'[p] > 0 PROVE queue[p] > 0
    BY <1>12, <2>3 DEF WakeThread
  <2>4. QED BY <2>1, <2>2, <2>3, ServersAreThreads DEF ServeInv
<1>13. ASSUME NEW t \in Threads, CountWakeup(t) PROVE ServeInv'
  <2>1. ASSUME NEW v \in Threads, Alert(v) PROVE Alert(v)'
    BY <1>13, <2>1 DEF CountWakeup, Alert, Past
  <2>2. ASSUME NEW v \in Threads, NEW p \in Queues, Called(v, p) PROVE Alert(v)' \/ Called(v,
    p)'
    BY <1>13, <2>2 DEF CountWakeup, Alert, Called
  <2>3. ASSUME NEW p \in Queues, queue'[p] > 0 PROVE queue[p] > 0
    BY <1>13, <2>3 DEF CountWakeup
  <2>4. QED BY <2>1, <2>2, <2>3, ServersAreThreads DEF ServeInv
<1>14. ASSUME NEW t \in Threads, SignalThread(t) PROVE ServeInv'
  <2>1. ASSUME NEW v \in Threads, Alert(v) PROVE Alert(v)'
    BY <1>14, <2>1 DEF SignalThread, Signalled, Alert, Past
  <2>2. ASSUME NEW v \in Threads, NEW p \in Queues, Called(v, p) PROVE Alert(v)' \/ Called(v,
    p)'
    BY <1>14, <2>2 DEF SignalThread, Signalled, Alert, Called
  <2>3. ASSUME NEW p \in Queues, queue'[p] > 0 PROVE queue[p] > 0
    BY <1>14, <2>3 DEF SignalThread, Signalled
  <2>4. QED BY <2>1, <2>2, <2>3, ServersAreThreads DEF ServeInv
<1>15. ASSUME NEW t \in Threads, KickLoop(t) PROVE ServeInv'
  <2>1. ASSUME NEW v \in Threads, Alert(v) PROVE Alert(v)'
    BY <1>15, <2>1 DEF KickLoop, Alert, Past
  <2>2. ASSUME NEW v \in Threads, NEW p \in Queues, Called(v, p) PROVE Alert(v)' \/ Called(v,
    p)'
    BY <1>15, <2>2 DEF KickLoop, Alert, Called
  <2>3. ASSUME NEW p \in Queues, queue'[p] > 0 PROVE queue[p] > 0
    BY <1>15, <2>3 DEF KickLoop
  <2>4. QED BY <2>1, <2>2, <2>3, ServersAreThreads DEF ServeInv
<1>16. ASSUME NEW t \in Threads, GetNextTask(t) PROVE ServeInv'
  <2>1. ASSUME NEW v \in Threads, Alert(v) PROVE Alert(v)'
    BY <1>16, <2>1 DEF GetNextTask, Alert, Past
  <2>2. ASSUME NEW v \in Threads, NEW p \in Queues, Called(v, p) PROVE Alert(v)' \/ Called(v,
    p)'
    BY <1>16, <2>2 DEF GetNextTask, Alert, Called
  <2>3. ASSUME NEW p \in Queues, queue'[p] > 0 PROVE queue[p] > 0
    BY <1>16, <2>3 DEF GetNextTask, Popped, Visible
  <2>4. QED BY <2>1, <2>2, <2>3, ServersAreThreads DEF ServeInv
<1>17. ASSUME NEW t \in Threads, Spin(t) PROVE ServeInv'
  <2>1. ASSUME NEW v \in Threads, Alert(v) PROVE Alert(v)'
    BY <1>17, <2>1 DEF Spin, Alert, Past
  <2>2. ASSUME NEW v \in Threads, NEW p \in Queues, Called(v, p) PROVE Alert(v)' \/ Called(v,
    p)'
    BY <1>17, <2>2 DEF Spin, Alert, Called
  <2>3. ASSUME NEW p \in Queues, queue'[p] > 0 PROVE queue[p] > 0
    BY <1>17, <2>3 DEF Spin
  <2>4. QED BY <2>1, <2>2, <2>3, ServersAreThreads DEF ServeInv
<1>18. ASSUME NEW t \in Threads, SleepStore(t) PROVE ServeInv'
  <2>1. ASSUME NEW v \in Threads, Alert(v) PROVE Alert(v)'
    BY <1>18, <2>1 DEF SleepStore, Alert, Past
  <2>2. ASSUME NEW v \in Threads, NEW p \in Queues, Called(v, p) PROVE Alert(v)' \/ Called(v,
    p)'
    BY <1>18, <2>2 DEF SleepStore, Alert, Called
  <2>3. ASSUME NEW p \in Queues, queue'[p] > 0 PROVE queue[p] > 0
    BY <1>18, <2>3 DEF SleepStore
  <2>4. QED BY <2>1, <2>2, <2>3, ServersAreThreads DEF ServeInv
<1>19. ASSUME NEW t \in Threads, Recheck(t) PROVE ServeInv'
  <2>1. ASSUME NEW v \in Threads, Alert(v) PROVE Alert(v)'
    BY <1>19, <2>1 DEF Recheck, FencedSleep, Alert, Past
  <2>2. ASSUME NEW v \in Threads, NEW p \in Queues, Called(v, p) PROVE Alert(v)' \/ Called(v,
    p)'
    BY <1>19, <2>2 DEF Recheck, FencedSleep, Alert, Called
  <2>3. ASSUME NEW p \in Queues, queue'[p] > 0 PROVE queue[p] > 0
    BY <1>19, <2>3 DEF Recheck, FencedSleep
  <2>4. QED BY <2>1, <2>2, <2>3, ServersAreThreads DEF ServeInv
<1>20. ASSUME NEW t \in Threads, LastPop(t) PROVE ServeInv'
  <2>1. ASSUME NEW p \in Queues, NEW v \in Servers(p), Alert(v), queue'[p] > 0 PROVE Alert(v)'
    <3>1. v \in Threads
      BY ServersAreThreads
    <3>2. CASE v = t
      <4>1. Visible(t) # {}
        BY <1>20, <2>1, <3>2 DEF LastPop, Popped, Visible, Servers
      <4>2. QED BY <1>20, <3>2, <4>1 DEF LastPop, Alert, Past
    <3>3. CASE v # t
      BY <1>20, <2>1, <3>1, <3>3 DEF LastPop, Alert, Past
    <3>4. QED BY <3>2, <3>3
  <2>2. ASSUME NEW v \in Threads, NEW p \in Queues, Called(v, p) PROVE Called(v, p)'
    BY <1>20, <2>2 DEF LastPop, Called
  <2>3. ASSUME NEW p \in Queues, queue'[p] > 0 PROVE queue[p] > 0
    BY <1>20, <2>3 DEF LastPop, Popped, Visible
  <2>4. QED BY <2>1, <2>2, <2>3, ServersAreThreads DEF ServeInv
<1>21. ASSUME NEW t \in Threads, SetNotSleeping(t) PROVE ServeInv'
  <2>1. ASSUME NEW v \in Threads, Alert(v) PROVE Alert(v)'
    BY <1>21, <2>1 DEF SetNotSleeping, Alert, Past
  <2>2. ASSUME NEW v \in Threads, NEW p \in Queues, Called(v, p) PROVE Alert(v)' \/ Called(v,
    p)'
    BY <1>21, <2>2 DEF SetNotSleeping, Alert, Called
  <2>3. ASSUME NEW p \in Queues, queue'[p] > 0 PROVE queue[p] > 0
    BY <1>21, <2>3 DEF SetNotSleeping
  <2>4. QED BY <2>1, <2>2, <2>3, ServersAreThreads DEF ServeInv
<1>22. ASSUME NEW t \in Threads, ConsumeWakeup(t) PROVE ServeInv'
  <2>1. ASSUME NEW v \in Threads, Alert(v) PROVE Alert(v)'
    BY <1>22, <2>1 DEF ConsumeWakeup, Alert, Past
  <2>2. ASSUME NEW v \in Threads, NEW p \in Queues, Called(v, p) PROVE Alert(v)' \/ Called(v,
    p)'
    BY <1>22, <2>2 DEF ConsumeWakeup, Alert, Called
  <2>3. ASSUME NEW p \in Queues, queue'[p] > 0 PROVE queue[p] > 0
    BY <1>22, <2>3 DEF ConsumeWakeup
  <2>4. QED BY <2>1, <2>2, <2>3, ServersAreThreads DEF ServeInv
<1>23. ASSUME NEW t \in Threads, TryUvLock(t) PROVE ServeInv'
  <2>1. ASSUME NEW v \in Threads, Alert(v) PROVE Alert(v)'
    BY <1>23, <2>1 DEF TryUvLock, Alert, Past
  <2>2. ASSUME NEW v \in Threads, NEW p \in Queues, Called(v, p) PROVE Alert(v)' \/ Called(v,
    p)'
    BY <1>23, <2>2 DEF TryUvLock, Alert, Called
  <2>3. ASSUME NEW p \in Queues, queue'[p] > 0 PROVE queue[p] > 0
    BY <1>23, <2>3 DEF TryUvLock
  <2>4. QED BY <2>1, <2>2, <2>3, ServersAreThreads DEF ServeInv
<1>24. ASSUME NEW t \in Threads, NotifyIoThread(t) PROVE ServeInv'
  <2>1. ASSUME NEW v \in Threads, Alert(v) PROVE Alert(v)'
    BY <1>24, <2>1 DEF NotifyIoThread, Alert, Past
  <2>2. ASSUME NEW v \in Threads, NEW p \in Queues, Called(v, p) PROVE Alert(v)' \/ Called(v,
    p)'
    BY <1>24, <2>2 DEF NotifyIoThread, Alert, Called
  <2>3. ASSUME NEW p \in Queues, queue'[p] > 0 PROVE queue[p] > 0
    BY <1>24, <2>3 DEF NotifyIoThread
  <2>4. QED BY <2>1, <2>2, <2>3, ServersAreThreads DEF ServeInv
<1>25. ASSUME NEW t \in Threads, EnterLoop(t) PROVE ServeInv'
  <2>1. ASSUME NEW v \in Threads, Alert(v) PROVE Alert(v)'
    BY <1>25, <2>1 DEF EnterLoop, MayEnterLoop, Alert, Past
  <2>2. ASSUME NEW v \in Threads, NEW p \in Queues, Called(v, p) PROVE Alert(v)' \/ Called(v,
    p)'
    BY <1>25, <2>2 DEF EnterLoop, MayEnterLoop, Alert, Called
  <2>3. ASSUME NEW p \in Queues, queue'[p] > 0 PROVE queue[p] > 0
    BY <1>25, <2>3 DEF EnterLoop, MayEnterLoop
  <2>4. QED BY <2>1, <2>2, <2>3, ServersAreThreads DEF ServeInv
<1>26. ASSUME NEW t \in Threads, LoopReturns(t) PROVE ServeInv'
  <2>1. ASSUME NEW v \in Threads, Alert(v) PROVE Alert(v)'
    BY <1>26, <2>1 DEF LoopReturns, Alert, Past
  <2>2. ASSUME NEW v \in Threads, NEW p \in Queues, Called(v, p) PROVE Alert(v)' \/ Called(v,
    p)'
    BY <1>26, <2>2 DEF LoopReturns, Alert, Called
  <2>3. ASSUME NEW p \in Queues, queue'[p] > 0 PROVE queue[p] > 0
    BY <1>26, <2>3 DEF LoopReturns
  <2>4. QED BY <2>1, <2>2, <2>3, ServersAreThreads DEF ServeInv
<1>27. ASSUME NEW t \in Threads, LoopEvent(t) PROVE ServeInv'
  <2>1. ASSUME NEW v \in Threads, Alert(v) PROVE Alert(v)'
    BY <1>27, <2>1 DEF LoopEvent, Alert, Past
  <2>2. ASSUME NEW v \in Threads, NEW p \in Queues, Called(v, p) PROVE Alert(v)' \/ Called(v,
    p)'
    BY <1>27, <2>2 DEF LoopEvent, Alert, Called
  <2>3. ASSUME NEW p \in Queues, queue'[p] > 0 PROVE queue[p] > 0
    BY <1>27, <2>3 DEF LoopEvent
  <2>4. QED BY <2>1, <2>2, <2>3, ServersAreThreads DEF ServeInv
<1>28. ASSUME NEW t \in Threads, LeaveLoop(t) PROVE ServeInv'
  <2>1. ASSUME NEW v \in Threads, Alert(v) PROVE Alert(v)'
    BY <1>28, <2>1 DEF LeaveLoop, Alert, Past
  <2>2. ASSUME NEW v \in Threads, NEW p \in Queues, Called(v, p) PROVE Alert(v)' \/ Called(v,
    p)'
    BY <1>28, <2>2 DEF LeaveLoop, Alert, Called
  <2>3. ASSUME NEW p \in Queues, queue'[p] > 0 PROVE queue[p] > 0
    BY <1>28, <2>3 DEF LeaveLoop
  <2>4. QED BY <2>1, <2>2, <2>3, ServersAreThreads DEF ServeInv
<1>29. ASSUME NEW t \in Threads, NEW q \in Queues, LoopCallback(t, q) PROVE ServeInv'
  <2>1. ASSUME NEW v \in Threads, Alert(v) PROVE Alert(v)'
    BY <1>29, <2>1 DEF LoopCallback, EnqWork, Alert, Past
  <2>2. ASSUME NEW v \in Threads, NEW p \in Queues, Called(v, p) PROVE Alert(v)' \/ Called(v,
    p)'
    BY <1>29, <2>2 DEF LoopCallback, EnqWork, Alert, Called
  <2>3. ASSUME NEW p \in Queues, queue'[p] > 0 PROVE queue[p] > 0
    BY <1>29, <2>3 DEF LoopCallback, EnqWork
  <2>4. QED BY <2>1, <2>2, <2>3, ServersAreThreads DEF ServeInv
<1>30. ASSUME NEW t \in Threads, StopRunning(t) PROVE ServeInv'
  <2>1. ASSUME NEW v \in Threads, Alert(v) PROVE Alert(v)'
    BY <1>30, <2>1 DEF StopRunning, Alert, Past
  <2>2. ASSUME NEW v \in Threads, NEW p \in Queues, Called(v, p) PROVE Alert(v)' \/ Called(v,
    p)'
    BY <1>30, <2>2 DEF StopRunning, Alert, Called
  <2>3. ASSUME NEW p \in Queues, queue'[p] > 0 PROVE queue[p] > 0
    BY <1>30, <2>3 DEF StopRunning
  <2>4. QED BY <2>1, <2>2, <2>3, ServersAreThreads DEF ServeInv
<1>31. ASSUME NEW t \in Threads, LastOut(t) PROVE ServeInv'
  <2>1. ASSUME NEW v \in Threads, Alert(v) PROVE Alert(v)'
    BY <1>31, <2>1 DEF LastOut, Signalled, Alert, Past
  <2>2. ASSUME NEW v \in Threads, NEW p \in Queues, Called(v, p) PROVE Alert(v)' \/ Called(v,
    p)'
    BY <1>31, <2>2 DEF LastOut, Signalled, Alert, Called
  <2>3. ASSUME NEW p \in Queues, queue'[p] > 0 PROVE queue[p] > 0
    BY <1>31, <2>3 DEF LastOut, Signalled
  <2>4. QED BY <2>1, <2>2, <2>3, ServersAreThreads DEF ServeInv
<1>32. ASSUME NEW t \in Threads, Sleep(t) PROVE ServeInv'
  <2>1. ASSUME NEW v \in Threads, Alert(v) PROVE Alert(v)'
    BY <1>32, <2>1 DEF Sleep, AllStopped, Alert, Past
  <2>2. ASSUME NEW v \in Threads, NEW p \in Queues, Called(v, p) PROVE Alert(v)' \/ Called(v,
    p)'
    BY <1>32, <2>2 DEF Sleep, AllStopped, Alert, Called
  <2>3. ASSUME NEW p \in Queues, queue'[p] > 0 PROVE queue[p] > 0
    BY <1>32, <2>3 DEF Sleep, AllStopped
  <2>4. QED BY <2>1, <2>2, <2>3, ServersAreThreads DEF ServeInv
<1>33. ASSUME NEW t \in Threads, Resume(t) PROVE ServeInv'
  <2>1. ASSUME NEW v \in Threads, Alert(v) PROVE Alert(v)'
    BY <1>33, <2>1 DEF Resume, Alert, Past
  <2>2. ASSUME NEW v \in Threads, NEW p \in Queues, Called(v, p) PROVE Alert(v)' \/ Called(v,
    p)'
    BY <1>33, <2>2 DEF Resume, Alert, Called
  <2>3. ASSUME NEW p \in Queues, queue'[p] > 0 PROVE queue[p] > 0
    BY <1>33, <2>3 DEF Resume
  <2>4. QED BY <2>1, <2>2, <2>3, ServersAreThreads DEF ServeInv
<1>34. ASSUME NEW t \in Threads, SpuriousWakeup(t) PROVE ServeInv'
  <2>1. ASSUME NEW v \in Threads, Alert(v) PROVE Alert(v)'
    BY <1>34, <2>1 DEF SpuriousWakeup, Alert, Past
  <2>2. ASSUME NEW v \in Threads, NEW p \in Queues, Called(v, p) PROVE Alert(v)' \/ Called(v,
    p)'
    BY <1>34, <2>2 DEF SpuriousWakeup, Alert, Called
  <2>3. ASSUME NEW p \in Queues, queue'[p] > 0 PROVE queue[p] > 0
    BY <1>34, <2>3 DEF SpuriousWakeup
  <2>4. QED BY <2>1, <2>2, <2>3, ServersAreThreads DEF ServeInv
<1>35. ASSUME WaitEmpty PROVE ServeInv'
  <2>1. ASSUME NEW v \in Threads, Alert(v) PROVE Alert(v)'
    BY <1>35, <2>1 DEF WaitEmpty, Alert, Past
  <2>2. ASSUME NEW v \in Threads, NEW p \in Queues, Called(v, p) PROVE Alert(v)' \/ Called(v,
    p)'
    BY <1>35, <2>2 DEF WaitEmpty, Alert, Called
  <2>3. ASSUME NEW p \in Queues, queue'[p] > 0 PROVE queue[p] > 0
    BY <1>35, <2>3 DEF WaitEmpty
  <2>4. QED BY <2>1, <2>2, <2>3, ServersAreThreads DEF ServeInv
<1>36. ASSUME TakeUvLock PROVE ServeInv'
  <2>1. ASSUME NEW v \in Threads, Alert(v) PROVE Alert(v)'
    BY <1>36, <2>1 DEF TakeUvLock, UvLock, Alert, Past
  <2>2. ASSUME NEW v \in Threads, NEW p \in Queues, Called(v, p) PROVE Alert(v)' \/ Called(v,
    p)'
    BY <1>36, <2>2 DEF TakeUvLock, UvLock, Alert, Called
  <2>3. ASSUME NEW p \in Queues, queue'[p] > 0 PROVE queue[p] > 0
    BY <1>36, <2>3 DEF TakeUvLock, UvLock
  <2>4. QED BY <2>1, <2>2, <2>3, ServersAreThreads DEF ServeInv
<1>37. ASSUME Emptied PROVE ServeInv'
  <2>1. ASSUME NEW v \in Threads, Alert(v) PROVE Alert(v)'
    BY <1>37, <2>1 DEF Emptied, AllStopped, Alert, Past
  <2>2. ASSUME NEW v \in Threads, NEW p \in Queues, Called(v, p) PROVE Alert(v)' \/ Called(v,
    p)'
    BY <1>37, <2>2 DEF Emptied, AllStopped, Alert, Called
  <2>3. ASSUME NEW p \in Queues, queue'[p] > 0 PROVE queue[p] > 0
    BY <1>37, <2>3 DEF Emptied, AllStopped
  <2>4. QED BY <2>1, <2>2, <2>3, ServersAreThreads DEF ServeInv
<1>38. ASSUME UNCHANGED vars PROVE ServeInv'
  <2>1. ASSUME NEW v \in Threads, Alert(v) PROVE Alert(v)'
    BY <1>38, <2>1 DEF vars, Alert, Past
  <2>2. ASSUME NEW v \in Threads, NEW p \in Queues, Called(v, p) PROVE Alert(v)' \/ Called(v, p)'
    BY <1>38, <2>2 DEF vars, Alert, Called
  <2>3. ASSUME NEW p \in Queues, queue'[p] > 0 PROVE queue[p] > 0
    BY <1>38, <2>3 DEF vars
  <2>4. QED BY <2>1, <2>2, <2>3, ServersAreThreads DEF ServeInv
<1>39. QED BY <1>1, <1>2, <1>3, <1>4, <1>5, <1>6, <1>7, <1>8, <1>9, <1>10, <1>11, <1>12,
  <1>13, <1>14, <1>15, <1>16, <1>17, <1>18, <1>19, <1>20, <1>21, <1>22, <1>23, <1>24, <1>25,
  <1>26, <1>27, <1>28, <1>29, <1>30, <1>31, <1>32, <1>33, <1>34, <1>35, <1>36, <1>37, <1>38
  DEF Next, Stores, Running, Wakeup, GetNext, EventLoop, Sleeping

(* A thread leaves the event loop only to another, or without handles. *)
LEMMA WatchStep ==
  ASSUME LabelOK, RetInv, LagInv, UvInv, WatchInv, [Next]_vars
  PROVE  WatchInv'
<1> USE SchedulerAssumption DEF Goto, uv, waking, work, WatchInv, LabelOK, RetInv, LagInv,
      UvInv, Owns, Leaving, Sought, MaySleep, DataOK, FlagOK, Label, WakeAt, LockWaitAt,
      SleepAt, Queues
<1>1. ASSUME NEW t \in Threads, SleepStored(t) PROVE WatchInv'
  BY <1>1 DEF SleepStored
<1>2. ASSUME NEW t \in Threads, InsertStored(t) PROVE WatchInv'
  BY <1>2 DEF InsertStored
<1>3. ASSUME NEW t \in Threads, NEW q \in Queues, Enqueue(t, q) PROVE WatchInv'
  BY <1>3 DEF Enqueue, EnqWork
<1>4. ASSUME NEW t \in Threads, Wait(t) PROVE WatchInv'
  BY <1>4 DEF Wait
<1>5. ASSUME NEW t \in Threads, IoLock(t) PROVE WatchInv'
  BY <1>5 DEF IoLock, UvLock
<1>6. ASSUME NEW t \in Threads, ExitRegion(t) PROVE WatchInv'
  BY <1>6 DEF ExitRegion, UvLock
<1>7. ASSUME NEW t \in Threads, UvKick(t) PROVE WatchInv'
  BY <1>7 DEF UvKick
<1>8. ASSUME NEW t \in Threads, UvLocked(t) PROVE WatchInv'
  BY <1>8 DEF UvLocked
<1>9. ASSUME NEW t \in Threads, IoUnlock(t) PROVE WatchInv'
  <2>1. CASE ret[t] = "run"
    BY <1>9, <2>1 DEF IoUnlock
  <2>2. CASE ret[t] # "run"
    <3>1. UNCHANGED <<handles, sleep_check_state>> /\ ~Leaving(t)'
      BY <1>9, <2>2 DEF IoUnlock
    <3>2. QED BY <3>1
  <2>3. QED BY <2>1, <2>2
<1>10. ASSUME NEW t \in Threads, WakeupSelf(t) PROVE WatchInv'
  BY <1>10 DEF WakeupSelf, FencedInsert
<1>11. ASSUME NEW t \in Threads, NobodyAsleep(t) PROVE WatchInv'
  BY <1>11 DEF NobodyAsleep
<1>12. ASSUME NEW t \in Threads, NEW c \in Threads, WakeThread(t, c) PROVE WatchInv'
  BY <1>12 DEF WakeThread
<1>13. ASSUME NEW t \in Threads, CountWakeup(t) PROVE WatchInv'
  BY <1>13 DEF CountWakeup
<1>14. ASSUME NEW t \in Threads, SignalThread(t) PROVE WatchInv'
  BY <1>14 DEF SignalThread, Signalled
<1>15. ASSUME NEW t \in Threads, KickLoop(t) PROVE WatchInv'
  BY <1>15 DEF KickLoop
<1>16. ASSUME NEW t \in Threads, GetNextTask(t) PROVE WatchInv'
  BY <1>16 DEF GetNextTask
<1>17. ASSUME NEW t \in Threads, Spin(t) PROVE WatchInv'
  BY <1>17 DEF Spin
<1>18. ASSUME NEW t \in Threads, SleepStore(t) PROVE WatchInv'
  BY <1>18 DEF SleepStore
<1>19. ASSUME NEW t \in Threads, Recheck(t) PROVE WatchInv'
  BY <1>19 DEF Recheck, FencedSleep
<1>20. ASSUME NEW t \in Threads, LastPop(t) PROVE WatchInv'
  BY <1>20 DEF LastPop
<1>21. ASSUME NEW t \in Threads, SetNotSleeping(t) PROVE WatchInv'
  BY <1>21 DEF SetNotSleeping
<1>22. ASSUME NEW t \in Threads, ConsumeWakeup(t) PROVE WatchInv'
  BY <1>22 DEF ConsumeWakeup
<1>23. ASSUME NEW t \in Threads, TryUvLock(t) PROVE WatchInv'
  BY <1>23 DEF TryUvLock
<1>24. ASSUME NEW t \in Threads, NotifyIoThread(t) PROVE WatchInv'
  BY <1>24 DEF NotifyIoThread
<1>25. ASSUME NEW t \in Threads, EnterLoop(t) PROVE WatchInv'
  BY <1>25 DEF EnterLoop, MayEnterLoop
<1>26. ASSUME NEW t \in Threads, LoopReturns(t) PROVE WatchInv'
  BY <1>26 DEF LoopReturns
<1>27. ASSUME NEW t \in Threads, LoopEvent(t) PROVE WatchInv'
  BY <1>27 DEF LoopEvent
<1>28. ASSUME NEW t \in Threads, LeaveLoop(t) PROVE WatchInv'
  BY <1>28 DEF LeaveLoop
<1>29. ASSUME NEW t \in Threads, NEW q \in Queues, LoopCallback(t, q) PROVE WatchInv'
  BY <1>29 DEF LoopCallback, EnqWork
<1>30. ASSUME NEW t \in Threads, StopRunning(t) PROVE WatchInv'
  BY <1>30 DEF StopRunning
<1>31. ASSUME NEW t \in Threads, LastOut(t) PROVE WatchInv'
  BY <1>31 DEF LastOut, Signalled
<1>32. ASSUME NEW t \in Threads, Sleep(t) PROVE WatchInv'
  BY <1>32 DEF Sleep, AllStopped
<1>33. ASSUME NEW t \in Threads, Resume(t) PROVE WatchInv'
  BY <1>33 DEF Resume
<1>34. ASSUME NEW t \in Threads, SpuriousWakeup(t) PROVE WatchInv'
  BY <1>34 DEF SpuriousWakeup
<1>35. ASSUME WaitEmpty PROVE WatchInv'
  BY <1>35 DEF WaitEmpty
<1>36. ASSUME TakeUvLock PROVE WatchInv'
  BY <1>36 DEF TakeUvLock, UvLock
<1>37. ASSUME Emptied PROVE WatchInv'
  BY <1>37 DEF Emptied, AllStopped
<1>38. ASSUME UNCHANGED vars PROVE WatchInv'
  BY <1>38 DEF vars
<1>39. QED BY <1>1, <1>2, <1>3, <1>4, <1>5, <1>6, <1>7, <1>8, <1>9, <1>10, <1>11, <1>12,
  <1>13, <1>14, <1>15, <1>16, <1>17, <1>18, <1>19, <1>20, <1>21, <1>22, <1>23, <1>24, <1>25,
  <1>26, <1>27, <1>28, <1>29, <1>30, <1>31, <1>32, <1>33, <1>34, <1>35, <1>36, <1>37, <1>38
  DEF Next, Stores, Running, Wakeup, GetNext, EventLoop, Sleeping

(* No queue holds more than was enqueued. *)
LEMMA InsertingFinite == \A q : IsFiniteSet(Inserting(q))
BY FS_Subset, SchedulerAssumption DEF Inserting

LEMMA TaskKept ==
  ASSUME LabelOK, LabelOK', TaskInv, UNCHANGED <<inserting, tasks>>,
         \A p \in Queues : queue'[p] <= queue[p]
  PROVE  TaskInv'
<1> SUFFICES ASSUME NEW p \in Queues PROVE queue'[p] + Cardinality(Inserting(p)') <= tasks'
  BY DEF TaskInv
<1>1. Inserting(p)' = Inserting(p)
  BY DEF Inserting
<1>2. QED BY <1>1, InsertingFinite, FS_CardinalityType DEF TaskInv, LabelOK, DataOK

LEMMA TaskStep ==
  ASSUME LabelOK, LabelOK', LagInv, TaskInv, [Next]_vars
  PROVE  TaskInv'
<1> USE SchedulerAssumption DEF Goto, uv, waking, work, LabelOK, LagInv, DataOK,
      FlagOK, Label, WakeAt, LockWaitAt, SleepAt, Queues
<1>1. ASSUME NEW t \in Threads, SleepStored(t) PROVE TaskInv'
  <2>1. UNCHANGED <<inserting, tasks>> /\ \A p \in Queues : queue'[p] <= queue[p]
    BY <1>1 DEF SleepStored
  <2>2. QED BY <2>1, TaskKept
<1>2. ASSUME NEW t \in Threads, InsertStored(t) PROVE TaskInv'
  <2>1. PICK i \in Queues : inserting[t] = i
    BY <1>2 DEF InsertStored
  <2>2. /\ inserting' = [inserting EXCEPT ![t] = Nobody]
        /\ tasks' = tasks /\ queue' = [queue EXCEPT ![i] = @ + 1]
    BY <1>2, <2>1 DEF InsertStored
  <2>3. ASSUME NEW p \in Queues PROVE queue'[p] + Cardinality(Inserting(p)') <= tasks'
    <3>0. /\ queue \in [Queues -> Nat] /\ tasks \in Nat
          /\ inserting \in [Threads -> Queues \cup {Nobody}]
      OBVIOUS
    <3> HIDE DEF LabelOK, LagInv
    <3>1. CASE p = i
      <4>1. Inserting(p)' = Inserting(p) \ {t} /\ t \in Inserting(p)
        BY <2>1, <2>2, <3>1, <3>0 DEF Inserting
      <4>2. IsFiniteSet(Inserting(p))
        BY InsertingFinite
      <4>3. Cardinality(Inserting(p) \ {t}) = Cardinality(Inserting(p)) - 1
        BY <4>1, <4>2, FS_RemoveElement
      <4>4. QED BY <2>2, <3>1, <4>1, <4>2, <4>3, FS_CardinalityType, <3>0 DEF TaskInv
    <3>2. CASE p # i
      <4>1. Inserting(p)' = Inserting(p)
        BY <2>1, <2>2, <3>2, <3>0 DEF Inserting
      <4>2. QED BY <2>2, <3>2, <4>1, InsertingFinite, FS_CardinalityType, <3>0 DEF TaskInv
    <3>3. QED BY <3>1, <3>2
  <2>4. QED BY <2>3 DEF TaskInv
<1>3. ASSUME NEW t \in Threads, NEW q \in Queues, Enqueue(t, q) PROVE TaskInv'
  <2>1. inserting[t] = Nobody
    BY <1>3 DEF Enqueue, EnqWork
  <2>2. /\ inserting' = [inserting EXCEPT ![t] = q]
        /\ tasks' = tasks + 1 /\ queue' = queue
    BY <1>3 DEF Enqueue, EnqWork
  <2>3. ASSUME NEW p \in Queues PROVE queue'[p] + Cardinality(Inserting(p)') <= tasks'
    <3>0. /\ queue \in [Queues -> Nat] /\ tasks \in Nat
          /\ inserting \in [Threads -> Queues \cup {Nobody}]
      OBVIOUS
    <3> HIDE DEF LabelOK, LagInv
    <3>1. CASE p = q
      <4>1. Inserting(p)' = Inserting(p) \cup {t} /\ t \notin Inserting(p)
        BY <2>1, <2>2, <3>1, <3>0 DEF Inserting
      <4>2. Cardinality(Inserting(p)') = Cardinality(Inserting(p)) + 1
        BY <4>1, FS_AddElement, InsertingFinite
      <4>3. queue[p] + Cardinality(Inserting(p)) <= tasks
        BY DEF TaskInv
      <4>4. Cardinality(Inserting(p)) \in Nat
        BY InsertingFinite, FS_CardinalityType
      <4>5. queue[p] \in Nat /\ queue'[p] = queue[p] /\ tasks' = tasks + 1
        BY <2>2, <3>0
      <4>6. QED BY <3>0, <4>2, <4>3, <4>4, <4>5
    <3>2. CASE p # q
      <4>1. Inserting(p)' = Inserting(p)
        BY <2>1, <2>2, <3>2, <3>0 DEF Inserting
      <4>2. QED BY <2>2, <4>1, InsertingFinite, FS_CardinalityType, <3>0, SMTT(30) DEF TaskInv
    <3>3. QED BY <3>1, <3>2
  <2>4. QED BY <2>3 DEF TaskInv
<1>4. ASSUME NEW t \in Threads, Wait(t) PROVE TaskInv'
  <2>1. UNCHANGED <<inserting, tasks>> /\ \A p \in Queues : queue'[p] <= queue[p]
    BY <1>4 DEF Wait
  <2>2. QED BY <2>1, TaskKept
<1>5. ASSUME NEW t \in Threads, IoLock(t) PROVE TaskInv'
  <2>1. UNCHANGED <<inserting, tasks>> /\ \A p \in Queues : queue'[p] <= queue[p]
    BY <1>5 DEF IoLock, UvLock
  <2>2. QED BY <2>1, TaskKept
<1>6. ASSUME NEW t \in Threads, ExitRegion(t) PROVE TaskInv'
  <2>1. UNCHANGED <<inserting, tasks>> /\ \A p \in Queues : queue'[p] <= queue[p]
    BY <1>6 DEF ExitRegion, UvLock
  <2>2. QED BY <2>1, TaskKept
<1>7. ASSUME NEW t \in Threads, UvKick(t) PROVE TaskInv'
  <2>1. UNCHANGED <<inserting, tasks>> /\ \A p \in Queues : queue'[p] <= queue[p]
    BY <1>7 DEF UvKick
  <2>2. QED BY <2>1, TaskKept
<1>8. ASSUME NEW t \in Threads, UvLocked(t) PROVE TaskInv'
  <2>1. UNCHANGED <<inserting, tasks>> /\ \A p \in Queues : queue'[p] <= queue[p]
    BY <1>8 DEF UvLocked
  <2>2. QED BY <2>1, TaskKept
<1>9. ASSUME NEW t \in Threads, IoUnlock(t) PROVE TaskInv'
  <2>1. UNCHANGED <<inserting, tasks>> /\ \A p \in Queues : queue'[p] <= queue[p]
    BY <1>9 DEF IoUnlock
  <2>2. QED BY <2>1, TaskKept
<1>10. ASSUME NEW t \in Threads, WakeupSelf(t) PROVE TaskInv'
  <2>1. UNCHANGED <<inserting, tasks>> /\ \A p \in Queues : queue'[p] <= queue[p]
    BY <1>10 DEF WakeupSelf, FencedInsert
  <2>2. QED BY <2>1, TaskKept
<1>11. ASSUME NEW t \in Threads, NobodyAsleep(t) PROVE TaskInv'
  <2>1. UNCHANGED <<inserting, tasks>> /\ \A p \in Queues : queue'[p] <= queue[p]
    BY <1>11 DEF NobodyAsleep
  <2>2. QED BY <2>1, TaskKept
<1>12. ASSUME NEW t \in Threads, NEW c \in Threads, WakeThread(t, c) PROVE TaskInv'
  <2>1. UNCHANGED <<inserting, tasks>> /\ \A p \in Queues : queue'[p] <= queue[p]
    BY <1>12 DEF WakeThread
  <2>2. QED BY <2>1, TaskKept
<1>13. ASSUME NEW t \in Threads, CountWakeup(t) PROVE TaskInv'
  <2>1. UNCHANGED <<inserting, tasks>> /\ \A p \in Queues : queue'[p] <= queue[p]
    BY <1>13 DEF CountWakeup
  <2>2. QED BY <2>1, TaskKept
<1>14. ASSUME NEW t \in Threads, SignalThread(t) PROVE TaskInv'
  <2>1. UNCHANGED <<inserting, tasks>> /\ \A p \in Queues : queue'[p] <= queue[p]
    BY <1>14 DEF SignalThread, Signalled
  <2>2. QED BY <2>1, TaskKept
<1>15. ASSUME NEW t \in Threads, KickLoop(t) PROVE TaskInv'
  <2>1. UNCHANGED <<inserting, tasks>> /\ \A p \in Queues : queue'[p] <= queue[p]
    BY <1>15 DEF KickLoop
  <2>2. QED BY <2>1, TaskKept
<1>16. ASSUME NEW t \in Threads, GetNextTask(t) PROVE TaskInv'
  <2>1. UNCHANGED <<inserting, tasks>> /\ \A p \in Queues : queue'[p] <= queue[p]
    BY <1>16 DEF GetNextTask, Popped, Visible
  <2>2. QED BY <2>1, TaskKept
<1>17. ASSUME NEW t \in Threads, Spin(t) PROVE TaskInv'
  <2>1. UNCHANGED <<inserting, tasks>> /\ \A p \in Queues : queue'[p] <= queue[p]
    BY <1>17 DEF Spin
  <2>2. QED BY <2>1, TaskKept
<1>18. ASSUME NEW t \in Threads, SleepStore(t) PROVE TaskInv'
  <2>1. UNCHANGED <<inserting, tasks>> /\ \A p \in Queues : queue'[p] <= queue[p]
    BY <1>18 DEF SleepStore
  <2>2. QED BY <2>1, TaskKept
<1>19. ASSUME NEW t \in Threads, Recheck(t) PROVE TaskInv'
  <2>1. UNCHANGED <<inserting, tasks>> /\ \A p \in Queues : queue'[p] <= queue[p]
    BY <1>19 DEF Recheck, FencedSleep
  <2>2. QED BY <2>1, TaskKept
<1>20. ASSUME NEW t \in Threads, LastPop(t) PROVE TaskInv'
  <2>1. UNCHANGED <<inserting, tasks>> /\ \A p \in Queues : queue'[p] <= queue[p]
    BY <1>20 DEF LastPop, Popped, Visible
  <2>2. QED BY <2>1, TaskKept
<1>21. ASSUME NEW t \in Threads, SetNotSleeping(t) PROVE TaskInv'
  <2>1. UNCHANGED <<inserting, tasks>> /\ \A p \in Queues : queue'[p] <= queue[p]
    BY <1>21 DEF SetNotSleeping
  <2>2. QED BY <2>1, TaskKept
<1>22. ASSUME NEW t \in Threads, ConsumeWakeup(t) PROVE TaskInv'
  <2>1. UNCHANGED <<inserting, tasks>> /\ \A p \in Queues : queue'[p] <= queue[p]
    BY <1>22 DEF ConsumeWakeup
  <2>2. QED BY <2>1, TaskKept
<1>23. ASSUME NEW t \in Threads, TryUvLock(t) PROVE TaskInv'
  <2>1. UNCHANGED <<inserting, tasks>> /\ \A p \in Queues : queue'[p] <= queue[p]
    BY <1>23 DEF TryUvLock
  <2>2. QED BY <2>1, TaskKept
<1>24. ASSUME NEW t \in Threads, NotifyIoThread(t) PROVE TaskInv'
  <2>1. UNCHANGED <<inserting, tasks>> /\ \A p \in Queues : queue'[p] <= queue[p]
    BY <1>24 DEF NotifyIoThread
  <2>2. QED BY <2>1, TaskKept
<1>25. ASSUME NEW t \in Threads, EnterLoop(t) PROVE TaskInv'
  <2>1. UNCHANGED <<inserting, tasks>> /\ \A p \in Queues : queue'[p] <= queue[p]
    BY <1>25 DEF EnterLoop, MayEnterLoop, MaySleep
  <2>2. QED BY <2>1, TaskKept
<1>26. ASSUME NEW t \in Threads, LoopReturns(t) PROVE TaskInv'
  <2>1. UNCHANGED <<inserting, tasks>> /\ \A p \in Queues : queue'[p] <= queue[p]
    BY <1>26 DEF LoopReturns
  <2>2. QED BY <2>1, TaskKept
<1>27. ASSUME NEW t \in Threads, LoopEvent(t) PROVE TaskInv'
  <2>1. UNCHANGED <<inserting, tasks>> /\ \A p \in Queues : queue'[p] <= queue[p]
    BY <1>27 DEF LoopEvent
  <2>2. QED BY <2>1, TaskKept
<1>28. ASSUME NEW t \in Threads, LeaveLoop(t) PROVE TaskInv'
  <2>1. UNCHANGED <<inserting, tasks>> /\ \A p \in Queues : queue'[p] <= queue[p]
    BY <1>28 DEF LeaveLoop, MaySleep
  <2>2. QED BY <2>1, TaskKept
<1>29. ASSUME NEW t \in Threads, NEW q \in Queues, LoopCallback(t, q) PROVE TaskInv'
  <2>1. inserting[t] = Nobody
    BY <1>29 DEF LoopCallback, EnqWork
  <2>2. /\ inserting' = [inserting EXCEPT ![t] = q]
        /\ tasks' = tasks + 1 /\ queue' = queue
    BY <1>29 DEF LoopCallback, EnqWork
  <2>3. ASSUME NEW p \in Queues PROVE queue'[p] + Cardinality(Inserting(p)') <= tasks'
    <3>0. /\ queue \in [Queues -> Nat] /\ tasks \in Nat
          /\ inserting \in [Threads -> Queues \cup {Nobody}]
      OBVIOUS
    <3> HIDE DEF LabelOK, LagInv
    <3>1. CASE p = q
      <4>1. Inserting(p)' = Inserting(p) \cup {t} /\ t \notin Inserting(p)
        BY <2>1, <2>2, <3>1, <3>0 DEF Inserting
      <4>2. Cardinality(Inserting(p)') = Cardinality(Inserting(p)) + 1
        BY <4>1, FS_AddElement, InsertingFinite
      <4>3. queue[p] + Cardinality(Inserting(p)) <= tasks
        BY DEF TaskInv
      <4>4. Cardinality(Inserting(p)) \in Nat
        BY InsertingFinite, FS_CardinalityType
      <4>5. queue[p] \in Nat /\ queue'[p] = queue[p] /\ tasks' = tasks + 1
        BY <2>2, <3>0
      <4>6. QED BY <3>0, <4>2, <4>3, <4>4, <4>5
    <3>2. CASE p # q
      <4>1. Inserting(p)' = Inserting(p)
        BY <2>1, <2>2, <3>2, <3>0 DEF Inserting
      <4>2. QED BY <2>2, <4>1, InsertingFinite, FS_CardinalityType, <3>0, SMTT(30) DEF TaskInv
    <3>3. QED BY <3>1, <3>2
  <2>4. QED BY <2>3 DEF TaskInv
<1>30. ASSUME NEW t \in Threads, StopRunning(t) PROVE TaskInv'
  <2>1. UNCHANGED <<inserting, tasks>> /\ \A p \in Queues : queue'[p] <= queue[p]
    BY <1>30 DEF StopRunning
  <2>2. QED BY <2>1, TaskKept
<1>31. ASSUME NEW t \in Threads, LastOut(t) PROVE TaskInv'
  <2>1. UNCHANGED <<inserting, tasks>> /\ \A p \in Queues : queue'[p] <= queue[p]
    BY <1>31 DEF LastOut, Signalled
  <2>2. QED BY <2>1, TaskKept
<1>32. ASSUME NEW t \in Threads, Sleep(t) PROVE TaskInv'
  <2>1. UNCHANGED <<inserting, tasks>> /\ \A p \in Queues : queue'[p] <= queue[p]
    BY <1>32 DEF Sleep, MaySleep, AllStopped
  <2>2. QED BY <2>1, TaskKept
<1>33. ASSUME NEW t \in Threads, Resume(t) PROVE TaskInv'
  <2>1. UNCHANGED <<inserting, tasks>> /\ \A p \in Queues : queue'[p] <= queue[p]
    BY <1>33 DEF Resume, MaySleep
  <2>2. QED BY <2>1, TaskKept
<1>34. ASSUME NEW t \in Threads, SpuriousWakeup(t) PROVE TaskInv'
  <2>1. UNCHANGED <<inserting, tasks>> /\ \A p \in Queues : queue'[p] <= queue[p]
    BY <1>34 DEF SpuriousWakeup
  <2>2. QED BY <2>1, TaskKept
<1>35. ASSUME WaitEmpty PROVE TaskInv'
  <2>1. UNCHANGED <<inserting, tasks>> /\ \A p \in Queues : queue'[p] <= queue[p]
    BY <1>35 DEF WaitEmpty
  <2>2. QED BY <2>1, TaskKept
<1>36. ASSUME TakeUvLock PROVE TaskInv'
  <2>1. UNCHANGED <<inserting, tasks>> /\ \A p \in Queues : queue'[p] <= queue[p]
    BY <1>36 DEF TakeUvLock, UvLock
  <2>2. QED BY <2>1, TaskKept
<1>37. ASSUME Emptied PROVE TaskInv'
  <2>1. UNCHANGED <<inserting, tasks>> /\ \A p \in Queues : queue'[p] <= queue[p]
    BY <1>37 DEF Emptied, MaySleep, AllStopped
  <2>2. QED BY <2>1, TaskKept
<1>38. ASSUME UNCHANGED vars PROVE TaskInv'
  <2>1. UNCHANGED <<inserting, tasks>> /\ \A p \in Queues : queue'[p] <= queue[p]
    BY <1>38 DEF vars
  <2>2. QED BY <2>1, TaskKept
<1>39. QED BY <1>1, <1>2, <1>3, <1>4, <1>5, <1>6, <1>7, <1>8, <1>9, <1>10, <1>11, <1>12,
  <1>13, <1>14, <1>15, <1>16, <1>17, <1>18, <1>19, <1>20, <1>21, <1>22, <1>23, <1>24, <1>25,
  <1>26, <1>27, <1>28, <1>29, <1>30, <1>31, <1>32, <1>33, <1>34, <1>35, <1>36, <1>37, <1>38
  DEF Next, Stores, Running, Wakeup, GetNext, EventLoop, Sleeping

(* The running count: every step moves a thread between the three sets of
   RunningCount as it moves the counter. *)
LEMMA SetsFinite == IsFiniteSet(NotStopped) /\ IsFiniteSet(Woken) /\ IsFiniteSet(Uncounted)
BY FS_Subset, SchedulerAssumption DEF NotStopped, Woken, Uncounted

LEMMA CountKept ==
  ASSUME CountInv, n_threads_running' = n_threads_running,
         \A v \in Threads : /\ (Stopped(v)' <=> Stopped(v)) /\ (IsWoken(v)' <=> IsWoken(v))
                            /\ (pc'[v] = "count" <=> pc[v] = "count")
  PROVE  CountInv'
<1>1. NotStopped' = NotStopped /\ Woken' = Woken /\ Uncounted' = Uncounted
  BY DEF NotStopped, Woken, Uncounted
<1>2. QED BY <1>1 DEF CountInv

LEMMA CountStep ==
  ASSUME LabelOK, RetInv, LagInv, MarkInv, CountInv, [Next]_vars
  PROVE  CountInv'
<1> USE SchedulerAssumption DEF Goto, uv, waking, work, LabelOK, RetInv, LagInv,
      MarkInv, GoingToSleep, MaySleep, DataOK, FlagOK, Label, WakeAt, LockWaitAt, SleepAt,
      Queues
<1>1. ASSUME NEW t \in Threads, SleepStored(t) PROVE CountInv'
  <2>1. ASSUME NEW v \in Threads
        PROVE  /\ (Stopped(v)' <=> Stopped(v)) /\ (IsWoken(v)' <=> IsWoken(v))
               /\ (pc'[v] = "count" <=> pc[v] = "count")
    BY <1>1 DEF SleepStored, Stopped, IsWoken
  <2>2. n_threads_running' = n_threads_running
    BY <1>1 DEF SleepStored
  <2>3. QED BY <2>1, <2>2, CountKept
<1>2. ASSUME NEW t \in Threads, InsertStored(t) PROVE CountInv'
  <2>1. ASSUME NEW v \in Threads
        PROVE  /\ (Stopped(v)' <=> Stopped(v)) /\ (IsWoken(v)' <=> IsWoken(v))
               /\ (pc'[v] = "count" <=> pc[v] = "count")
    BY <1>2 DEF InsertStored, Stopped, IsWoken
  <2>2. n_threads_running' = n_threads_running
    BY <1>2 DEF InsertStored
  <2>3. QED BY <2>1, <2>2, CountKept
<1>3. ASSUME NEW t \in Threads, NEW q \in Queues, Enqueue(t, q) PROVE CountInv'
  <2>1. ASSUME NEW v \in Threads
        PROVE  /\ (Stopped(v)' <=> Stopped(v)) /\ (IsWoken(v)' <=> IsWoken(v))
               /\ (pc'[v] = "count" <=> pc[v] = "count")
    BY <1>3 DEF Enqueue, EnqWork, Stopped, IsWoken
  <2>2. n_threads_running' = n_threads_running
    BY <1>3 DEF Enqueue, EnqWork
  <2>3. QED BY <2>1, <2>2, CountKept
<1>4. ASSUME NEW t \in Threads, Wait(t) PROVE CountInv'
  <2>1. ASSUME NEW v \in Threads
        PROVE  /\ (Stopped(v)' <=> Stopped(v)) /\ (IsWoken(v)' <=> IsWoken(v))
               /\ (pc'[v] = "count" <=> pc[v] = "count")
    BY <1>4 DEF Wait, Stopped, IsWoken
  <2>2. n_threads_running' = n_threads_running
    BY <1>4 DEF Wait
  <2>3. QED BY <2>1, <2>2, CountKept
<1>5. ASSUME NEW t \in Threads, IoLock(t) PROVE CountInv'
  <2>1. ASSUME NEW v \in Threads
        PROVE  /\ (Stopped(v)' <=> Stopped(v)) /\ (IsWoken(v)' <=> IsWoken(v))
               /\ (pc'[v] = "count" <=> pc[v] = "count")
    BY <1>5 DEF IoLock, UvLock, Stopped, IsWoken
  <2>2. n_threads_running' = n_threads_running
    BY <1>5 DEF IoLock, UvLock
  <2>3. QED BY <2>1, <2>2, CountKept
<1>6. ASSUME NEW t \in Threads, ExitRegion(t) PROVE CountInv'
  <2>1. ASSUME NEW v \in Threads
        PROVE  /\ (Stopped(v)' <=> Stopped(v)) /\ (IsWoken(v)' <=> IsWoken(v))
               /\ (pc'[v] = "count" <=> pc[v] = "count")
    BY <1>6 DEF ExitRegion, UvLock, Stopped, IsWoken
  <2>2. n_threads_running' = n_threads_running
    BY <1>6 DEF ExitRegion, UvLock
  <2>3. QED BY <2>1, <2>2, CountKept
<1>7. ASSUME NEW t \in Threads, UvKick(t) PROVE CountInv'
  <2>1. ASSUME NEW v \in Threads
        PROVE  /\ (Stopped(v)' <=> Stopped(v)) /\ (IsWoken(v)' <=> IsWoken(v))
               /\ (pc'[v] = "count" <=> pc[v] = "count")
    BY <1>7 DEF UvKick, Stopped, IsWoken
  <2>2. n_threads_running' = n_threads_running
    BY <1>7 DEF UvKick
  <2>3. QED BY <2>1, <2>2, CountKept
<1>8. ASSUME NEW t \in Threads, UvLocked(t) PROVE CountInv'
  <2>1. ASSUME NEW v \in Threads
        PROVE  /\ (Stopped(v)' <=> Stopped(v)) /\ (IsWoken(v)' <=> IsWoken(v))
               /\ (pc'[v] = "count" <=> pc[v] = "count")
    BY <1>8 DEF UvLocked, Stopped, IsWoken
  <2>2. n_threads_running' = n_threads_running
    BY <1>8 DEF UvLocked
  <2>3. QED BY <2>1, <2>2, CountKept
<1>9. ASSUME NEW t \in Threads, IoUnlock(t) PROVE CountInv'
  <2>1. ASSUME NEW v \in Threads
        PROVE  /\ (Stopped(v)' <=> Stopped(v)) /\ (IsWoken(v)' <=> IsWoken(v))
               /\ (pc'[v] = "count" <=> pc[v] = "count")
    BY <1>9 DEF IoUnlock, Stopped, IsWoken
  <2>2. n_threads_running' = n_threads_running
    BY <1>9 DEF IoUnlock
  <2>3. QED BY <2>1, <2>2, CountKept
<1>10. ASSUME NEW t \in Threads, WakeupSelf(t) PROVE CountInv'
  <2>1. CASE t \in candidates[t] /\ sleep_check_state[t] = "sleeping"
    <3>1. NotStopped' = NotStopped
      BY <1>10, <2>1 DEF WakeupSelf, FencedInsert, NotStopped, Stopped, IsWoken
    <3>2. Woken' = Woken \cup {t} /\ t \notin Woken
      BY <1>10, <2>1 DEF WakeupSelf, FencedInsert, Woken, Stopped, IsWoken
    <3>3. Uncounted' = Uncounted
      BY <1>10, <2>1 DEF WakeupSelf, FencedInsert, Uncounted, Stopped, IsWoken
    <3>4. n_threads_running' = n_threads_running + 1
      BY <1>10, <2>1 DEF WakeupSelf, FencedInsert
    <3>5. QED
      <4> HIDE DEF LabelOK, RetInv, LagInv, MarkInv
      <4>2. Cardinality(Woken') = Cardinality(Woken) + 1 BY <3>2, SetsFinite, FS_AddElement
      <4>4. QED BY <3>1, <3>2, <3>3, <3>4, <4>2, SetsFinite, FS_CardinalityType DEF CountInv
  <2>2. CASE ~(t \in candidates[t] /\ sleep_check_state[t] = "sleeping")
    <3>1. ASSUME NEW v \in Threads
          PROVE  /\ (Stopped(v)' <=> Stopped(v)) /\ (IsWoken(v)' <=> IsWoken(v))
                 /\ (pc'[v] = "count" <=> pc[v] = "count")
      BY <1>10, <2>2 DEF WakeupSelf, FencedInsert, Stopped, IsWoken
    <3>2. n_threads_running' = n_threads_running
      BY <1>10, <2>2 DEF WakeupSelf, FencedInsert
    <3>3. QED BY <3>1, <3>2, CountKept
  <2>3. QED BY <2>1, <2>2
<1>11. ASSUME NEW t \in Threads, NobodyAsleep(t) PROVE CountInv'
  <2>1. ASSUME NEW v \in Threads
        PROVE  /\ (Stopped(v)' <=> Stopped(v)) /\ (IsWoken(v)' <=> IsWoken(v))
               /\ (pc'[v] = "count" <=> pc[v] = "count")
    BY <1>11 DEF NobodyAsleep, Stopped, IsWoken
  <2>2. n_threads_running' = n_threads_running
    BY <1>11 DEF NobodyAsleep
  <2>3. QED BY <2>1, <2>2, CountKept
<1>12. ASSUME NEW t \in Threads, NEW c \in Threads, WakeThread(t, c) PROVE CountInv'
  <2>1. CASE sleep_check_state[c] = "sleeping"
    <3>1. NotStopped' = NotStopped
      BY <1>12, <2>1 DEF WakeThread, NotStopped, Stopped, IsWoken
    <3>2. Woken' = Woken \cup {c} /\ c \notin Woken
      BY <1>12, <2>1 DEF WakeThread, Woken, Stopped, IsWoken
    <3>3. Uncounted' = Uncounted \cup {t} /\ t \notin Uncounted
      BY <1>12, <2>1 DEF WakeThread, Uncounted, Stopped, IsWoken
    <3>4. n_threads_running' = n_threads_running
      BY <1>12, <2>1 DEF WakeThread
    <3>5. QED
      <4> HIDE DEF LabelOK, RetInv, LagInv, MarkInv
      <4>2. Cardinality(Woken') = Cardinality(Woken) + 1 BY <3>2, SetsFinite, FS_AddElement
      <4>3. Cardinality(Uncounted') = Cardinality(Uncounted) + 1 BY <3>3, SetsFinite,
        FS_AddElement
      <4>4. QED BY <3>1, <3>2, <3>3, <3>4, <4>2, <4>3, SetsFinite, FS_CardinalityType DEF
        CountInv
  <2>2. CASE sleep_check_state[c] # "sleeping"
    <3>1. ASSUME NEW v \in Threads
          PROVE  /\ (Stopped(v)' <=> Stopped(v)) /\ (IsWoken(v)' <=> IsWoken(v))
                 /\ (pc'[v] = "count" <=> pc[v] = "count")
      BY <1>12, <2>2 DEF WakeThread, Stopped, IsWoken
    <3>2. n_threads_running' = n_threads_running
      BY <1>12, <2>2 DEF WakeThread
    <3>3. QED BY <3>1, <3>2, CountKept
  <2>3. QED BY <2>1, <2>2
<1>13. ASSUME NEW t \in Threads, CountWakeup(t) PROVE CountInv'
  <2>1. NotStopped' = NotStopped
    BY <1>13 DEF CountWakeup, NotStopped, Stopped, IsWoken
  <2>2. Woken' = Woken
    BY <1>13 DEF CountWakeup, Woken, Stopped, IsWoken
  <2>3. Uncounted' = Uncounted \ {t} /\ t \in Uncounted
    BY <1>13 DEF CountWakeup, Uncounted, Stopped, IsWoken
  <2>4. n_threads_running' = n_threads_running + 1
    BY <1>13 DEF CountWakeup
  <2>5. QED
    <3> HIDE DEF LabelOK, RetInv, LagInv, MarkInv
    <3>3. Cardinality(Uncounted') = Cardinality(Uncounted) - 1 BY <2>3, SetsFinite,
      FS_RemoveElement
    <3>4. QED BY <2>1, <2>2, <2>3, <2>4, <3>3, SetsFinite, FS_CardinalityType DEF CountInv
<1>14. ASSUME NEW t \in Threads, SignalThread(t) PROVE CountInv'
  <2>1. ASSUME NEW v \in Threads
        PROVE  /\ (Stopped(v)' <=> Stopped(v)) /\ (IsWoken(v)' <=> IsWoken(v))
               /\ (pc'[v] = "count" <=> pc[v] = "count")
    BY <1>14 DEF SignalThread, Signalled, Stopped, IsWoken
  <2>2. n_threads_running' = n_threads_running
    BY <1>14 DEF SignalThread, Signalled
  <2>3. QED BY <2>1, <2>2, CountKept
<1>15. ASSUME NEW t \in Threads, KickLoop(t) PROVE CountInv'
  <2>1. ASSUME NEW v \in Threads
        PROVE  /\ (Stopped(v)' <=> Stopped(v)) /\ (IsWoken(v)' <=> IsWoken(v))
               /\ (pc'[v] = "count" <=> pc[v] = "count")
    BY <1>15 DEF KickLoop, Stopped, IsWoken
  <2>2. n_threads_running' = n_threads_running
    BY <1>15 DEF KickLoop
  <2>3. QED BY <2>1, <2>2, CountKept
<1>16. ASSUME NEW t \in Threads, GetNextTask(t) PROVE CountInv'
  <2>1. ASSUME NEW v \in Threads
        PROVE  /\ (Stopped(v)' <=> Stopped(v)) /\ (IsWoken(v)' <=> IsWoken(v))
               /\ (pc'[v] = "count" <=> pc[v] = "count")
    BY <1>16 DEF GetNextTask, Stopped, IsWoken
  <2>2. n_threads_running' = n_threads_running
    BY <1>16 DEF GetNextTask
  <2>3. QED BY <2>1, <2>2, CountKept
<1>17. ASSUME NEW t \in Threads, Spin(t) PROVE CountInv'
  <2>1. ASSUME NEW v \in Threads
        PROVE  /\ (Stopped(v)' <=> Stopped(v)) /\ (IsWoken(v)' <=> IsWoken(v))
               /\ (pc'[v] = "count" <=> pc[v] = "count")
    BY <1>17 DEF Spin, Stopped, IsWoken
  <2>2. n_threads_running' = n_threads_running
    BY <1>17 DEF Spin
  <2>3. QED BY <2>1, <2>2, CountKept
<1>18. ASSUME NEW t \in Threads, SleepStore(t) PROVE CountInv'
  <2>1. ASSUME NEW v \in Threads
        PROVE  /\ (Stopped(v)' <=> Stopped(v)) /\ (IsWoken(v)' <=> IsWoken(v))
               /\ (pc'[v] = "count" <=> pc[v] = "count")
    BY <1>18 DEF SleepStore, Stopped, IsWoken
  <2>2. n_threads_running' = n_threads_running
    BY <1>18 DEF SleepStore
  <2>3. QED BY <2>1, <2>2, CountKept
<1>19. ASSUME NEW t \in Threads, Recheck(t) PROVE CountInv'
  <2>1. ASSUME NEW v \in Threads
        PROVE  /\ (Stopped(v)' <=> Stopped(v)) /\ (IsWoken(v)' <=> IsWoken(v))
               /\ (pc'[v] = "count" <=> pc[v] = "count")
    BY <1>19 DEF Recheck, FencedSleep, Stopped, IsWoken
  <2>2. n_threads_running' = n_threads_running
    BY <1>19 DEF Recheck, FencedSleep
  <2>3. QED BY <2>1, <2>2, CountKept
<1>20. ASSUME NEW t \in Threads, LastPop(t) PROVE CountInv'
  <2>1. ASSUME NEW v \in Threads
        PROVE  /\ (Stopped(v)' <=> Stopped(v)) /\ (IsWoken(v)' <=> IsWoken(v))
               /\ (pc'[v] = "count" <=> pc[v] = "count")
    BY <1>20 DEF LastPop, Stopped, IsWoken
  <2>2. n_threads_running' = n_threads_running
    BY <1>20 DEF LastPop
  <2>3. QED BY <2>1, <2>2, CountKept
<1>21. ASSUME NEW t \in Threads, SetNotSleeping(t) PROVE CountInv'
  <2>1. ASSUME NEW v \in Threads
        PROVE  /\ (Stopped(v)' <=> Stopped(v)) /\ (IsWoken(v)' <=> IsWoken(v))
               /\ (pc'[v] = "count" <=> pc[v] = "count")
    BY <1>21 DEF SetNotSleeping, Stopped, IsWoken
  <2>2. n_threads_running' = n_threads_running
    BY <1>21 DEF SetNotSleeping
  <2>3. QED BY <2>1, <2>2, CountKept
<1>22. ASSUME NEW t \in Threads, ConsumeWakeup(t) PROVE CountInv'
  <2>1. NotStopped' = NotStopped
    BY <1>22 DEF ConsumeWakeup, NotStopped, Stopped, IsWoken
  <2>2. Woken' = Woken \ {t} /\ t \in Woken
    BY <1>22 DEF ConsumeWakeup, Woken, Stopped, IsWoken
  <2>3. Uncounted' = Uncounted
    BY <1>22 DEF ConsumeWakeup, Uncounted, Stopped, IsWoken
  <2>4. n_threads_running' = n_threads_running - 1
    BY <1>22 DEF ConsumeWakeup
  <2>5. QED
    <3> HIDE DEF LabelOK, RetInv, LagInv, MarkInv
    <3>2. Cardinality(Woken') = Cardinality(Woken) - 1 BY <2>2, SetsFinite, FS_RemoveElement
    <3>4. QED BY <2>1, <2>2, <2>3, <2>4, <3>2, SetsFinite, FS_CardinalityType DEF CountInv
<1>23. ASSUME NEW t \in Threads, TryUvLock(t) PROVE CountInv'
  <2>1. ASSUME NEW v \in Threads
        PROVE  /\ (Stopped(v)' <=> Stopped(v)) /\ (IsWoken(v)' <=> IsWoken(v))
               /\ (pc'[v] = "count" <=> pc[v] = "count")
    BY <1>23 DEF TryUvLock, Stopped, IsWoken
  <2>2. n_threads_running' = n_threads_running
    BY <1>23 DEF TryUvLock
  <2>3. QED BY <2>1, <2>2, CountKept
<1>24. ASSUME NEW t \in Threads, NotifyIoThread(t) PROVE CountInv'
  <2>1. ASSUME NEW v \in Threads
        PROVE  /\ (Stopped(v)' <=> Stopped(v)) /\ (IsWoken(v)' <=> IsWoken(v))
               /\ (pc'[v] = "count" <=> pc[v] = "count")
    BY <1>24 DEF NotifyIoThread, Stopped, IsWoken
  <2>2. n_threads_running' = n_threads_running
    BY <1>24 DEF NotifyIoThread
  <2>3. QED BY <2>1, <2>2, CountKept
<1>25. ASSUME NEW t \in Threads, EnterLoop(t) PROVE CountInv'
  <2>1. ASSUME NEW v \in Threads
        PROVE  /\ (Stopped(v)' <=> Stopped(v)) /\ (IsWoken(v)' <=> IsWoken(v))
               /\ (pc'[v] = "count" <=> pc[v] = "count")
    BY <1>25 DEF EnterLoop, MayEnterLoop, Stopped, IsWoken
  <2>2. n_threads_running' = n_threads_running
    BY <1>25 DEF EnterLoop, MayEnterLoop
  <2>3. QED BY <2>1, <2>2, CountKept
<1>26. ASSUME NEW t \in Threads, LoopReturns(t) PROVE CountInv'
  <2>1. ASSUME NEW v \in Threads
        PROVE  /\ (Stopped(v)' <=> Stopped(v)) /\ (IsWoken(v)' <=> IsWoken(v))
               /\ (pc'[v] = "count" <=> pc[v] = "count")
    BY <1>26 DEF LoopReturns, Stopped, IsWoken
  <2>2. n_threads_running' = n_threads_running
    BY <1>26 DEF LoopReturns
  <2>3. QED BY <2>1, <2>2, CountKept
<1>27. ASSUME NEW t \in Threads, LoopEvent(t) PROVE CountInv'
  <2>1. ASSUME NEW v \in Threads
        PROVE  /\ (Stopped(v)' <=> Stopped(v)) /\ (IsWoken(v)' <=> IsWoken(v))
               /\ (pc'[v] = "count" <=> pc[v] = "count")
    BY <1>27 DEF LoopEvent, Stopped, IsWoken
  <2>2. n_threads_running' = n_threads_running
    BY <1>27 DEF LoopEvent
  <2>3. QED BY <2>1, <2>2, CountKept
<1>28. ASSUME NEW t \in Threads, LeaveLoop(t) PROVE CountInv'
  <2>1. ASSUME NEW v \in Threads
        PROVE  /\ (Stopped(v)' <=> Stopped(v)) /\ (IsWoken(v)' <=> IsWoken(v))
               /\ (pc'[v] = "count" <=> pc[v] = "count")
    BY <1>28 DEF LeaveLoop, Stopped, IsWoken
  <2>2. n_threads_running' = n_threads_running
    BY <1>28 DEF LeaveLoop
  <2>3. QED BY <2>1, <2>2, CountKept
<1>29. ASSUME NEW t \in Threads, NEW q \in Queues, LoopCallback(t, q) PROVE CountInv'
  <2>1. ASSUME NEW v \in Threads
        PROVE  /\ (Stopped(v)' <=> Stopped(v)) /\ (IsWoken(v)' <=> IsWoken(v))
               /\ (pc'[v] = "count" <=> pc[v] = "count")
    BY <1>29 DEF LoopCallback, EnqWork, Stopped, IsWoken
  <2>2. n_threads_running' = n_threads_running
    BY <1>29 DEF LoopCallback, EnqWork
  <2>3. QED BY <2>1, <2>2, CountKept
<1>30. ASSUME NEW t \in Threads, StopRunning(t) PROVE CountInv'
  <2>1. NotStopped' = NotStopped \ {t} /\ t \in NotStopped
    BY <1>30 DEF StopRunning, NotStopped, Stopped, IsWoken
  <2>2. Woken' = Woken
    BY <1>30 DEF StopRunning, Woken, Stopped, IsWoken
  <2>3. Uncounted' = Uncounted
    BY <1>30 DEF StopRunning, Uncounted, Stopped, IsWoken
  <2>4. n_threads_running' = n_threads_running - 1
    BY <1>30 DEF StopRunning
  <2>5. QED
    <3> HIDE DEF LabelOK, RetInv, LagInv, MarkInv
    <3>1. Cardinality(NotStopped') = Cardinality(NotStopped) - 1 BY <2>1, SetsFinite,
      FS_RemoveElement
    <3>4. QED BY <2>1, <2>2, <2>3, <2>4, <3>1, SetsFinite, FS_CardinalityType DEF CountInv
<1>31. ASSUME NEW t \in Threads, LastOut(t) PROVE CountInv'
  <2>1. ASSUME NEW v \in Threads
        PROVE  /\ (Stopped(v)' <=> Stopped(v)) /\ (IsWoken(v)' <=> IsWoken(v))
               /\ (pc'[v] = "count" <=> pc[v] = "count")
    BY <1>31 DEF LastOut, Signalled, Stopped, IsWoken
  <2>2. n_threads_running' = n_threads_running
    BY <1>31 DEF LastOut, Signalled
  <2>3. QED BY <2>1, <2>2, CountKept
<1>32. ASSUME NEW t \in Threads, Sleep(t) PROVE CountInv'
  <2>1. ASSUME NEW v \in Threads
        PROVE  /\ (Stopped(v)' <=> Stopped(v)) /\ (IsWoken(v)' <=> IsWoken(v))
               /\ (pc'[v] = "count" <=> pc[v] = "count")
    BY <1>32 DEF Sleep, AllStopped, Stopped, IsWoken
  <2>2. n_threads_running' = n_threads_running
    BY <1>32 DEF Sleep, AllStopped
  <2>3. QED BY <2>1, <2>2, CountKept
<1>33. ASSUME NEW t \in Threads, Resume(t) PROVE CountInv'
  <2>1. NotStopped' = NotStopped \cup {t} /\ t \notin NotStopped
    BY <1>33 DEF Resume, NotStopped, Stopped, IsWoken
  <2>2. Woken' = Woken \ {t} /\ t \in Woken
    BY <1>33 DEF Resume, Woken, Stopped, IsWoken
  <2>3. Uncounted' = Uncounted
    BY <1>33 DEF Resume, Uncounted, Stopped, IsWoken
  <2>4. n_threads_running' = n_threads_running
    BY <1>33 DEF Resume
  <2>5. QED
    <3> HIDE DEF LabelOK, RetInv, LagInv, MarkInv
    <3>1. Cardinality(NotStopped') = Cardinality(NotStopped) + 1 BY <2>1, SetsFinite,
      FS_AddElement
    <3>2. Cardinality(Woken') = Cardinality(Woken) - 1 BY <2>2, SetsFinite, FS_RemoveElement
    <3>4. QED BY <2>1, <2>2, <2>3, <2>4, <3>1, <3>2, SetsFinite, FS_CardinalityType DEF
      CountInv
<1>34. ASSUME NEW t \in Threads, SpuriousWakeup(t) PROVE CountInv'
  <2>1. ASSUME NEW v \in Threads
        PROVE  /\ (Stopped(v)' <=> Stopped(v)) /\ (IsWoken(v)' <=> IsWoken(v))
               /\ (pc'[v] = "count" <=> pc[v] = "count")
    BY <1>34 DEF SpuriousWakeup, Stopped, IsWoken
  <2>2. n_threads_running' = n_threads_running
    BY <1>34 DEF SpuriousWakeup
  <2>3. QED BY <2>1, <2>2, CountKept
<1>35. ASSUME WaitEmpty PROVE CountInv'
  <2>1. ASSUME NEW v \in Threads
        PROVE  /\ (Stopped(v)' <=> Stopped(v)) /\ (IsWoken(v)' <=> IsWoken(v))
               /\ (pc'[v] = "count" <=> pc[v] = "count")
    BY <1>35 DEF WaitEmpty, Stopped, IsWoken
  <2>2. n_threads_running' = n_threads_running
    BY <1>35 DEF WaitEmpty
  <2>3. QED BY <2>1, <2>2, CountKept
<1>36. ASSUME TakeUvLock PROVE CountInv'
  <2>1. ASSUME NEW v \in Threads
        PROVE  /\ (Stopped(v)' <=> Stopped(v)) /\ (IsWoken(v)' <=> IsWoken(v))
               /\ (pc'[v] = "count" <=> pc[v] = "count")
    BY <1>36 DEF TakeUvLock, UvLock, Stopped, IsWoken
  <2>2. n_threads_running' = n_threads_running
    BY <1>36 DEF TakeUvLock, UvLock
  <2>3. QED BY <2>1, <2>2, CountKept
<1>37. ASSUME Emptied PROVE CountInv'
  <2>1. NotStopped' = NotStopped \cup {IoThread} /\ IoThread \notin NotStopped
    BY <1>37 DEF Emptied, AllStopped, NotStopped, Stopped, IsWoken
  <2>2. Woken' = Woken
    BY <1>37 DEF Emptied, AllStopped, Woken, Stopped, IsWoken
  <2>3. Uncounted' = Uncounted
    BY <1>37 DEF Emptied, AllStopped, Uncounted, Stopped, IsWoken
  <2>4. n_threads_running' = n_threads_running + 1
    BY <1>37 DEF Emptied, AllStopped
  <2>5. QED
    <3> HIDE DEF LabelOK, RetInv, LagInv, MarkInv
    <3>1. Cardinality(NotStopped') = Cardinality(NotStopped) + 1 BY <2>1, SetsFinite,
      FS_AddElement
    <3>4. QED BY <2>1, <2>2, <2>3, <2>4, <3>1, SetsFinite, FS_CardinalityType DEF CountInv
<1>38. ASSUME UNCHANGED vars PROVE CountInv'
  <2>1. ASSUME NEW v \in Threads
        PROVE  /\ (Stopped(v)' <=> Stopped(v)) /\ (IsWoken(v)' <=> IsWoken(v))
               /\ (pc'[v] = "count" <=> pc[v] = "count")
    BY <1>38 DEF vars, Stopped, IsWoken
  <2>2. n_threads_running' = n_threads_running
    BY <1>38 DEF vars
  <2>3. QED BY <2>1, <2>2, CountKept
<1>39. QED BY <1>1, <1>2, <1>3, <1>4, <1>5, <1>6, <1>7, <1>8, <1>9, <1>10, <1>11, <1>12,
  <1>13, <1>14, <1>15, <1>16, <1>17, <1>18, <1>19, <1>20, <1>21, <1>22, <1>23, <1>24, <1>25,
  <1>26, <1>27, <1>28, <1>29, <1>30, <1>31, <1>32, <1>33, <1>34, <1>35, <1>36, <1>37, <1>38
  DEF Next, Stores, Running, Wakeup, GetNext, EventLoop, Sleeping

(* The main task goes on in no other way than through Emptied. *)
LEMMA OnlyEmptiedFinishes ==
  ASSUME LabelOK, RetInv, Finishes, Next
  PROVE  Emptied
<1> USE SchedulerAssumption DEF Goto, uv, waking, work, LabelOK, RetInv, Finishes, DataOK,
      FlagOK, Label, WakeAt, LockWaitAt, SleepAt, Queues
<1>1. ASSUME NEW t \in Threads, SleepStored(t) PROVE Emptied
  BY <1>1 DEF SleepStored
<1>2. ASSUME NEW t \in Threads, InsertStored(t) PROVE Emptied
  BY <1>2 DEF InsertStored
<1>3. ASSUME NEW t \in Threads, NEW q \in Queues, Enqueue(t, q) PROVE Emptied
  BY <1>3 DEF Enqueue, EnqWork
<1>4. ASSUME NEW t \in Threads, Wait(t) PROVE Emptied
  BY <1>4 DEF Wait
<1>5. ASSUME NEW t \in Threads, IoLock(t) PROVE Emptied
  BY <1>5 DEF IoLock, UvLock
<1>6. ASSUME NEW t \in Threads, ExitRegion(t) PROVE Emptied
  BY <1>6 DEF ExitRegion, UvLock
<1>7. ASSUME NEW t \in Threads, UvKick(t) PROVE Emptied
  BY <1>7 DEF UvKick
<1>8. ASSUME NEW t \in Threads, UvLocked(t) PROVE Emptied
  BY <1>8 DEF UvLocked
<1>9. ASSUME NEW t \in Threads, IoUnlock(t) PROVE Emptied
  BY <1>9 DEF IoUnlock
<1>10. ASSUME NEW t \in Threads, WakeupSelf(t) PROVE Emptied
  BY <1>10 DEF WakeupSelf, FencedInsert
<1>11. ASSUME NEW t \in Threads, NobodyAsleep(t) PROVE Emptied
  BY <1>11 DEF NobodyAsleep
<1>12. ASSUME NEW t \in Threads, NEW c \in Threads, WakeThread(t, c) PROVE Emptied
  BY <1>12 DEF WakeThread
<1>13. ASSUME NEW t \in Threads, CountWakeup(t) PROVE Emptied
  BY <1>13 DEF CountWakeup
<1>14. ASSUME NEW t \in Threads, SignalThread(t) PROVE Emptied
  BY <1>14 DEF SignalThread, Signalled
<1>15. ASSUME NEW t \in Threads, KickLoop(t) PROVE Emptied
  BY <1>15 DEF KickLoop
<1>16. ASSUME NEW t \in Threads, GetNextTask(t) PROVE Emptied
  BY <1>16 DEF GetNextTask
<1>17. ASSUME NEW t \in Threads, Spin(t) PROVE Emptied
  BY <1>17 DEF Spin
<1>18. ASSUME NEW t \in Threads, SleepStore(t) PROVE Emptied
  BY <1>18 DEF SleepStore
<1>19. ASSUME NEW t \in Threads, Recheck(t) PROVE Emptied
  BY <1>19 DEF Recheck, FencedSleep
<1>20. ASSUME NEW t \in Threads, LastPop(t) PROVE Emptied
  BY <1>20 DEF LastPop
<1>21. ASSUME NEW t \in Threads, SetNotSleeping(t) PROVE Emptied
  BY <1>21 DEF SetNotSleeping
<1>22. ASSUME NEW t \in Threads, ConsumeWakeup(t) PROVE Emptied
  BY <1>22 DEF ConsumeWakeup
<1>23. ASSUME NEW t \in Threads, TryUvLock(t) PROVE Emptied
  BY <1>23 DEF TryUvLock
<1>24. ASSUME NEW t \in Threads, NotifyIoThread(t) PROVE Emptied
  BY <1>24 DEF NotifyIoThread
<1>25. ASSUME NEW t \in Threads, EnterLoop(t) PROVE Emptied
  BY <1>25 DEF EnterLoop, MayEnterLoop, MaySleep
<1>26. ASSUME NEW t \in Threads, LoopReturns(t) PROVE Emptied
  BY <1>26 DEF LoopReturns
<1>27. ASSUME NEW t \in Threads, LoopEvent(t) PROVE Emptied
  BY <1>27 DEF LoopEvent
<1>28. ASSUME NEW t \in Threads, LeaveLoop(t) PROVE Emptied
  BY <1>28 DEF LeaveLoop, MaySleep
<1>29. ASSUME NEW t \in Threads, NEW q \in Queues, LoopCallback(t, q) PROVE Emptied
  BY <1>29 DEF LoopCallback, EnqWork
<1>30. ASSUME NEW t \in Threads, StopRunning(t) PROVE Emptied
  BY <1>30 DEF StopRunning
<1>31. ASSUME NEW t \in Threads, LastOut(t) PROVE Emptied
  BY <1>31 DEF LastOut, Signalled
<1>32. ASSUME NEW t \in Threads, Sleep(t) PROVE Emptied
  BY <1>32 DEF Sleep, MaySleep, AllStopped
<1>33. ASSUME NEW t \in Threads, Resume(t) PROVE Emptied
  BY <1>33 DEF Resume, MaySleep
<1>34. ASSUME NEW t \in Threads, SpuriousWakeup(t) PROVE Emptied
  BY <1>34 DEF SpuriousWakeup
<1>35. ASSUME WaitEmpty PROVE Emptied
  BY <1>35 DEF WaitEmpty
<1>36. ASSUME TakeUvLock PROVE Emptied
  BY <1>36 DEF TakeUvLock, UvLock
<1>37. ASSUME Emptied PROVE Emptied
  BY <1>37
<1>38. QED BY <1>1, <1>2, <1>3, <1>4, <1>5, <1>6, <1>7, <1>8, <1>9, <1>10, <1>11, <1>12,
  <1>13, <1>14, <1>15, <1>16, <1>17, <1>18, <1>19, <1>20, <1>21, <1>22, <1>23, <1>24, <1>25,
  <1>26, <1>27, <1>28, <1>29, <1>30, <1>31, <1>32, <1>33, <1>34, <1>35, <1>36, <1>37
  DEF Next, Stores, Running, Wakeup, GetNext, EventLoop, Sleeping

-----------------------------------------------------------------------------
LEMMA InitInv == Init => Inv
<1> SUFFICES ASSUME Init PROVE Inv
  OBVIOUS
<1> USE SchedulerAssumption
<1>1. FlagOK
  BY Zenon DEF Init, FlagOK
<1>2. /\ \A t \in Threads : /\ pc[t] = "run" /\ sleep_check_state[t] = "not_sleeping"
                             /\ storing[t] = FALSE /\ inserting[t] = Nobody
                             /\ candidates[t] = {}
      /\ uv_owner = Nobody /\ uv_waiters = {}
      /\ \A q \in Queues : queue[q] = 0
  BY DEF Init
<1>3. DataOK
  BY FS_CardinalityType DEF Init, DataOK, Label, Queues
<1>4. RetInv /\ LagInv /\ MarkInv /\ CandInv /\ LoopYieldsLock /\ BlockInv
  BY <1>2 DEF RetInv, LagInv, MarkInv, CandInv, LoopYieldsLock, BlockInv, MaySleep, WakeAt
<1>5. UvInv
  BY <1>2 DEF UvInv, Owns, WakeAt, LockWaitAt
<1>6. ServeInv
  BY <1>2 DEF ServeInv
<1>7. WatchInv
  BY <1>2 DEF WatchInv, MaySleep
<1>8. TaskInv
  <2> SUFFICES ASSUME NEW q \in Queues PROVE queue[q] + Cardinality(Inserting(q)) <= tasks
    BY DEF TaskInv
  <2>1. Inserting(q) = {}
    BY <1>2 DEF Inserting, Queues
  <2>2. QED BY <1>2, <2>1, FS_EmptySet DEF Init
<1>9. CountInv
  <2>1. NotStopped = Threads
    BY <1>2 DEF NotStopped, Stopped
  <2>2. Woken = {} /\ Uncounted = {}
    BY <1>2 DEF Woken, Uncounted, IsWoken, GoingToSleep
  <2>3. QED BY <2>1, <2>2, FS_EmptySet, FS_CardinalityType DEF Init, CountInv
<1>10. QED BY <1>1, <1>3, <1>4, <1>5, <1>6, <1>7, <1>8, <1>9 DEF Inv, LabelOK

LEMMA NextInv == Inv /\ [Next]_vars => Inv'
<1> SUFFICES ASSUME Inv, [Next]_vars PROVE Inv'
  OBVIOUS
<1>1. LabelOK'
  BY LabelStep DEF Inv
<1>2. QED
  BY <1>1, RetStep, LagStep, MarkStep, CandStep, UvStep, YieldStep, BlockStep, ServeStep,
     WatchStep, TaskStep, CountStep DEF Inv

(* The conjunction is inductive: each part is preserved with the help of the others. *)
THEOREM InvHolds == Spec => []Inv
BY InitInv, NextInv, PTL DEF Spec

(***************************************************************************)
(* A wakeup that is under way is BeingWoken, and a thread that has been    *)
(* told to wake up is not left blocked in uv_cond_wait or uv_run.          *)
(***************************************************************************)
LEMMA AlertIsNotBlocked ==
  ASSUME Inv, NEW t \in Threads, Alert(t)
  PROVE  ~Blocked(t) \/ BeingWoken(t)
BY DEF Inv, LabelOK, DataOK, FlagOK, BlockInv, Signalling, Alert, Past, SleepAt, Blocked, BeingWoken

(***************************************************************************)
(* Every variable keeps its type: in particular n_threads_running never    *)
(* goes below zero, however sleeps and wakeups interleave.                 *)
(***************************************************************************)
THEOREM TypeCorrect == Spec => []TypeOK
<1>1. Inv => TypeOK
  <2> SUFFICES ASSUME Inv PROVE TypeOK
    OBVIOUS
  <2>1. n_threads_running \in 0 .. 2 * Cardinality(Threads)
    <3>1. /\ NotStopped \subseteq Threads /\ Woken \subseteq Threads
          /\ Uncounted \subseteq NotStopped
      BY DEF NotStopped, Woken, Uncounted, Stopped
    <3>2. /\ Cardinality(NotStopped) <= Cardinality(Threads)
          /\ Cardinality(Woken) <= Cardinality(Threads)
          /\ Cardinality(Uncounted) <= Cardinality(NotStopped)
      BY <3>1, SetsFinite, FS_Subset, SchedulerAssumption
    <3>3. QED
      BY <3>2, SetsFinite, FS_CardinalityType, SchedulerAssumption DEF Inv, CountInv
  <2>2. queue \in [Queues -> 0 .. MaxTasks]
    <3>1. ASSUME NEW q \in Queues PROVE queue[q] \in 0 .. MaxTasks
      <4>1. Cardinality(Inserting(q)) \in Nat
        BY InsertingFinite, FS_CardinalityType
      <4>2. QED BY <4>1, SchedulerAssumption DEF Inv, TaskInv, LabelOK, DataOK
    <3>2. QED BY <3>1 DEF Inv, LabelOK, DataOK
  <2>3. QED BY <2>1, <2>2 DEF Inv, LabelOK, DataOK, FlagOK, TypeOK
<1>2. QED BY <1>1, InvHolds, PTL

(***************************************************************************)
(* No lost wakeup between an enqueue and a thread that goes to sleep, for  *)
(* any number of threads and tasks: [^store_buffering_1] with the waking   *)
(* of one thread of the pool, the event loop and the callbacks it runs.    *)
(***************************************************************************)
THEOREM TasksAreServed == Spec => []NoStrandedTask
<1>1. Inv => NoStrandedTask
  <2> SUFFICES ASSUME Inv, NEW q \in Queues, queue[q] > 0
               PROVE  \E t \in Servers(q) : ~Blocked(t) \/ BeingWoken(t)
    BY DEF NoStrandedTask
  <2>1. PICK t \in Servers(q) : Alert(t) \/ Called(t, q)
    BY DEF Inv, ServeInv
  <2>2. t \in Threads
    BY ServersAreThreads
  <2>3. CASE Alert(t)
    BY <2>2, <2>3, AlertIsNotBlocked
  <2>4. CASE Called(t, q)
    BY <2>4 DEF Called, BeingWoken
  <2>5. QED BY <2>1, <2>3, <2>4
<1>2. QED BY <1>1, InvHolds, PTL

(***************************************************************************)
(* n_threads_running is exact up to the wakeups in flight, whatever path a *)
(* sleep takes: given up, raced by a waker, or cut short in uv_run.        *)
(***************************************************************************)
THEOREM CountIsExact == Spec => []RunningCount
<1>1. Inv => RunningCount
  BY DEF Inv, CountInv, RunningCount, NotStopped, Woken, IsWoken, Uncounted
<1>2. QED BY <1>1, InvHolds, PTL

(***************************************************************************)
(* A thread that wants the libuv lock always gets the owner out of uv_run: *)
(* [^store_buffering_2].                                                   *)
(***************************************************************************)
THEOREM LockIsYielded == Spec => []LoopYieldsLock
<1>1. Inv => LoopYieldsLock
  BY DEF Inv
<1>2. QED BY <1>1, InvHolds, PTL

(***************************************************************************)
(* While the event loop has live handles somebody watches it or is on the  *)
(* way to: the thread that leaves it has seen another take its place.      *)
(***************************************************************************)
THEOREM HandlesAreWatched == Spec => []LoopIsWatched
<1>1. Inv => LoopIsWatched
  <2> SUFFICES ASSUME Inv, handles
               PROVE  \E t \in Threads : pc[t] # "asleep" \/ BeingWoken(t)
    BY DEF LoopIsWatched
  <2>1. PICK t \in Threads : ~Leaving(t) \/ ~MaySleep(t) \/ Sought(t)
    BY DEF Inv, WatchInv
  <2>2. QED
    BY <2>1 DEF Inv, BlockInv, Signalling, Leaving, Sought, BeingWoken
<1>2. QED BY <1>1, InvHolds, PTL

(***************************************************************************)
(* When the task of jl_task_wait_empty goes on with no wakeup uncounted,   *)
(* everything has stopped: no task is queued or about to be, every thread  *)
(* sleeps and the event loop has no live handle.                           *)
(***************************************************************************)
LEMMA EmptiedIsQuiet ==
  ASSUME Inv, Emptied, Uncounted = {}
  PROVE  Quiet
<1>1. NotStopped = {} /\ Woken = {}
  <2>1. Cardinality(NotStopped) + Cardinality(Woken) = 0
    BY FS_EmptySet, SetsFinite, FS_CardinalityType DEF Inv, CountInv, Emptied, AllStopped
  <2>2. Cardinality(NotStopped) = 0 /\ Cardinality(Woken) = 0
    BY <2>1, SetsFinite, FS_CardinalityType
  <2>3. QED BY <2>2, SetsFinite, FS_EmptySet
<1>2. ASSUME NEW t \in Threads
      PROVE  Stopped(t) /\ MaySleep(t) /\ inserting[t] = Nobody /\ pc[t] \notin WakeAt
  <2>1. Stopped(t)
    BY <1>1 DEF NotStopped
  <2>2. pc[t] \notin WakeAt /\ inserting[t] = Nobody /\ ~storing[t]
    BY <2>1 DEF Inv, LagInv, Stopped, WakeAt
  <2>3. GoingToSleep(t)
    BY <2>1, <2>2 DEF GoingToSleep, Stopped
  <2>4. QED BY <1>1, <2>1, <2>2, <2>3 DEF Woken, IsWoken
<1>3. ASSUME NEW q \in Queues PROVE queue[q] = 0
  <2>1. \A t \in Servers(q) : ~Alert(t) /\ ~Called(t, q)
    BY <1>2, ServersAreThreads DEF Alert, Past, SleepAt, Stopped, Called, WakeAt
  <2>2. QED BY <2>1 DEF Inv, ServeInv, LabelOK, DataOK
<1>4. ~handles
  BY <1>2 DEF Inv, WatchInv, Leaving, Stopped, Sought, WakeAt
<1>5. QED BY <1>2, <1>3, <1>4 DEF Quiet

THEOREM EmptyIsQuietEnough == Spec => EmptyIsQuietOrUncounted
<1>1. Inv /\ [Next]_vars =>
        [Finishes => Quiet \/ \E w \in Threads : pc[w] = "count"]_vars
  <2> SUFFICES ASSUME Inv, Next, Finishes PROVE Quiet \/ \E w \in Threads : pc[w] = "count"
    OBVIOUS
  <2>1. Emptied
    BY OnlyEmptiedFinishes DEF Inv
  <2>2. QED BY <2>1, EmptiedIsQuiet DEF Uncounted
<1>2. QED BY <1>1, InvHolds, PTL DEF Spec, EmptyIsQuietOrUncounted
=============================================================================
