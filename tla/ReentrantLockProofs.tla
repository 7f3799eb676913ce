------------------------ MODULE ReentrantLockProofs ------------------------
(***************************************************************************)
(* The safety properties of ReentrantLock, for any number of tasks and any *)
(* bounds.  The inductive invariant is the conjunction of the properties   *)
(* themselves with the facts they lean on: who may touch locked_by, who    *)
(* holds the spin lock, what a compare-and-swap expects to find, and that  *)
(* no entry is linked twice.                                               *)
(***************************************************************************)
EXTENDS ReentrantLock, TLAPS

-----------------------------------------------------------------------------
(* The queue operations *)

\* No entry is linked twice.
Distinct(q) == \A i, j \in 1..Len(q) : q[i] = q[j] => i = j

\* list_deletefirst! on a queue of distinct entries removes that entry and no
\* other, and leaves the entries distinct.
LEMMA DeleteFacts ==
  ASSUME NEW S, NEW q \in Seq(S), NEW t, Distinct(q)
  PROVE  /\ list_deletefirst(q, t) \in Seq(S)
         /\ Distinct(list_deletefirst(q, t))
         /\ \A u : InQueue(list_deletefirst(q, t), u) <=> InQueue(q, u) /\ u # t
<1> DEFINE r == list_deletefirst(q, t)
<1>1. CASE InQueue(q, t)
  <2> DEFINE k == CHOOSE i \in 1..Len(q) : q[i] = t
  <2>1. k \in 1..Len(q) /\ q[k] = t
    BY <1>1 DEF InQueue
  <2> HIDE DEF k
  <2>2. r = [i \in 1..(Len(q) - 1) |-> IF i < k THEN q[i] ELSE q[i + 1]]
    BY <1>1 DEF list_deletefirst, k
  <2> HIDE DEF r
  <2>3. Len(q) - 1 \in Nat
    BY <2>1
  <2>4. \A i \in 1..(Len(q) - 1) : r[i] \in S
    BY <2>1, <2>2
  <2>5. r \in Seq(S) /\ Len(r) = Len(q) - 1
    BY <2>2, <2>3, <2>4
  <2>6. \A i \in 1..Len(r) : r[i] = IF i < k THEN q[i] ELSE q[i + 1]
    BY <2>2, <2>5
  <2>7. Distinct(r)
    BY <2>1, <2>5, <2>6 DEF Distinct
  <2>8. ASSUME NEW u, InQueue(r, u)
        PROVE  InQueue(q, u) /\ u # t
    BY <2>1, <2>5, <2>6, <2>8 DEF Distinct, InQueue
  <2>9. ASSUME NEW u, InQueue(q, u), u # t
        PROVE  InQueue(r, u)
    <3>1. PICK j \in 1..Len(q) : q[j] = u
      BY <2>9 DEF InQueue
    <3>2. CASE j < k
      BY <2>1, <2>5, <2>6, <3>1, <3>2 DEF InQueue
    <3>3. CASE j > k
      <4>1. j - 1 \in 1..Len(r) /\ ~(j - 1 < k) /\ (j - 1) + 1 = j
        BY <2>1, <2>5, <3>3
      <4> QED
        BY <2>6, <3>1, <4>1 DEF InQueue
    <3> QED
      BY <2>1, <2>9, <3>1, <3>2, <3>3
  <2> QED
    BY <2>5, <2>7, <2>8, <2>9 DEF r
<1>2. CASE ~InQueue(q, t)
  BY <1>2 DEF list_deletefirst
<1> QED
  BY <1>1, <1>2

\* popfirst! removes the head and nothing else.
LEMMA TailFacts ==
  ASSUME NEW S, NEW q \in Seq(S), q # <<>>, Distinct(q)
  PROVE  /\ Head(q) \in S /\ Tail(q) \in Seq(S)
         /\ Distinct(Tail(q))
         /\ InQueue(q, Head(q))
         /\ \A u : InQueue(Tail(q), u) <=> InQueue(q, u) /\ u # Head(q)
<1>1. Len(q) \in Nat \ {0} /\ Tail(q) \in Seq(S) /\ Head(q) = q[1] /\ Head(q) \in S
  OBVIOUS
<1>2. Len(Tail(q)) = Len(q) - 1 /\ \A i \in 1..(Len(q) - 1) : Tail(q)[i] = q[i + 1]
  BY <1>1
<1>3. Distinct(Tail(q))
  BY <1>1, <1>2 DEF Distinct
<1>4. InQueue(q, Head(q))
  BY <1>1 DEF InQueue
<1>5. ASSUME NEW u, InQueue(Tail(q), u)
      PROVE  InQueue(q, u) /\ u # Head(q)
  BY <1>1, <1>2, <1>5 DEF InQueue, Distinct
<1>6. ASSUME NEW u, InQueue(q, u), u # Head(q)
      PROVE  InQueue(Tail(q), u)
  <2>1. PICK j \in 1..Len(q) : q[j] = u
    BY <1>6 DEF InQueue
  <2>2. j - 1 \in 1..(Len(q) - 1) /\ (j - 1) + 1 = j
    BY <1>1, <1>6, <2>1
  <2> QED
    BY <1>2, <2>1, <2>2 DEF InQueue
<1> QED
  BY <1>1, <1>3, <1>4, <1>5, <1>6

\* push! of an entry that is not linked.
LEMMA AppendFacts ==
  ASSUME NEW S, NEW q \in Seq(S), NEW t \in S, Distinct(q), ~InQueue(q, t)
  PROVE  /\ Append(q, t) \in Seq(S)
         /\ Distinct(Append(q, t))
         /\ \A u : InQueue(Append(q, t), u) <=> InQueue(q, u) \/ u = t
<1>1. /\ Append(q, t) \in Seq(S) /\ Len(q) \in Nat
      /\ Len(Append(q, t)) = Len(q) + 1
      /\ \A i \in 1..Len(q) : Append(q, t)[i] = q[i]
      /\ Append(q, t)[Len(q) + 1] = t
  OBVIOUS
<1>2. Distinct(Append(q, t))
  BY <1>1 DEF Distinct, InQueue
<1>3. ASSUME NEW u
      PROVE  InQueue(Append(q, t), u) <=> InQueue(q, u) \/ u = t
  BY <1>1 DEF InQueue
<1> QED
  BY <1>1, <1>2, <1>3

\* An empty queue links nobody.
LEMMA EmptyFacts ==
  /\ \A u : ~InQueue(<<>>, u)
  /\ \A u : list_deletefirst(<<>>, u) = <<>>
  /\ Distinct(<<>>)
BY DEF InQueue, list_deletefirst, Distinct

-----------------------------------------------------------------------------
(* The inductive invariant *)

\* A task inside the lock is recorded in locked_by, with a positive count.
OwnInv ==
  \A t \in Tasks :
    pc[t] \in {"held", "slowcheck", "unlock"} => locked_by = t /\ cnt >= 1

\* What the compare-and-swaps expect to find.
SeenInv ==
  \A t \in Tasks :
    /\ pc[t] \in {"cas", "trylock", "slowcas"} => LOCKED \notin seen[t]
    /\ pc[t] = "setparked" => seen[t] = {LOCKED}

\* cond_wait.lock is a lock.
SpinInv == \A t \in Tasks : spin = t <=> pc[t] \in Spinning

\* While a notifier is about to clear LOCKED_BIT, as when the lock is free, an
\* unclaimed entry in the queue means that some task is on its way.
SeekInv ==
  ((LOCKED \notin havelock \/ \E n \in Tasks : pc[n] = "clear")
     /\ \E t \in Tasks : Linked(t) /\ armed[t])
    => \E u \in Tasks : Seeking(u)

\* A walk follows the raise of the state.
CancelInv ==
  \A t \in Tasks : walk[t] # "raise" => cancelled[t]

\* An unlock that ends in a throw follows an acquisition found to be
\* cancelled, which was the outermost one.
Throwing == {"unlock", "release", "lockn", "notify", "clear", "unlockn"}

ThrowInv ==
  \A t \in Tasks :
    /\ throws[t] => pc[t] \in Throwing /\ cancelled[t]
    /\ pc[t] = "slowcheck" \/ (pc[t] = "unlock" /\ throws[t]) => cnt = 1

IInv ==
  /\ TypeOK
  /\ MutualExclusion /\ OwnInv /\ SeenInv
  /\ SpinInv
  /\ ParkedBitSet
  /\ WakeOnce /\ Distinct(waitq)
  /\ SeekInv
  /\ CancelInv /\ CancelReachesParked
  /\ ThrowInv

-----------------------------------------------------------------------------
\* Every step keeps the types.
LEMMA TypeStep ==
  ASSUME TypeOK, OwnInv, Distinct(waitq), [Next]_vars
  PROVE  TypeOK'
<1> USE RLAssumption DEF Goto, parkVars, cancelVars
<1>1. ASSUME NEW t \in Tasks, Lock(t) PROVE TypeOK'
  <2>1. calls' \in [Tasks -> 0..MaxCalls]
    <3> calls \in [Tasks -> 0..MaxCalls]
      BY DEF TypeOK
    <3> QED
      BY <1>1 DEF Lock, Goto, Locations, parkVars, cancelVars
  <2>2. pc' \in [Tasks -> Locations]
    <3> pc \in [Tasks -> Locations]
      BY DEF TypeOK
    <3> QED
      BY <1>1 DEF Lock, Goto, Locations, parkVars, cancelVars
  <2> QED
    BY <1>1, <2>1, <2>2 DEF TypeOK, Lock, parkVars, cancelVars
<1>2. ASSUME NEW t \in Tasks, TryLock(t) PROVE TypeOK'
  BY <1>2 DEF TryLock, TypeOK, Locations, Bits, LOCKED, PARKED
<1>3. ASSUME NEW t \in Tasks, Reenter(t) PROVE TypeOK'
  BY <1>3 DEF Reenter, TypeOK, Locations, Bits, LOCKED, PARKED
<1>4. ASSUME NEW t \in Tasks, CallUnlock(t) PROVE TypeOK'
  BY <1>4 DEF CallUnlock, TypeOK, Locations, Bits, LOCKED, PARKED
<1>5. ASSUME NEW t \in Tasks, ReadState(t) PROVE TypeOK'
  BY <1>5 DEF ReadState, TypeOK, Locations, Bits, LOCKED, PARKED
<1>6. ASSUME NEW t \in Tasks, CasLocked(t) PROVE TypeOK'
  <2>1. havelock' \in SUBSET Bits
    <3> havelock \in SUBSET Bits
      BY DEF TypeOK
    <3> QED
      BY <1>6 DEF CasLocked, Goto, Locations, parkVars, cancelVars, LOCKED, PARKED, Bits
  <2>2. iter' \in [Tasks -> 0..(MAX_SPIN_ITERS + 1)]
    <3> iter \in [Tasks -> 0..(MAX_SPIN_ITERS + 1)]
      BY DEF TypeOK
    <3> QED
      BY <1>6 DEF CasLocked, Goto, Locations, parkVars, cancelVars, LOCKED, PARKED, Bits
  <2>3. pc' \in [Tasks -> Locations]
    <3> pc \in [Tasks -> Locations]
      BY DEF TypeOK
    <3> QED
      BY <1>6 DEF CasLocked, Goto, Locations, parkVars, cancelVars, LOCKED, PARKED, Bits
  <2> QED
    BY <1>6, <2>1, <2>2, <2>3 DEF TypeOK, CasLocked, parkVars, cancelVars
<1>7. ASSUME NEW t \in Tasks, TakeOwnership(t) PROVE TypeOK'
  BY <1>7 DEF TakeOwnership, TypeOK, Locations, Bits, LOCKED, PARKED
<1>8. ASSUME NEW t \in Tasks, SlowRead(t) PROVE TypeOK'
  <2>1. seen' \in [Tasks -> SUBSET Bits]
    <3> havelock \in SUBSET Bits /\ seen \in [Tasks -> SUBSET Bits]
      BY DEF TypeOK
    <3> QED
      BY <1>8 DEF SlowRead
  <2>2. iter' \in [Tasks -> 0..(MAX_SPIN_ITERS + 1)]
    <3>1. iter \in [Tasks -> 0..(MAX_SPIN_ITERS + 1)]
      BY DEF TypeOK
    <3>2. \/ iter' = iter
          \/ iter[t] <= MAX_SPIN_ITERS /\ iter' = [iter EXCEPT ![t] = iter[t] + 1]
      BY <1>8 DEF SlowRead
    <3> QED
      BY <3>1, <3>2
  <2>3. pc' \in [Tasks -> Locations]
    <3> pc \in [Tasks -> Locations]
      BY DEF TypeOK
    <3> QED
      BY <1>8 DEF SlowRead, Locations
  <2> QED
    BY <1>8, <2>1, <2>2, <2>3 DEF TypeOK, SlowRead
<1>9. ASSUME NEW t \in Tasks, SlowCas(t) PROVE TypeOK'
  BY <1>9, ZenonT(60) DEF SlowCas, TypeOK, Locations, Bits, LOCKED, PARKED
<1>10. ASSUME NEW t \in Tasks, SlowCheck(t) PROVE TypeOK'
  BY <1>10, ZenonT(60) DEF SlowCheck, TypeOK, Locations, Bits, LOCKED, PARKED
<1>11. ASSUME NEW t \in Tasks, SetParked(t) PROVE TypeOK'
  BY <1>11 DEF SetParked, TypeOK, Locations, Bits, LOCKED, PARKED
<1>12. ASSUME NEW t \in Tasks, LockCond(t) PROVE TypeOK'
  BY <1>12 DEF LockCond, TypeOK, Locations, Bits, LOCKED, PARKED
<1>13. ASSUME NEW t \in Tasks, Recheck(t) PROVE TypeOK'
  BY <1>13, ZenonT(60) DEF Recheck, TypeOK, Locations, Bits, LOCKED, PARKED
<1>14. ASSUME NEW t \in Tasks, Arm(t) PROVE TypeOK'
  BY <1>14 DEF Arm, TypeOK, Locations, Bits, LOCKED, PARKED
<1>15. ASSUME NEW t \in Tasks, Enqueue(t) PROVE TypeOK'
  BY <1>15 DEF Enqueue, TypeOK, Locations, Bits, LOCKED, PARKED
<1>16. ASSUME NEW t \in Tasks, RecheckToken(t) PROVE TypeOK'
  <2>1. armed' \in [Tasks -> BOOLEAN]
    <3> armed \in [Tasks -> BOOLEAN]
      BY DEF TypeOK
    <3> QED
      BY <1>16, DeleteFacts DEF RecheckToken, Goto, Locations, parkVars, cancelVars
  <2>2. waitq' \in Seq(Tasks)
    <3> waitq \in Seq(Tasks)
      BY DEF TypeOK
    <3> QED
      BY <1>16, DeleteFacts DEF RecheckToken, Goto, Locations, parkVars, cancelVars
  <2>3. spin' \in Tasks \cup {NoTask}
    <3> spin \in Tasks \cup {NoTask}
      BY DEF TypeOK
    <3> QED
      BY <1>16, DeleteFacts DEF RecheckToken, Goto, Locations, parkVars, cancelVars
  <2>4. pc' \in [Tasks -> Locations]
    <3> pc \in [Tasks -> Locations]
      BY DEF TypeOK
    <3> QED
      BY <1>16, DeleteFacts DEF RecheckToken, Goto, Locations, parkVars, cancelVars
  <2> QED
    BY <1>16, <2>1, <2>2, <2>3, <2>4 DEF TypeOK, RecheckToken, parkVars, cancelVars
<1>17. ASSUME NEW t \in Tasks, UnlockCond(t) PROVE TypeOK'
  BY <1>17 DEF UnlockCond, TypeOK, Locations, Bits, LOCKED, PARKED
<1>18. ASSUME NEW t \in Tasks, ResumeNotified(t) PROVE TypeOK'
  BY <1>18 DEF ResumeNotified, TypeOK, Locations, Bits, LOCKED, PARKED
<1>19. ASSUME NEW t \in Tasks, ResumeCancelled(t) PROVE TypeOK'
  BY <1>19 DEF ResumeCancelled, TypeOK, Locations, Bits, LOCKED, PARKED
<1>20. ASSUME NEW t \in Tasks, CleanupLock(t) PROVE TypeOK'
  BY <1>20 DEF CleanupLock, TypeOK, Locations, Bits, LOCKED, PARKED
<1>21. ASSUME NEW t \in Tasks, CleanupUnlink(t) PROVE TypeOK'
  BY <1>21, DeleteFacts DEF CleanupUnlink, TypeOK, Locations, Bits, LOCKED, PARKED
<1>22. ASSUME NEW t \in Tasks, Unlock(t) PROVE TypeOK'
  <2>1. cnt' \in 0..MaxDepth
    <3> cnt \in 0..MaxDepth
      BY DEF TypeOK
    <3> QED
      BY <1>22 DEF Unlock, Goto, Locations, parkVars, cancelVars, OwnInv
  <2>2. locked_by' \in Tasks \cup {NoTask}
    <3> locked_by \in Tasks \cup {NoTask}
      BY DEF TypeOK
    <3> QED
      BY <1>22 DEF Unlock, Goto, Locations, parkVars, cancelVars, OwnInv
  <2>3. pc' \in [Tasks -> Locations]
    <3> pc \in [Tasks -> Locations]
      BY DEF TypeOK
    <3> QED
      BY <1>22 DEF Unlock, Goto, Locations, parkVars, cancelVars, OwnInv
  <2> QED
    BY <1>22, <2>1, <2>2, <2>3 DEF TypeOK, Unlock, parkVars, cancelVars
<1>23. ASSUME NEW t \in Tasks, Release(t) PROVE TypeOK'
  BY <1>23, ZenonT(60) DEF Release, TypeOK, Locations, Bits, LOCKED, PARKED
<1>24. ASSUME NEW t \in Tasks, LockNotify(t) PROVE TypeOK'
  BY <1>24 DEF LockNotify, TypeOK, Locations, Bits, LOCKED, PARKED
<1>25. ASSUME NEW t \in Tasks, Notify(t) PROVE TypeOK'
  <2>1. armed' \in [Tasks -> BOOLEAN]
    <3> armed \in [Tasks -> BOOLEAN]
      BY DEF TypeOK
    <3> QED
      BY <1>25 DEF Notify, Goto, Locations, parkVars, cancelVars
  <2>2. wake' \in [Tasks -> {"none", "value", "exception"}]
    <3> wake \in [Tasks -> {"none", "value", "exception"}]
      BY DEF TypeOK
    <3> QED
      BY <1>25 DEF Notify, Goto, Locations, parkVars, cancelVars
  <2>3. waitq' \in Seq(Tasks)
    <3> waitq \in Seq(Tasks)
      BY DEF TypeOK
    <3> QED
      BY <1>25 DEF Notify, Goto, Locations, parkVars, cancelVars
  <2>4. pc' \in [Tasks -> Locations]
    <3> pc \in [Tasks -> Locations]
      BY DEF TypeOK
    <3> QED
      BY <1>25 DEF Notify, Goto, Locations, parkVars, cancelVars
  <2> QED
    BY <1>25, <2>1, <2>2, <2>3, <2>4 DEF TypeOK, Notify, parkVars, cancelVars
<1>26. ASSUME NEW t \in Tasks, ClearLocked(t) PROVE TypeOK'
  BY <1>26 DEF ClearLocked, TypeOK, Locations, Bits, LOCKED, PARKED
<1>27. ASSUME NEW t \in Tasks, UnlockNotify(t) PROVE TypeOK'
  BY <1>27 DEF UnlockNotify, TypeOK, Locations, Bits, LOCKED, PARKED
<1>28. ASSUME NEW t \in Tasks, CancelRaise(t) PROVE TypeOK'
  BY <1>28 DEF CancelRaise, TypeOK, Locations, Bits, LOCKED, PARKED
<1>29. ASSUME NEW t \in Tasks, CancelWalk(t) PROVE TypeOK'
  BY <1>29 DEF CancelWalk, TypeOK, Locations, Bits, LOCKED, PARKED
<1>30. ASSUME NEW t \in Tasks, CancelDeliver(t) PROVE TypeOK'
  BY <1>30, DeleteFacts DEF CancelDeliver, TypeOK, Locations, Bits, LOCKED, PARKED
<1>31. CASE UNCHANGED vars \/ Quiescent
  BY <1>31 DEF Quiescent, vars, TypeOK
<1> QED
  BY <1>1, <1>2, <1>3, <1>4, <1>5, <1>6, <1>7, <1>8, <1>9, <1>10, <1>11,
     <1>12, <1>13, <1>14, <1>15, <1>16, <1>17, <1>18, <1>19, <1>20, <1>21,
     <1>22, <1>23, <1>24, <1>25, <1>26, <1>27, <1>28, <1>29, <1>30, <1>31
     DEF Next, Step, LockSteps, ParkSteps, UnlockSteps, Cancel
-----------------------------------------------------------------------------
\* Every step keeps the ownership of LOCKED_BIT with one task.
LEMMA ExclusionStep ==
  ASSUME TypeOK, MutualExclusion, OwnInv, SeenInv, [Next]_vars
  PROVE  (MutualExclusion /\ OwnInv /\ SeenInv)'
<1> USE RLAssumption DEF Goto, parkVars, cancelVars, LOCKED, PARKED, Bits,
           MutualExclusion, OwnInv, SeenInv, Owning
<1>0. /\ pc \in [Tasks -> Locations]
      /\ seen \in [Tasks -> SUBSET Bits]
      /\ havelock \in SUBSET Bits
      /\ cnt \in 0..MaxDepth
  BY DEF TypeOK
<1> USE <1>0
<1>1. ASSUME NEW t \in Tasks, Lock(t) PROVE (MutualExclusion /\ OwnInv /\ SeenInv)'
  BY <1>1 DEF Lock
<1>2. ASSUME NEW t \in Tasks, TryLock(t) PROVE (MutualExclusion /\ OwnInv /\ SeenInv)'
  BY <1>2 DEF TryLock
<1>3. ASSUME NEW t \in Tasks, Reenter(t) PROVE (MutualExclusion /\ OwnInv /\ SeenInv)'
  BY <1>3 DEF Reenter
<1>4. ASSUME NEW t \in Tasks, CallUnlock(t) PROVE (MutualExclusion /\ OwnInv /\ SeenInv)'
  BY <1>4 DEF CallUnlock
<1>5. ASSUME NEW t \in Tasks, ReadState(t) PROVE (MutualExclusion /\ OwnInv /\ SeenInv)'
  BY <1>5 DEF ReadState
<1>6. ASSUME NEW t \in Tasks, CasLocked(t) PROVE (MutualExclusion /\ OwnInv /\ SeenInv)'
  BY <1>6 DEF CasLocked
<1>7. ASSUME NEW t \in Tasks, TakeOwnership(t) PROVE (MutualExclusion /\ OwnInv /\ SeenInv)'
  BY <1>7 DEF TakeOwnership
<1>8. ASSUME NEW t \in Tasks, SlowRead(t) PROVE (MutualExclusion /\ OwnInv /\ SeenInv)'
  <2>1. /\ seen' = [seen EXCEPT ![t] = havelock]
        /\ \/ pc' = [pc EXCEPT ![t] = "slowcas"] /\ LOCKED \notin havelock
           \/ pc' = pc
           \/ pc' = [pc EXCEPT ![t] = "setparked"] /\ havelock = {LOCKED}
           \/ pc' = [pc EXCEPT ![t] = "lockc"]
        /\ pc[t] = "slow"
        /\ UNCHANGED <<havelock, locked_by, cnt>>
    BY <1>8, ZenonT(60) DEF SlowRead
  <2>2. MutualExclusion'
    BY <2>1
  <2>3. OwnInv'
    BY <2>1
  <2>4. SeenInv'
    BY <2>1
  <2> QED
    BY <2>2, <2>3, <2>4
<1>9. ASSUME NEW t \in Tasks, SlowCas(t) PROVE (MutualExclusion /\ OwnInv /\ SeenInv)'
  BY <1>9 DEF SlowCas
<1>10. ASSUME NEW t \in Tasks, SlowCheck(t) PROVE (MutualExclusion /\ OwnInv /\ SeenInv)'
  BY <1>10 DEF SlowCheck
<1>11. ASSUME NEW t \in Tasks, SetParked(t) PROVE (MutualExclusion /\ OwnInv /\ SeenInv)'
  BY <1>11 DEF SetParked
<1>12. ASSUME NEW t \in Tasks, LockCond(t) PROVE (MutualExclusion /\ OwnInv /\ SeenInv)'
  BY <1>12 DEF LockCond
<1>13. ASSUME NEW t \in Tasks, Recheck(t) PROVE (MutualExclusion /\ OwnInv /\ SeenInv)'
  BY <1>13 DEF Recheck
<1>14. ASSUME NEW t \in Tasks, Arm(t) PROVE (MutualExclusion /\ OwnInv /\ SeenInv)'
  BY <1>14 DEF Arm
<1>15. ASSUME NEW t \in Tasks, Enqueue(t) PROVE (MutualExclusion /\ OwnInv /\ SeenInv)'
  BY <1>15 DEF Enqueue
<1>16. ASSUME NEW t \in Tasks, RecheckToken(t) PROVE (MutualExclusion /\ OwnInv /\ SeenInv)'
  BY <1>16 DEF RecheckToken
<1>17. ASSUME NEW t \in Tasks, UnlockCond(t) PROVE (MutualExclusion /\ OwnInv /\ SeenInv)'
  BY <1>17 DEF UnlockCond
<1>18. ASSUME NEW t \in Tasks, ResumeNotified(t) PROVE (MutualExclusion /\ OwnInv /\ SeenInv)'
  BY <1>18 DEF ResumeNotified
<1>19. ASSUME NEW t \in Tasks, ResumeCancelled(t) PROVE (MutualExclusion /\ OwnInv /\ SeenInv)'
  BY <1>19 DEF ResumeCancelled
<1>20. ASSUME NEW t \in Tasks, CleanupLock(t) PROVE (MutualExclusion /\ OwnInv /\ SeenInv)'
  BY <1>20 DEF CleanupLock
<1>21. ASSUME NEW t \in Tasks, CleanupUnlink(t) PROVE (MutualExclusion /\ OwnInv /\ SeenInv)'
  BY <1>21 DEF CleanupUnlink
<1>22. ASSUME NEW t \in Tasks, Unlock(t) PROVE (MutualExclusion /\ OwnInv /\ SeenInv)'
  BY <1>22 DEF Unlock
<1>23. ASSUME NEW t \in Tasks, Release(t) PROVE (MutualExclusion /\ OwnInv /\ SeenInv)'
  BY <1>23 DEF Release
<1>24. ASSUME NEW t \in Tasks, LockNotify(t) PROVE (MutualExclusion /\ OwnInv /\ SeenInv)'
  BY <1>24 DEF LockNotify
<1>25. ASSUME NEW t \in Tasks, Notify(t) PROVE (MutualExclusion /\ OwnInv /\ SeenInv)'
  BY <1>25 DEF Notify
<1>26. ASSUME NEW t \in Tasks, ClearLocked(t) PROVE (MutualExclusion /\ OwnInv /\ SeenInv)'
  BY <1>26 DEF ClearLocked
<1>27. ASSUME NEW t \in Tasks, UnlockNotify(t) PROVE (MutualExclusion /\ OwnInv /\ SeenInv)'
  BY <1>27 DEF UnlockNotify
<1>28. ASSUME NEW t \in Tasks, CancelRaise(t) PROVE (MutualExclusion /\ OwnInv /\ SeenInv)'
  BY <1>28 DEF CancelRaise
<1>29. ASSUME NEW t \in Tasks, CancelWalk(t) PROVE (MutualExclusion /\ OwnInv /\ SeenInv)'
  BY <1>29 DEF CancelWalk
<1>30. ASSUME NEW t \in Tasks, CancelDeliver(t) PROVE (MutualExclusion /\ OwnInv /\ SeenInv)'
  BY <1>30 DEF CancelDeliver
<1>31. CASE UNCHANGED vars \/ Quiescent
  BY <1>31 DEF Quiescent, vars
<1> QED
  BY <1>1, <1>2, <1>3, <1>4, <1>5, <1>6, <1>7, <1>8, <1>9, <1>10, <1>11,
     <1>12, <1>13, <1>14, <1>15, <1>16, <1>17, <1>18, <1>19, <1>20, <1>21,
     <1>22, <1>23, <1>24, <1>25, <1>26, <1>27, <1>28, <1>29, <1>30, <1>31
     DEF Next, Step, LockSteps, ParkSteps, UnlockSteps, Cancel
-----------------------------------------------------------------------------
\* Every step keeps cond_wait.lock with one task.
LEMMA SpinStep ==
  ASSUME TypeOK, SpinInv, [Next]_vars
  PROVE  SpinInv'
<1> USE RLAssumption DEF Goto, parkVars, cancelVars, SpinInv, Spinning
<1>0. /\ pc \in [Tasks -> Locations]
      /\ spin \in Tasks \cup {NoTask}
  BY DEF TypeOK
<1> USE <1>0
<1>1. ASSUME NEW t \in Tasks, Lock(t) PROVE SpinInv'
  BY <1>1 DEF Lock
<1>2. ASSUME NEW t \in Tasks, TryLock(t) PROVE SpinInv'
  BY <1>2 DEF TryLock
<1>3. ASSUME NEW t \in Tasks, Reenter(t) PROVE SpinInv'
  BY <1>3 DEF Reenter
<1>4. ASSUME NEW t \in Tasks, CallUnlock(t) PROVE SpinInv'
  BY <1>4 DEF CallUnlock
<1>5. ASSUME NEW t \in Tasks, ReadState(t) PROVE SpinInv'
  BY <1>5 DEF ReadState
<1>6. ASSUME NEW t \in Tasks, CasLocked(t) PROVE SpinInv'
  BY <1>6 DEF CasLocked
<1>7. ASSUME NEW t \in Tasks, TakeOwnership(t) PROVE SpinInv'
  BY <1>7 DEF TakeOwnership
<1>8. ASSUME NEW t \in Tasks, SlowRead(t) PROVE SpinInv'
  BY <1>8 DEF SlowRead
<1>9. ASSUME NEW t \in Tasks, SlowCas(t) PROVE SpinInv'
  BY <1>9 DEF SlowCas
<1>10. ASSUME NEW t \in Tasks, SlowCheck(t) PROVE SpinInv'
  BY <1>10 DEF SlowCheck
<1>11. ASSUME NEW t \in Tasks, SetParked(t) PROVE SpinInv'
  BY <1>11 DEF SetParked
<1>12. ASSUME NEW t \in Tasks, LockCond(t) PROVE SpinInv'
  BY <1>12 DEF LockCond
<1>13. ASSUME NEW t \in Tasks, Recheck(t) PROVE SpinInv'
  BY <1>13 DEF Recheck
<1>14. ASSUME NEW t \in Tasks, Arm(t) PROVE SpinInv'
  BY <1>14 DEF Arm
<1>15. ASSUME NEW t \in Tasks, Enqueue(t) PROVE SpinInv'
  BY <1>15 DEF Enqueue
<1>16. ASSUME NEW t \in Tasks, RecheckToken(t) PROVE SpinInv'
  BY <1>16 DEF RecheckToken
<1>17. ASSUME NEW t \in Tasks, UnlockCond(t) PROVE SpinInv'
  BY <1>17 DEF UnlockCond
<1>18. ASSUME NEW t \in Tasks, ResumeNotified(t) PROVE SpinInv'
  BY <1>18 DEF ResumeNotified
<1>19. ASSUME NEW t \in Tasks, ResumeCancelled(t) PROVE SpinInv'
  BY <1>19 DEF ResumeCancelled
<1>20. ASSUME NEW t \in Tasks, CleanupLock(t) PROVE SpinInv'
  BY <1>20 DEF CleanupLock
<1>21. ASSUME NEW t \in Tasks, CleanupUnlink(t) PROVE SpinInv'
  BY <1>21 DEF CleanupUnlink
<1>22. ASSUME NEW t \in Tasks, Unlock(t) PROVE SpinInv'
  BY <1>22 DEF Unlock
<1>23. ASSUME NEW t \in Tasks, Release(t) PROVE SpinInv'
  BY <1>23 DEF Release
<1>24. ASSUME NEW t \in Tasks, LockNotify(t) PROVE SpinInv'
  BY <1>24 DEF LockNotify
<1>25. ASSUME NEW t \in Tasks, Notify(t) PROVE SpinInv'
  BY <1>25 DEF Notify
<1>26. ASSUME NEW t \in Tasks, ClearLocked(t) PROVE SpinInv'
  BY <1>26 DEF ClearLocked
<1>27. ASSUME NEW t \in Tasks, UnlockNotify(t) PROVE SpinInv'
  BY <1>27 DEF UnlockNotify
<1>28. ASSUME NEW t \in Tasks, CancelRaise(t) PROVE SpinInv'
  BY <1>28 DEF CancelRaise
<1>29. ASSUME NEW t \in Tasks, CancelWalk(t) PROVE SpinInv'
  BY <1>29 DEF CancelWalk
<1>30. ASSUME NEW t \in Tasks, CancelDeliver(t) PROVE SpinInv'
  BY <1>30 DEF CancelDeliver
<1>31. CASE UNCHANGED vars \/ Quiescent
  BY <1>31 DEF Quiescent, vars
<1> QED
  BY <1>1, <1>2, <1>3, <1>4, <1>5, <1>6, <1>7, <1>8, <1>9, <1>10, <1>11,
     <1>12, <1>13, <1>14, <1>15, <1>16, <1>17, <1>18, <1>19, <1>20, <1>21,
     <1>22, <1>23, <1>24, <1>25, <1>26, <1>27, <1>28, <1>29, <1>30, <1>31
     DEF Next, Step, LockSteps, ParkSteps, UnlockSteps, Cancel
-----------------------------------------------------------------------------
\* Every step keeps PARKED_BIT set while entries are linked.
LEMMA ParkedStep ==
  ASSUME TypeOK, MutualExclusion, SeenInv, SpinInv, ParkedBitSet, [Next]_vars
  PROVE  ParkedBitSet'
<1> USE RLAssumption DEF Goto, parkVars, cancelVars, LOCKED, PARKED, Bits,
           ParkedBitSet
<1>0. /\ pc \in [Tasks -> Locations]
      /\ spin \in Tasks \cup {NoTask}
      /\ havelock \in SUBSET Bits
      /\ waitq \in Seq(Tasks)
  BY DEF TypeOK
<1> USE <1>0
<1>1. ASSUME NEW t \in Tasks, Lock(t) PROVE ParkedBitSet'
  BY <1>1 DEF Lock
<1>2. ASSUME NEW t \in Tasks, TryLock(t) PROVE ParkedBitSet'
  BY <1>2 DEF TryLock
<1>3. ASSUME NEW t \in Tasks, Reenter(t) PROVE ParkedBitSet'
  BY <1>3 DEF Reenter
<1>4. ASSUME NEW t \in Tasks, CallUnlock(t) PROVE ParkedBitSet'
  BY <1>4 DEF CallUnlock
<1>5. ASSUME NEW t \in Tasks, ReadState(t) PROVE ParkedBitSet'
  BY <1>5 DEF ReadState
<1>6. ASSUME NEW t \in Tasks, CasLocked(t) PROVE ParkedBitSet'
  BY <1>6 DEF CasLocked
<1>7. ASSUME NEW t \in Tasks, TakeOwnership(t) PROVE ParkedBitSet'
  BY <1>7 DEF TakeOwnership
<1>8. ASSUME NEW t \in Tasks, SlowRead(t) PROVE ParkedBitSet'
  BY <1>8 DEF SlowRead
<1>9. ASSUME NEW t \in Tasks, SlowCas(t) PROVE ParkedBitSet'
  BY <1>9 DEF SlowCas
<1>10. ASSUME NEW t \in Tasks, SlowCheck(t) PROVE ParkedBitSet'
  BY <1>10 DEF SlowCheck
<1>11. ASSUME NEW t \in Tasks, SetParked(t) PROVE ParkedBitSet'
  BY <1>11 DEF SetParked
<1>12. ASSUME NEW t \in Tasks, LockCond(t) PROVE ParkedBitSet'
  BY <1>12 DEF LockCond
<1>13. ASSUME NEW t \in Tasks, Recheck(t) PROVE ParkedBitSet'
  BY <1>13 DEF Recheck
<1>14. ASSUME NEW t \in Tasks, Arm(t) PROVE ParkedBitSet'
  BY <1>14 DEF Arm
<1>15. ASSUME NEW t \in Tasks, Enqueue(t) PROVE ParkedBitSet'
  BY <1>15 DEF Enqueue
<1>16. ASSUME NEW t \in Tasks, RecheckToken(t) PROVE ParkedBitSet'
  BY <1>16, EmptyFacts DEF RecheckToken
<1>17. ASSUME NEW t \in Tasks, UnlockCond(t) PROVE ParkedBitSet'
  BY <1>17 DEF UnlockCond
<1>18. ASSUME NEW t \in Tasks, ResumeNotified(t) PROVE ParkedBitSet'
  BY <1>18 DEF ResumeNotified
<1>19. ASSUME NEW t \in Tasks, ResumeCancelled(t) PROVE ParkedBitSet'
  BY <1>19 DEF ResumeCancelled
<1>20. ASSUME NEW t \in Tasks, CleanupLock(t) PROVE ParkedBitSet'
  BY <1>20 DEF CleanupLock
<1>21. ASSUME NEW t \in Tasks, CleanupUnlink(t) PROVE ParkedBitSet'
  BY <1>21, EmptyFacts DEF CleanupUnlink
<1>22. ASSUME NEW t \in Tasks, Unlock(t) PROVE ParkedBitSet'
  BY <1>22 DEF Unlock
<1>23. ASSUME NEW t \in Tasks, Release(t) PROVE ParkedBitSet'
  <2>1. CASE havelock = {LOCKED}
    <3>1. waitq = <<>> /\ \A u \in Tasks : pc[u] \notin {"arm", "enqueue"}
      BY <2>1
    <3> QED
      BY <1>23, <2>1, <3>1 DEF Release
  <2>2. CASE havelock # {LOCKED}
    BY <1>23, <2>2 DEF Release
  <2> QED
    BY <2>1, <2>2
<1>24. ASSUME NEW t \in Tasks, LockNotify(t) PROVE ParkedBitSet'
  BY <1>24 DEF LockNotify
<1>25. ASSUME NEW t \in Tasks, Notify(t) PROVE ParkedBitSet'
  BY <1>25 DEF Notify
<1>26. ASSUME NEW t \in Tasks, ClearLocked(t) PROVE ParkedBitSet'
  BY <1>26 DEF ClearLocked, SpinInv, Spinning
<1>27. ASSUME NEW t \in Tasks, UnlockNotify(t) PROVE ParkedBitSet'
  BY <1>27 DEF UnlockNotify
<1>28. ASSUME NEW t \in Tasks, CancelRaise(t) PROVE ParkedBitSet'
  BY <1>28 DEF CancelRaise
<1>29. ASSUME NEW t \in Tasks, CancelWalk(t) PROVE ParkedBitSet'
  BY <1>29 DEF CancelWalk
<1>30. ASSUME NEW t \in Tasks, CancelDeliver(t) PROVE ParkedBitSet'
  BY <1>30, EmptyFacts DEF CancelDeliver
<1>31. CASE UNCHANGED vars \/ Quiescent
  BY <1>31 DEF Quiescent, vars
<1> QED
  BY <1>1, <1>2, <1>3, <1>4, <1>5, <1>6, <1>7, <1>8, <1>9, <1>10, <1>11,
     <1>12, <1>13, <1>14, <1>15, <1>16, <1>17, <1>18, <1>19, <1>20, <1>21,
     <1>22, <1>23, <1>24, <1>25, <1>26, <1>27, <1>28, <1>29, <1>30, <1>31
     DEF Next, Step, LockSteps, ParkSteps, UnlockSteps, Cancel
-----------------------------------------------------------------------------
\* Every step keeps the claims, wakes and queue entries in agreement.
LEMMA WakeStep ==
  ASSUME TypeOK, SpinInv, WakeOnce, Distinct(waitq), [Next]_vars
  PROVE  (WakeOnce /\ Distinct(waitq))'
<1> USE RLAssumption DEF Goto, parkVars, cancelVars,
           WakeOnce, Linked
<1>0. /\ pc \in [Tasks -> Locations]
      /\ armed \in [Tasks -> BOOLEAN]
      /\ wake \in [Tasks -> {"none", "value", "exception"}]
      /\ walk \in [Tasks -> {"raise", "walk", "deliver", "done"}]
      /\ waitq \in Seq(Tasks)
  BY DEF TypeOK
<1> USE <1>0
<1>1. ASSUME NEW t \in Tasks, Lock(t) PROVE (WakeOnce /\ Distinct(waitq))'
  BY <1>1 DEF Lock
<1>2. ASSUME NEW t \in Tasks, TryLock(t) PROVE (WakeOnce /\ Distinct(waitq))'
  BY <1>2 DEF TryLock
<1>3. ASSUME NEW t \in Tasks, Reenter(t) PROVE (WakeOnce /\ Distinct(waitq))'
  BY <1>3 DEF Reenter
<1>4. ASSUME NEW t \in Tasks, CallUnlock(t) PROVE (WakeOnce /\ Distinct(waitq))'
  BY <1>4 DEF CallUnlock
<1>5. ASSUME NEW t \in Tasks, ReadState(t) PROVE (WakeOnce /\ Distinct(waitq))'
  BY <1>5 DEF ReadState
<1>6. ASSUME NEW t \in Tasks, CasLocked(t) PROVE (WakeOnce /\ Distinct(waitq))'
  BY <1>6 DEF CasLocked
<1>7. ASSUME NEW t \in Tasks, TakeOwnership(t) PROVE (WakeOnce /\ Distinct(waitq))'
  BY <1>7 DEF TakeOwnership
<1>8. ASSUME NEW t \in Tasks, SlowRead(t) PROVE (WakeOnce /\ Distinct(waitq))'
  BY <1>8 DEF SlowRead
<1>9. ASSUME NEW t \in Tasks, SlowCas(t) PROVE (WakeOnce /\ Distinct(waitq))'
  BY <1>9 DEF SlowCas
<1>10. ASSUME NEW t \in Tasks, SlowCheck(t) PROVE (WakeOnce /\ Distinct(waitq))'
  BY <1>10 DEF SlowCheck
<1>11. ASSUME NEW t \in Tasks, SetParked(t) PROVE (WakeOnce /\ Distinct(waitq))'
  BY <1>11 DEF SetParked
<1>12. ASSUME NEW t \in Tasks, LockCond(t) PROVE (WakeOnce /\ Distinct(waitq))'
  BY <1>12 DEF LockCond
<1>13. ASSUME NEW t \in Tasks, Recheck(t) PROVE (WakeOnce /\ Distinct(waitq))'
  BY <1>13 DEF Recheck
<1>14. ASSUME NEW t \in Tasks, Arm(t) PROVE (WakeOnce /\ Distinct(waitq))'
  BY <1>14 DEF Arm
<1>15. ASSUME NEW t \in Tasks, Enqueue(t) PROVE (WakeOnce /\ Distinct(waitq))'
  <2>1. /\ Distinct(waitq')
        /\ \A u : InQueue(waitq', u) <=> InQueue(waitq, u) \/ u = t
    BY <1>15, AppendFacts DEF Enqueue
  <2> QED
    BY <1>15, <2>1 DEF Enqueue
<1>16. ASSUME NEW t \in Tasks, RecheckToken(t) PROVE (WakeOnce /\ Distinct(waitq))'
  BY <1>16, DeleteFacts DEF RecheckToken
<1>17. ASSUME NEW t \in Tasks, UnlockCond(t) PROVE (WakeOnce /\ Distinct(waitq))'
  BY <1>17 DEF UnlockCond
<1>18. ASSUME NEW t \in Tasks, ResumeNotified(t) PROVE (WakeOnce /\ Distinct(waitq))'
  BY <1>18 DEF ResumeNotified
<1>19. ASSUME NEW t \in Tasks, ResumeCancelled(t) PROVE (WakeOnce /\ Distinct(waitq))'
  BY <1>19 DEF ResumeCancelled
<1>20. ASSUME NEW t \in Tasks, CleanupLock(t) PROVE (WakeOnce /\ Distinct(waitq))'
  BY <1>20 DEF CleanupLock
<1>21. ASSUME NEW t \in Tasks, CleanupUnlink(t) PROVE (WakeOnce /\ Distinct(waitq))'
  BY <1>21, DeleteFacts DEF CleanupUnlink
<1>22. ASSUME NEW t \in Tasks, Unlock(t) PROVE (WakeOnce /\ Distinct(waitq))'
  BY <1>22 DEF Unlock
<1>23. ASSUME NEW t \in Tasks, Release(t) PROVE (WakeOnce /\ Distinct(waitq))'
  BY <1>23 DEF Release
<1>24. ASSUME NEW t \in Tasks, LockNotify(t) PROVE (WakeOnce /\ Distinct(waitq))'
  BY <1>24 DEF LockNotify
<1>25. ASSUME NEW t \in Tasks, Notify(t) PROVE (WakeOnce /\ Distinct(waitq))'
  <2>1. CASE waitq = <<>>
    BY <1>25, <2>1 DEF Notify
  <2>2. CASE waitq # <<>>
    <3>0. waitq' = Tail(waitq)
      BY <1>25, <2>2 DEF Notify
    <3>1. PICK h \in Tasks :
            /\ h = Head(waitq) /\ Distinct(waitq') /\ InQueue(waitq, h)
            /\ \A u : InQueue(waitq', u) <=> InQueue(waitq, u) /\ u # h
      BY <2>2, <3>0, TailFacts
    <3>2. CASE armed[h]
      <4>1. /\ armed' = [armed EXCEPT ![h] = FALSE]
            /\ wake' = [wake EXCEPT ![h] = "value"]
            /\ pc' = [pc EXCEPT ![t] = "clear"] /\ walk' = walk /\ pc[t] = "notify"
        BY <1>25, <2>2, <3>1, <3>2 DEF Notify
      <4>2. pc[h] \in {"enqueue", "checktok", "unlockc", "parked"} /\ walk[h] # "deliver"
        BY <3>1, <3>2
      <4>3. pc[h] = "parked"
        BY <3>1, <4>1, <4>2 DEF SpinInv, Spinning
      <4> QED
        BY <3>1, <4>1, <4>2, <4>3
    <3>3. CASE ~armed[h]
      <4>1. UNCHANGED <<armed, wake, pc, walk>>
        BY <1>25, <2>2, <3>1, <3>3 DEF Notify
      <4> QED
        BY <3>1, <3>3, <4>1
    <3> QED
      BY <3>2, <3>3
  <2> QED
    BY <2>1, <2>2
<1>26. ASSUME NEW t \in Tasks, ClearLocked(t) PROVE (WakeOnce /\ Distinct(waitq))'
  BY <1>26 DEF ClearLocked
<1>27. ASSUME NEW t \in Tasks, UnlockNotify(t) PROVE (WakeOnce /\ Distinct(waitq))'
  BY <1>27 DEF UnlockNotify
<1>28. ASSUME NEW t \in Tasks, CancelRaise(t) PROVE (WakeOnce /\ Distinct(waitq))'
  BY <1>28 DEF CancelRaise
<1>29. ASSUME NEW t \in Tasks, CancelWalk(t) PROVE (WakeOnce /\ Distinct(waitq))'
  BY <1>29 DEF CancelWalk
<1>30. ASSUME NEW t \in Tasks, CancelDeliver(t) PROVE (WakeOnce /\ Distinct(waitq))'
  BY <1>30, DeleteFacts DEF CancelDeliver
<1>31. CASE UNCHANGED vars \/ Quiescent
  BY <1>31 DEF Quiescent, vars
<1> QED
  BY <1>1, <1>2, <1>3, <1>4, <1>5, <1>6, <1>7, <1>8, <1>9, <1>10, <1>11,
     <1>12, <1>13, <1>14, <1>15, <1>16, <1>17, <1>18, <1>19, <1>20, <1>21,
     <1>22, <1>23, <1>24, <1>25, <1>26, <1>27, <1>28, <1>29, <1>30, <1>31
     DEF Next, Step, LockSteps, ParkSteps, UnlockSteps, Cancel
-----------------------------------------------------------------------------
\* Every step keeps a task on its way to a free lock that others wait for.
LEMMA SeekStep ==
  ASSUME TypeOK, MutualExclusion, SeenInv, SpinInv, ParkedBitSet,
         WakeOnce, Distinct(waitq), SeekInv, [Next]_vars
  PROVE  SeekInv'
<1> USE RLAssumption DEF Goto, parkVars, cancelVars, LOCKED, PARKED, Bits,
           SeekInv, Seeking, Linked
<1>0. /\ pc \in [Tasks -> Locations]
      /\ armed \in [Tasks -> BOOLEAN]
      /\ wake \in [Tasks -> {"none", "value", "exception"}]
      /\ waitq \in Seq(Tasks)
      /\ havelock \in SUBSET Bits
      /\ seen \in [Tasks -> SUBSET Bits]
      /\ spin \in Tasks \cup {NoTask}
  BY DEF TypeOK
<1> USE <1>0
<1>1. ASSUME NEW t \in Tasks, Lock(t) PROVE SeekInv'
  BY <1>1 DEF Lock
<1>2. ASSUME NEW t \in Tasks, TryLock(t) PROVE SeekInv'
  BY <1>2 DEF TryLock
<1>3. ASSUME NEW t \in Tasks, Reenter(t) PROVE SeekInv'
  BY <1>3 DEF Reenter
<1>4. ASSUME NEW t \in Tasks, CallUnlock(t) PROVE SeekInv'
  BY <1>4 DEF CallUnlock
<1>5. ASSUME NEW t \in Tasks, ReadState(t) PROVE SeekInv'
  BY <1>5 DEF ReadState
<1>6. ASSUME NEW t \in Tasks, CasLocked(t) PROVE SeekInv'
  BY <1>6 DEF CasLocked, SeenInv
<1>7. ASSUME NEW t \in Tasks, TakeOwnership(t) PROVE SeekInv'
  BY <1>7 DEF TakeOwnership
<1>8. ASSUME NEW t \in Tasks, SlowRead(t) PROVE SeekInv'
  BY <1>8 DEF SlowRead
<1>9. ASSUME NEW t \in Tasks, SlowCas(t) PROVE SeekInv'
  BY <1>9 DEF SlowCas, SeenInv, MutualExclusion, Owning
<1>10. ASSUME NEW t \in Tasks, SlowCheck(t) PROVE SeekInv'
  BY <1>10 DEF SlowCheck
<1>11. ASSUME NEW t \in Tasks, SetParked(t) PROVE SeekInv'
  BY <1>11 DEF SetParked
<1>12. ASSUME NEW t \in Tasks, LockCond(t) PROVE SeekInv'
  BY <1>12 DEF LockCond
<1>13. ASSUME NEW t \in Tasks, Recheck(t) PROVE SeekInv'
  BY <1>13 DEF Recheck, SpinInv, Spinning
<1>14. ASSUME NEW t \in Tasks, Arm(t) PROVE SeekInv'
  BY <1>14 DEF Arm, WakeOnce
<1>15. ASSUME NEW t \in Tasks, Enqueue(t) PROVE SeekInv'
  BY <1>15 DEF Enqueue, SpinInv, Spinning, ParkedBitSet
<1>16. ASSUME NEW t \in Tasks, RecheckToken(t) PROVE SeekInv'
  BY <1>16, DeleteFacts DEF RecheckToken
<1>17. ASSUME NEW t \in Tasks, UnlockCond(t) PROVE SeekInv'
  BY <1>17 DEF UnlockCond
<1>18. ASSUME NEW t \in Tasks, ResumeNotified(t) PROVE SeekInv'
  BY <1>18 DEF ResumeNotified
<1>19. ASSUME NEW t \in Tasks, ResumeCancelled(t) PROVE SeekInv'
  BY <1>19 DEF ResumeCancelled
<1>20. ASSUME NEW t \in Tasks, CleanupLock(t) PROVE SeekInv'
  BY <1>20 DEF CleanupLock
<1>21. ASSUME NEW t \in Tasks, CleanupUnlink(t) PROVE SeekInv'
  BY <1>21, DeleteFacts DEF CleanupUnlink
<1>22. ASSUME NEW t \in Tasks, Unlock(t) PROVE SeekInv'
  BY <1>22 DEF Unlock
<1>23. ASSUME NEW t \in Tasks, Release(t) PROVE SeekInv'
  BY <1>23, EmptyFacts DEF Release, ParkedBitSet
<1>24. ASSUME NEW t \in Tasks, LockNotify(t) PROVE SeekInv'
  BY <1>24 DEF LockNotify
<1>25. ASSUME NEW t \in Tasks, Notify(t) PROVE SeekInv'
  <2>1. CASE waitq = <<>>
    BY <1>25, <2>1, EmptyFacts DEF Notify
  <2>2. CASE waitq # <<>>
    <3>0. waitq' = Tail(waitq)
      BY <1>25, <2>2 DEF Notify
    <3>1. PICK h \in Tasks :
            /\ h = Head(waitq) /\ InQueue(waitq, h)
            /\ \A u : InQueue(waitq', u) => InQueue(waitq, u)
      BY <2>2, <3>0, TailFacts
    <3>2. CASE armed[h]
      <4>1. /\ wake' = [wake EXCEPT ![h] = "value"]
            /\ pc' = [pc EXCEPT ![t] = "clear"] /\ pc[t] = "notify"
        BY <1>25, <2>2, <3>1, <3>2 DEF Notify
      <4>2. pc[h] \in {"enqueue", "checktok", "unlockc", "parked"}
        BY <3>1, <3>2 DEF WakeOnce
      <4>3. pc[h] = "parked"
        BY <3>1, <4>1, <4>2 DEF SpinInv, Spinning
      <4>4. Seeking(h)'
        BY <3>1, <4>1, <4>3
      <4> QED
        BY <3>1, <4>4
    <3>3. CASE ~armed[h]
      <4>1. UNCHANGED <<armed, wake, pc, havelock>>
        BY <1>25, <2>2, <3>1, <3>3 DEF Notify
      <4> QED
        BY <3>1, <4>1
    <3> QED
      BY <3>2, <3>3
  <2> QED
    BY <2>1, <2>2
<1>26. ASSUME NEW t \in Tasks, ClearLocked(t) PROVE SeekInv'
  BY <1>26 DEF ClearLocked
<1>27. ASSUME NEW t \in Tasks, UnlockNotify(t) PROVE SeekInv'
  BY <1>27 DEF UnlockNotify
<1>28. ASSUME NEW t \in Tasks, CancelRaise(t) PROVE SeekInv'
  BY <1>28 DEF CancelRaise
<1>29. ASSUME NEW t \in Tasks, CancelWalk(t) PROVE SeekInv'
  BY <1>29 DEF CancelWalk
<1>30. ASSUME NEW t \in Tasks, CancelDeliver(t) PROVE SeekInv'
  BY <1>30, DeleteFacts DEF CancelDeliver, WakeOnce
<1>31. CASE UNCHANGED vars \/ Quiescent
  BY <1>31 DEF Quiescent, vars
<1> QED
  BY <1>1, <1>2, <1>3, <1>4, <1>5, <1>6, <1>7, <1>8, <1>9, <1>10, <1>11,
     <1>12, <1>13, <1>14, <1>15, <1>16, <1>17, <1>18, <1>19, <1>20, <1>21,
     <1>22, <1>23, <1>24, <1>25, <1>26, <1>27, <1>28, <1>29, <1>30, <1>31
     DEF Next, Step, LockSteps, ParkSteps, UnlockSteps, Cancel
-----------------------------------------------------------------------------
\* Every step keeps the promise of cancel! to parked tasks.
LEMMA CancelStep ==
  ASSUME TypeOK, WakeOnce, CancelInv, CancelReachesParked, [Next]_vars
  PROVE  (CancelInv /\ CancelReachesParked)'
<1> USE RLAssumption DEF Goto, parkVars, cancelVars,
           CancelInv, CancelReachesParked
<1>0. /\ pc \in [Tasks -> Locations]
      /\ armed \in [Tasks -> BOOLEAN]
      /\ walk \in [Tasks -> {"raise", "walk", "deliver", "done"}]
      /\ cancelled \in [Tasks -> BOOLEAN]
  BY DEF TypeOK
<1> USE <1>0
<1>1. ASSUME NEW t \in Tasks, Lock(t) PROVE (CancelInv /\ CancelReachesParked)'
  BY <1>1 DEF Lock
<1>2. ASSUME NEW t \in Tasks, TryLock(t) PROVE (CancelInv /\ CancelReachesParked)'
  BY <1>2 DEF TryLock
<1>3. ASSUME NEW t \in Tasks, Reenter(t) PROVE (CancelInv /\ CancelReachesParked)'
  BY <1>3 DEF Reenter
<1>4. ASSUME NEW t \in Tasks, CallUnlock(t) PROVE (CancelInv /\ CancelReachesParked)'
  BY <1>4 DEF CallUnlock
<1>5. ASSUME NEW t \in Tasks, ReadState(t) PROVE (CancelInv /\ CancelReachesParked)'
  BY <1>5 DEF ReadState
<1>6. ASSUME NEW t \in Tasks, CasLocked(t) PROVE (CancelInv /\ CancelReachesParked)'
  BY <1>6 DEF CasLocked
<1>7. ASSUME NEW t \in Tasks, TakeOwnership(t) PROVE (CancelInv /\ CancelReachesParked)'
  BY <1>7 DEF TakeOwnership
<1>8. ASSUME NEW t \in Tasks, SlowRead(t) PROVE (CancelInv /\ CancelReachesParked)'
  BY <1>8 DEF SlowRead
<1>9. ASSUME NEW t \in Tasks, SlowCas(t) PROVE (CancelInv /\ CancelReachesParked)'
  BY <1>9 DEF SlowCas
<1>10. ASSUME NEW t \in Tasks, SlowCheck(t) PROVE (CancelInv /\ CancelReachesParked)'
  BY <1>10 DEF SlowCheck
<1>11. ASSUME NEW t \in Tasks, SetParked(t) PROVE (CancelInv /\ CancelReachesParked)'
  BY <1>11 DEF SetParked
<1>12. ASSUME NEW t \in Tasks, LockCond(t) PROVE (CancelInv /\ CancelReachesParked)'
  BY <1>12 DEF LockCond
<1>13. ASSUME NEW t \in Tasks, Recheck(t) PROVE (CancelInv /\ CancelReachesParked)'
  BY <1>13 DEF Recheck
<1>14. ASSUME NEW t \in Tasks, Arm(t) PROVE (CancelInv /\ CancelReachesParked)'
  BY <1>14 DEF Arm
<1>15. ASSUME NEW t \in Tasks, Enqueue(t) PROVE (CancelInv /\ CancelReachesParked)'
  BY <1>15 DEF Enqueue
<1>16. ASSUME NEW t \in Tasks, RecheckToken(t) PROVE (CancelInv /\ CancelReachesParked)'
  BY <1>16 DEF RecheckToken
<1>17. ASSUME NEW t \in Tasks, UnlockCond(t) PROVE (CancelInv /\ CancelReachesParked)'
  BY <1>17 DEF UnlockCond
<1>18. ASSUME NEW t \in Tasks, ResumeNotified(t) PROVE (CancelInv /\ CancelReachesParked)'
  BY <1>18 DEF ResumeNotified
<1>19. ASSUME NEW t \in Tasks, ResumeCancelled(t) PROVE (CancelInv /\ CancelReachesParked)'
  BY <1>19 DEF ResumeCancelled
<1>20. ASSUME NEW t \in Tasks, CleanupLock(t) PROVE (CancelInv /\ CancelReachesParked)'
  BY <1>20 DEF CleanupLock
<1>21. ASSUME NEW t \in Tasks, CleanupUnlink(t) PROVE (CancelInv /\ CancelReachesParked)'
  BY <1>21 DEF CleanupUnlink
<1>22. ASSUME NEW t \in Tasks, Unlock(t) PROVE (CancelInv /\ CancelReachesParked)'
  BY <1>22 DEF Unlock
<1>23. ASSUME NEW t \in Tasks, Release(t) PROVE (CancelInv /\ CancelReachesParked)'
  BY <1>23 DEF Release
<1>24. ASSUME NEW t \in Tasks, LockNotify(t) PROVE (CancelInv /\ CancelReachesParked)'
  BY <1>24 DEF LockNotify
<1>25. ASSUME NEW t \in Tasks, Notify(t) PROVE (CancelInv /\ CancelReachesParked)'
  BY <1>25 DEF Notify
<1>26. ASSUME NEW t \in Tasks, ClearLocked(t) PROVE (CancelInv /\ CancelReachesParked)'
  BY <1>26 DEF ClearLocked
<1>27. ASSUME NEW t \in Tasks, UnlockNotify(t) PROVE (CancelInv /\ CancelReachesParked)'
  BY <1>27 DEF UnlockNotify
<1>28. ASSUME NEW t \in Tasks, CancelRaise(t) PROVE (CancelInv /\ CancelReachesParked)'
  BY <1>28 DEF CancelRaise
<1>29. ASSUME NEW t \in Tasks, CancelWalk(t) PROVE (CancelInv /\ CancelReachesParked)'
  BY <1>29 DEF CancelWalk
<1>30. ASSUME NEW t \in Tasks, CancelDeliver(t) PROVE (CancelInv /\ CancelReachesParked)'
  BY <1>30 DEF CancelDeliver, WakeOnce
<1>31. CASE UNCHANGED vars \/ Quiescent
  BY <1>31 DEF Quiescent, vars
<1> QED
  BY <1>1, <1>2, <1>3, <1>4, <1>5, <1>6, <1>7, <1>8, <1>9, <1>10, <1>11,
     <1>12, <1>13, <1>14, <1>15, <1>16, <1>17, <1>18, <1>19, <1>20, <1>21,
     <1>22, <1>23, <1>24, <1>25, <1>26, <1>27, <1>28, <1>29, <1>30, <1>31
     DEF Next, Step, LockSteps, ParkSteps, UnlockSteps, Cancel
-----------------------------------------------------------------------------
\* Every step keeps the promise of a throw: the lock is given up first.
LEMMA ThrowStep ==
  ASSUME TypeOK, MutualExclusion, ThrowInv, [Next]_vars
  PROVE  ThrowInv'
<1> USE RLAssumption DEF Goto, parkVars, cancelVars, ThrowInv, Throwing
<1>0. /\ pc \in [Tasks -> Locations]
      /\ throws \in [Tasks -> BOOLEAN]
      /\ cancelled \in [Tasks -> BOOLEAN]
      /\ cnt \in 0..MaxDepth
  BY DEF TypeOK
<1> USE <1>0
<1>1. ASSUME NEW t \in Tasks, Lock(t) PROVE ThrowInv'
  BY <1>1 DEF Lock
<1>2. ASSUME NEW t \in Tasks, TryLock(t) PROVE ThrowInv'
  BY <1>2 DEF TryLock
<1>3. ASSUME NEW t \in Tasks, Reenter(t) PROVE ThrowInv'
  BY <1>3 DEF Reenter, MutualExclusion, Owning
<1>4. ASSUME NEW t \in Tasks, CallUnlock(t) PROVE ThrowInv'
  BY <1>4 DEF CallUnlock
<1>5. ASSUME NEW t \in Tasks, ReadState(t) PROVE ThrowInv'
  BY <1>5 DEF ReadState
<1>6. ASSUME NEW t \in Tasks, CasLocked(t) PROVE ThrowInv'
  BY <1>6 DEF CasLocked
<1>7. ASSUME NEW t \in Tasks, TakeOwnership(t) PROVE ThrowInv'
  BY <1>7 DEF TakeOwnership, MutualExclusion, Owning
<1>8. ASSUME NEW t \in Tasks, SlowRead(t) PROVE ThrowInv'
  BY <1>8 DEF SlowRead
<1>9. ASSUME NEW t \in Tasks, SlowCas(t) PROVE ThrowInv'
  BY <1>9 DEF SlowCas
<1>10. ASSUME NEW t \in Tasks, SlowCheck(t) PROVE ThrowInv'
  BY <1>10 DEF SlowCheck
<1>11. ASSUME NEW t \in Tasks, SetParked(t) PROVE ThrowInv'
  BY <1>11 DEF SetParked
<1>12. ASSUME NEW t \in Tasks, LockCond(t) PROVE ThrowInv'
  BY <1>12 DEF LockCond
<1>13. ASSUME NEW t \in Tasks, Recheck(t) PROVE ThrowInv'
  BY <1>13 DEF Recheck
<1>14. ASSUME NEW t \in Tasks, Arm(t) PROVE ThrowInv'
  BY <1>14 DEF Arm
<1>15. ASSUME NEW t \in Tasks, Enqueue(t) PROVE ThrowInv'
  BY <1>15 DEF Enqueue
<1>16. ASSUME NEW t \in Tasks, RecheckToken(t) PROVE ThrowInv'
  BY <1>16 DEF RecheckToken
<1>17. ASSUME NEW t \in Tasks, UnlockCond(t) PROVE ThrowInv'
  BY <1>17 DEF UnlockCond
<1>18. ASSUME NEW t \in Tasks, ResumeNotified(t) PROVE ThrowInv'
  BY <1>18 DEF ResumeNotified
<1>19. ASSUME NEW t \in Tasks, ResumeCancelled(t) PROVE ThrowInv'
  BY <1>19 DEF ResumeCancelled
<1>20. ASSUME NEW t \in Tasks, CleanupLock(t) PROVE ThrowInv'
  BY <1>20 DEF CleanupLock
<1>21. ASSUME NEW t \in Tasks, CleanupUnlink(t) PROVE ThrowInv'
  BY <1>21 DEF CleanupUnlink
<1>22. ASSUME NEW t \in Tasks, Unlock(t) PROVE ThrowInv'
  BY <1>22 DEF Unlock, MutualExclusion, Owning
<1>23. ASSUME NEW t \in Tasks, Release(t) PROVE ThrowInv'
  BY <1>23 DEF Release
<1>24. ASSUME NEW t \in Tasks, LockNotify(t) PROVE ThrowInv'
  BY <1>24 DEF LockNotify
<1>25. ASSUME NEW t \in Tasks, Notify(t) PROVE ThrowInv'
  BY <1>25 DEF Notify
<1>26. ASSUME NEW t \in Tasks, ClearLocked(t) PROVE ThrowInv'
  BY <1>26 DEF ClearLocked
<1>27. ASSUME NEW t \in Tasks, UnlockNotify(t) PROVE ThrowInv'
  BY <1>27 DEF UnlockNotify
<1>28. ASSUME NEW t \in Tasks, CancelRaise(t) PROVE ThrowInv'
  BY <1>28 DEF CancelRaise
<1>29. ASSUME NEW t \in Tasks, CancelWalk(t) PROVE ThrowInv'
  BY <1>29 DEF CancelWalk
<1>30. ASSUME NEW t \in Tasks, CancelDeliver(t) PROVE ThrowInv'
  BY <1>30 DEF CancelDeliver
<1>31. CASE UNCHANGED vars \/ Quiescent
  BY <1>31 DEF Quiescent, vars
<1> QED
  BY <1>1, <1>2, <1>3, <1>4, <1>5, <1>6, <1>7, <1>8, <1>9, <1>10, <1>11,
     <1>12, <1>13, <1>14, <1>15, <1>16, <1>17, <1>18, <1>19, <1>20, <1>21,
     <1>22, <1>23, <1>24, <1>25, <1>26, <1>27, <1>28, <1>29, <1>30, <1>31
     DEF Next, Step, LockSteps, ParkSteps, UnlockSteps, Cancel
-----------------------------------------------------------------------------
(* The theorems *)

LEMMA InitIInv == Init => IInv
<1> SUFFICES ASSUME Init PROVE IInv
  OBVIOUS
<1> USE RLAssumption DEF Init
<1>1. TypeOK
  BY DEF TypeOK, Locations, Bits
<1>2. MutualExclusion /\ OwnInv /\ SeenInv /\ SpinInv
  BY DEF MutualExclusion, OwnInv, SeenInv, SpinInv, Owning, Spinning
<1>3. ParkedBitSet
  BY DEF ParkedBitSet
<1>4. WakeOnce /\ Distinct(waitq) /\ SeekInv
  BY EmptyFacts DEF WakeOnce, SeekInv, Linked
<1>5. CancelInv /\ CancelReachesParked
  BY DEF CancelInv, CancelReachesParked
<1>6. ThrowInv
  BY DEF ThrowInv
<1> QED
  BY <1>1, <1>2, <1>3, <1>4, <1>5, <1>6 DEF IInv

\* IInv is inductive.
THEOREM IInvInvariant == Spec => []IInv
<1>1. IInv /\ [Next]_vars => IInv'
  BY TypeStep, ExclusionStep, SpinStep, ParkedStep, WakeStep, SeekStep, CancelStep,
     ThrowStep
  DEF IInv
<1> QED
  BY InitIInv, <1>1, PTL DEF Spec

\* The variables of the lock keep the types that lock.jl declares.
THEOREM TypeCorrect == Spec => []TypeOK
<1>1. IInv => TypeOK
  BY DEF IInv
<1> QED
  BY <1>1, IInvInvariant, PTL

\* lock/trylock/unlock give mutual exclusion, and LOCKED_BIT tells the truth.
THEOREM LockIsExclusive == Spec => []MutualExclusion
<1>1. IInv => MutualExclusion
  BY DEF IInv
<1> QED
  BY <1>1, IInvInvariant, PTL

\* The claim of ReentrantLock's state table about PARKED_BIT.
THEOREM ParkedBitCorrect == Spec => []ParkedBitSet
<1>1. IInv => ParkedBitSet
  BY DEF IInv
<1> QED
  BY <1>1, IInvInvariant, PTL

\* A park is woken once, and nothing of it outlives it.
THEOREM WakeOnceCorrect == Spec => []WakeOnce
<1>1. IInv => WakeOnce
  BY DEF IInv
<1> QED
  BY <1>1, IInvInvariant, PTL

\* No unlock loses the wakeup of a parked task.
THEOREM NoWakeupIsLost == Spec => []NoLostWakeup
<1>1. IInv => NoLostWakeup
  BY DEF IInv, SeekInv, NoLostWakeup, WakeOnce
<1> QED
  BY <1>1, IInvInvariant, PTL

\* cancel! leaves no task parked and unclaimed under the token it cancelled.
THEOREM CancelIsComplete == Spec => []CancelReachesParked
<1>1. IInv => CancelReachesParked
  BY DEF IInv
<1> QED
  BY <1>1, IInvInvariant, PTL
-----------------------------------------------------------------------------
(* The refinement of Mutex *)

\* What the callers see of the steps of one task.
PhaseAt(l, b) ==
  CASE l = "idle" -> "out"
    [] l \in {"held", "unlock", "release", "lockn", "notify", "clear"} /\ ~b -> "in"
    [] l = "unlockn" /\ ~b -> "out"
    [] OTHER -> "waiting"

HolderIn(p) ==
  IF \E t \in Tasks : p[t] \in Owning
  THEN CHOOSE t \in Tasks : p[t] \in Owning ELSE NoTask

Exclusive(p) == \A t, u \in Tasks : p[t] \in Owning /\ p[u] \in Owning => t = u

\* The holder is the one task that has LOCKED_BIT.
LEMMA HolderFacts ==
  ASSUME NEW p, Exclusive(p)
  PROVE  /\ \A t \in Tasks : HolderIn(p) = t <=> p[t] \in Owning
         /\ HolderIn(p) = NoTask <=> \A t \in Tasks : p[t] \notin Owning
<1>1. CASE \E t \in Tasks : p[t] \in Owning
  <2>1. HolderIn(p) \in Tasks /\ p[HolderIn(p)] \in Owning
    BY <1>1 DEF HolderIn
  <2> QED
    BY <1>1, <2>1, RLAssumption DEF Exclusive
<1>2. CASE ~\E t \in Tasks : p[t] \in Owning
  BY <1>2, RLAssumption DEF HolderIn
<1> QED
  BY <1>1, <1>2

\* A step that moves one task changes what the callers see of that task only,
\* and the holder only if the task gains or gives up LOCKED_BIT.
LEMMA MovedFacts ==
  ASSUME MutualExclusion, MutualExclusion', NEW t \in Tasks,
         \A u \in Tasks : u # t => pc'[u] = pc[u] /\ throws'[u] = throws[u]
  PROVE  /\ phaseOf \in [Tasks -> {"out", "waiting", "in"}]
         /\ phaseOf[t] = PhaseAt(pc[t], throws[t])
         /\ phaseOf' = [phaseOf EXCEPT ![t] = PhaseAt(pc'[t], throws'[t])]
         /\ (pc[t] \in Owning <=> pc'[t] \in Owning) => holderOf' = holderOf
         /\ holderOf = t <=> pc[t] \in Owning
         /\ holderOf' = t <=> pc'[t] \in Owning
         /\ holderOf = NoTask <=> LOCKED \notin havelock
         /\ holderOf' = NoTask <=> LOCKED \notin havelock'
<1>1. /\ phaseOf = [u \in Tasks |-> PhaseAt(pc[u], throws[u])]
      /\ phaseOf' = [u \in Tasks |-> PhaseAt(pc'[u], throws'[u])]
  BY DEF phaseOf, PhaseAt
<1>2. \A l, b : PhaseAt(l, b) \in {"out", "waiting", "in"}
  BY DEF PhaseAt
<1>3. holderOf = HolderIn(pc) /\ holderOf' = HolderIn(pc')
  BY DEF holderOf, HolderIn
<1>4. Exclusive(pc) /\ Exclusive(pc')
  BY DEF MutualExclusion, Exclusive
<1>5. /\ LOCKED \in havelock <=> \E u \in Tasks : pc[u] \in Owning
      /\ LOCKED \in havelock' <=> \E u \in Tasks : pc'[u] \in Owning
  BY DEF MutualExclusion
<1>6. /\ \A u \in Tasks : HolderIn(pc) = u <=> pc[u] \in Owning
      /\ HolderIn(pc) = NoTask <=> \A u \in Tasks : pc[u] \notin Owning
  BY <1>4, HolderFacts
<1>7. /\ \A u \in Tasks : HolderIn(pc') = u <=> pc'[u] \in Owning
      /\ HolderIn(pc') = NoTask <=> \A u \in Tasks : pc'[u] \notin Owning
  BY <1>4, HolderFacts
<1>8. ASSUME pc[t] \in Owning <=> pc'[t] \in Owning
      PROVE  HolderIn(pc') = HolderIn(pc)
  BY <1>6, <1>7, <1>8
<1>9. /\ phaseOf \in [Tasks -> {"out", "waiting", "in"}]
      /\ phaseOf[t] = PhaseAt(pc[t], throws[t])
  BY <1>1, <1>2
<1>10. phaseOf' = [phaseOf EXCEPT ![t] = PhaseAt(pc'[t], throws'[t])]
  BY <1>1
<1> HIDE DEF PhaseAt
<1> QED
  BY <1>3, <1>5, <1>6, <1>7, <1>8, <1>9, <1>10

\* Every step of lock.jl is a step of Mutex, or one that its callers do not see.
LEMMA MutexStep ==
  ASSUME IInv, IInv', [Next]_vars
  PROVE  [AbstractMutex!Next]_(AbstractMutex!vars)
<1> USE RLAssumption DEF Goto, parkVars, cancelVars
<1>0. /\ pc \in [Tasks -> Locations] /\ throws \in [Tasks -> BOOLEAN]
      /\ cancelled \in [Tasks -> BOOLEAN]
      /\ MutualExclusion /\ MutualExclusion' /\ SeenInv /\ ThrowInv
  BY DEF IInv, TypeOK
<1> USE <1>0
<1> DEFINE Simulated == [AbstractMutex!Next]_(AbstractMutex!vars)
<1>1. ASSUME NEW t \in Tasks, Lock(t) PROVE Simulated
  <2>1. \A u \in Tasks : u # t => pc'[u] = pc[u] /\ throws'[u] = throws[u]
    BY <1>1 DEF Lock
  <2> HIDE DEF Simulated
  <2>2. CASE pc'[t] = "idle"
    <3>1. PhaseAt(pc'[t], throws'[t]) = PhaseAt(pc[t], throws[t])
          /\ (pc[t] \in Owning <=> pc'[t] \in Owning) /\ cancelled' = cancelled
      BY <1>1, <2>2 DEF Lock, PhaseAt, Owning
    <3> QED
      BY <2>1, <3>1, MovedFacts DEF Simulated, AbstractMutex!vars
  <2>3. CASE pc'[t] = "try"
    <3>1. /\ PhaseAt(pc[t], throws[t]) = "out" /\ PhaseAt(pc'[t], throws'[t]) = "waiting"
          /\ pc[t] \in Owning <=> pc'[t] \in Owning
          /\ cancelled' = cancelled
      BY <1>1, <2>3 DEF Lock, PhaseAt, Owning
    <3>2. AbstractMutex!Request(t)
      BY <2>1, <3>1, MovedFacts DEF AbstractMutex!Request
    <3> QED
      BY <3>2 DEF Simulated, AbstractMutex!Next
  <2> QED
    BY <1>1, <2>2, <2>3 DEF Lock
<1>2. ASSUME NEW t \in Tasks, TryLock(t) PROVE Simulated
  <2>1. \A u \in Tasks : u # t => pc'[u] = pc[u] /\ throws'[u] = throws[u]
    BY <1>2 DEF TryLock
  <2> HIDE DEF Simulated
  <2>2. /\ PhaseAt(pc[t], throws[t]) = "out" /\ PhaseAt(pc'[t], throws'[t]) = "waiting"
        /\ pc[t] \notin Owning /\ pc'[t] \notin Owning
        /\ cancelled' = cancelled
    BY <1>2 DEF TryLock, PhaseAt, Owning
  <2>3. AbstractMutex!Request(t)
    BY <2>1, <2>2, MovedFacts DEF AbstractMutex!Request
  <2> QED
    BY <2>3 DEF Simulated, AbstractMutex!Next
<1>3. ASSUME NEW t \in Tasks, Reenter(t) PROVE Simulated
  <2>1. \A u \in Tasks : u # t => pc'[u] = pc[u] /\ throws'[u] = throws[u]
    BY <1>3 DEF Reenter
  <2> HIDE DEF Simulated
  <2>2. /\ PhaseAt(pc'[t], throws'[t]) = PhaseAt(pc[t], throws[t])
        /\ pc[t] \in Owning <=> pc'[t] \in Owning
        /\ cancelled' = cancelled
    BY <1>3 DEF Reenter, PhaseAt, Owning, ThrowInv, Throwing
  <2>3. holderOf' = holderOf /\ phaseOf' = phaseOf
    BY <2>1, <2>2, MovedFacts
  <2> QED
    BY <2>2, <2>3 DEF Simulated, AbstractMutex!vars
<1>4. ASSUME NEW t \in Tasks, CallUnlock(t) PROVE Simulated
  <2>1. \A u \in Tasks : u # t => pc'[u] = pc[u] /\ throws'[u] = throws[u]
    BY <1>4 DEF CallUnlock
  <2> HIDE DEF Simulated
  <2>2. /\ PhaseAt(pc'[t], throws'[t]) = PhaseAt(pc[t], throws[t])
        /\ pc[t] \in Owning <=> pc'[t] \in Owning
        /\ cancelled' = cancelled
    BY <1>4 DEF CallUnlock, PhaseAt, Owning, ThrowInv, Throwing
  <2>3. holderOf' = holderOf /\ phaseOf' = phaseOf
    BY <2>1, <2>2, MovedFacts
  <2> QED
    BY <2>2, <2>3 DEF Simulated, AbstractMutex!vars
<1>5. ASSUME NEW t \in Tasks, ReadState(t) PROVE Simulated
  <2>1. \A u \in Tasks : u # t => pc'[u] = pc[u] /\ throws'[u] = throws[u]
    BY <1>5 DEF ReadState
  <2> HIDE DEF Simulated
  <2>2. /\ PhaseAt(pc'[t], throws'[t]) = PhaseAt(pc[t], throws[t])
        /\ pc[t] \in Owning <=> pc'[t] \in Owning
        /\ cancelled' = cancelled
    BY <1>5 DEF ReadState, PhaseAt, Owning, ThrowInv, Throwing
  <2>3. holderOf' = holderOf /\ phaseOf' = phaseOf
    BY <2>1, <2>2, MovedFacts
  <2> QED
    BY <2>2, <2>3 DEF Simulated, AbstractMutex!vars
<1>6. ASSUME NEW t \in Tasks, CasLocked(t) PROVE Simulated
  <2>1. \A u \in Tasks : u # t => pc'[u] = pc[u] /\ throws'[u] = throws[u]
    BY <1>6 DEF CasLocked
  <2> HIDE DEF Simulated
  <2>2. CASE havelock = seen[t]
    <3>1. /\ PhaseAt(pc[t], throws[t]) = "waiting" /\ PhaseAt(pc'[t], throws'[t]) = "waiting"
          /\ LOCKED \notin havelock /\ pc'[t] \in Owning
          /\ cancelled' = cancelled
      BY <1>6, <2>2 DEF CasLocked, PhaseAt, Owning, ThrowInv, Throwing, SeenInv
    <3>2. AbstractMutex!Acquire(t)
      BY <2>1, <3>1, MovedFacts DEF AbstractMutex!Acquire
    <3> QED
      BY <3>2 DEF Simulated, AbstractMutex!Next
  <2>3. CASE havelock # seen[t] /\ pc[t] = "cas"
    <3>1. /\ PhaseAt(pc'[t], throws'[t]) = PhaseAt(pc[t], throws[t])
          /\ pc[t] \in Owning <=> pc'[t] \in Owning
          /\ cancelled' = cancelled
      BY <1>6, <2>3 DEF CasLocked, PhaseAt, Owning, ThrowInv, Throwing
    <3>2. holderOf' = holderOf /\ phaseOf' = phaseOf
      BY <2>1, <3>1, MovedFacts
    <3> QED
      BY <3>1, <3>2 DEF Simulated, AbstractMutex!vars
  <2>4. CASE havelock # seen[t] /\ pc[t] = "trylock"
    <3>1. /\ PhaseAt(pc[t], throws[t]) = "waiting" /\ PhaseAt(pc'[t], throws'[t]) = "out"
          /\ pc[t] \notin Owning /\ pc'[t] \notin Owning
          /\ cancelled' = cancelled
      BY <1>6, <2>4 DEF CasLocked, PhaseAt, Owning, ThrowInv, Throwing
    <3>2. AbstractMutex!Fail(t)
      BY <2>1, <3>1, MovedFacts DEF AbstractMutex!Fail
    <3> QED
      BY <3>2 DEF Simulated, AbstractMutex!Next
  <2> QED
    BY <1>6, <2>2, <2>3, <2>4 DEF CasLocked, LOCKED
<1>7. ASSUME NEW t \in Tasks, TakeOwnership(t) PROVE Simulated
  <2>1. \A u \in Tasks : u # t => pc'[u] = pc[u] /\ throws'[u] = throws[u]
    BY <1>7 DEF TakeOwnership
  <2> HIDE DEF Simulated
  <2>2. CASE pc[t] = "own"
    <3>1. /\ PhaseAt(pc[t], throws[t]) = "waiting" /\ PhaseAt(pc'[t], throws'[t]) = "in"
          /\ pc[t] \in Owning /\ pc'[t] \in Owning
          /\ cancelled' = cancelled
      BY <1>7, <2>2 DEF TakeOwnership, PhaseAt, Owning, ThrowInv, Throwing
    <3>2. AbstractMutex!Return(t)
      BY <2>1, <3>1, MovedFacts DEF AbstractMutex!Return
    <3> QED
      BY <3>2 DEF Simulated, AbstractMutex!Next
  <2>3. CASE pc[t] = "slowown"
    <3>1. /\ PhaseAt(pc'[t], throws'[t]) = PhaseAt(pc[t], throws[t])
          /\ pc[t] \in Owning <=> pc'[t] \in Owning
          /\ cancelled' = cancelled
      BY <1>7, <2>3 DEF TakeOwnership, PhaseAt, Owning, ThrowInv, Throwing
    <3>2. holderOf' = holderOf /\ phaseOf' = phaseOf
      BY <2>1, <3>1, MovedFacts
    <3> QED
      BY <3>1, <3>2 DEF Simulated, AbstractMutex!vars
  <2> QED
    BY <1>7, <2>2, <2>3 DEF TakeOwnership, LOCKED
<1>8. ASSUME NEW t \in Tasks, SlowRead(t) PROVE Simulated
  <2>1. \A u \in Tasks : u # t => pc'[u] = pc[u] /\ throws'[u] = throws[u]
    BY <1>8 DEF SlowRead
  <2> HIDE DEF Simulated
  <2>2. /\ PhaseAt(pc'[t], throws'[t]) = PhaseAt(pc[t], throws[t])
        /\ pc[t] \in Owning <=> pc'[t] \in Owning
        /\ cancelled' = cancelled
    BY <1>8 DEF SlowRead, PhaseAt, Owning, ThrowInv, Throwing
  <2>3. holderOf' = holderOf /\ phaseOf' = phaseOf
    BY <2>1, <2>2, MovedFacts
  <2> QED
    BY <2>2, <2>3 DEF Simulated, AbstractMutex!vars
<1>9. ASSUME NEW t \in Tasks, SlowCas(t) PROVE Simulated
  <2>1. \A u \in Tasks : u # t => pc'[u] = pc[u] /\ throws'[u] = throws[u]
    BY <1>9 DEF SlowCas
  <2> HIDE DEF Simulated
  <2>2. CASE havelock = seen[t]
    <3>1. /\ PhaseAt(pc[t], throws[t]) = "waiting" /\ PhaseAt(pc'[t], throws'[t]) = "waiting"
          /\ LOCKED \notin havelock /\ pc'[t] \in Owning
          /\ cancelled' = cancelled
      BY <1>9, <2>2 DEF SlowCas, PhaseAt, Owning, ThrowInv, Throwing, SeenInv
    <3>2. AbstractMutex!Acquire(t)
      BY <2>1, <3>1, MovedFacts DEF AbstractMutex!Acquire
    <3> QED
      BY <3>2 DEF Simulated, AbstractMutex!Next
  <2>3. CASE havelock # seen[t]
    <3>1. /\ PhaseAt(pc'[t], throws'[t]) = PhaseAt(pc[t], throws[t])
          /\ pc[t] \in Owning <=> pc'[t] \in Owning
          /\ cancelled' = cancelled
      BY <1>9, <2>3 DEF SlowCas, PhaseAt, Owning, ThrowInv, Throwing
    <3>2. holderOf' = holderOf /\ phaseOf' = phaseOf
      BY <2>1, <3>1, MovedFacts
    <3> QED
      BY <3>1, <3>2 DEF Simulated, AbstractMutex!vars
  <2> QED
    BY <1>9, <2>2, <2>3 DEF SlowCas, LOCKED
<1>10. ASSUME NEW t \in Tasks, SlowCheck(t) PROVE Simulated
  <2>1. \A u \in Tasks : u # t => pc'[u] = pc[u] /\ throws'[u] = throws[u]
    BY <1>10 DEF SlowCheck
  <2> HIDE DEF Simulated
  <2>2. CASE cancelled[t]
    <3>1. /\ PhaseAt(pc'[t], throws'[t]) = PhaseAt(pc[t], throws[t])
          /\ pc[t] \in Owning <=> pc'[t] \in Owning
          /\ cancelled' = cancelled
      BY <1>10, <2>2 DEF SlowCheck, PhaseAt, Owning, ThrowInv, Throwing
    <3>2. holderOf' = holderOf /\ phaseOf' = phaseOf
      BY <2>1, <3>1, MovedFacts
    <3> QED
      BY <3>1, <3>2 DEF Simulated, AbstractMutex!vars
  <2>3. CASE ~cancelled[t]
    <3>1. /\ PhaseAt(pc[t], throws[t]) = "waiting" /\ PhaseAt(pc'[t], throws'[t]) = "in"
          /\ pc[t] \in Owning /\ pc'[t] \in Owning
          /\ cancelled' = cancelled
      BY <1>10, <2>3 DEF SlowCheck, PhaseAt, Owning, ThrowInv, Throwing
    <3>2. AbstractMutex!Return(t)
      BY <2>1, <3>1, MovedFacts DEF AbstractMutex!Return
    <3> QED
      BY <3>2 DEF Simulated, AbstractMutex!Next
  <2> QED
    BY <1>10, <2>2, <2>3 DEF SlowCheck, LOCKED
<1>11. ASSUME NEW t \in Tasks, SetParked(t) PROVE Simulated
  <2>1. \A u \in Tasks : u # t => pc'[u] = pc[u] /\ throws'[u] = throws[u]
    BY <1>11 DEF SetParked
  <2> HIDE DEF Simulated
  <2>2. /\ PhaseAt(pc'[t], throws'[t]) = PhaseAt(pc[t], throws[t])
        /\ pc[t] \in Owning <=> pc'[t] \in Owning
        /\ cancelled' = cancelled
    BY <1>11 DEF SetParked, PhaseAt, Owning, ThrowInv, Throwing
  <2>3. holderOf' = holderOf /\ phaseOf' = phaseOf
    BY <2>1, <2>2, MovedFacts
  <2> QED
    BY <2>2, <2>3 DEF Simulated, AbstractMutex!vars
<1>12. ASSUME NEW t \in Tasks, LockCond(t) PROVE Simulated
  <2>1. \A u \in Tasks : u # t => pc'[u] = pc[u] /\ throws'[u] = throws[u]
    BY <1>12 DEF LockCond
  <2> HIDE DEF Simulated
  <2>2. /\ PhaseAt(pc'[t], throws'[t]) = PhaseAt(pc[t], throws[t])
        /\ pc[t] \in Owning <=> pc'[t] \in Owning
        /\ cancelled' = cancelled
    BY <1>12 DEF LockCond, PhaseAt, Owning, ThrowInv, Throwing
  <2>3. holderOf' = holderOf /\ phaseOf' = phaseOf
    BY <2>1, <2>2, MovedFacts
  <2> QED
    BY <2>2, <2>3 DEF Simulated, AbstractMutex!vars
<1>13. ASSUME NEW t \in Tasks, Recheck(t) PROVE Simulated
  <2>1. \A u \in Tasks : u # t => pc'[u] = pc[u] /\ throws'[u] = throws[u]
    BY <1>13 DEF Recheck
  <2> HIDE DEF Simulated
  <2>2. /\ PhaseAt(pc'[t], throws'[t]) = PhaseAt(pc[t], throws[t])
        /\ pc[t] \in Owning <=> pc'[t] \in Owning
        /\ cancelled' = cancelled
    BY <1>13 DEF Recheck, PhaseAt, Owning, ThrowInv, Throwing
  <2>3. holderOf' = holderOf /\ phaseOf' = phaseOf
    BY <2>1, <2>2, MovedFacts
  <2> QED
    BY <2>2, <2>3 DEF Simulated, AbstractMutex!vars
<1>14. ASSUME NEW t \in Tasks, Arm(t) PROVE Simulated
  <2>1. \A u \in Tasks : u # t => pc'[u] = pc[u] /\ throws'[u] = throws[u]
    BY <1>14 DEF Arm
  <2> HIDE DEF Simulated
  <2>2. /\ PhaseAt(pc'[t], throws'[t]) = PhaseAt(pc[t], throws[t])
        /\ pc[t] \in Owning <=> pc'[t] \in Owning
        /\ cancelled' = cancelled
    BY <1>14 DEF Arm, PhaseAt, Owning, ThrowInv, Throwing
  <2>3. holderOf' = holderOf /\ phaseOf' = phaseOf
    BY <2>1, <2>2, MovedFacts
  <2> QED
    BY <2>2, <2>3 DEF Simulated, AbstractMutex!vars
<1>15. ASSUME NEW t \in Tasks, Enqueue(t) PROVE Simulated
  <2>1. \A u \in Tasks : u # t => pc'[u] = pc[u] /\ throws'[u] = throws[u]
    BY <1>15 DEF Enqueue
  <2> HIDE DEF Simulated
  <2>2. /\ PhaseAt(pc'[t], throws'[t]) = PhaseAt(pc[t], throws[t])
        /\ pc[t] \in Owning <=> pc'[t] \in Owning
        /\ cancelled' = cancelled
    BY <1>15 DEF Enqueue, PhaseAt, Owning, ThrowInv, Throwing
  <2>3. holderOf' = holderOf /\ phaseOf' = phaseOf
    BY <2>1, <2>2, MovedFacts
  <2> QED
    BY <2>2, <2>3 DEF Simulated, AbstractMutex!vars
<1>16. ASSUME NEW t \in Tasks, RecheckToken(t) PROVE Simulated
  <2>1. \A u \in Tasks : u # t => pc'[u] = pc[u] /\ throws'[u] = throws[u]
    BY <1>16 DEF RecheckToken
  <2> HIDE DEF Simulated
  <2>2. CASE cancelled[t] /\ armed[t]
    <3>1. /\ PhaseAt(pc[t], throws[t]) = "waiting" /\ PhaseAt(pc'[t], throws'[t]) = "out"
          /\ pc[t] \notin Owning /\ pc'[t] \notin Owning
          /\ cancelled' = cancelled
      BY <1>16, <2>2 DEF RecheckToken, PhaseAt, Owning, ThrowInv, Throwing
    <3>2. AbstractMutex!Fail(t)
      BY <2>1, <3>1, MovedFacts DEF AbstractMutex!Fail
    <3> QED
      BY <3>2 DEF Simulated, AbstractMutex!Next
  <2>3. CASE ~(cancelled[t] /\ armed[t])
    <3>1. /\ PhaseAt(pc'[t], throws'[t]) = PhaseAt(pc[t], throws[t])
          /\ pc[t] \in Owning <=> pc'[t] \in Owning
          /\ cancelled' = cancelled
      BY <1>16, <2>3 DEF RecheckToken, PhaseAt, Owning, ThrowInv, Throwing
    <3>2. holderOf' = holderOf /\ phaseOf' = phaseOf
      BY <2>1, <3>1, MovedFacts
    <3> QED
      BY <3>1, <3>2 DEF Simulated, AbstractMutex!vars
  <2> QED
    BY <1>16, <2>2, <2>3 DEF RecheckToken, LOCKED
<1>17. ASSUME NEW t \in Tasks, UnlockCond(t) PROVE Simulated
  <2>1. \A u \in Tasks : u # t => pc'[u] = pc[u] /\ throws'[u] = throws[u]
    BY <1>17 DEF UnlockCond
  <2> HIDE DEF Simulated
  <2>2. /\ PhaseAt(pc'[t], throws'[t]) = PhaseAt(pc[t], throws[t])
        /\ pc[t] \in Owning <=> pc'[t] \in Owning
        /\ cancelled' = cancelled
    BY <1>17 DEF UnlockCond, PhaseAt, Owning, ThrowInv, Throwing
  <2>3. holderOf' = holderOf /\ phaseOf' = phaseOf
    BY <2>1, <2>2, MovedFacts
  <2> QED
    BY <2>2, <2>3 DEF Simulated, AbstractMutex!vars
<1>18. ASSUME NEW t \in Tasks, ResumeNotified(t) PROVE Simulated
  <2>1. \A u \in Tasks : u # t => pc'[u] = pc[u] /\ throws'[u] = throws[u]
    BY <1>18 DEF ResumeNotified
  <2> HIDE DEF Simulated
  <2>2. /\ PhaseAt(pc'[t], throws'[t]) = PhaseAt(pc[t], throws[t])
        /\ pc[t] \in Owning <=> pc'[t] \in Owning
        /\ cancelled' = cancelled
    BY <1>18 DEF ResumeNotified, PhaseAt, Owning, ThrowInv, Throwing
  <2>3. holderOf' = holderOf /\ phaseOf' = phaseOf
    BY <2>1, <2>2, MovedFacts
  <2> QED
    BY <2>2, <2>3 DEF Simulated, AbstractMutex!vars
<1>19. ASSUME NEW t \in Tasks, ResumeCancelled(t) PROVE Simulated
  <2>1. \A u \in Tasks : u # t => pc'[u] = pc[u] /\ throws'[u] = throws[u]
    BY <1>19 DEF ResumeCancelled
  <2> HIDE DEF Simulated
  <2>2. /\ PhaseAt(pc'[t], throws'[t]) = PhaseAt(pc[t], throws[t])
        /\ pc[t] \in Owning <=> pc'[t] \in Owning
        /\ cancelled' = cancelled
    BY <1>19 DEF ResumeCancelled, PhaseAt, Owning, ThrowInv, Throwing
  <2>3. holderOf' = holderOf /\ phaseOf' = phaseOf
    BY <2>1, <2>2, MovedFacts
  <2> QED
    BY <2>2, <2>3 DEF Simulated, AbstractMutex!vars
<1>20. ASSUME NEW t \in Tasks, CleanupLock(t) PROVE Simulated
  <2>1. \A u \in Tasks : u # t => pc'[u] = pc[u] /\ throws'[u] = throws[u]
    BY <1>20 DEF CleanupLock
  <2> HIDE DEF Simulated
  <2>2. /\ PhaseAt(pc'[t], throws'[t]) = PhaseAt(pc[t], throws[t])
        /\ pc[t] \in Owning <=> pc'[t] \in Owning
        /\ cancelled' = cancelled
    BY <1>20 DEF CleanupLock, PhaseAt, Owning, ThrowInv, Throwing
  <2>3. holderOf' = holderOf /\ phaseOf' = phaseOf
    BY <2>1, <2>2, MovedFacts
  <2> QED
    BY <2>2, <2>3 DEF Simulated, AbstractMutex!vars
<1>21. ASSUME NEW t \in Tasks, CleanupUnlink(t) PROVE Simulated
  <2>1. \A u \in Tasks : u # t => pc'[u] = pc[u] /\ throws'[u] = throws[u]
    BY <1>21 DEF CleanupUnlink
  <2> HIDE DEF Simulated
  <2>2. /\ PhaseAt(pc[t], throws[t]) = "waiting" /\ PhaseAt(pc'[t], throws'[t]) = "out"
        /\ pc[t] \notin Owning /\ pc'[t] \notin Owning
        /\ cancelled' = cancelled
    BY <1>21 DEF CleanupUnlink, PhaseAt, Owning
  <2>3. AbstractMutex!Fail(t)
    BY <2>1, <2>2, MovedFacts DEF AbstractMutex!Fail
  <2> QED
    BY <2>3 DEF Simulated, AbstractMutex!Next
<1>22. ASSUME NEW t \in Tasks, Unlock(t) PROVE Simulated
  <2>1. \A u \in Tasks : u # t => pc'[u] = pc[u] /\ throws'[u] = throws[u]
    BY <1>22 DEF Unlock
  <2> HIDE DEF Simulated
  <2>2. /\ PhaseAt(pc'[t], throws'[t]) = PhaseAt(pc[t], throws[t])
        /\ pc[t] \in Owning <=> pc'[t] \in Owning
        /\ cancelled' = cancelled
    BY <1>22 DEF Unlock, PhaseAt, Owning, ThrowInv, Throwing
  <2>3. holderOf' = holderOf /\ phaseOf' = phaseOf
    BY <2>1, <2>2, MovedFacts
  <2> QED
    BY <2>2, <2>3 DEF Simulated, AbstractMutex!vars
<1>23. ASSUME NEW t \in Tasks, Release(t) PROVE Simulated
  <2>1. \A u \in Tasks : u # t => pc'[u] = pc[u] /\ throws'[u] = throws[u]
    BY <1>23 DEF Release
  <2> HIDE DEF Simulated
  <2>2. CASE havelock = {LOCKED} /\ ~throws[t]
    <3>1. /\ PhaseAt(pc[t], throws[t]) = "in" /\ PhaseAt(pc'[t], throws'[t]) = "out"
          /\ pc[t] \in Owning /\ LOCKED \notin havelock'
          /\ cancelled' = cancelled
      BY <1>23, <2>2 DEF Release, PhaseAt, Owning, ThrowInv, Throwing, LOCKED
    <3>2. AbstractMutex!Release(t)
      BY <2>1, <3>1, MovedFacts DEF AbstractMutex!Release
    <3> QED
      BY <3>2 DEF Simulated, AbstractMutex!Next
  <2>3. CASE havelock = {LOCKED} /\ throws[t]
    <3>1. /\ PhaseAt(pc[t], throws[t]) = "waiting" /\ PhaseAt(pc'[t], throws'[t]) = "out"
          /\ pc[t] \in Owning /\ LOCKED \notin havelock' /\ cancelled[t]
          /\ cancelled' = cancelled
      BY <1>23, <2>3 DEF Release, PhaseAt, Owning, ThrowInv, Throwing, LOCKED
    <3>2. AbstractMutex!Forgo(t)
      BY <2>1, <3>1, MovedFacts DEF AbstractMutex!Forgo
    <3> QED
      BY <3>2 DEF Simulated, AbstractMutex!Next
  <2>4. CASE havelock # {LOCKED}
    <3>1. /\ PhaseAt(pc'[t], throws'[t]) = PhaseAt(pc[t], throws[t])
          /\ pc[t] \in Owning <=> pc'[t] \in Owning
          /\ cancelled' = cancelled
      BY <1>23, <2>4 DEF Release, PhaseAt, Owning, ThrowInv, Throwing
    <3>2. holderOf' = holderOf /\ phaseOf' = phaseOf
      BY <2>1, <3>1, MovedFacts
    <3> QED
      BY <3>1, <3>2 DEF Simulated, AbstractMutex!vars
  <2> QED
    BY <1>23, <2>2, <2>3, <2>4 DEF Release, LOCKED
<1>24. ASSUME NEW t \in Tasks, LockNotify(t) PROVE Simulated
  <2>1. \A u \in Tasks : u # t => pc'[u] = pc[u] /\ throws'[u] = throws[u]
    BY <1>24 DEF LockNotify
  <2> HIDE DEF Simulated
  <2>2. /\ PhaseAt(pc'[t], throws'[t]) = PhaseAt(pc[t], throws[t])
        /\ pc[t] \in Owning <=> pc'[t] \in Owning
        /\ cancelled' = cancelled
    BY <1>24 DEF LockNotify, PhaseAt, Owning, ThrowInv, Throwing
  <2>3. holderOf' = holderOf /\ phaseOf' = phaseOf
    BY <2>1, <2>2, MovedFacts
  <2> QED
    BY <2>2, <2>3 DEF Simulated, AbstractMutex!vars
<1>25. ASSUME NEW t \in Tasks, Notify(t) PROVE Simulated
  <2>1. \A u \in Tasks : u # t => pc'[u] = pc[u] /\ throws'[u] = throws[u]
    BY <1>25 DEF Notify
  <2> HIDE DEF Simulated
  <2>2. /\ PhaseAt(pc'[t], throws'[t]) = PhaseAt(pc[t], throws[t])
        /\ pc[t] \in Owning <=> pc'[t] \in Owning
        /\ cancelled' = cancelled
    BY <1>25 DEF Notify, PhaseAt, Owning, ThrowInv, Throwing
  <2>3. holderOf' = holderOf /\ phaseOf' = phaseOf
    BY <2>1, <2>2, MovedFacts
  <2> QED
    BY <2>2, <2>3 DEF Simulated, AbstractMutex!vars
<1>26. ASSUME NEW t \in Tasks, ClearLocked(t) PROVE Simulated
  <2>1. \A u \in Tasks : u # t => pc'[u] = pc[u] /\ throws'[u] = throws[u]
    BY <1>26 DEF ClearLocked
  <2> HIDE DEF Simulated
  <2>2. CASE ~throws[t]
    <3>1. /\ PhaseAt(pc[t], throws[t]) = "in" /\ PhaseAt(pc'[t], throws'[t]) = "out"
          /\ pc[t] \in Owning /\ LOCKED \notin havelock'
          /\ cancelled' = cancelled
      BY <1>26, <2>2 DEF ClearLocked, PhaseAt, Owning, ThrowInv, Throwing, LOCKED, PARKED
    <3>2. AbstractMutex!Release(t)
      BY <2>1, <3>1, MovedFacts DEF AbstractMutex!Release
    <3> QED
      BY <3>2 DEF Simulated, AbstractMutex!Next
  <2>3. CASE throws[t]
    <3>1. /\ PhaseAt(pc[t], throws[t]) = "waiting" /\ PhaseAt(pc'[t], throws'[t]) = "waiting"
          /\ pc[t] \in Owning /\ LOCKED \notin havelock' /\ cancelled[t]
          /\ cancelled' = cancelled
      BY <1>26, <2>3 DEF ClearLocked, PhaseAt, Owning, ThrowInv, Throwing, LOCKED, PARKED
    <3>2. AbstractMutex!Forgo(t)
      BY <2>1, <3>1, MovedFacts DEF AbstractMutex!Forgo
    <3> QED
      BY <3>2 DEF Simulated, AbstractMutex!Next
  <2> QED
    BY <1>26, <2>2, <2>3 DEF ClearLocked, LOCKED
<1>27. ASSUME NEW t \in Tasks, UnlockNotify(t) PROVE Simulated
  <2>1. \A u \in Tasks : u # t => pc'[u] = pc[u] /\ throws'[u] = throws[u]
    BY <1>27 DEF UnlockNotify
  <2> HIDE DEF Simulated
  <2>2. CASE ~throws[t]
    <3>1. /\ PhaseAt(pc'[t], throws'[t]) = PhaseAt(pc[t], throws[t])
          /\ pc[t] \in Owning <=> pc'[t] \in Owning
          /\ cancelled' = cancelled
      BY <1>27, <2>2 DEF UnlockNotify, PhaseAt, Owning, ThrowInv, Throwing
    <3>2. holderOf' = holderOf /\ phaseOf' = phaseOf
      BY <2>1, <3>1, MovedFacts
    <3> QED
      BY <3>1, <3>2 DEF Simulated, AbstractMutex!vars
  <2>3. CASE throws[t]
    <3>1. /\ PhaseAt(pc[t], throws[t]) = "waiting" /\ PhaseAt(pc'[t], throws'[t]) = "out"
          /\ pc[t] \notin Owning /\ pc'[t] \notin Owning
          /\ cancelled' = cancelled
      BY <1>27, <2>3 DEF UnlockNotify, PhaseAt, Owning, ThrowInv, Throwing
    <3>2. AbstractMutex!Fail(t)
      BY <2>1, <3>1, MovedFacts DEF AbstractMutex!Fail
    <3> QED
      BY <3>2 DEF Simulated, AbstractMutex!Next
  <2> QED
    BY <1>27, <2>2, <2>3 DEF UnlockNotify, LOCKED
<1>28. ASSUME NEW t \in Cancellable, CancelRaise(t) PROVE Simulated
  <2>1. UNCHANGED <<pc, throws, havelock>>
    BY <1>28 DEF CancelRaise
  <2>2. holderOf' = holderOf /\ phaseOf' = phaseOf
    BY <2>1 DEF holderOf, phaseOf
  <2>3. AbstractMutex!Cancel(t)
    BY <1>28, <2>2 DEF CancelRaise, AbstractMutex!Cancel
  <2> QED
    BY <2>3 DEF AbstractMutex!Next
<1>29. ASSUME NEW t \in Cancellable, CancelWalk(t) PROVE Simulated
  <2>1. UNCHANGED <<pc, throws, havelock>>
    BY <1>29 DEF CancelWalk
  <2>2. holderOf' = holderOf /\ phaseOf' = phaseOf
    BY <2>1 DEF holderOf, phaseOf
  <2> QED
    BY <1>29, <2>2 DEF CancelWalk, AbstractMutex!vars
<1>30. ASSUME NEW t \in Cancellable, CancelDeliver(t) PROVE Simulated
  <2>1. UNCHANGED <<pc, throws, havelock>>
    BY <1>30 DEF CancelDeliver
  <2>2. holderOf' = holderOf /\ phaseOf' = phaseOf
    BY <2>1 DEF holderOf, phaseOf
  <2> QED
    BY <1>30, <2>2 DEF CancelDeliver, AbstractMutex!vars
<1>31. CASE UNCHANGED vars \/ Quiescent
  <2>1. UNCHANGED <<pc, throws, cancelled>>
    BY <1>31 DEF Quiescent, vars
  <2>2. holderOf' = holderOf /\ phaseOf' = phaseOf
    BY <2>1 DEF holderOf, phaseOf
  <2> QED
    BY <2>1, <2>2 DEF AbstractMutex!vars
<1> QED
  BY <1>1, <1>2, <1>3, <1>4, <1>5, <1>6, <1>7, <1>8, <1>9, <1>10, <1>11,
     <1>12, <1>13, <1>14, <1>15, <1>16, <1>17, <1>18, <1>19, <1>20, <1>21,
     <1>22, <1>23, <1>24, <1>25, <1>26, <1>27, <1>28, <1>29, <1>30, <1>31
     DEF Next, Step, LockSteps, ParkSteps, UnlockSteps, Cancel

\* lock.jl implements Mutex: whatever the interleaving of locks, unlocks and
\* cancellations, a caller sees a mutual exclusion lock, and a call that throws
\* leaves its task without it.
THEOREM LockImplementsMutex == Spec => ImplementsMutex
<1>1. Init => AbstractMutex!Init
  BY RLAssumption DEF Init, AbstractMutex!Init, holderOf, phaseOf, Owning
<1>2. IInv /\ IInv' /\ [Next]_vars => [AbstractMutex!Next]_(AbstractMutex!vars)
  BY MutexStep
<1> QED
  BY <1>1, <1>2, IInvInvariant, PTL DEF Spec, ImplementsMutex, AbstractMutex!Spec
=============================================================================
