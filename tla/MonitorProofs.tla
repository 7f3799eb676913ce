---------------------------- MODULE MonitorProofs ----------------------------
(***************************************************************************)
(* Proofs about the two components that are monitors, one lock and the      *)
(* waiters of its conditions: Engine, for every finite set of threads and   *)
(* keys and every number of calls, and Channel, for every finite set of     *)
(* tasks, every size and every number of operations.                        *)
(***************************************************************************)
EXTENDS Engine, Channel, FiniteSetTheorems, TLAPS

-----------------------------------------------------------------------------
(* Engine: the inductive invariant.                                          *)

\* A thread publishes in `awaiting` the key of the call it is in, and only
\* while that call waits or has just been woken.
AwaitInv ==
  \A t \in Threads :
    /\ pc[t] = "wait" => awaiting[t] = ci[t].key
    /\ awaiting[t] # NoKey => pc[t] \in {"wait", "woken"} /\ awaiting[t] = ci[t].key

\* Placeholders carry the thread that made them, in its hands and in its call,
\* and the call of a thread outside jl_engine_reserve names none.
OwnerInv ==
  \A t \in Threads :
    /\ \A c \in held[t] : c.tid = t
    /\ pc[t] # "run" => ci[t] \in CodeInst /\ ci[t].tid = t

SafeInv == TypeOK /\ AwaitInv /\ OwnerInv /\ SleepsOnLease /\ NoWaitCycle

\* The fields of a placeholder, which differs from an absent entry.
LEMMA FieldTypes ==
  ASSUME NEW c \in CodeInst
  PROVE  c.tid \in Threads /\ c.key \in Keys /\ c # HT_NOTFOUND
<1>1. c.tid \in Threads /\ c.key \in Keys
  BY DEF CodeInst
<1>2. c.key # NoKey
  BY <1>1, EngineAssumption
<1>3. HT_NOTFOUND.key = NoKey
  BY DEF HT_NOTFOUND
<1> QED
  BY <1>1, <1>2, <1>3

LEMMA InitSafe == Init => SafeInv
<1> SUFFICES ASSUME Init PROVE SafeInv
  OBVIOUS
<1>1. TypeOK
  BY EngineAssumption DEF Init, TypeOK
<1>2. AwaitInv /\ OwnerInv /\ SleepsOnLease
  BY DEF Init, AwaitInv, OwnerInv, SleepsOnLease
<1>3. NoWaitCycle
  BY DEF Init, NoWaitCycle, Blocked
<1> QED
  BY <1>1, <1>2, <1>3 DEF SafeInv

-----------------------------------------------------------------------------
LEMMA TypeStep ==
  ASSUME SafeInv, [Next]_vars
  PROVE  TypeOK'
<1> USE DEF SafeInv
<1>1. ASSUME NEW t \in Threads, NEW k \in Keys, ReserveCall(t, k) PROVE TypeOK'
  <2>1. [tid |-> t, key |-> k, n |-> calls[t] + 1] \in CodeInst
    BY <1>1, EngineAssumption DEF ReserveCall, TypeOK, CodeInst
  <2> QED
    BY <1>1, <2>1, EngineAssumption DEF ReserveCall, TypeOK
<1>2. ASSUME NEW t \in Threads, Reserve(t) \/ SpuriousWake(t) PROVE TypeOK'
  <2>1. pc[t] # "run" => ci[t] \in CodeInst /\ ci[t].key \in Keys
    BY FieldTypes DEF OwnerInv
  <2> QED
    BY <1>2, <2>1 DEF Reserve, ReserveInsert, ReserveCycle, ReserveWait, ReserveReturn,
                      SpuriousWake, AtLock, TypeOK
<1>3. ASSUME NEW t \in Threads, NEW c \in held[t], Fulfill(t, c) \/ Abandon(t, c)
      PROVE  TypeOK'
  BY <1>3 DEF Fulfill, Abandon, Broadcast, TypeOK
<1>4. CASE Sweep
  <2> DEFINE gone(t) == {k \in {k \in Keys : Unmarked(k)} : reservations[k].tid = t}
  <2>1. ASSUME NEW t \in Threads PROVE Cardinality(gone(t)) \in Nat
    <3>1. IsFiniteSet(gone(t))
      BY EngineAssumption, FS_Subset
    <3> QED
      BY <3>1, FS_CardinalityType
  <2>2. engine_nqueued' = [t \in Threads |-> engine_nqueued[t] - Cardinality(gone(t))]
    BY <1>4 DEF Sweep
  <2> HIDE DEF gone
  <2>3. engine_nqueued' \in [Threads -> Int]
    BY <2>1, <2>2 DEF TypeOK
  <2> QED
    BY <1>4, <2>3 DEF Sweep, Broadcast, TypeOK
<1>5. CASE UNCHANGED vars
  BY <1>5 DEF vars, TypeOK
<1> QED
  BY <1>1, <1>2, <1>3, <1>4, <1>5 DEF Next, Done

\* Every step keeps what `awaiting` and the placeholders say of their threads,
\* and wakes whoever sleeps on a lease it takes away.
LEMMA AwaitStep ==
  ASSUME SafeInv, [Next]_vars
  PROVE  AwaitInv' /\ OwnerInv' /\ SleepsOnLease'
<1> USE DEF SafeInv
<1>1. ASSUME NEW t \in Threads, NEW k \in Keys, ReserveCall(t, k)
      PROVE  AwaitInv' /\ OwnerInv' /\ SleepsOnLease'
  <2>1. [tid |-> t, key |-> k, n |-> calls[t] + 1] \in CodeInst
    BY <1>1, EngineAssumption DEF ReserveCall, TypeOK, CodeInst
  <2> QED
    BY <1>1, <2>1 DEF ReserveCall, AwaitInv, OwnerInv, SleepsOnLease, Reserved, TypeOK
<1>2. ASSUME NEW t \in Threads, ReserveInsert(t)
      PROVE  AwaitInv' /\ OwnerInv' /\ SleepsOnLease'
  <2>1. ci[t] \in CodeInst /\ ci[t].key \in Keys /\ ci[t] # HT_NOTFOUND
    BY <1>2, FieldTypes DEF ReserveInsert, AtLock, OwnerInv
  <2> QED
    BY <1>2, <2>1 DEF ReserveInsert, AwaitInv, OwnerInv, SleepsOnLease, Reserved, TypeOK
<1>3. ASSUME NEW t \in Threads,
             ReserveCycle(t) \/ ReserveWait(t) \/ ReserveReturn(t) \/ SpuriousWake(t)
      PROVE  AwaitInv' /\ OwnerInv' /\ SleepsOnLease'
  BY <1>3 DEF ReserveCycle, ReserveWait, ReserveReturn, SpuriousWake, AtLock, AwaitInv,
              OwnerInv, SleepsOnLease, Reserved, TypeOK
<1>4. ASSUME NEW t \in Threads, NEW c \in held[t], Fulfill(t, c) \/ Abandon(t, c)
      PROVE  AwaitInv' /\ OwnerInv' /\ SleepsOnLease'
  <2>1. c \in CodeInst /\ c.key \in Keys
    BY <1>4, FieldTypes DEF TypeOK
  <2> QED
    BY <1>4, <2>1 DEF Fulfill, Abandon, Broadcast, AwaitInv, OwnerInv, SleepsOnLease,
                      Reserved, TypeOK
<1>5. CASE Sweep
  BY <1>5 DEF Sweep, Broadcast, AwaitInv, OwnerInv, SleepsOnLease, TypeOK
<1>6. CASE UNCHANGED vars
  BY <1>6 DEF vars, AwaitInv, OwnerInv, SleepsOnLease, Reserved
<1> QED
  BY <1>1, <1>2, <1>3, <1>4, <1>5, <1>6 DEF Next, Reserve, Done

-----------------------------------------------------------------------------
(* No cycle of waiters.                                                      *)

\* A step after which every thread that is blocked was blocked before, on a
\* lease of the same thread, closes no cycle.
LEMMA FewerEdges ==
  ASSUME NoWaitCycle,
         \A x \in Threads : Blocked(x)' => Blocked(x) /\ LeaseHolder(x)' = LeaseHolder(x)
  PROVE  NoWaitCycle'
BY DEF NoWaitCycle

\* A new lease: its holder does not wait, and nobody who did waits for it alone.
LEMMA InsertClosesNone ==
  ASSUME SafeInv, NEW t \in Threads, ReserveInsert(t)
  PROVE  NoWaitCycle'
<1>1. ci[t].key \in Keys /\ ci[t].tid = t
  BY FieldTypes DEF SafeInv, OwnerInv, ReserveInsert, AtLock
<1>2. SUFFICES ASSUME NEW S \in SUBSET Threads,
                      \A x \in S : Blocked(x)' /\ LeaseHolder(x)' \in S
               PROVE  S = {}
  BY DEF NoWaitCycle
<1>3. t \notin S
  BY <1>2 DEF Blocked, ReserveInsert, SafeInv, TypeOK
<1>4. ASSUME NEW x \in S PROVE Blocked(x) /\ LeaseHolder(x) \in S
  <2>1. x # t /\ awaiting'[x] = awaiting[x] /\ awaiting[x] # NoKey /\ awaiting[x] \in Keys
    BY <1>2, <1>3, <1>4 DEF Blocked, ReserveInsert, SafeInv, TypeOK
  <2>2. awaiting[x] # ci[t].key
    <3> SUFFICES ASSUME awaiting[x] = ci[t].key PROVE FALSE
      OBVIOUS
    <3>1. LeaseHolder(x)' = t
      BY <1>1, <2>1 DEF LeaseHolder, ReserveInsert, SafeInv, TypeOK
    <3> QED
      BY <3>1, <1>2, <1>3, <1>4
  <2>3. reservations'[awaiting[x]] = reservations[awaiting[x]]
    BY <2>1, <2>2 DEF ReserveInsert, SafeInv, TypeOK
  <2> QED
    BY <2>1, <2>3, <1>2, <1>4 DEF Blocked, LeaseHolder, Reserved
<1> QED
  BY <1>2, <1>4 DEF SafeInv, NoWaitCycle

\* The walk is sound: the threads it visits, from the holder of the lease on,
\* include this one if waiting would close a cycle.
LEMMA WaitClosesNone ==
  ASSUME SafeInv, NEW t \in Threads, ReserveWait(t)
  PROVE  NoWaitCycle'
<1> DEFINE w == reservations[ci[t].key].tid
<1>1. ci[t].key \in Keys /\ w \in Threads
  BY FieldTypes DEF SafeInv, OwnerInv, TypeOK, ReserveWait, AtLock, Reserved
<1>2. PICK R \in SUBSET Threads : w \in R /\ ClosedUnderWait(R) /\ t \notin R
  BY DEF ReserveWait, Visited
<1>3. SUFFICES ASSUME NEW S \in SUBSET Threads,
                      \A x \in S : Blocked(x)' /\ LeaseHolder(x)' \in S
               PROVE  S = {}
  BY DEF NoWaitCycle
<1>4. \A x \in S \ {t} : Blocked(x) /\ LeaseHolder(x) \in S
  BY <1>3 DEF Blocked, LeaseHolder, Reserved, ReserveWait, SafeInv, TypeOK
<1>5. CASE t \notin S
  BY <1>4, <1>5 DEF SafeInv, NoWaitCycle
<1>6. CASE t \in S
  <2>1. w \in S
    BY <1>3, <1>6 DEF LeaseHolder, ReserveWait, SafeInv, TypeOK
  <2>2. \A x \in S \cap R : Blocked(x) /\ LeaseHolder(x) \in S \cap R
    BY <1>2, <1>4 DEF ClosedUnderWait
  <2>3. S \cap R = {}
    BY <2>2 DEF SafeInv, NoWaitCycle
  <2> QED
    BY <1>2, <2>1, <2>3
<1> QED
  BY <1>5, <1>6

LEMMA CycleStep ==
  ASSUME SafeInv, [Next]_vars
  PROVE  NoWaitCycle'
<1> DEFINE Fewer ==
      \A x \in Threads : Blocked(x)' => Blocked(x) /\ LeaseHolder(x)' = LeaseHolder(x)
<1>1. ASSUME NEW t \in Threads, NEW k \in Keys, ReserveCall(t, k) PROVE Fewer
  BY <1>1 DEF ReserveCall, Blocked, LeaseHolder, Reserved
<1>2. ASSUME NEW t \in Threads, ReserveCycle(t) \/ ReserveReturn(t) \/ SpuriousWake(t)
      PROVE  Fewer
  BY <1>2 DEF ReserveCycle, ReserveReturn, SpuriousWake, Blocked, LeaseHolder, Reserved,
              SafeInv, TypeOK
<1>3. ASSUME NEW t \in Threads, NEW c \in held[t], Fulfill(t, c) \/ Abandon(t, c)
      PROVE  Fewer
  <2>1. c.key \in Keys
    BY <1>3, FieldTypes DEF SafeInv, TypeOK
  <2> QED
    BY <1>3, <2>1 DEF Fulfill, Abandon, Blocked, LeaseHolder, Reserved, SafeInv, TypeOK
<1>4. ASSUME Sweep PROVE Fewer
  BY <1>4 DEF Sweep, Blocked, LeaseHolder, Reserved, SafeInv, TypeOK
<1>5. ASSUME UNCHANGED vars PROVE Fewer
  BY <1>5 DEF vars, Blocked, LeaseHolder, Reserved
<1>6. Fewer => NoWaitCycle'
  BY FewerEdges DEF SafeInv
<1> HIDE DEF Fewer
<1> QED
  BY <1>1, <1>2, <1>3, <1>4, <1>5, <1>6, InsertClosesNone, WaitClosesNone
     DEF Next, Reserve, Done

-----------------------------------------------------------------------------
(* The count that keeps finalizers disabled.                                 *)

\* The keys whose lease thread t has, and the call it is in.
Leases(t) == {k \in Keys : Reserved(k) /\ reservations[k].tid = t}
InCall(t) == IF pc[t] = "run" THEN 0 ELSE 1

LEMMA LeasesCounted ==
  ASSUME NEW t \in Threads
  PROVE  IsFiniteSet(Leases(t)) /\ Cardinality(Leases(t)) \in Nat
<1>1. Leases(t) \subseteq Keys /\ IsFiniteSet(Keys)
  BY EngineAssumption DEF Leases
<1>2. IsFiniteSet(Leases(t))
  BY <1>1, FS_Subset
<1> QED
  BY <1>2, FS_CardinalityType

\* A step that leaves the table alone changes the count as it changes the call.
LEMMA SameTable ==
  ASSUME QueuedIsExact, UNCHANGED reservations,
         \A u \in Threads : engine_nqueued'[u] - engine_nqueued[u] = InCall(u)' - InCall(u),
         engine_nqueued \in [Threads -> Int], engine_nqueued' \in [Threads -> Int]
  PROVE  QueuedIsExact'
<1> SUFFICES ASSUME NEW u \in Threads
             PROVE  engine_nqueued'[u] = Cardinality(Leases(u))' + InCall(u)'
  BY DEF QueuedIsExact, Leases, InCall
<1>1. Leases(u)' = Leases(u)
  BY DEF Leases, Reserved
<1>2. engine_nqueued[u] = Cardinality(Leases(u)) + InCall(u)
  BY DEF QueuedIsExact, Leases, InCall
<1>3. Cardinality(Leases(u)) \in Nat /\ InCall(u) \in Nat /\ InCall(u)' \in Nat
  BY LeasesCounted DEF InCall
<1>4. Cardinality(Leases(u))' = Cardinality(Leases(u))
  BY <1>1
<1>5. engine_nqueued[u] \in Int /\ engine_nqueued'[u] \in Int
  OBVIOUS
<1>6. engine_nqueued'[u] - engine_nqueued[u] = InCall(u)' - InCall(u)
  OBVIOUS
<1> HIDE DEF InCall
<1> QED
  BY <1>2, <1>3, <1>4, <1>5, <1>6

LEMMA InsertCounted ==
  ASSUME SafeInv, QueuedIsExact, NEW t \in Threads, ReserveInsert(t)
  PROVE  QueuedIsExact'
<1> DEFINE k == ci[t].key
<1>1. k \in Keys /\ ci[t] # HT_NOTFOUND /\ ci[t].tid = t /\ pc[t] # "run"
  BY FieldTypes DEF SafeInv, OwnerInv, ReserveInsert, AtLock
<1>2. \A j \in Keys : reservations'[j] = IF j = k THEN ci[t] ELSE reservations[j]
  BY DEF ReserveInsert, SafeInv, TypeOK
<1>3. ~Reserved(k)
  BY DEF ReserveInsert
<1> SUFFICES ASSUME NEW u \in Threads
             PROVE  engine_nqueued'[u] = Cardinality(Leases(u))' + InCall(u)'
  BY DEF QueuedIsExact, Leases, InCall
<1>4. engine_nqueued'[u] = Cardinality(Leases(u)) + InCall(u)
  BY DEF QueuedIsExact, Leases, InCall, ReserveInsert
<1>5. CASE u = t
  <2>1. Leases(t)' = Leases(t) \cup {k} /\ k \notin Leases(t)
    BY <1>1, <1>2, <1>3 DEF Leases, Reserved
  <2>2. Cardinality(Leases(t) \cup {k}) = Cardinality(Leases(t)) + 1
    BY <2>1, LeasesCounted, FS_AddElement
  <2>3. InCall(t) = 1 /\ InCall(t)' = 0
    BY <1>1 DEF InCall, ReserveInsert, SafeInv, TypeOK
  <2>4. Cardinality(Leases(t))' = Cardinality(Leases(t)) + 1
    BY <2>1, <2>2
  <2> QED
    BY <1>4, <1>5, <2>3, <2>4, LeasesCounted
<1>6. CASE u # t
  <2>1. Leases(u)' = Leases(u)
    BY <1>1, <1>2, <1>3, <1>6 DEF Leases, Reserved
  <2>2. InCall(u)' = InCall(u)
    BY <1>6 DEF InCall, ReserveInsert, SafeInv, TypeOK
  <2>3. Cardinality(Leases(u))' = Cardinality(Leases(u))
    BY <2>1
  <2> QED
    BY <1>4, <2>2, <2>3
<1> QED
  BY <1>5, <1>6

LEMMA FulfillCounted ==
  ASSUME SafeInv, QueuedIsExact, NEW t \in Threads, NEW c \in held[t], Fulfill(t, c),
         reservations[c.key] = c
  PROVE  QueuedIsExact'
<1>1. c.key \in Keys /\ c # HT_NOTFOUND /\ c.tid = t
  BY FieldTypes DEF SafeInv, OwnerInv, TypeOK
<1>2. \A j \in Keys : reservations'[j] = IF j = c.key THEN HT_NOTFOUND ELSE reservations[j]
  BY <1>1 DEF Fulfill, SafeInv, TypeOK
<1> SUFFICES ASSUME NEW u \in Threads
             PROVE  engine_nqueued'[u] = Cardinality(Leases(u))' + InCall(u)'
  BY DEF QueuedIsExact, Leases, InCall
<1>3. InCall(u)' = InCall(u) /\ InCall(u) \in Nat
  BY DEF InCall, Fulfill, Broadcast, SafeInv, TypeOK
<1>4. engine_nqueued[u] = Cardinality(Leases(u)) + InCall(u)
  BY DEF QueuedIsExact, Leases, InCall
<1>5. CASE u = t
  <2>1. Leases(t)' = Leases(t) \ {c.key} /\ c.key \in Leases(t)
    BY <1>1, <1>2 DEF Leases, Reserved
  <2>2. Cardinality(Leases(t) \ {c.key}) = Cardinality(Leases(t)) - 1
    BY <2>1, LeasesCounted, FS_RemoveElement
  <2>3. Cardinality(Leases(t))' = Cardinality(Leases(t)) - 1
    BY <2>1, <2>2
  <2>4. engine_nqueued'[t] = engine_nqueued[t] - 1
    BY DEF Fulfill, SafeInv, TypeOK
  <2> QED
    BY <1>3, <1>4, <1>5, <2>3, <2>4, LeasesCounted
<1>6. CASE u # t
  <2>1. Leases(u)' = Leases(u)
    BY <1>1, <1>2, <1>6 DEF Leases, Reserved
  <2>2. Cardinality(Leases(u))' = Cardinality(Leases(u))
    BY <2>1
  <2>3. engine_nqueued'[u] = engine_nqueued[u]
    BY <1>6 DEF Fulfill, SafeInv, TypeOK
  <2> QED
    BY <1>3, <1>4, <2>2, <2>3
<1> QED
  BY <1>5, <1>6

LEMMA SweepCounted ==
  ASSUME SafeInv, QueuedIsExact, Sweep
  PROVE  QueuedIsExact'
<1> SUFFICES ASSUME NEW u \in Threads
             PROVE  engine_nqueued'[u] = Cardinality(Leases(u))' + InCall(u)'
  BY DEF QueuedIsExact, Leases, InCall
<1> DEFINE gone == {k \in {k \in Keys : Unmarked(k)} : reservations[k].tid = u}
<1>1. Leases(u)' = Leases(u) \ gone /\ gone \subseteq Leases(u)
  BY DEF Sweep, Leases, Reserved, Unmarked
<1>2. engine_nqueued'[u] = engine_nqueued[u] - Cardinality(gone)
  BY DEF Sweep
<1>3. engine_nqueued[u] = Cardinality(Leases(u)) + InCall(u)
  BY DEF QueuedIsExact, Leases, InCall
<1>4. InCall(u)' = InCall(u) /\ InCall(u) \in Nat
  BY DEF InCall, Sweep, Broadcast, SafeInv, TypeOK
<1> HIDE DEF gone
<1>5. IsFiniteSet(gone)
  BY <1>1, LeasesCounted, FS_Subset
<1>6. Cardinality(gone) \in Nat
  BY <1>5, FS_CardinalityType
<1>7. Cardinality(Leases(u) \ gone) = Cardinality(Leases(u)) - Cardinality(Leases(u) \cap gone)
  BY LeasesCounted, FS_Difference
<1>8. Leases(u) \cap gone = gone
  BY <1>1
<1>9. Cardinality(Leases(u))' = Cardinality(Leases(u)) - Cardinality(gone)
  BY <1>1, <1>7, <1>8
<1> QED
  BY <1>2, <1>3, <1>4, <1>6, <1>9, LeasesCounted

LEMMA CountStep ==
  ASSUME SafeInv, SafeInv', QueuedIsExact, [Next]_vars
  PROVE  QueuedIsExact'
<1> DEFINE Same ==
      /\ UNCHANGED reservations
      /\ \A u \in Threads : engine_nqueued'[u] - engine_nqueued[u] = InCall(u)' - InCall(u)
<1>1. Same => QueuedIsExact'
  BY SameTable DEF SafeInv, TypeOK
<1>2. ASSUME NEW t \in Threads, NEW k \in Keys, ReserveCall(t, k) PROVE Same
  BY <1>2 DEF ReserveCall, InCall, SafeInv, TypeOK
<1>3. ASSUME NEW t \in Threads,
             ReserveCycle(t) \/ ReserveWait(t) \/ ReserveReturn(t) \/ SpuriousWake(t)
      PROVE  Same
  BY <1>3 DEF ReserveCycle, ReserveWait, ReserveReturn, SpuriousWake, AtLock, InCall,
              SafeInv, TypeOK
<1>4. ASSUME NEW t \in Threads, NEW c \in held[t], Fulfill(t, c) \/ Abandon(t, c)
      PROVE  QueuedIsExact'
  <2>1. CASE Fulfill(t, c) /\ reservations[c.key] = c
    BY <2>1, FulfillCounted
  <2>2. CASE Fulfill(t, c) /\ reservations[c.key] # c
    <3>1. Same
      BY <2>2 DEF Fulfill, InCall, SafeInv, TypeOK
    <3> QED
      BY <3>1, <1>1
  <2>3. CASE Abandon(t, c)
    <3>1. Same
      BY <2>3 DEF Abandon, InCall, SafeInv, TypeOK
    <3> QED
      BY <3>1, <1>1
  <2> QED
    BY <1>4, <2>1, <2>2, <2>3
<1>5. ASSUME UNCHANGED vars PROVE Same
  BY <1>5 DEF vars, InCall, SafeInv, TypeOK
<1> HIDE DEF Same
<1> QED
  BY <1>1, <1>2, <1>3, <1>4, <1>5, InsertCounted, SweepCounted DEF Next, Reserve, Done

-----------------------------------------------------------------------------
\* The inductive invariant holds in every reachable state.
THEOREM SafeInvHolds == Spec => []SafeInv
<1>1. SafeInv /\ [Next]_vars => SafeInv'
  BY TypeStep, AwaitStep, CycleStep DEF SafeInv
<1> QED
  BY InitSafe, <1>1, PTL DEF Spec

\* The variables of engine.c keep their types for any sets of threads and keys
\* and any number of calls of jl_engine_reserve.
THEOREM TypeCorrect == Spec => []TypeOK
<1>1. SafeInv => TypeOK
  BY DEF SafeInv
<1> QED
  BY SafeInvHolds, <1>1, PTL

\* jl_engine_reserve never lets a set of threads wait for one another's
\* leases, however many threads and keys there are.
THEOREM NoDeadlock == Spec => []NoWaitCycle
<1>1. SafeInv => NoWaitCycle
  BY DEF SafeInv
<1> QED
  BY SafeInvHolds, <1>1, PTL

\* No thread sleeps in uv_cond_wait for a lease that has been fulfilled,
\* rejected or swept.
THEOREM NobodyIsForgotten == Spec => []SleepsOnLease
<1>1. SafeInv => SleepsOnLease
  BY DEF SafeInv
<1> QED
  BY SafeInvHolds, <1>1, PTL

\* engine_nqueued is the number of leases a thread has plus the call it is in,
\* whichever of cycle, fulfil, lost placeholder and sweep changed the table.
THEOREM CountIsExact == Spec => []QueuedIsExact
<1>1. Init => QueuedIsExact
  <2> SUFFICES ASSUME Init, NEW t \in Threads
               PROVE  engine_nqueued[t] = Cardinality(Leases(t)) + InCall(t)
    BY DEF QueuedIsExact, Leases, InCall
  <2>1. Leases(t) = {}
    BY DEF Init, Leases, Reserved
  <2>2. Cardinality({}) = 0
    BY FS_EmptySet
  <2>3. engine_nqueued[t] = 0 /\ InCall(t) = 0
    BY DEF Init, InCall
  <2> QED
    BY <2>1, <2>2, <2>3
<1>2. SafeInv /\ SafeInv' /\ QueuedIsExact /\ [Next]_vars => QueuedIsExact'
  BY CountStep
<1> QED
  BY SafeInvHolds, <1>1, <1>2, PTL DEF Spec

-----------------------------------------------------------------------------
(* Channel: the inductive invariant.                                         *)

Distinct(q) == \A i, j \in 1..Len(q) : q[i] = q[j] => i = j

\* The queue a parked task is linked in.
Home(t) ==
  IF at[t] = "parkPut" THEN putq
  ELSE IF at[t] = "parkWait" /\ sz_max = 0 THEN waitq ELSE takeq

\* An entry belongs to a task that waits there and that no notify and no close
\* has claimed, and a task that waits unclaimed has its entry.
Linked(t) ==
  /\ Queued(putq, t) => at[t] = "parkPut" /\ wake[t] \in {"none", "cancel"}
  /\ Queued(waitq, t) => sz_max = 0 /\ at[t] = "parkWait" /\ wake[t] \in {"none", "cancel"}
  /\ Queued(takeq, t) =>
       /\ at[t] \in {"parkTake", "parkFetch", "parkWait"}
       /\ at[t] # "parkTake" => sz_max > 0
       /\ wake[t] \in {"none", "cancel"}
  /\ Armed(t) => Queued(Home(t), t)

LinkInv ==
  /\ Distinct(takeq) /\ Distinct(putq) /\ Distinct(waitq)
  /\ \A t \in Tasks : Linked(t)

\* A wake is claimed for a parked task only; a put! has claimed its taker until
\* it hands the value over, and no other put! has the same one.
WakeInv ==
  /\ \A t \in Tasks :
       /\ wake[t] # "none" => at[t] \in Parks
       /\ wake[t] = "claimed" => at[t] = "parkTake"
       /\ wake[t] = "error" => state = "closed"
       /\ at[t] = "hand" => give[t] \in Tasks /\ wake[give[t]] = "claimed"
  /\ \A t, u \in Tasks : at[t] = "hand" /\ at[u] = "hand" /\ give[t] = give[u] => t = u

\* What an iteration knows: it has found the channel closed, and if a close
\* threw it out of its take! there was nothing to take.
IterInv ==
  /\ sz_max = 0 => data = <<>>
  /\ \A t \in Tasks :
       /\ iter[t] => at[t] \in {"take", "parkTake", "iterReady"}
       /\ at[t] = "iterReady" => state = "closed"
       /\ wake[t] = "error" /\ at[t] = "parkTake" => data = <<>>

ChannelInv ==
  /\ ChannelTypeOK /\ LinkInv /\ WakeInv /\ IterInv
  /\ CloseReleases /\ TakersSeeItems /\ WaitersSeeOffers /\ NoWastedInvitation
  /\ IterationIsComplete

-----------------------------------------------------------------------------
(* What the queue operations of condition.jl return.                         *)

\* Every set of positions has a least one.
LEMMA LeastExists ==
  ASSUME NEW S, S \subseteq Nat, S # {}
  PROVE  \E i \in S : \A j \in S : i <= j
<1> DEFINE R == OpToRel(<, Nat)
<1>1. IsWellFoundedOn(R, Nat)
  BY NatLessThanWellFounded
<1>2. \A i, j \in Nat : i < j => <<i, j>> \in R
  BY DEF OpToRel
<1> HIDE DEF R
<1>3. PICK i \in S : \A j \in S : ~(<<j, i>> \in R)
  BY <1>1, WFMin
<1>4. \A j \in S : ~(j < i)
  BY <1>2, <1>3, Zenon
<1> QED
  BY <1>4

\* list_deletefirst! removes one task's entry, keeps the others and their order.
LEMMA UnlinkFacts ==
  ASSUME NEW q \in Seq(Tasks), NEW t, Distinct(q)
  PROVE  /\ Unlink(q, t) \in Seq(Tasks)
         /\ Distinct(Unlink(q, t))
         /\ \A u : Queued(Unlink(q, t), u) <=> Queued(q, u) /\ u # t
<1> DEFINE r == Unlink(q, t)
<1>1. CASE Queued(q, t)
  <2> DEFINE k == CHOOSE i \in 1..Len(q) : q[i] = t
  <2>1. k \in 1..Len(q) /\ q[k] = t
    BY <1>1 DEF Queued
  <2> HIDE DEF k
  <2>2. r = [i \in 1..(Len(q) - 1) |-> IF i < k THEN q[i] ELSE q[i + 1]]
    BY <1>1 DEF Unlink, k
  <2> HIDE DEF r
  <2>3. r \in Seq(Tasks) /\ Len(r) = Len(q) - 1
    <3>1. Len(q) - 1 \in Nat /\ \A i \in 1..(Len(q) - 1) : r[i] \in Tasks
      BY <2>1, <2>2
    <3> QED
      BY <2>2, <3>1
  <2>4. \A i \in 1..Len(r) : r[i] = IF i < k THEN q[i] ELSE q[i + 1]
    BY <2>2, <2>3
  <2>5. Distinct(r)
    BY <2>1, <2>3, <2>4 DEF Distinct
  <2>6. ASSUME NEW u, Queued(r, u)
        PROVE  Queued(q, u) /\ u # t
    BY <2>1, <2>3, <2>4, <2>6 DEF Distinct, Queued
  <2>7. ASSUME NEW u, Queued(q, u), u # t
        PROVE  Queued(r, u)
    <3>1. PICK j \in 1..Len(q) : q[j] = u
      BY <2>7 DEF Queued
    <3>2. CASE j < k
      BY <2>1, <2>3, <2>4, <3>1, <3>2 DEF Queued
    <3>3. CASE j > k
      <4>1. j - 1 \in 1..Len(r) /\ ~(j - 1 < k) /\ (j - 1) + 1 = j
        BY <2>1, <2>3, <3>3
      <4> QED
        BY <2>4, <3>1, <4>1 DEF Queued
    <3> QED
      BY <2>1, <2>7, <3>1, <3>2, <3>3
  <2> QED
    BY <2>3, <2>5, <2>6, <2>7 DEF r
<1>2. CASE ~Queued(q, t)
  BY <1>2 DEF Unlink
<1> QED
  BY <1>1, <1>2

\* The empty queue.
LEMMA NoneQueued ==
  /\ <<>> \in Seq(Tasks) /\ Distinct(<<>>)
  /\ \A u : ~Queued(<<>>, u)
BY DEF Distinct, Queued

\* wait_enqueue! appends an entry for the task, unless its token is cancelled.
LEMMA EnqueueFacts ==
  ASSUME NEW q \in Seq(Tasks), NEW t \in Tasks, Distinct(q), ~Queued(q, t)
  PROVE  /\ Enqueue(q, t) \in Seq(Tasks)
         /\ Distinct(Enqueue(q, t))
         /\ \A u : Queued(Enqueue(q, t), u) <=> Queued(q, u) \/ (u = t /\ t \notin cancelled)
<1>1. CASE t \in cancelled
  BY <1>1 DEF Enqueue, Refused
<1>2. CASE t \notin cancelled
  <2> DEFINE r == Append(q, t)
  <2>1. Enqueue(q, t) = r
    BY <1>2 DEF Enqueue, Refused
  <2>2. /\ r \in Seq(Tasks) /\ Len(r) = Len(q) + 1 /\ r[Len(q) + 1] = t
        /\ \A i \in 1..Len(q) : r[i] = q[i]
    OBVIOUS
  <2> HIDE DEF r
  <2>3. Distinct(r)
    BY <2>2 DEF Distinct, Queued
  <2>4. \A u : Queued(r, u) <=> Queued(q, u) \/ u = t
    BY <2>2 DEF Queued
  <2> QED
    BY <1>2, <2>1, <2>2, <2>3, <2>4
<1> QED
  BY <1>1, <1>2

\* notify(all=true) claims the armed waiters of the queue and no others.
LEMMA AllFacts ==
  ASSUME NEW q \in Seq(Tasks)
  PROVE  All(q) = {u \in Tasks : Queued(q, u) /\ Armed(u)}
BY DEF All, Live, Queued

\* notify(all=false) claims one armed waiter if there is one, and drops only
\* entries that are not armed.
LEMMA NotifyFacts ==
  ASSUME NEW q \in Seq(Tasks), Distinct(q)
  PROVE  /\ Notified(q) \subseteq Tasks
         /\ \A u \in Notified(q) : Queued(q, u) /\ Armed(u)
         /\ \A u, v \in Notified(q) : u = v
         /\ \A u : Queued(q, u) /\ Armed(u) => Notified(q) # {}
         /\ AfterFirst(q) \in Seq(Tasks) /\ Distinct(AfterFirst(q))
         /\ \A u : Queued(AfterFirst(q), u) => Queued(q, u) /\ u \notin Notified(q)
         /\ \A u : Queued(q, u) /\ Armed(u) /\ u \notin Notified(q)
                     => Queued(AfterFirst(q), u)
<1>1. Live(q) \subseteq 1..Len(q) /\ Live(q) \subseteq Nat
  BY DEF Live
<1>2. \A i \in Live(q) : q[i] \in Tasks /\ Queued(q, q[i]) /\ Armed(q[i])
  BY DEF Live, Queued
<1>3. First(q) \subseteq Live(q) /\ \A i, j \in First(q) : i = j
  BY <1>1 DEF First
<1>4. \A u : Queued(q, u) /\ Armed(u) => Live(q) # {}
  BY DEF Live, Queued
<1>5. Live(q) # {} => First(q) # {}
  BY <1>1, LeastExists DEF First
<1>6. CASE First(q) = {}
  BY <1>4, <1>5, <1>6, NoneQueued DEF Notified, AfterFirst
<1>7. CASE First(q) # {}
  <2> DEFINE k == CHOOSE i \in First(q) : TRUE
             r == AfterFirst(q)
  <2>1. k \in First(q)
    BY <1>7
  <2>2. k \in 1..Len(q) /\ Notified(q) = {q[k]} /\ k \in Live(q)
    BY <1>1, <1>3, <2>1 DEF Notified
  <2>3. r = [i \in 1..(Len(q) - k) |-> q[i + k]]
    BY <1>7 DEF AfterFirst
  <2>4. \A j \in 1..Len(q) : Armed(q[j]) => k <= j
    BY <2>1 DEF First, Live
  <2> HIDE DEF k, r
  <2>5. r \in Seq(Tasks) /\ Len(r) = Len(q) - k
    <3>1. Len(q) - k \in Nat /\ \A i \in 1..(Len(q) - k) : r[i] \in Tasks
      BY <2>2, <2>3
    <3> QED
      BY <2>3, <3>1
  <2>6. \A i \in 1..Len(r) : r[i] = q[i + k] /\ i + k \in 1..Len(q) /\ i + k # k
    BY <2>2, <2>3, <2>5
  <2>7. Distinct(r)
    BY <2>2, <2>5, <2>6 DEF Distinct
  <2>8. ASSUME NEW u, Queued(r, u)
        PROVE  Queued(q, u) /\ u \notin Notified(q)
    BY <2>2, <2>6, <2>8 DEF Queued, Distinct
  <2>9. ASSUME NEW u, Queued(q, u), Armed(u), u \notin Notified(q)
        PROVE  Queued(r, u)
    <3>1. PICK j \in 1..Len(q) : q[j] = u
      BY <2>9 DEF Queued
    <3>2. k < j
      BY <2>2, <2>4, <2>9, <3>1
    <3>3. j - k \in 1..Len(r) /\ (j - k) + k = j
      BY <2>2, <2>5, <3>1, <3>2
    <3> QED
      BY <2>6, <3>1, <3>3 DEF Queued
  <2> QED
    BY <1>2, <2>2, <2>5, <2>7, <2>8, <2>9 DEF r
<1> QED
  BY <1>6, <1>7

-----------------------------------------------------------------------------
(* Steps and the links of the queues.                                        *)

\* A task that is not parked, or whose wake a notify or a close has claimed,
\* has no entry.
LEMMA NotQueued ==
  ASSUME LinkInv, NEW t \in Tasks,
         at[t] \notin Parks \/ wake[t] \notin {"none", "cancel"}
  PROVE  ~Queued(putq, t) /\ ~Queued(takeq, t) /\ ~Queued(waitq, t)
BY DEF LinkInv, Linked, Parks

\* The wake of each task after a claim.
LEMMA WokenFacts ==
  ASSUME NEW S, NEW how, NEW t, NEW u \in Tasks
  PROVE  Woken(S, how, t)[u] = IF u \in S THEN how ELSE IF u = t THEN "none" ELSE wake[u]
BY DEF Woken

\* A queue without a live entry holds no armed task.
LEMMA NoLive ==
  ASSUME NEW q \in Seq(Tasks), Live(q) = {}, NEW u, Queued(q, u)
  PROVE  ~Armed(u)
BY DEF Live, Queued

\* Every step links exactly the tasks it parks, and unlinks the ones it claims.
LEMMA LinkStep ==
  ASSUME ChannelInv, [ChannelNext]_channelVars
  PROVE  LinkInv'
<1> USE DEF ChannelInv
<1>0. /\ takeq \in Seq(Tasks) /\ putq \in Seq(Tasks) /\ waitq \in Seq(Tasks)
      /\ Distinct(takeq) /\ Distinct(putq) /\ Distinct(waitq)
      /\ at \in [Tasks -> Places] /\ sz_max \in Nat
  BY DEF ChannelTypeOK, LinkInv
<1>1. ASSUME NEW t \in Tasks, PutThrow(t) PROVE LinkInv'
  <2>1. ~Queued(putq, t) /\ ~Queued(takeq, t) /\ ~Queued(waitq, t)
    BY <1>1, NotQueued DEF PutThrow, Enters, Parks
  <2>2. ASSUME NEW u \in Tasks PROVE Linked(u)'
    BY <1>0, <1>1, <2>1, WokenFacts, SMTT(30) DEF PutThrow, Goto, queues, Linked, LinkInv, Home,
       Armed, Parks
  <2> QED
    BY <1>0, <1>1, <2>2 DEF PutThrow, queues, LinkInv
<1>2. ASSUME NEW t \in Tasks, PutBuffer(t) PROVE LinkInv'
  <2>1. ~Queued(putq, t) /\ ~Queued(takeq, t) /\ ~Queued(waitq, t)
    BY <1>2, NotQueued DEF PutBuffer, Enters, Parks
  <2>2. ASSUME NEW u \in Tasks PROVE Linked(u)'
    BY <1>0, <1>2, <2>1, WokenFacts, AllFacts, NoneQueued DEF PutBuffer, Goto, queues,
       Linked, LinkInv, Home, Armed, Parks
  <2> QED
    BY <1>0, <1>2, <2>2, NoneQueued DEF PutBuffer, queues, LinkInv
<1>3. ASSUME NEW t \in Tasks, PutWaitFull(t) PROVE LinkInv'
  <2>1. ~Queued(putq, t) /\ ~Queued(takeq, t) /\ ~Queued(waitq, t)
    BY <1>3, NotQueued DEF PutWaitFull, Enters, Parks
  <2>2. \A u : Queued(Enqueue(putq, t), u) <=> Queued(putq, u) \/ (u = t /\ t \notin cancelled)
    BY <1>0, <2>1, EnqueueFacts
  <2>3. ASSUME NEW u \in Tasks PROVE Linked(u)'
    <3>1. wake'[u] = IF u \in {} THEN "value" ELSE IF u = t THEN "none" ELSE wake[u]
      BY <1>3, WokenFacts DEF PutWaitFull
    <3>2. CASE u = t
      BY <1>0, <1>3, <2>1, <2>2, <3>1, <3>2 DEF PutWaitFull, Goto, ParkAt, Refused,
         Linked, LinkInv, Home, Armed, Parks
    <3>3. CASE u # t
      BY <1>0, <1>3, <2>1, <2>2, <3>1, <3>3 DEF PutWaitFull, Goto, ParkAt, Linked,
         LinkInv, Home, Armed, Parks
    <3> QED
      BY <3>2, <3>3
  <2> QED
    BY <1>0, <1>3, <2>1, <2>3, EnqueueFacts DEF PutWaitFull, LinkInv
<1>4. ASSUME NEW t \in Tasks, PutWaitTaker(t) PROVE LinkInv'
  <2>1. ~Queued(putq, t) /\ ~Queued(takeq, t) /\ ~Queued(waitq, t)
    BY <1>4, NotQueued DEF PutWaitTaker, Enters, Parks
  <2>2. \A u : Queued(Enqueue(putq, t), u) <=> Queued(putq, u) \/ (u = t /\ t \notin cancelled)
    BY <1>0, <2>1, EnqueueFacts
  <2>3. ASSUME NEW u \in Tasks PROVE Linked(u)'
    <3>1. wake'[u] = IF u \in All(waitq) THEN "value" ELSE IF u = t THEN "none" ELSE wake[u]
      BY <1>4, WokenFacts DEF PutWaitTaker
    <3>2. CASE u = t
      BY <1>0, <1>4, <2>1, <2>2, <3>1, <3>2, AllFacts, NoLive, NoneQueued
         DEF PutWaitTaker, Goto, ParkAt, Refused, Linked, LinkInv, Home, Armed, Parks
    <3>3. CASE u # t
      BY <1>0, <1>4, <2>1, <2>2, <3>1, <3>3, AllFacts, NoLive, NoneQueued
         DEF PutWaitTaker, Goto, ParkAt, Linked, LinkInv, Home, Armed, Parks
    <3> QED
      BY <3>2, <3>3
  <2> QED
    BY <1>0, <1>4, <2>1, <2>3, EnqueueFacts, NoneQueued DEF PutWaitTaker, LinkInv
<1>5. ASSUME NEW t \in Tasks, PutClaim(t) PROVE LinkInv'
  <2>1. ~Queued(putq, t) /\ ~Queued(takeq, t) /\ ~Queued(waitq, t)
    BY <1>5, NotQueued DEF PutClaim, Enters, Parks
  <2>2. ASSUME NEW u \in Tasks PROVE Linked(u)'
    BY <1>0, <1>5, <2>1, WokenFacts, NotifyFacts DEF PutClaim, Goto, queues, Linked,
       LinkInv, Home, Armed, Parks
  <2> QED
    BY <1>0, <1>5, <2>2, NotifyFacts DEF PutClaim, queues, LinkInv
<1>6. ASSUME NEW t \in Tasks, Hand(t) PROVE LinkInv'
  <2>1. /\ give[t] \in Tasks /\ wake[give[t]] = "claimed" /\ at[give[t]] = "parkTake"
        /\ give[t] # t
    BY <1>6 DEF Hand, WakeInv
  <2>2. /\ ~Queued(putq, give[t]) /\ ~Queued(takeq, give[t]) /\ ~Queued(waitq, give[t])
        /\ ~Queued(putq, t) /\ ~Queued(takeq, t) /\ ~Queued(waitq, t)
    BY <1>6, <2>1, NotQueued DEF Hand, Parks
  <2>3. wake \in [Tasks -> {"none", "value", "claimed", "error", "cancel"}]
    BY DEF ChannelTypeOK
  <2>4. ASSUME NEW u \in Tasks PROVE Linked(u)'
    BY <1>0, <1>6, <2>1, <2>2, <2>3 DEF Hand, Goto, queues, Linked, LinkInv, Home, Armed,
       Parks
  <2> QED
    BY <1>0, <1>6, <2>4 DEF Hand, queues, LinkInv
<1>7. ASSUME NEW t \in Tasks, TakeItem(t) PROVE LinkInv'
  <2>1. ~Queued(putq, t) /\ ~Queued(takeq, t) /\ ~Queued(waitq, t)
    BY <1>7, NotQueued DEF TakeItem, Enters, Parks
  <2>2. ASSUME NEW u \in Tasks PROVE Linked(u)'
    BY <1>0, <1>7, <2>1, WokenFacts, NotifyFacts DEF TakeItem, Goto, queues, Linked,
       LinkInv, Home, Armed, Parks
  <2> QED
    BY <1>0, <1>7, <2>2, NotifyFacts DEF TakeItem, queues, LinkInv
<1>8. ASSUME NEW t \in Tasks, TakeWait(t) PROVE LinkInv'
  <2>1. ~Queued(putq, t) /\ ~Queued(takeq, t) /\ ~Queued(waitq, t)
    BY <1>8, NotQueued DEF TakeWait, Enters, Parks
  <2>2. \A u : Queued(Enqueue(takeq, t), u) <=> Queued(takeq, u) \/ (u = t /\ t \notin cancelled)
    BY <1>0, <2>1, EnqueueFacts
  <2>3. ASSUME NEW u \in Tasks PROVE Linked(u)'
    <3>1. wake'[u] = IF u \in {} THEN "value" ELSE IF u = t THEN "none" ELSE wake[u]
      BY <1>8, WokenFacts DEF TakeWait
    <3>2. CASE u = t
      BY <1>0, <1>8, <2>1, <2>2, <3>1, <3>2 DEF TakeWait, Goto, ParkAt, Refused, Linked,
         LinkInv, Home, Armed, Parks
    <3>3. CASE u # t
      BY <1>0, <1>8, <2>1, <2>2, <3>1, <3>3 DEF TakeWait, Goto, ParkAt, Linked, LinkInv,
         Home, Armed, Parks
    <3> QED
      BY <3>2, <3>3
  <2> QED
    BY <1>0, <1>8, <2>1, <2>3, EnqueueFacts DEF TakeWait, LinkInv
<1>9. ASSUME NEW t \in Tasks, TakeInvite(t) PROVE LinkInv'
  <2>1. ~Queued(putq, t) /\ ~Queued(takeq, t) /\ ~Queued(waitq, t)
    BY <1>9, NotQueued DEF TakeInvite, Enters, Parks
  <2>2. \A u : Queued(Enqueue(takeq, t), u) <=> Queued(takeq, u) \/ (u = t /\ t \notin cancelled)
    BY <1>0, <2>1, EnqueueFacts
  <2>3. ASSUME NEW u \in Tasks PROVE Linked(u)'
    <3>1. wake'[u] = IF u \in Notified(putq) THEN "value" ELSE IF u = t THEN "none" ELSE wake[u]
      BY <1>9, WokenFacts DEF TakeInvite
    <3>2. CASE u = t
      BY <1>0, <1>9, <2>1, <2>2, <3>1, <3>2, NotifyFacts DEF TakeInvite, Goto, ParkAt,
         Refused, Linked, LinkInv, Home, Armed, Parks
    <3>3. CASE u # t
      BY <1>0, <1>9, <2>1, <2>2, <3>1, <3>3, NotifyFacts DEF TakeInvite, Goto, ParkAt,
         Linked, LinkInv, Home, Armed, Parks
    <3> QED
      BY <3>2, <3>3
  <2> QED
    BY <1>0, <1>9, <2>1, <2>3, EnqueueFacts, NotifyFacts DEF TakeInvite, LinkInv
<1>10. ASSUME NEW t \in Tasks, TakeHanded(t) PROVE LinkInv'
  <2>1. ~Queued(putq, t) /\ ~Queued(takeq, t) /\ ~Queued(waitq, t)
    BY <1>10, NotQueued DEF TakeHanded, Enters, Parks
  <2>2. ASSUME NEW u \in Tasks PROVE Linked(u)'
    BY <1>0, <1>10, <2>1, WokenFacts DEF TakeHanded, Goto, queues, Linked, LinkInv, Home,
       Armed, Parks
  <2> QED
    BY <1>0, <1>10, <2>2 DEF TakeHanded, queues, LinkInv
<1>11. ASSUME NEW t \in Tasks, TakeThrow(t) PROVE LinkInv'
  <2>1. ~Queued(putq, t) /\ ~Queued(takeq, t) /\ ~Queued(waitq, t)
    BY <1>11, NotQueued DEF TakeThrow, Enters, Parks
  <2>2. ASSUME NEW u \in Tasks PROVE Linked(u)'
    <3>1. wake'[u] = IF u = t THEN "none" ELSE wake[u]
      BY <1>11, WokenFacts DEF TakeThrow, ThrowClosed
    <3>2. at' = [at EXCEPT ![t] = "idle"] /\ UNCHANGED <<takeq, putq, waitq, sz_max>>
      BY <1>11 DEF TakeThrow, Goto, ThrowClosed, queues
    <3> QED
      BY <1>0, <2>1, <3>1, <3>2 DEF Linked, LinkInv, Home, Armed, Parks
  <2> QED
    BY <1>0, <1>11, <2>2 DEF TakeThrow, queues, LinkInv
<1>12. ASSUME NEW t \in Tasks, Fetch(t) PROVE LinkInv'
  <2>1. ~Queued(putq, t) /\ ~Queued(takeq, t) /\ ~Queued(waitq, t)
    BY <1>12, NotQueued DEF Fetch, Enters, Parks
  <2>2. \A u : Queued(Enqueue(takeq, t), u) <=> Queued(takeq, u) \/ (u = t /\ t \notin cancelled)
    BY <1>0, <2>1, EnqueueFacts
  <2>3. ASSUME NEW u \in Tasks PROVE Linked(u)'
    <3>1. wake'[u] = IF u = t THEN "none" ELSE wake[u]
      BY <1>12, WokenFacts DEF Fetch
    <3>2. CASE u = t
      BY <1>0, <1>12, <2>1, <2>2, <3>1, <3>2 DEF Fetch, Goto, ParkAt, Refused, Linked,
         LinkInv, Home, Armed, Parks, Enters
    <3>3. CASE u # t
      BY <1>0, <1>12, <2>1, <2>2, <3>1, <3>3 DEF Fetch, Goto, ParkAt, Linked, LinkInv,
         Home, Armed, Parks
    <3> QED
      BY <3>2, <3>3
  <2> QED
    BY <1>0, <1>12, <2>1, <2>3, EnqueueFacts DEF Fetch, LinkInv
<1>13. ASSUME NEW t \in Tasks, Wait(t) PROVE LinkInv'
  <2>1. ~Queued(putq, t) /\ ~Queued(takeq, t) /\ ~Queued(waitq, t)
    BY <1>13, NotQueued DEF Wait, Enters, Parks
  <2>2. \A u : Queued(Enqueue(takeq, t), u) <=> Queued(takeq, u) \/ (u = t /\ t \notin cancelled)
    BY <1>0, <2>1, EnqueueFacts
  <2>3. \A u : Queued(Enqueue(waitq, t), u) <=> Queued(waitq, u) \/ (u = t /\ t \notin cancelled)
    BY <1>0, <2>1, EnqueueFacts
  <2>4. ASSUME NEW u \in Tasks PROVE Linked(u)'
    <3>1. wake'[u] = IF u = t THEN "none" ELSE wake[u]
      BY <1>13, WokenFacts DEF Wait
    <3>2. CASE u = t
      BY <1>0, <1>13, <2>1, <2>2, <2>3, <3>1, <3>2 DEF Wait, Goto, ParkAt, Refused,
         Linked, LinkInv, Home, Armed, Parks, Enters
    <3>3. CASE u # t
      BY <1>0, <1>13, <2>1, <2>2, <2>3, <3>1, <3>3 DEF Wait, Goto, ParkAt, Linked,
         LinkInv, Home, Armed, Parks
    <3> QED
      BY <3>2, <3>3
  <2> QED
    BY <1>0, <1>13, <2>1, <2>4, EnqueueFacts DEF Wait, LinkInv
<1>14. ASSUME NEW t \in Tasks, IterReady(t) PROVE LinkInv'
  <2>1. ~Queued(putq, t) /\ ~Queued(takeq, t) /\ ~Queued(waitq, t)
    BY <1>14, NotQueued DEF IterReady, Parks
  <2>2. ASSUME NEW u \in Tasks PROVE Linked(u)'
    BY <1>0, <1>14, <2>1 DEF IterReady, Goto, queues, Linked, LinkInv, Home, Armed, Parks
  <2> QED
    BY <1>0, <1>14, <2>2 DEF IterReady, queues, LinkInv
<1>15. ASSUME NEW t \in Tasks, ResumeError(t) PROVE LinkInv'
  <2>1. ~Queued(putq, t) /\ ~Queued(takeq, t) /\ ~Queued(waitq, t)
    BY <1>15, NotQueued DEF ResumeError, Enters, Parks
  <2>2. ASSUME NEW u \in Tasks PROVE Linked(u)'
    BY <1>0, <1>15, <2>1, WokenFacts DEF ResumeError, Goto, ThrowClosed, queues, Linked,
       LinkInv, Home, Armed, Parks
  <2> QED
    BY <1>0, <1>15, <2>2 DEF ResumeError, queues, LinkInv
<1>16. ASSUME NEW t \in Tasks, ResumeCancelled(t) PROVE LinkInv'
  <2>1. /\ \A u : Queued(Unlink(putq, t), u) <=> Queued(putq, u) /\ u # t
        /\ \A u : Queued(Unlink(takeq, t), u) <=> Queued(takeq, u) /\ u # t
        /\ \A u : Queued(Unlink(waitq, t), u) <=> Queued(waitq, u) /\ u # t
    BY <1>0, UnlinkFacts
  <2>2. ASSUME NEW u \in Tasks PROVE Linked(u)'
    <3>1. wake'[u] = IF u = t THEN "none" ELSE wake[u]
      BY <1>16, WokenFacts DEF ResumeCancelled
    <3> QED
      BY <1>0, <1>16, <2>1, <3>1 DEF ResumeCancelled, Goto, Linked, LinkInv, Home, Armed,
         Parks
  <2> QED
    BY <1>0, <1>16, <2>2, UnlinkFacts DEF ResumeCancelled, LinkInv
<1>17. ASSUME NEW t \in Tasks, Undo(t) PROVE LinkInv'
  <2>1. ~Queued(putq, t) /\ ~Queued(takeq, t) /\ ~Queued(waitq, t)
    BY <1>17, NotQueued DEF Undo, Parks
  <2>2. ASSUME NEW u \in Tasks PROVE Linked(u)'
    BY <1>0, <1>17, <2>1 DEF Undo, Goto, queues, Linked, LinkInv, Home, Armed, Parks
  <2> QED
    BY <1>0, <1>17, <2>2 DEF Undo, queues, LinkInv
<1>18. ASSUME NEW t \in Tasks, LockThrow(t) PROVE LinkInv'
  <2>1. ~Queued(putq, t) /\ ~Queued(takeq, t) /\ ~Queued(waitq, t)
    BY <1>18, NotQueued DEF LockThrow, Parks, Entries
  <2>2. ASSUME NEW u \in Tasks PROVE Linked(u)'
    BY <1>0, <1>18, <2>1 DEF LockThrow, Goto, Entries, queues, Linked, LinkInv, Home,
       Armed, Parks
  <2> QED
    BY <1>0, <1>18, <2>2 DEF LockThrow, queues, LinkInv
<1>19. ASSUME NEW t \in Tasks, Begin(t) PROVE LinkInv'
  <2>1. ~Queued(putq, t) /\ ~Queued(takeq, t) /\ ~Queued(waitq, t)
    BY <1>19, NotQueued DEF Begin, Parks
  <2>2. ASSUME NEW u \in Tasks PROVE Linked(u)'
    BY <1>0, <1>19, <2>1 DEF Begin, Goto, queues, Linked, LinkInv, Home, Armed, Parks
  <2> QED
    BY <1>0, <1>19, <2>2 DEF Begin, queues, LinkInv
<1>20. ASSUME NEW t \in Tasks, Cancel(t) PROVE LinkInv'
  <2>1. wake \in [Tasks -> {"none", "value", "claimed", "error", "cancel"}]
    BY DEF ChannelTypeOK
  <2>2. ASSUME NEW u \in Tasks PROVE Linked(u)'
    BY <1>0, <1>20, <2>1 DEF Cancel, queues, Linked, LinkInv, Home, Armed, Parks
  <2> QED
    BY <1>0, <1>20, <2>2 DEF Cancel, queues, LinkInv
<1>21. CASE Close
  <2>1. ASSUME NEW u \in Tasks PROVE Linked(u)'
    BY <1>0, <1>21, WokenFacts, AllFacts, NoneQueued, ChannelAssumption DEF Close, queues,
       Linked, LinkInv, Home, Armed, Parks
  <2> QED
    BY <1>0, <1>21, <2>1, NoneQueued DEF Close, queues, LinkInv
<1>22. CASE Empty
  <2>1. ASSUME NEW u \in Tasks PROVE Linked(u)'
    BY <1>0, <1>22, WokenFacts, AllFacts, NoneQueued, ChannelAssumption DEF Empty, queues,
       Linked, LinkInv, Home, Armed, Parks
  <2> QED
    BY <1>0, <1>22, <2>1, NoneQueued DEF Empty, queues, LinkInv
<1>23. CASE UNCHANGED channelVars
  BY <1>23 DEF channelVars, LinkInv, Linked, Home, Armed
<1> QED
  BY <1>1, <1>2, <1>3, <1>4, <1>5, <1>6, <1>7, <1>8, <1>9, <1>10, <1>11, <1>12, <1>13,
     <1>14, <1>15, <1>16, <1>17, <1>18, <1>19, <1>20, <1>21, <1>22, <1>23 DEF ChannelNext,
     Run

\* The state a step leaves when it claims waiters and resumes one.
LEMMA WokenType ==
  ASSUME ChannelTypeOK, NEW S, NEW how \in {"none", "value", "claimed", "error", "cancel"}, NEW t
  PROVE  Woken(S, how, t) \in [Tasks -> {"none", "value", "claimed", "error", "cancel"}]
BY DEF Woken, ChannelTypeOK

\* The type invariant is preserved by every step.
LEMMA ChannelTypeStep ==
  ASSUME ChannelInv, [ChannelNext]_channelVars
  PROVE  ChannelTypeOK'
<1> USE DEF ChannelInv
<1>0. /\ takeq \in Seq(Tasks) /\ putq \in Seq(Tasks) /\ waitq \in Seq(Tasks)
      /\ Distinct(takeq) /\ Distinct(putq) /\ Distinct(waitq)
  BY DEF ChannelTypeOK, LinkInv
<1>1. ASSUME NEW t \in Tasks, PutThrow(t) PROVE ChannelTypeOK'
  <2>1. wake' \in [Tasks -> {"none", "value", "claimed", "error", "cancel"}]
    BY <1>1, WokenType DEF PutThrow
  <2>2. at' \in [Tasks -> Places]
    BY <1>1 DEF PutThrow, Goto, ChannelTypeOK, Places, Parks, Entries
  <2> QED
    BY <1>0, <1>1, <2>1, <2>2 DEF PutThrow, Counted, queues, ChannelTypeOK
<1>2. ASSUME NEW t \in Tasks, PutBuffer(t) PROVE ChannelTypeOK'
  <2>1. takeq' \in Seq(Tasks)
    BY <1>0, <1>2, NoneQueued DEF PutBuffer
  <2>2. wake' \in [Tasks -> {"none", "value", "claimed", "error", "cancel"}]
    BY <1>2, WokenType DEF PutBuffer
  <2>3. at' \in [Tasks -> Places]
    BY <1>2 DEF PutBuffer, Goto, ChannelTypeOK, Places, Parks, Entries
  <2> QED
    BY <1>0, <1>2, <2>1, <2>2, <2>3 DEF PutBuffer, Counted, queues, ChannelTypeOK
<1>3. ASSUME NEW t \in Tasks, PutWaitFull(t) PROVE ChannelTypeOK'
  <2>1. ~Queued(putq, t) /\ ~Queued(takeq, t) /\ ~Queued(waitq, t)
    BY <1>3, NotQueued DEF PutWaitFull, Enters, Parks
  <2>2. putq' \in Seq(Tasks)
    BY <1>0, <1>3, <2>1, EnqueueFacts DEF PutWaitFull
  <2>3. wake' \in [Tasks -> {"none", "value", "claimed", "error", "cancel"}]
    BY <1>3, WokenType DEF PutWaitFull
  <2>4. at' \in [Tasks -> Places]
    BY <1>3 DEF PutWaitFull, Goto, ChannelTypeOK, Places, Parks, Entries, ParkAt
  <2> QED
    BY <1>0, <1>3, <2>2, <2>3, <2>4 DEF PutWaitFull, Counted, queues, ChannelTypeOK
<1>4. ASSUME NEW t \in Tasks, PutWaitTaker(t) PROVE ChannelTypeOK'
  <2>1. ~Queued(putq, t) /\ ~Queued(takeq, t) /\ ~Queued(waitq, t)
    BY <1>4, NotQueued DEF PutWaitTaker, Enters, Parks
  <2>2. putq' \in Seq(Tasks) /\ takeq' \in Seq(Tasks) /\ waitq' \in Seq(Tasks)
    BY <1>0, <1>4, <2>1, EnqueueFacts, NoneQueued DEF PutWaitTaker
  <2>3. wake' \in [Tasks -> {"none", "value", "claimed", "error", "cancel"}]
    BY <1>4, WokenType DEF PutWaitTaker
  <2>4. at' \in [Tasks -> Places]
    BY <1>4 DEF PutWaitTaker, Goto, ChannelTypeOK, Places, Parks, Entries, ParkAt
  <2> QED
    BY <1>0, <1>4, <2>2, <2>3, <2>4 DEF PutWaitTaker, Counted, queues, ChannelTypeOK
<1>5. ASSUME NEW t \in Tasks, PutClaim(t) PROVE ChannelTypeOK'
  <2>1. takeq' \in Seq(Tasks)
    BY <1>0, <1>5, NotifyFacts DEF PutClaim
  <2>2. wake' \in [Tasks -> {"none", "value", "claimed", "error", "cancel"}]
    BY <1>5, WokenType DEF PutClaim
  <2>3. at' \in [Tasks -> Places]
    BY <1>5 DEF PutClaim, Goto, ChannelTypeOK, Places, Parks, Entries
  <2>4. give' \in [Tasks -> Tasks \cup {NoTask}]
    <3>1. PICK u \in Notified(takeq) : give' = [give EXCEPT ![t] = u]
      BY <1>5 DEF PutClaim
    <3>2. u \in Tasks
      BY <1>0, <3>1, NotifyFacts
    <3> QED
      BY <3>1, <3>2 DEF ChannelTypeOK
  <2>5. navail' \in Int
    BY <1>5 DEF PutClaim, Counted, ChannelTypeOK
  <2>6. UNCHANGED <<state, data, putq, waitq, iter, cancelled, ops, ended, sz_max>>
    BY <1>5 DEF PutClaim
  <2> QED
    BY <2>1, <2>2, <2>3, <2>4, <2>5, <2>6 DEF ChannelTypeOK
<1>6. ASSUME NEW t \in Tasks, Hand(t) PROVE ChannelTypeOK'
  <2>1. at' \in [Tasks -> Places]
    BY <1>6 DEF Hand, Goto, ChannelTypeOK, Places, Parks, Entries
  <2> QED
    BY <1>0, <1>6, <2>1 DEF Hand, queues, ChannelTypeOK
<1>7. ASSUME NEW t \in Tasks, TakeItem(t) PROVE ChannelTypeOK'
  <2>1. putq' \in Seq(Tasks)
    BY <1>0, <1>7, NotifyFacts DEF TakeItem
  <2>2. wake' \in [Tasks -> {"none", "value", "claimed", "error", "cancel"}]
    BY <1>7, WokenType DEF TakeItem
  <2>3. at' \in [Tasks -> Places]
    BY <1>7 DEF TakeItem, Goto, ChannelTypeOK, Places, Parks, Entries
  <2>4. data' \in Seq(Tasks)
    <3> data \in Seq(Tasks) /\ data # <<>> /\ data' = Tail(data)
      BY <1>7 DEF TakeItem, ChannelTypeOK
    <3> QED
      OBVIOUS
  <2>5. navail' \in Int /\ iter' \in [Tasks -> BOOLEAN]
    BY <1>7 DEF TakeItem, ChannelTypeOK
  <2>6. UNCHANGED <<state, takeq, waitq, give, cancelled, ops, ended, sz_max>>
    BY <1>7 DEF TakeItem
  <2> QED
    BY <2>1, <2>2, <2>3, <2>4, <2>5, <2>6 DEF ChannelTypeOK
<1>8. ASSUME NEW t \in Tasks, TakeWait(t) PROVE ChannelTypeOK'
  <2>1. ~Queued(putq, t) /\ ~Queued(takeq, t) /\ ~Queued(waitq, t)
    BY <1>8, NotQueued DEF TakeWait, Enters, Parks
  <2>2. takeq' \in Seq(Tasks)
    BY <1>0, <1>8, <2>1, EnqueueFacts DEF TakeWait
  <2>3. wake' \in [Tasks -> {"none", "value", "claimed", "error", "cancel"}]
    BY <1>8, WokenType DEF TakeWait
  <2>4. at' \in [Tasks -> Places]
    BY <1>8 DEF TakeWait, Goto, ChannelTypeOK, Places, Parks, Entries, ParkAt
  <2> QED
    BY <1>0, <1>8, <2>2, <2>3, <2>4 DEF TakeWait, queues, ChannelTypeOK
<1>9. ASSUME NEW t \in Tasks, TakeInvite(t) PROVE ChannelTypeOK'
  <2>1. ~Queued(putq, t) /\ ~Queued(takeq, t) /\ ~Queued(waitq, t)
    BY <1>9, NotQueued DEF TakeInvite, Enters, Parks
  <2>2. putq' \in Seq(Tasks) /\ takeq' \in Seq(Tasks)
    BY <1>0, <1>9, <2>1, EnqueueFacts, NotifyFacts DEF TakeInvite
  <2>3. wake' \in [Tasks -> {"none", "value", "claimed", "error", "cancel"}]
    BY <1>9, WokenType DEF TakeInvite
  <2>4. at' \in [Tasks -> Places]
    BY <1>9 DEF TakeInvite, Goto, ChannelTypeOK, Places, Parks, Entries, ParkAt
  <2> QED
    BY <1>0, <1>9, <2>2, <2>3, <2>4 DEF TakeInvite, queues, ChannelTypeOK
<1>10. ASSUME NEW t \in Tasks, TakeHanded(t) PROVE ChannelTypeOK'
  <2>1. wake' \in [Tasks -> {"none", "value", "claimed", "error", "cancel"}]
    BY <1>10, WokenType DEF TakeHanded
  <2>2. at' \in [Tasks -> Places]
    BY <1>10 DEF TakeHanded, Goto, ChannelTypeOK, Places, Parks, Entries
  <2> QED
    BY <1>0, <1>10, <2>1, <2>2 DEF TakeHanded, queues, ChannelTypeOK
<1>11. ASSUME NEW t \in Tasks, TakeThrow(t) PROVE ChannelTypeOK'
  <2>1. wake' \in [Tasks -> {"none", "value", "claimed", "error", "cancel"}]
    BY <1>11, WokenType DEF TakeThrow, ThrowClosed
  <2>2. at' \in [Tasks -> Places]
    BY <1>11 DEF TakeThrow, Goto, ChannelTypeOK, Places, Parks, Entries, ThrowClosed
  <2> QED
    BY <1>0, <1>11, <2>1, <2>2 DEF TakeThrow, ThrowClosed, queues, ChannelTypeOK
<1>12. ASSUME NEW t \in Tasks, Fetch(t) PROVE ChannelTypeOK'
  <2>1. ~Queued(putq, t) /\ ~Queued(takeq, t) /\ ~Queued(waitq, t)
    BY <1>12, NotQueued DEF Fetch, Enters, Parks
  <2>2. takeq' \in Seq(Tasks)
    BY <1>0, <1>12, <2>1, EnqueueFacts DEF Fetch
  <2>3. wake' \in [Tasks -> {"none", "value", "claimed", "error", "cancel"}]
    BY <1>12, WokenType DEF Fetch
  <2>4. at' \in [Tasks -> Places]
    BY <1>12 DEF Fetch, Goto, ChannelTypeOK, Places, Parks, Entries, ParkAt
  <2> QED
    BY <1>0, <1>12, <2>2, <2>3, <2>4 DEF Fetch, queues, ChannelTypeOK
<1>13. ASSUME NEW t \in Tasks, Wait(t) PROVE ChannelTypeOK'
  <2>1. ~Queued(putq, t) /\ ~Queued(takeq, t) /\ ~Queued(waitq, t)
    BY <1>13, NotQueued DEF Wait, Enters, Parks
  <2>2. takeq' \in Seq(Tasks) /\ waitq' \in Seq(Tasks)
    BY <1>0, <1>13, <2>1, EnqueueFacts DEF Wait
  <2>3. wake' \in [Tasks -> {"none", "value", "claimed", "error", "cancel"}]
    BY <1>13, WokenType DEF Wait
  <2>4. at' \in [Tasks -> Places]
    BY <1>13 DEF Wait, Goto, ChannelTypeOK, Places, Parks, Entries, ParkAt
  <2> QED
    BY <1>0, <1>13, <2>2, <2>3, <2>4 DEF Wait, queues, ChannelTypeOK
<1>14. ASSUME NEW t \in Tasks, IterReady(t) PROVE ChannelTypeOK'
  <2>1. at' \in [Tasks -> Places]
    BY <1>14 DEF IterReady, Goto, ChannelTypeOK, Places, Parks, Entries
  <2> QED
    BY <1>0, <1>14, <2>1 DEF IterReady, queues, ChannelTypeOK
<1>15. ASSUME NEW t \in Tasks, ResumeError(t) PROVE ChannelTypeOK'
  <2>1. wake' \in [Tasks -> {"none", "value", "claimed", "error", "cancel"}]
    BY <1>15, WokenType DEF ResumeError, ThrowClosed
  <2>2. at' \in [Tasks -> Places]
    BY <1>15 DEF ResumeError, Goto, ChannelTypeOK, Places, Parks, Entries, ThrowClosed
  <2> QED
    BY <1>0, <1>15, <2>1, <2>2 DEF ResumeError, ThrowClosed, queues, ChannelTypeOK
<1>16. ASSUME NEW t \in Tasks, ResumeCancelled(t) PROVE ChannelTypeOK'
  <2>1. putq' \in Seq(Tasks) /\ takeq' \in Seq(Tasks) /\ waitq' \in Seq(Tasks)
    BY <1>0, <1>16, UnlinkFacts DEF ResumeCancelled
  <2>2. wake' \in [Tasks -> {"none", "value", "claimed", "error", "cancel"}]
    BY <1>16, WokenType DEF ResumeCancelled
  <2>3. at' \in [Tasks -> Places]
    BY <1>16 DEF ResumeCancelled, Goto, ChannelTypeOK, Places, Parks, Entries
  <2> QED
    BY <1>0, <1>16, <2>1, <2>2, <2>3 DEF ResumeCancelled, queues, ChannelTypeOK
<1>17. ASSUME NEW t \in Tasks, Undo(t) PROVE ChannelTypeOK'
  <2>1. at' \in [Tasks -> Places]
    BY <1>17 DEF Undo, Goto, ChannelTypeOK, Places, Parks, Entries
  <2> QED
    BY <1>0, <1>17, <2>1 DEF Undo, queues, ChannelTypeOK
<1>18. ASSUME NEW t \in Tasks, LockThrow(t) PROVE ChannelTypeOK'
  <2>1. at' \in [Tasks -> Places]
    BY <1>18 DEF LockThrow, Goto, ChannelTypeOK, Places, Parks, Entries
  <2> QED
    BY <1>0, <1>18, <2>1 DEF LockThrow, queues, ChannelTypeOK
<1>19. ASSUME NEW t \in Tasks, Begin(t) PROVE ChannelTypeOK'
  <2>1. at' \in [Tasks -> Places]
    BY <1>19 DEF Begin, Goto, ChannelTypeOK, Places, Parks, Entries
  <2>2. ops' \in [Tasks -> Nat] /\ iter' \in [Tasks -> BOOLEAN]
    <3>1. iter' = iter \/ iter' = [iter EXCEPT ![t] = TRUE]
      BY <1>19, Zenon DEF Begin
    <3>2. ops' = [ops EXCEPT ![t] = @ + 1]
      BY <1>19 DEF Begin
    <3>3. ops \in [Tasks -> Nat] /\ iter \in [Tasks -> BOOLEAN]
      BY DEF ChannelTypeOK
    <3>4. ops' \in [Tasks -> Nat]
      BY <3>2, <3>3
    <3>5. CASE iter' = [iter EXCEPT ![t] = TRUE]
      BY <3>3, <3>4, <3>5
    <3> QED
      BY <3>1, <3>3, <3>4, <3>5
  <2>3. UNCHANGED <<state, data, navail, queues, wake, give, cancelled, ended, sz_max>>
    BY <1>19 DEF Begin
  <2> QED
    BY <2>1, <2>2, <2>3 DEF queues, ChannelTypeOK
<1>20. ASSUME NEW t \in Tasks, Cancel(t) PROVE ChannelTypeOK'
  <2>1. at' \in [Tasks -> Places]
    BY <1>20 DEF Cancel, Goto, ChannelTypeOK, Places, Parks, Entries
  <2> QED
    BY <1>0, <1>20, <2>1 DEF Cancel, queues, ChannelTypeOK
<1>21. CASE Close
  <2>1. wake' \in [Tasks -> {"none", "value", "claimed", "error", "cancel"}]
    BY <1>21, WokenType DEF Close
  <2> QED
    BY <1>21, <2>1, NoneQueued DEF Close, queues, ChannelTypeOK
<1>22. CASE Empty
  <2>1. wake' \in [Tasks -> {"none", "value", "claimed", "error", "cancel"}]
    BY <1>22, WokenType DEF Empty
  <2> QED
    BY <1>22, <2>1, NoneQueued DEF Empty, queues, ChannelTypeOK
<1>23. CASE UNCHANGED channelVars
  BY <1>23 DEF channelVars, ChannelTypeOK
<1> QED
  BY <1>1, <1>2, <1>3, <1>4, <1>5, <1>6, <1>7, <1>8, <1>9, <1>10, <1>11, <1>12, <1>13,
     <1>14, <1>15, <1>16, <1>17, <1>18, <1>19, <1>20, <1>21, <1>22, <1>23 DEF ChannelNext,
     Run

-----------------------------------------------------------------------------
(* Claims.                                                                   *)

\* Every step claims armed waiters only, and only the claimed task or the put!
\* that claimed it touches a claim again.
LEMMA WakeStep ==
  ASSUME ChannelInv, [ChannelNext]_channelVars
  PROVE  WakeInv'
<1> USE DEF ChannelInv
<1>0. /\ takeq \in Seq(Tasks) /\ putq \in Seq(Tasks) /\ waitq \in Seq(Tasks)
      /\ Distinct(takeq) /\ Distinct(putq) /\ Distinct(waitq)
      /\ at \in [Tasks -> Places] /\ sz_max \in Nat
      /\ give \in [Tasks -> Tasks \cup {NoTask}]
      /\ wake \in [Tasks -> {"none", "value", "claimed", "error", "cancel"}]
  BY DEF ChannelTypeOK, LinkInv
<1>1. ASSUME NEW t \in Tasks, PutThrow(t) PROVE WakeInv'
  <2>1. ASSUME NEW u \in Tasks
        PROVE  wake'[u] = IF u = t THEN "none" ELSE wake[u]
    BY <1>1, WokenFacts DEF PutThrow
  <2>2. give' = give /\ state' = state
    BY <1>1 DEF PutThrow
  <2>3. /\ at[t] # "hand" /\ at'[t] # "hand" /\ wake[t] # "claimed" /\ ~Armed(t)
        /\ \A u \in Tasks : u # t => at'[u] = at[u]
    BY <1>0, <1>1 DEF PutThrow, Enters, Goto, WakeInv, Armed, Parks
  <2> QED
    BY <1>0, <2>1, <2>2, <2>3 DEF WakeInv, Armed, Parks
<1>2. ASSUME NEW t \in Tasks, PutBuffer(t) PROVE WakeInv'
  <2>1. \A u \in All(takeq) : u \in Tasks /\ Armed(u)
    BY <1>0, AllFacts
  <2>2. ASSUME NEW u \in Tasks
        PROVE  wake'[u] = IF u \in All(takeq) THEN "value" ELSE IF u = t THEN "none" ELSE wake[u]
    BY <1>2, WokenFacts DEF PutBuffer
  <2>3. give' = give /\ state' = state
    BY <1>2 DEF PutBuffer
  <2>4. /\ at[t] # "hand" /\ at'[t] # "hand" /\ wake[t] # "claimed" /\ ~Armed(t)
        /\ \A u \in Tasks : u # t => at'[u] = at[u]
    BY <1>0, <1>2 DEF PutBuffer, Enters, Goto, WakeInv, Armed, Parks
  <2> QED
    BY <1>0, <2>1, <2>2, <2>3, <2>4 DEF WakeInv, Armed, Parks
<1>3. ASSUME NEW t \in Tasks, PutWaitFull(t) PROVE WakeInv'
  <2>1. ASSUME NEW u \in Tasks
        PROVE  wake'[u] = IF u = t THEN "none" ELSE wake[u]
    BY <1>3, WokenFacts DEF PutWaitFull
  <2>2. give' = give /\ state' = state
    BY <1>3 DEF PutWaitFull
  <2>3. /\ at[t] # "hand" /\ at'[t] # "hand" /\ wake[t] # "claimed" /\ ~Armed(t)
        /\ \A u \in Tasks : u # t => at'[u] = at[u]
    BY <1>0, <1>3 DEF PutWaitFull, Enters, Goto, ParkAt, WakeInv, Armed, Parks
  <2> QED
    BY <1>0, <2>1, <2>2, <2>3 DEF WakeInv, Armed, Parks
<1>4. ASSUME NEW t \in Tasks, PutWaitTaker(t) PROVE WakeInv'
  <2>1. \A u \in All(waitq) : u \in Tasks /\ Armed(u)
    BY <1>0, AllFacts
  <2>2. ASSUME NEW u \in Tasks
        PROVE  wake'[u] = IF u \in All(waitq) THEN "value" ELSE IF u = t THEN "none" ELSE wake[u]
    BY <1>4, WokenFacts DEF PutWaitTaker
  <2>3. give' = give /\ state' = state
    BY <1>4 DEF PutWaitTaker
  <2>4. /\ at[t] # "hand" /\ at'[t] # "hand" /\ wake[t] # "claimed" /\ ~Armed(t)
        /\ \A u \in Tasks : u # t => at'[u] = at[u]
    BY <1>0, <1>4 DEF PutWaitTaker, Enters, Goto, ParkAt, WakeInv, Armed, Parks
  <2> QED
    BY <1>0, <2>1, <2>2, <2>3, <2>4 DEF WakeInv, Armed, Parks
<1>5. ASSUME NEW t \in Tasks, PutClaim(t) PROVE WakeInv'
  BY <1>0, <1>5, NotifyFacts, WokenFacts DEF PutClaim, Goto, Enters, WakeInv, Linked,
     LinkInv, Armed, Parks, queues
<1>6. ASSUME NEW t \in Tasks, Hand(t) PROVE WakeInv'
  BY <1>0, <1>6, NotifyFacts, WokenFacts DEF Hand, Goto, Enters, WakeInv, Linked, LinkInv,
     Armed, Parks, queues
<1>7. ASSUME NEW t \in Tasks, TakeItem(t) PROVE WakeInv'
  <2>1. \A u \in Notified(putq) : u \in Tasks /\ Armed(u)
    BY <1>0, NotifyFacts
  <2>2. ASSUME NEW u \in Tasks
        PROVE  wake'[u] = IF u \in Notified(putq) THEN "value" ELSE IF u = t THEN "none" ELSE wake[u]
    BY <1>7, WokenFacts DEF TakeItem
  <2>3. give' = give /\ state' = state
    BY <1>7 DEF TakeItem
  <2>4. /\ at[t] # "hand" /\ at'[t] # "hand" /\ wake[t] # "claimed" /\ ~Armed(t)
        /\ \A u \in Tasks : u # t => at'[u] = at[u]
    BY <1>0, <1>7 DEF TakeItem, Enters, Goto, WakeInv, Armed, Parks
  <2> QED
    BY <1>0, <2>1, <2>2, <2>3, <2>4 DEF WakeInv, Armed, Parks
<1>8. ASSUME NEW t \in Tasks, TakeWait(t) PROVE WakeInv'
  <2>1. ASSUME NEW u \in Tasks
        PROVE  wake'[u] = IF u = t THEN "none" ELSE wake[u]
    BY <1>8, WokenFacts DEF TakeWait
  <2>2. give' = give /\ state' = state
    BY <1>8 DEF TakeWait
  <2>3. /\ at[t] # "hand" /\ at'[t] # "hand" /\ wake[t] # "claimed" /\ ~Armed(t)
        /\ \A u \in Tasks : u # t => at'[u] = at[u]
    BY <1>0, <1>8 DEF TakeWait, Enters, Goto, ParkAt, WakeInv, Armed, Parks
  <2> QED
    BY <1>0, <2>1, <2>2, <2>3 DEF WakeInv, Armed, Parks
<1>9. ASSUME NEW t \in Tasks, TakeInvite(t) PROVE WakeInv'
  <2>1. \A u \in Notified(putq) : u \in Tasks /\ Armed(u)
    BY <1>0, NotifyFacts
  <2>2. ASSUME NEW u \in Tasks
        PROVE  wake'[u] = IF u \in Notified(putq) THEN "value" ELSE IF u = t THEN "none" ELSE wake[u]
    BY <1>9, WokenFacts DEF TakeInvite
  <2>3. give' = give /\ state' = state
    BY <1>9 DEF TakeInvite
  <2>4. /\ at[t] # "hand" /\ at'[t] # "hand" /\ wake[t] # "claimed" /\ ~Armed(t)
        /\ \A u \in Tasks : u # t => at'[u] = at[u]
    BY <1>0, <1>9 DEF TakeInvite, Enters, Goto, ParkAt, WakeInv, Armed, Parks
  <2> QED
    BY <1>0, <2>1, <2>2, <2>3, <2>4 DEF WakeInv, Armed, Parks
<1>10. ASSUME NEW t \in Tasks, TakeHanded(t) PROVE WakeInv'
  <2>1. ASSUME NEW u \in Tasks
        PROVE  wake'[u] = IF u = t THEN "none" ELSE wake[u]
    BY <1>10, WokenFacts DEF TakeHanded
  <2>2. give' = give /\ state' = state
    BY <1>10 DEF TakeHanded
  <2>3. /\ at[t] # "hand" /\ at'[t] # "hand" /\ wake[t] # "claimed" /\ ~Armed(t)
        /\ \A u \in Tasks : u # t => at'[u] = at[u]
    BY <1>0, <1>10 DEF TakeHanded, Enters, Goto, WakeInv, Armed, Parks
  <2> QED
    BY <1>0, <2>1, <2>2, <2>3 DEF WakeInv, Armed, Parks
<1>11. ASSUME NEW t \in Tasks, TakeThrow(t) PROVE WakeInv'
  <2>1. ASSUME NEW u \in Tasks
        PROVE  wake'[u] = IF u = t THEN "none" ELSE wake[u]
    BY <1>11, WokenFacts DEF TakeThrow, ThrowClosed
  <2>2. give' = give /\ state' = state
    BY <1>11 DEF TakeThrow
  <2>3. /\ at[t] # "hand" /\ at'[t] # "hand" /\ wake[t] # "claimed" /\ ~Armed(t)
        /\ \A u \in Tasks : u # t => at'[u] = at[u]
    BY <1>0, <1>11 DEF TakeThrow, Enters, Goto, ThrowClosed, WakeInv, Armed, Parks
  <2> QED
    BY <1>0, <2>1, <2>2, <2>3 DEF WakeInv, Armed, Parks
<1>12. ASSUME NEW t \in Tasks, Fetch(t) PROVE WakeInv'
  <2>1. ASSUME NEW u \in Tasks
        PROVE  wake'[u] = IF u = t THEN "none" ELSE wake[u]
    BY <1>12, WokenFacts DEF Fetch
  <2>2. give' = give /\ state' = state
    BY <1>12 DEF Fetch
  <2>3. /\ at[t] # "hand" /\ at'[t] # "hand" /\ wake[t] # "claimed" /\ ~Armed(t)
        /\ \A u \in Tasks : u # t => at'[u] = at[u]
    BY <1>0, <1>12 DEF Fetch, Enters, Goto, ParkAt, WakeInv, Armed, Parks
  <2> QED
    BY <1>0, <2>1, <2>2, <2>3 DEF WakeInv, Armed, Parks
<1>13. ASSUME NEW t \in Tasks, Wait(t) PROVE WakeInv'
  <2>1. ASSUME NEW u \in Tasks
        PROVE  wake'[u] = IF u = t THEN "none" ELSE wake[u]
    BY <1>13, WokenFacts DEF Wait
  <2>2. give' = give /\ state' = state
    BY <1>13 DEF Wait
  <2>3. /\ at[t] # "hand" /\ at'[t] # "hand" /\ wake[t] # "claimed" /\ ~Armed(t)
        /\ \A u \in Tasks : u # t => at'[u] = at[u]
    BY <1>0, <1>13 DEF Wait, Enters, Goto, ParkAt, WakeInv, Armed, Parks
  <2> QED
    BY <1>0, <2>1, <2>2, <2>3 DEF WakeInv, Armed, Parks
<1>14. ASSUME NEW t \in Tasks, IterReady(t) PROVE WakeInv'
  <2>1. give' = give /\ state' = state /\ wake' = wake
    BY <1>14 DEF IterReady
  <2>2. /\ at[t] # "hand" /\ at'[t] # "hand" /\ wake[t] = "none"
        /\ \A u \in Tasks : u # t => at'[u] = at[u]
    BY <1>0, <1>14 DEF IterReady, Enters, Goto, WakeInv, Armed, Parks
  <2> QED
    BY <1>0, <2>1, <2>2 DEF WakeInv, Parks
<1>15. ASSUME NEW t \in Tasks, ResumeError(t) PROVE WakeInv'
  <2>1. ASSUME NEW u \in Tasks
        PROVE  wake'[u] = IF u = t THEN "none" ELSE wake[u]
    BY <1>15, WokenFacts DEF ResumeError, ThrowClosed
  <2>2. give' = give /\ state' = state
    BY <1>15 DEF ResumeError
  <2>3. /\ at[t] # "hand" /\ at'[t] # "hand" /\ wake[t] # "claimed" /\ ~Armed(t)
        /\ \A u \in Tasks : u # t => at'[u] = at[u]
    BY <1>0, <1>15 DEF ResumeError, Enters, Goto, ThrowClosed, WakeInv, Armed, Parks
  <2> QED
    BY <1>0, <2>1, <2>2, <2>3 DEF WakeInv, Armed, Parks
<1>16. ASSUME NEW t \in Tasks, ResumeCancelled(t) PROVE WakeInv'
  <2>1. ASSUME NEW u \in Tasks
        PROVE  wake'[u] = IF u = t THEN "none" ELSE wake[u]
    BY <1>16, WokenFacts DEF ResumeCancelled
  <2>2. give' = give /\ state' = state
    BY <1>16 DEF ResumeCancelled
  <2>3. /\ at[t] # "hand" /\ at'[t] # "hand" /\ wake[t] # "claimed" /\ ~Armed(t)
        /\ \A u \in Tasks : u # t => at'[u] = at[u]
    BY <1>0, <1>16 DEF ResumeCancelled, Enters, Goto, WakeInv, Armed, Parks
  <2> QED
    BY <1>0, <2>1, <2>2, <2>3 DEF WakeInv, Armed, Parks
<1>17. ASSUME NEW t \in Tasks, Undo(t) PROVE WakeInv'
  <2>1. give' = give /\ state' = state /\ wake' = wake
    BY <1>17 DEF Undo
  <2>2. /\ at[t] # "hand" /\ at'[t] # "hand" /\ wake[t] = "none"
        /\ \A u \in Tasks : u # t => at'[u] = at[u]
    BY <1>0, <1>17 DEF Undo, Enters, Goto, WakeInv, Armed, Parks
  <2> QED
    BY <1>0, <2>1, <2>2 DEF WakeInv, Parks
<1>18. ASSUME NEW t \in Tasks, LockThrow(t) PROVE WakeInv'
  <2>1. give' = give /\ state' = state /\ wake' = wake
    BY <1>18 DEF LockThrow
  <2>2. /\ at[t] # "hand" /\ at'[t] # "hand" /\ wake[t] = "none"
        /\ \A u \in Tasks : u # t => at'[u] = at[u]
    BY <1>0, <1>18 DEF LockThrow, Enters, Goto, Entries, WakeInv, Armed, Parks
  <2> QED
    BY <1>0, <2>1, <2>2 DEF WakeInv, Parks
<1>19. ASSUME NEW t \in Tasks, Begin(t) PROVE WakeInv'
  <2>1. give' = give /\ state' = state /\ wake' = wake
    BY <1>19 DEF Begin
  <2>2. /\ at[t] # "hand" /\ at'[t] # "hand" /\ wake[t] = "none"
        /\ \A u \in Tasks : u # t => at'[u] = at[u]
    BY <1>0, <1>19 DEF Begin, Enters, Goto, WakeInv, Armed, Parks
  <2> QED
    BY <1>0, <2>1, <2>2 DEF WakeInv, Parks
<1>20. ASSUME NEW t \in Tasks, Cancel(t) PROVE WakeInv'
  BY <1>0, <1>20, NotifyFacts, WokenFacts DEF Cancel, Goto, Enters, WakeInv, Linked,
     LinkInv, Armed, Parks, queues
<1>21. CASE Close
  <2>1. \A u \in Tasks : Armed(u) <=> wake[u] = "none" /\ at[u] \in Parks
    BY DEF Armed
  <2> QED
    BY <1>0, <1>21, <2>1, WokenFacts, AllFacts, ChannelAssumption DEF Close, WakeInv
<1>22. CASE Empty
  <2>1. \A u \in Tasks : Armed(u) <=> wake[u] = "none" /\ at[u] \in Parks
    BY DEF Armed
  <2> QED
    BY <1>0, <1>22, <2>1, WokenFacts, AllFacts, ChannelAssumption DEF Empty, WakeInv
<1>23. CASE UNCHANGED channelVars
  BY <1>23 DEF channelVars, WakeInv
<1> QED
  BY <1>1, <1>2, <1>3, <1>4, <1>5, <1>6, <1>7, <1>8, <1>9, <1>10, <1>11, <1>12, <1>13,
     <1>14, <1>15, <1>16, <1>17, <1>18, <1>19, <1>20, <1>21, <1>22, <1>23 DEF ChannelNext,
     Run

-----------------------------------------------------------------------------
(* Which steps change what.                                                  *)

\* The steps that close, cancel, move values, end an iteration or count.
LEMMA Frame ==
  ASSUME [ChannelNext]_channelVars
  PROVE  /\ sz_max' = sz_max
         /\ state' = state \/ Close
         /\ cancelled' = cancelled \/ \E t \in Tasks : Cancel(t)
         /\ data' = data \/ Empty \/ \E t \in Tasks : PutBuffer(t) \/ TakeItem(t)
         /\ \/ ended' = ended
            \/ \E t \in Tasks : TakeThrow(t) \/ ResumeError(t) \/ IterReady(t)
         /\ \/ navail' = navail \/ Empty
            \/ \E t \in Tasks : \/ PutThrow(t) \/ PutBuffer(t) \/ PutWaitFull(t)
                              \/ PutWaitTaker(t) \/ PutClaim(t) \/ TakeItem(t) \/ Undo(t)
<1> DEFINE Goal ==
      /\ sz_max' = sz_max
      /\ state' = state \/ Close
      /\ cancelled' = cancelled \/ \E t \in Tasks : Cancel(t)
      /\ data' = data \/ Empty \/ \E t \in Tasks : PutBuffer(t) \/ TakeItem(t)
      /\ \/ ended' = ended
         \/ \E t \in Tasks : TakeThrow(t) \/ ResumeError(t) \/ IterReady(t)
      /\ \/ navail' = navail \/ Empty
         \/ \E t \in Tasks : \/ PutThrow(t) \/ PutBuffer(t) \/ PutWaitFull(t)
                           \/ PutWaitTaker(t) \/ PutClaim(t) \/ TakeItem(t) \/ Undo(t)
<1>1. ASSUME NEW t \in Tasks, PutThrow(t) PROVE Goal
  BY <1>1, Zenon DEF PutThrow
<1>2. ASSUME NEW t \in Tasks, PutBuffer(t) PROVE Goal
  BY <1>2, Zenon DEF PutBuffer
<1>3. ASSUME NEW t \in Tasks, PutWaitFull(t) PROVE Goal
  BY <1>3, Zenon DEF PutWaitFull
<1>4. ASSUME NEW t \in Tasks, PutWaitTaker(t) PROVE Goal
  BY <1>4, Zenon DEF PutWaitTaker
<1>5. ASSUME NEW t \in Tasks, PutClaim(t) PROVE Goal
  BY <1>5, Zenon DEF PutClaim
<1>6. ASSUME NEW t \in Tasks, Hand(t) PROVE Goal
  BY <1>6, Zenon DEF Hand
<1>7. ASSUME NEW t \in Tasks, TakeItem(t) PROVE Goal
  BY <1>7, Zenon DEF TakeItem
<1>8. ASSUME NEW t \in Tasks, TakeWait(t) PROVE Goal
  BY <1>8, Zenon DEF TakeWait
<1>9. ASSUME NEW t \in Tasks, TakeInvite(t) PROVE Goal
  BY <1>9, Zenon DEF TakeInvite
<1>10. ASSUME NEW t \in Tasks, TakeHanded(t) PROVE Goal
  BY <1>10, Zenon DEF TakeHanded
<1>11. ASSUME NEW t \in Tasks, TakeThrow(t) PROVE Goal
  BY <1>11, Zenon DEF TakeThrow, ThrowClosed
<1>12. ASSUME NEW t \in Tasks, Fetch(t) PROVE Goal
  BY <1>12, Zenon DEF Fetch
<1>13. ASSUME NEW t \in Tasks, Wait(t) PROVE Goal
  BY <1>13, Zenon DEF Wait
<1>14. ASSUME NEW t \in Tasks, IterReady(t) PROVE Goal
  BY <1>14, Zenon DEF IterReady
<1>15. ASSUME NEW t \in Tasks, ResumeError(t) PROVE Goal
  BY <1>15, Zenon DEF ResumeError
<1>16. ASSUME NEW t \in Tasks, ResumeCancelled(t) PROVE Goal
  BY <1>16, Zenon DEF ResumeCancelled
<1>17. ASSUME NEW t \in Tasks, Undo(t) PROVE Goal
  BY <1>17, Zenon DEF Undo
<1>18. ASSUME NEW t \in Tasks, LockThrow(t) PROVE Goal
  BY <1>18, Zenon DEF LockThrow
<1>19. ASSUME NEW t \in Tasks, Begin(t) PROVE Goal
  BY <1>19, Zenon DEF Begin
<1>20. ASSUME NEW t \in Tasks, Cancel(t) PROVE Goal
  BY <1>20, Zenon DEF Cancel
<1>21. CASE Close \/ Empty
  BY <1>21, Zenon DEF Close, Empty
<1>22. CASE UNCHANGED channelVars
  BY <1>22 DEF channelVars
<1> QED
  BY <1>1, <1>2, <1>3, <1>4, <1>5, <1>6, <1>7, <1>8, <1>9, <1>10, <1>11, <1>12, <1>13,
     <1>14, <1>15, <1>16, <1>17, <1>18, <1>19, <1>20, <1>21, <1>22 DEF ChannelNext, Run

-----------------------------------------------------------------------------
(* Sleepers.                                                                 *)

\* The tasks asleep after a step are those asleep before it, except for one
\* that has just parked: in an open channel, and with its token not cancelled.
\* It had a reason to: nothing to take, or nothing on offer.
Slept(u) == Armed(u) /\ at'[u] = at[u]
JustParked(u) ==
  /\ state = "open" /\ u \notin cancelled /\ UNCHANGED <<state, cancelled>>
  /\ at'[u] \in {"parkTake", "parkFetch"} => data = <<>> /\ data' = data
  /\ at'[u] = "parkWait" => navail = 0 /\ navail' = navail
  /\ at'[u] = "parkPut" => PutWaitFull(u) \/ PutWaitTaker(u)
  /\ at'[u] = "parkTake" => TakeWait(u) \/ TakeInvite(u)

\* Every sleeper is one or the other.
LEMMA Sleepers ==
  ASSUME ChannelInv, [ChannelNext]_channelVars, NEW u \in Tasks, Armed(u)'
  PROVE  Slept(u) \/ JustParked(u)
<1> USE DEF ChannelInv, Slept, JustParked
<1>0. /\ takeq \in Seq(Tasks) /\ putq \in Seq(Tasks) /\ waitq \in Seq(Tasks)
      /\ at \in [Tasks -> Places]
      /\ wake \in [Tasks -> {"none", "value", "claimed", "error", "cancel"}]
      /\ at'[u] \in Parks /\ wake'[u] = "none"
      /\ sz_max = 0 => data = <<>>
  BY DEF ChannelTypeOK, LinkInv, IterInv, Armed
<1> DEFINE Goal == Slept(u) \/ JustParked(u)
<1>1. ASSUME NEW t \in Tasks, PutThrow(t) PROVE Goal
  BY <1>0, <1>1, WokenFacts DEF PutThrow, Goto, Enters, Armed, Parks
<1>2. ASSUME NEW t \in Tasks, PutBuffer(t) PROVE Goal
  <2>1. u = t \/ wake[u] = "none"
    <3>1. wake' = Woken(All(takeq), "value", t)
      BY <1>2 DEF PutBuffer
    <3>2. wake'[u] = IF u \in All(takeq) THEN "value" ELSE IF u = t THEN "none" ELSE wake[u]
      BY <3>1, WokenFacts
    <3> QED
      BY <1>0, <3>2
  <2>2. UNCHANGED <<state, cancelled>> /\ (u # t => at'[u] = at[u])
    BY <1>0, <1>2 DEF PutBuffer, Goto
  <2>3. u # t
    BY <1>0, <1>2 DEF PutBuffer, Goto, Parks
  <2> QED
    BY <1>0, <1>2, <2>1, <2>2, <2>3 DEF Armed
<1>3. ASSUME NEW t \in Tasks, PutWaitFull(t) PROVE Goal
  <2>1. u = t \/ wake[u] = "none"
    BY <1>0, <1>3, WokenFacts DEF PutWaitFull
  <2>2. UNCHANGED <<state, cancelled>> /\ (u # t => at'[u] = at[u])
    BY <1>0, <1>3 DEF PutWaitFull, Goto, ParkAt
  <2>3. u = t => state = "open" /\ u \notin cancelled /\ at'[u] = "parkPut"
    BY <1>0, <1>3 DEF PutWaitFull, Goto, ParkAt, Refused, Parks
  <2> QED
    BY <1>0, <1>3, <2>1, <2>2, <2>3 DEF Armed
<1>4. ASSUME NEW t \in Tasks, PutWaitTaker(t) PROVE Goal
  <2>1. u = t \/ wake[u] = "none"
    <3>1. wake' = Woken(All(waitq), "value", t)
      BY <1>4 DEF PutWaitTaker
    <3>2. wake'[u] = IF u \in All(waitq) THEN "value" ELSE IF u = t THEN "none" ELSE wake[u]
      BY <3>1, WokenFacts
    <3> QED
      BY <1>0, <3>2
  <2>2. UNCHANGED <<state, cancelled>> /\ (u # t => at'[u] = at[u])
    BY <1>0, <1>4 DEF PutWaitTaker, Goto, ParkAt
  <2>3. u = t => state = "open" /\ u \notin cancelled /\ at'[u] = "parkPut"
    BY <1>0, <1>4 DEF PutWaitTaker, Goto, ParkAt, Refused, Parks
  <2> QED
    BY <1>0, <1>4, <2>1, <2>2, <2>3 DEF Armed
<1>5. ASSUME NEW t \in Tasks, PutClaim(t) PROVE Goal
  <2>1. u = t \/ wake[u] = "none"
    BY <1>0, <1>5, WokenFacts DEF PutClaim
  <2>2. UNCHANGED <<state, cancelled>> /\ (u # t => at'[u] = at[u])
    BY <1>0, <1>5 DEF PutClaim, Goto
  <2>3. u # t
    BY <1>0, <1>5 DEF PutClaim, Goto, Parks
  <2> QED
    BY <1>0, <1>5, <2>1, <2>2, <2>3 DEF Armed
<1>6. ASSUME NEW t \in Tasks, Hand(t) PROVE Goal
  BY <1>0, <1>6 DEF Hand, Goto, WakeInv, Armed, Parks
<1>7. ASSUME NEW t \in Tasks, TakeItem(t) PROVE Goal
  <2>1. u = t \/ wake[u] = "none"
    <3>1. wake' = Woken(Notified(putq), "value", t)
      BY <1>7 DEF TakeItem
    <3>2. wake'[u] = IF u \in Notified(putq) THEN "value" ELSE IF u = t THEN "none" ELSE wake[u]
      BY <3>1, WokenFacts
    <3> QED
      BY <1>0, <3>2
  <2>2. UNCHANGED <<state, cancelled>> /\ (u # t => at'[u] = at[u])
    BY <1>0, <1>7 DEF TakeItem, Goto
  <2>3. u # t
    BY <1>0, <1>7 DEF TakeItem, Goto, Parks
  <2> QED
    BY <1>0, <1>7, <2>1, <2>2, <2>3 DEF Armed
<1>8. ASSUME NEW t \in Tasks, TakeWait(t) PROVE Goal
  <2>1. u = t \/ wake[u] = "none"
    BY <1>0, <1>8, WokenFacts DEF TakeWait
  <2>2. UNCHANGED <<state, cancelled>> /\ (u # t => at'[u] = at[u])
    BY <1>0, <1>8 DEF TakeWait, Goto, ParkAt
  <2>3. u = t => state = "open" /\ u \notin cancelled /\ at'[u] = "parkTake" /\ data = <<>> /\ data' = data
    BY <1>0, <1>8 DEF TakeWait, Goto, ParkAt, Refused, Parks
  <2> QED
    BY <1>0, <1>8, <2>1, <2>2, <2>3 DEF Armed
<1>9. ASSUME NEW t \in Tasks, TakeInvite(t) PROVE Goal
  <2>1. u = t \/ wake[u] = "none"
    <3>1. wake' = Woken(Notified(putq), "value", t)
      BY <1>9 DEF TakeInvite
    <3>2. wake'[u] = IF u \in Notified(putq) THEN "value" ELSE IF u = t THEN "none" ELSE wake[u]
      BY <3>1, WokenFacts
    <3> QED
      BY <1>0, <3>2
  <2>2. UNCHANGED <<state, cancelled>> /\ (u # t => at'[u] = at[u])
    BY <1>0, <1>9 DEF TakeInvite, Goto, ParkAt
  <2>3. u = t => state = "open" /\ u \notin cancelled /\ at'[u] = "parkTake" /\ data = <<>> /\ data' = data
    BY <1>0, <1>9 DEF TakeInvite, Goto, ParkAt, Refused, Parks
  <2> QED
    BY <1>0, <1>9, <2>1, <2>2, <2>3 DEF Armed
<1>10. ASSUME NEW t \in Tasks, TakeHanded(t) PROVE Goal
  BY <1>0, <1>10, WokenFacts DEF TakeHanded, Goto, Enters, Armed, Parks
<1>11. ASSUME NEW t \in Tasks, TakeThrow(t) PROVE Goal
  BY <1>0, <1>11, WokenFacts DEF TakeThrow, Goto, Enters, ThrowClosed, Armed, Parks
<1>12. ASSUME NEW t \in Tasks, Fetch(t) PROVE Goal
  BY <1>0, <1>12, WokenFacts DEF Fetch, Goto, Enters, ParkAt, Refused, Armed, Parks
<1>13. ASSUME NEW t \in Tasks, Wait(t) PROVE Goal
  BY <1>0, <1>13, WokenFacts DEF Wait, Goto, Enters, ParkAt, Refused, Armed, Parks
<1>14. ASSUME NEW t \in Tasks, IterReady(t) PROVE Goal
  BY <1>0, <1>14 DEF IterReady, Goto, Armed, Parks
<1>15. ASSUME NEW t \in Tasks, ResumeError(t) PROVE Goal
  BY <1>0, <1>15, WokenFacts DEF ResumeError, Goto, ThrowClosed, Armed, Parks
<1>16. ASSUME NEW t \in Tasks, ResumeCancelled(t) PROVE Goal
  BY <1>0, <1>16, WokenFacts DEF ResumeCancelled, Goto, Armed, Parks
<1>17. ASSUME NEW t \in Tasks, Undo(t) PROVE Goal
  BY <1>0, <1>17 DEF Undo, Goto, Armed, Parks
<1>18. ASSUME NEW t \in Tasks, LockThrow(t) PROVE Goal
  BY <1>0, <1>18 DEF LockThrow, Goto, Entries, Armed, Parks
<1>19. ASSUME NEW t \in Tasks, Begin(t) PROVE Goal
  BY <1>0, <1>19 DEF Begin, Goto, Armed, Parks
<1>20. ASSUME NEW t \in Tasks, Cancel(t) PROVE Goal
  BY <1>0, <1>20 DEF Cancel, Goto, Armed, Parks
<1>21. CASE Close
  BY <1>0, <1>21, WokenFacts, AllFacts, ChannelAssumption DEF Close, Armed
<1>22. CASE Empty
  BY <1>0, <1>22, WokenFacts, AllFacts, ChannelAssumption DEF Empty, Armed
<1>23. CASE UNCHANGED channelVars
  BY <1>0, <1>23 DEF channelVars, Armed
<1> QED
  BY <1>1, <1>2, <1>3, <1>4, <1>5, <1>6, <1>7, <1>8, <1>9, <1>10, <1>11, <1>12, <1>13,
     <1>14, <1>15, <1>16, <1>17, <1>18, <1>19, <1>20, <1>21, <1>22, <1>23 DEF ChannelNext,
     Run

\* Once the channel is closed or a task cancelled, no step leaves it asleep.
LEMMA CloseStep ==
  ASSUME ChannelInv, [ChannelNext]_channelVars
  PROVE  CloseReleases'
<1> USE DEF ChannelInv
<1> SUFFICES ASSUME NEW u \in Tasks, state' = "closed" \/ u \in cancelled', Armed(u)'
             PROVE  FALSE
  BY DEF CloseReleases
<1>1. Slept(u) /\ state = "open" /\ u \notin cancelled
  BY Sleepers DEF Slept, JustParked, CloseReleases, ChannelTypeOK
<1>2. Close \/ \E t \in Tasks : Cancel(t)
  BY <1>1, Frame
<1>3. CASE Close
  <2>1. /\ takeq \in Seq(Tasks) /\ putq \in Seq(Tasks) /\ waitq \in Seq(Tasks)
        /\ Linked(u)
    BY DEF ChannelTypeOK, LinkInv
  <2>2. u \in All(takeq) \cup All(waitq) \cup All(putq)
    BY <1>1, <2>1, AllFacts DEF Slept, Linked, Home
  <2> QED
    BY <1>3, <2>2, WokenFacts DEF Close, Armed
<1>4. ASSUME NEW t \in Tasks, Cancel(t) PROVE FALSE
  BY <1>1, <1>4 DEF Cancel, Slept, Armed, ChannelTypeOK
<1> QED
  BY <1>2, <1>3, <1>4

\* A put! that fills the buffer wakes every taker and every fetch.
LEMMA TakersStep ==
  ASSUME ChannelInv, [ChannelNext]_channelVars
  PROVE  TakersSeeItems'
<1> USE DEF ChannelInv
<1> SUFFICES ASSUME NEW u \in Tasks, Armed(u)', at'[u] \in {"parkTake", "parkFetch"}
             PROVE  data' = <<>>
  BY DEF TakersSeeItems
<1>1. CASE JustParked(u)
  BY <1>1 DEF JustParked
<1>2. CASE Slept(u)
  <2>1. data = <<>>
    BY <1>2 DEF Slept, TakersSeeItems
  <2>2. ASSUME NEW t \in Tasks, PutBuffer(t) PROVE FALSE
    <3>1. takeq \in Seq(Tasks) /\ Linked(u)
      BY DEF ChannelTypeOK, LinkInv
    <3>2. u \in All(takeq)
      BY <1>2, <3>1, AllFacts DEF Slept, Linked, Home
    <3>3. wake' = Woken(All(takeq), "value", t)
      BY <2>2 DEF PutBuffer
    <3> QED
      BY <3>2, <3>3, WokenFacts DEF Armed
  <2>3. ASSUME NEW t \in Tasks, TakeItem(t) PROVE FALSE
    BY <2>1, <2>3 DEF TakeItem
  <2>4. CASE Empty
    BY <2>4 DEF Empty
  <2> QED
    BY <2>1, <2>2, <2>3, <2>4, Frame
<1> QED
  BY <1>1, <1>2, Sleepers

-----------------------------------------------------------------------------
(* Iteration.                                                                *)

\* A task is in an iteration only while it looks at isready or is in take!.
LEMMA IterPlaceStep ==
  ASSUME ChannelInv, [ChannelNext]_channelVars, NEW u \in Tasks
  PROVE  /\ iter'[u] => at'[u] \in {"take", "parkTake", "iterReady"}
         /\ at'[u] = "iterReady" => state' = "closed"
<1> USE DEF ChannelInv
<1>0. /\ at \in [Tasks -> Places] /\ iter \in [Tasks -> BOOLEAN]
      /\ state \in {"open", "closed"}
      /\ \A v \in Tasks : /\ iter[v] => at[v] \in {"take", "parkTake", "iterReady"}
                          /\ at[v] = "iterReady" => state = "closed"
  BY DEF ChannelTypeOK, IterInv
<1> DEFINE Goal == /\ iter'[u] => at'[u] \in {"take", "parkTake", "iterReady"}
                   /\ at'[u] = "iterReady" => state' = "closed"
<1>1. ASSUME NEW t \in Tasks, PutThrow(t) PROVE Goal
  BY <1>0, <1>1 DEF PutThrow, Goto, Enters
<1>2. ASSUME NEW t \in Tasks, PutBuffer(t) PROVE Goal
  BY <1>0, <1>2 DEF PutBuffer, Goto, Enters
<1>3. ASSUME NEW t \in Tasks, PutWaitFull(t) PROVE Goal
  BY <1>0, <1>3 DEF PutWaitFull, Goto, ParkAt, Enters
<1>4. ASSUME NEW t \in Tasks, PutWaitTaker(t) PROVE Goal
  BY <1>0, <1>4 DEF PutWaitTaker, Goto, ParkAt, Enters
<1>5. ASSUME NEW t \in Tasks, PutClaim(t) PROVE Goal
  BY <1>0, <1>5 DEF PutClaim, Goto, Enters
<1>6. ASSUME NEW t \in Tasks, Hand(t) PROVE Goal
  BY <1>0, <1>6 DEF Hand, Goto
<1>7. ASSUME NEW t \in Tasks, TakeItem(t) PROVE Goal
  BY <1>0, <1>7 DEF TakeItem, Goto, Enters
<1>8. ASSUME NEW t \in Tasks, TakeWait(t) PROVE Goal
  BY <1>0, <1>8 DEF TakeWait, Goto, ParkAt, Refused, Enters
<1>9. ASSUME NEW t \in Tasks, TakeInvite(t) PROVE Goal
  BY <1>0, <1>9 DEF TakeInvite, Goto, ParkAt, Refused
<1>10. ASSUME NEW t \in Tasks, TakeHanded(t) PROVE Goal
  BY <1>0, <1>10 DEF TakeHanded, Goto
<1>11. ASSUME NEW t \in Tasks, TakeThrow(t) PROVE Goal
  BY <1>0, <1>11 DEF TakeThrow, Goto, ThrowClosed, Enters
<1>12. ASSUME NEW t \in Tasks, Fetch(t) PROVE Goal
  BY <1>0, <1>12 DEF Fetch, Goto, ParkAt, Enters
<1>13. ASSUME NEW t \in Tasks, Wait(t) PROVE Goal
  BY <1>0, <1>13 DEF Wait, Goto, ParkAt, Enters
<1>14. ASSUME NEW t \in Tasks, IterReady(t) PROVE Goal
  BY <1>0, <1>14 DEF IterReady, Goto
<1>15. ASSUME NEW t \in Tasks, ResumeError(t) PROVE Goal
  BY <1>0, <1>15 DEF ResumeError, Goto, ThrowClosed
<1>16. ASSUME NEW t \in Tasks, ResumeCancelled(t) PROVE Goal
  BY <1>0, <1>16 DEF ResumeCancelled, Goto
<1>17. ASSUME NEW t \in Tasks, Undo(t) PROVE Goal
  BY <1>0, <1>17 DEF Undo, Goto
<1>18. ASSUME NEW t \in Tasks, LockThrow(t) PROVE Goal
  BY <1>0, <1>18 DEF LockThrow, Goto, Entries
<1>19. ASSUME NEW t \in Tasks, Begin(t) PROVE Goal
  BY <1>0, <1>19 DEF Begin, Goto
<1>20. ASSUME NEW t \in Tasks, Cancel(t) PROVE Goal
  BY <1>0, <1>20 DEF Cancel, Goto
<1>21. CASE Close \/ Empty
  BY <1>0, <1>21 DEF Close, Empty
<1>22. CASE UNCHANGED channelVars
  BY <1>0, <1>22 DEF channelVars
<1> QED
  BY <1>1, <1>2, <1>3, <1>4, <1>5, <1>6, <1>7, <1>8, <1>9, <1>10, <1>11, <1>12, <1>13,
     <1>14, <1>15, <1>16, <1>17, <1>18, <1>19, <1>20, <1>21, <1>22 DEF ChannelNext, Run

\* Only close claims a task to throw, and the task stays where it was parked.
LEMMA ErrorStep ==
  ASSUME ChannelInv, [ChannelNext]_channelVars, NEW u \in Tasks, wake'[u] = "error"
  PROVE  Close \/ (wake[u] = "error" /\ at'[u] = at[u])
<1> USE DEF ChannelInv
<1>0. /\ at \in [Tasks -> Places]
      /\ wake \in [Tasks -> {"none", "value", "claimed", "error", "cancel"}]
  BY DEF ChannelTypeOK
<1> DEFINE Goal == Close \/ (wake[u] = "error" /\ at'[u] = at[u])
<1>1. ASSUME NEW t \in Tasks, PutThrow(t) PROVE Goal
  <2>1. u # t /\ wake[u] = "error"
    BY <1>0, <1>1, WokenFacts DEF PutThrow
  <2> QED
    BY <1>0, <1>1, <2>1 DEF PutThrow, Goto
<1>2. ASSUME NEW t \in Tasks, PutBuffer(t) PROVE Goal
  <2>1. u # t /\ wake[u] = "error"
    <3> wake' = Woken(All(takeq), "value", t)
      BY <1>2 DEF PutBuffer
    <3> QED
      BY <1>0, WokenFacts
  <2> QED
    BY <1>0, <1>2, <2>1 DEF PutBuffer, Goto
<1>3. ASSUME NEW t \in Tasks, PutWaitFull(t) PROVE Goal
  <2>1. u # t /\ wake[u] = "error"
    BY <1>0, <1>3, WokenFacts DEF PutWaitFull
  <2> QED
    BY <1>0, <1>3, <2>1 DEF PutWaitFull, Goto, ParkAt
<1>4. ASSUME NEW t \in Tasks, PutWaitTaker(t) PROVE Goal
  <2>1. u # t /\ wake[u] = "error"
    <3> wake' = Woken(All(waitq), "value", t)
      BY <1>4 DEF PutWaitTaker
    <3> QED
      BY <1>0, WokenFacts
  <2> QED
    BY <1>0, <1>4, <2>1 DEF PutWaitTaker, Goto, ParkAt
<1>5. ASSUME NEW t \in Tasks, PutClaim(t) PROVE Goal
  <2>1. u # t /\ wake[u] = "error"
    BY <1>0, <1>5, WokenFacts DEF PutClaim
  <2> QED
    BY <1>0, <1>5, <2>1 DEF PutClaim, Goto
<1>6. ASSUME NEW t \in Tasks, Hand(t) PROVE Goal
  BY <1>0, <1>6 DEF Hand, Goto, WakeInv, Parks
<1>7. ASSUME NEW t \in Tasks, TakeItem(t) PROVE Goal
  <2>1. u # t /\ wake[u] = "error"
    <3> wake' = Woken(Notified(putq), "value", t)
      BY <1>7 DEF TakeItem
    <3> QED
      BY <1>0, WokenFacts
  <2> QED
    BY <1>0, <1>7, <2>1 DEF TakeItem, Goto
<1>8. ASSUME NEW t \in Tasks, TakeWait(t) PROVE Goal
  <2>1. u # t /\ wake[u] = "error"
    BY <1>0, <1>8, WokenFacts DEF TakeWait
  <2> QED
    BY <1>0, <1>8, <2>1 DEF TakeWait, Goto, ParkAt
<1>9. ASSUME NEW t \in Tasks, TakeInvite(t) PROVE Goal
  <2>1. u # t /\ wake[u] = "error"
    <3> wake' = Woken(Notified(putq), "value", t)
      BY <1>9 DEF TakeInvite
    <3> QED
      BY <1>0, WokenFacts
  <2> QED
    BY <1>0, <1>9, <2>1 DEF TakeInvite, Goto, ParkAt
<1>10. ASSUME NEW t \in Tasks, TakeHanded(t) PROVE Goal
  <2>1. u # t /\ wake[u] = "error"
    BY <1>0, <1>10, WokenFacts DEF TakeHanded
  <2> QED
    BY <1>0, <1>10, <2>1 DEF TakeHanded, Goto
<1>11. ASSUME NEW t \in Tasks, TakeThrow(t) PROVE Goal
  <2>1. u # t /\ wake[u] = "error"
    BY <1>0, <1>11, WokenFacts DEF TakeThrow, ThrowClosed
  <2> QED
    BY <1>0, <1>11, <2>1 DEF TakeThrow, Goto, ThrowClosed
<1>12. ASSUME NEW t \in Tasks, Fetch(t) PROVE Goal
  <2>1. u # t /\ wake[u] = "error"
    BY <1>0, <1>12, WokenFacts DEF Fetch
  <2> QED
    BY <1>0, <1>12, <2>1 DEF Fetch, Goto, ParkAt
<1>13. ASSUME NEW t \in Tasks, Wait(t) PROVE Goal
  <2>1. u # t /\ wake[u] = "error"
    BY <1>0, <1>13, WokenFacts DEF Wait
  <2> QED
    BY <1>0, <1>13, <2>1 DEF Wait, Goto, ParkAt
<1>14. ASSUME NEW t \in Tasks, IterReady(t) PROVE Goal
  BY <1>0, <1>14 DEF IterReady, Goto, WakeInv, Parks
<1>15. ASSUME NEW t \in Tasks, ResumeError(t) PROVE Goal
  <2>1. u # t /\ wake[u] = "error"
    BY <1>0, <1>15, WokenFacts DEF ResumeError, ThrowClosed
  <2> QED
    BY <1>0, <1>15, <2>1 DEF ResumeError, Goto, ThrowClosed
<1>16. ASSUME NEW t \in Tasks, ResumeCancelled(t) PROVE Goal
  <2>1. u # t /\ wake[u] = "error"
    BY <1>0, <1>16, WokenFacts DEF ResumeCancelled
  <2> QED
    BY <1>0, <1>16, <2>1 DEF ResumeCancelled, Goto
<1>17. ASSUME NEW t \in Tasks, Undo(t) PROVE Goal
  BY <1>0, <1>17 DEF Undo, Goto, WakeInv, Parks
<1>18. ASSUME NEW t \in Tasks, LockThrow(t) PROVE Goal
  BY <1>0, <1>18 DEF LockThrow, Goto, WakeInv, Parks, Entries
<1>19. ASSUME NEW t \in Tasks, Begin(t) PROVE Goal
  BY <1>0, <1>19 DEF Begin, Goto, WakeInv, Parks
<1>20. ASSUME NEW t \in Tasks, Cancel(t) PROVE Goal
  BY <1>0, <1>20 DEF Cancel, Goto, WakeInv, Parks
<1>21. CASE Empty
  <2> wake' = Woken(All(putq), "value", NoTask) /\ at' = at
    BY <1>21 DEF Empty
  <2> QED
    BY <1>0, WokenFacts
<1>22. CASE UNCHANGED channelVars
  BY <1>0, <1>22 DEF channelVars
<1> QED
  BY <1>1, <1>2, <1>3, <1>4, <1>5, <1>6, <1>7, <1>8, <1>9, <1>10, <1>11, <1>12, <1>13,
     <1>14, <1>15, <1>16, <1>17, <1>18, <1>19, <1>20, <1>21, <1>22 DEF ChannelNext, Run

\* The count is at least the number of values in the buffer.
LEMMA CountBound ==
  ASSUME ChannelTypeOK, WaitersSeeOffers
  PROVE  navail \in Nat /\ navail >= Len(data)
<1> DEFINE S == {t \in Tasks : InPut(t)}
<1>1. Cardinality(S) \in Nat
  BY FS_Subset, FS_CardinalityType, ChannelAssumption
<1>2. navail = Len(data) + Cardinality(S) /\ Len(data) \in Nat
  BY DEF WaitersSeeOffers, ChannelTypeOK
<1> HIDE DEF S
<1> QED
  BY <1>1, <1>2

\* The buffer of an unbuffered channel stays empty, and a close finds an empty
\* buffer wherever it finds a take! asleep.
LEMMA IterStep ==
  ASSUME ChannelInv, [ChannelNext]_channelVars
  PROVE  IterInv'
<1> USE DEF ChannelInv
<1>1. sz_max' = 0 => data' = <<>>
  <2>1. CASE data' = data
    BY <2>1, Frame DEF IterInv
  <2>2. CASE Empty
    BY <2>2 DEF Empty
  <2>3. ASSUME NEW t \in Tasks, PutBuffer(t) \/ TakeItem(t), sz_max' = 0 PROVE FALSE
    BY <2>3 DEF PutBuffer, TakeItem
  <2> QED
    BY <2>1, <2>2, <2>3, Frame
<1>2. ASSUME NEW u \in Tasks, wake'[u] = "error", at'[u] = "parkTake"
      PROVE  data' = <<>>
  <2>1. CASE Close
    <3>1. wake[u] = "error" \/ Armed(u)
      <4>1. wake' = Woken(All(takeq) \cup All(waitq) \cup All(putq), "error", NoTask)
        BY <2>1 DEF Close
      <4>2. u # NoTask
        BY ChannelAssumption
      <4>3. u \in All(takeq) \cup All(waitq) \cup All(putq) => Armed(u)
        BY AllFacts DEF ChannelTypeOK
      <4> QED
        BY <1>2, <4>1, <4>2, <4>3, WokenFacts
    <3>2. data' = data /\ at' = at
      BY <2>1 DEF Close
    <3> QED
      BY <1>2, <3>1, <3>2 DEF IterInv, TakersSeeItems
  <2>2. CASE wake[u] = "error" /\ at'[u] = at[u]
    <3>1. data = <<>> /\ state = "closed"
      BY <1>2, <2>2 DEF IterInv, WakeInv
    <3>2. ASSUME NEW t \in Tasks, PutBuffer(t) \/ TakeItem(t) PROVE FALSE
      BY <3>1, <3>2 DEF PutBuffer, TakeItem
    <3>3. CASE Empty
      BY <3>3 DEF Empty
    <3> QED
      BY <3>1, <3>2, <3>3, Frame
  <2> QED
    BY <1>2, <2>1, <2>2, ErrorStep
<1> QED
  BY <1>1, <1>2, IterPlaceStep DEF IterInv

\* An iteration ends by a step that has found the channel closed and drained.
LEMMA EndStep ==
  ASSUME ChannelInv, [ChannelNext]_channelVars
  PROVE  IterationIsComplete'
<1> USE DEF ChannelInv
<1>1. CASE ended' = ended
  <2> SUFFICES ASSUME ended PROVE state' = "closed" /\ data' = <<>>
    BY <1>1 DEF IterationIsComplete
  <2>1. data = <<>> /\ state = "closed"
    BY DEF IterationIsComplete
  <2>2. ASSUME NEW t \in Tasks, PutBuffer(t) \/ TakeItem(t) PROVE FALSE
    BY <2>1, <2>2 DEF PutBuffer, TakeItem
  <2>3. Empty => data' = <<>>
    BY DEF Empty
  <2>4. Close => state' = "closed"
    BY DEF Close
  <2> QED
    BY <2>1, <2>2, <2>3, <2>4, Frame
<1>2. ASSUME NEW t \in Tasks, TakeThrow(t) PROVE IterationIsComplete'
  <2>1. state' = state /\ data' = data /\ state = "closed"
    BY <1>2 DEF TakeThrow
  <2>2. data = <<>>
    BY <1>2 DEF TakeThrow, IterInv
  <2> QED
    BY <2>1, <2>2 DEF IterationIsComplete
<1>3. ASSUME NEW t \in Tasks, ResumeError(t), ended' # ended PROVE IterationIsComplete'
  <2>1. state' = state /\ data' = data /\ wake[t] = "error" /\ at[t] # "parkPut"
    BY <1>3 DEF ResumeError
  <2>2. ended' = (ended \/ iter[t])
    BY <1>3 DEF ResumeError, ThrowClosed
  <2>3. ended \/ iter[t] => data = <<>> /\ state = "closed"
    <3>1. iter[t] => at[t] = "parkTake"
      BY <1>3 DEF ResumeError, IterInv, Parks
    <3> QED
      BY <2>1, <3>1 DEF IterInv, WakeInv, IterationIsComplete
  <2> QED
    BY <2>1, <2>2, <2>3 DEF IterationIsComplete
<1>4. ASSUME NEW t \in Tasks, IterReady(t), ended' # ended PROVE IterationIsComplete'
  <2>1. state' = state /\ data' = data /\ navail = 0 /\ state = "closed"
    BY <1>4 DEF IterReady, IterInv
  <2>2. data = <<>>
    <3>1. data \in Seq(Tasks) /\ Len(data) = 0
      BY <2>1, CountBound DEF ChannelTypeOK
    <3> QED
      BY <3>1
  <2> QED
    BY <2>1, <2>2 DEF IterationIsComplete
<1> QED
  BY <1>1, <1>2, <1>3, <1>4, Frame


-----------------------------------------------------------------------------
(* The count of available items.                                             *)

\* The put!s that are counted.
Putters == {t \in Tasks : InPut(t)}

\* There are finitely many.
LEMMA PuttersFinite == IsFiniteSet(Putters) /\ Cardinality(Putters) \in Nat
BY FS_Subset, FS_CardinalityType, ChannelAssumption DEF Putters

\* n_avail_items follows the buffer and the put!s under way.
LEMMA OfferCountStep ==
  ASSUME ChannelInv, [ChannelNext]_channelVars
  PROVE  navail' = Len(data') + Cardinality(Putters')
<1> USE DEF ChannelInv
<1>0. /\ at \in [Tasks -> Places] /\ data \in Seq(Tasks) /\ navail \in Int
      /\ navail = Len(data) + Cardinality(Putters) /\ Len(data) \in Nat
      /\ IsFiniteSet(Putters) /\ Cardinality(Putters) \in Nat
  BY PuttersFinite DEF ChannelTypeOK, WaitersSeeOffers, Putters
<1> DEFINE Goal == navail' = Len(data') + Cardinality(Putters')
<1>1. ASSUME NEW t \in Tasks, PutThrow(t) PROVE Goal
  <2>1. Putters' = Putters \ {t}
    BY <1>0, <1>1 DEF PutThrow, Goto, Putters, InPut
  <2>2. t \in Putters <=> at[t] # "put"
    BY <1>1 DEF PutThrow, Enters, Putters, InPut
  <2>3. Cardinality(Putters') = IF t \in Putters THEN Cardinality(Putters) - 1 ELSE Cardinality(Putters)
    BY <1>0, <2>1, FS_RemoveElement
  <2>4. navail' = Counted(t) - 1 /\ data' = data
    BY <1>1 DEF PutThrow
  <2> QED
    BY <1>0, <2>2, <2>3, <2>4 DEF Counted
<1>2. ASSUME NEW t \in Tasks, PutBuffer(t) PROVE Goal
  <2>1. Putters' = Putters \ {t}
    BY <1>0, <1>2 DEF PutBuffer, Goto, Putters, InPut
  <2>2. t \in Putters <=> at[t] # "put"
    BY <1>2 DEF PutBuffer, Enters, Putters, InPut
  <2>3. Cardinality(Putters') = IF t \in Putters THEN Cardinality(Putters) - 1 ELSE Cardinality(Putters)
    BY <1>0, <2>1, FS_RemoveElement
  <2>4. navail' = Counted(t) /\ Len(data') = Len(data) + 1
    BY <1>0, <1>2 DEF PutBuffer
  <2> QED
    BY <1>0, <2>2, <2>3, <2>4 DEF Counted
<1>3. ASSUME NEW t \in Tasks, PutWaitFull(t) PROVE Goal
  <2>1. Putters' = Putters \cup {t}
    BY <1>0, <1>3 DEF PutWaitFull, Goto, ParkAt, Putters, InPut
  <2>2. t \in Putters <=> at[t] # "put"
    BY <1>3 DEF PutWaitFull, Enters, Putters, InPut
  <2>3. Cardinality(Putters') = IF t \in Putters THEN Cardinality(Putters) ELSE Cardinality(Putters) + 1
    BY <1>0, <2>1, FS_AddElement
  <2>4. navail' = Counted(t) /\ data' = data
    BY <1>3 DEF PutWaitFull
  <2> QED
    BY <1>0, <2>2, <2>3, <2>4 DEF Counted
<1>4. ASSUME NEW t \in Tasks, PutWaitTaker(t) PROVE Goal
  <2>1. Putters' = Putters \cup {t}
    BY <1>0, <1>4 DEF PutWaitTaker, Goto, ParkAt, Putters, InPut
  <2>2. t \in Putters <=> at[t] # "put"
    BY <1>4 DEF PutWaitTaker, Enters, Putters, InPut
  <2>3. Cardinality(Putters') = IF t \in Putters THEN Cardinality(Putters) ELSE Cardinality(Putters) + 1
    BY <1>0, <2>1, FS_AddElement
  <2>4. navail' = Counted(t) /\ data' = data
    BY <1>4 DEF PutWaitTaker
  <2> QED
    BY <1>0, <2>2, <2>3, <2>4 DEF Counted
<1>5. ASSUME NEW t \in Tasks, PutClaim(t) PROVE Goal
  <2>1. Putters' = Putters \ {t}
    BY <1>0, <1>5 DEF PutClaim, Goto, Putters, InPut
  <2>2. t \in Putters <=> at[t] # "put"
    BY <1>5 DEF PutClaim, Enters, Putters, InPut
  <2>3. Cardinality(Putters') = IF t \in Putters THEN Cardinality(Putters) - 1 ELSE Cardinality(Putters)
    BY <1>0, <2>1, FS_RemoveElement
  <2>4. navail' = Counted(t) - 1 /\ data' = data
    BY <1>5 DEF PutClaim
  <2> QED
    BY <1>0, <2>2, <2>3, <2>4 DEF Counted
<1>6. ASSUME NEW t \in Tasks, Hand(t) PROVE Goal
  <2>1. Putters' = Putters
    BY <1>0, <1>6 DEF Hand, Goto, Putters, InPut
  <2>2. navail' = navail /\ data' = data
    BY <1>6 DEF Hand
  <2> QED
    BY <1>0, <2>1, <2>2
<1>7. ASSUME NEW t \in Tasks, TakeItem(t) PROVE Goal
  <2>1. Putters' = Putters
    BY <1>0, <1>7 DEF TakeItem, Goto, Enters, Putters, InPut
  <2>2. navail' = navail - 1 /\ Len(data') = Len(data) - 1
    BY <1>0, <1>7 DEF TakeItem
  <2> QED
    BY <1>0, <2>1, <2>2
<1>8. ASSUME NEW t \in Tasks, TakeWait(t) PROVE Goal
  <2>1. Putters' = Putters
    BY <1>0, <1>8 DEF TakeWait, Goto, ParkAt, Enters, Putters, InPut
  <2>2. navail' = navail /\ data' = data
    BY <1>8 DEF TakeWait
  <2> QED
    BY <1>0, <2>1, <2>2
<1>9. ASSUME NEW t \in Tasks, TakeInvite(t) PROVE Goal
  <2>1. Putters' = Putters
    BY <1>0, <1>9 DEF TakeInvite, Goto, ParkAt, Putters, InPut
  <2>2. navail' = navail /\ data' = data
    BY <1>9 DEF TakeInvite
  <2> QED
    BY <1>0, <2>1, <2>2
<1>10. ASSUME NEW t \in Tasks, TakeHanded(t) PROVE Goal
  <2>1. Putters' = Putters
    BY <1>0, <1>10 DEF TakeHanded, Goto, Putters, InPut
  <2>2. navail' = navail /\ data' = data
    BY <1>10 DEF TakeHanded
  <2> QED
    BY <1>0, <2>1, <2>2
<1>11. ASSUME NEW t \in Tasks, TakeThrow(t) PROVE Goal
  <2>1. Putters' = Putters
    BY <1>0, <1>11 DEF TakeThrow, Goto, ThrowClosed, Enters, Putters, InPut
  <2>2. navail' = navail /\ data' = data
    BY <1>11 DEF TakeThrow
  <2> QED
    BY <1>0, <2>1, <2>2
<1>12. ASSUME NEW t \in Tasks, Fetch(t) PROVE Goal
  <2>1. Putters' = Putters
    BY <1>0, <1>12 DEF Fetch, Goto, ParkAt, Enters, Putters, InPut
  <2>2. navail' = navail /\ data' = data
    BY <1>12 DEF Fetch
  <2> QED
    BY <1>0, <2>1, <2>2
<1>13. ASSUME NEW t \in Tasks, Wait(t) PROVE Goal
  <2>1. Putters' = Putters
    BY <1>0, <1>13 DEF Wait, Goto, ParkAt, Enters, Putters, InPut
  <2>2. navail' = navail /\ data' = data
    BY <1>13 DEF Wait
  <2> QED
    BY <1>0, <2>1, <2>2
<1>14. ASSUME NEW t \in Tasks, IterReady(t) PROVE Goal
  <2>1. Putters' = Putters
    BY <1>0, <1>14 DEF IterReady, Goto, Putters, InPut
  <2>2. navail' = navail /\ data' = data
    BY <1>14 DEF IterReady
  <2> QED
    BY <1>0, <2>1, <2>2
<1>15. ASSUME NEW t \in Tasks, ResumeError(t) PROVE Goal
  <2>1. Putters' = Putters
    BY <1>0, <1>15 DEF ResumeError, Goto, ThrowClosed, Putters, InPut, Parks
  <2>2. navail' = navail /\ data' = data
    BY <1>15 DEF ResumeError
  <2> QED
    BY <1>0, <2>1, <2>2
<1>16. ASSUME NEW t \in Tasks, ResumeCancelled(t) PROVE Goal
  <2>1. Putters' = Putters
    BY <1>0, <1>16 DEF ResumeCancelled, Goto, Putters, InPut, Parks
  <2>2. navail' = navail /\ data' = data
    BY <1>16 DEF ResumeCancelled
  <2> QED
    BY <1>0, <2>1, <2>2
<1>17. ASSUME NEW t \in Tasks, Undo(t) PROVE Goal
  <2>1. Putters' = Putters \ {t}
    BY <1>0, <1>17 DEF Undo, Goto, Putters, InPut
  <2>2. t \in Putters
    BY <1>17 DEF Undo, Putters, InPut
  <2>3. Cardinality(Putters') = IF t \in Putters THEN Cardinality(Putters) - 1 ELSE Cardinality(Putters)
    BY <1>0, <2>1, FS_RemoveElement
  <2>4. navail' = navail - 1 /\ data' = data
    BY <1>17 DEF Undo
  <2> QED
    BY <1>0, <2>2, <2>3, <2>4
<1>18. ASSUME NEW t \in Tasks, LockThrow(t) PROVE Goal
  <2>1. Putters' = Putters
    BY <1>0, <1>18 DEF LockThrow, Goto, Entries, Putters, InPut
  <2>2. navail' = navail /\ data' = data
    BY <1>18 DEF LockThrow
  <2> QED
    BY <1>0, <2>1, <2>2
<1>19. ASSUME NEW t \in Tasks, Begin(t) PROVE Goal
  <2>1. Putters' = Putters
    BY <1>0, <1>19 DEF Begin, Goto, Putters, InPut
  <2>2. navail' = navail /\ data' = data
    BY <1>19 DEF Begin
  <2> QED
    BY <1>0, <2>1, <2>2
<1>20. ASSUME NEW t \in Tasks, Cancel(t) PROVE Goal
  <2>1. Putters' = Putters
    BY <1>0, <1>20 DEF Cancel, Goto, Putters, InPut
  <2>2. navail' = navail /\ data' = data
    BY <1>20 DEF Cancel
  <2> QED
    BY <1>0, <2>1, <2>2
<1>21. CASE Close
  <2> navail' = navail /\ data' = data /\ Putters' = Putters
    BY <1>21 DEF Close, Putters, InPut
  <2> QED
    BY <1>0
<1>22. CASE Empty
  <2> navail' = navail - Len(data) /\ data' = <<>> /\ Putters' = Putters
    BY <1>22 DEF Empty, Putters, InPut
  <2> QED
    BY <1>0
<1>23. CASE UNCHANGED channelVars
  <2> navail' = navail /\ data' = data /\ Putters' = Putters
    BY <1>23 DEF channelVars, Putters, InPut
  <2> QED
    BY <1>0
<1> QED
  BY <1>1, <1>2, <1>3, <1>4, <1>5, <1>6, <1>7, <1>8, <1>9, <1>10, <1>11, <1>12, <1>13,
     <1>14, <1>15, <1>16, <1>17, <1>18, <1>19, <1>20, <1>21, <1>22, <1>23 DEF ChannelNext,
     Run

\* Whoever puts something on offer wakes every caller of wait.
LEMMA OffersStep ==
  ASSUME ChannelInv, [ChannelNext]_channelVars
  PROVE  WaitersSeeOffers'
<1> USE DEF ChannelInv
<1>1. navail' = Len(data') + Cardinality({t \in Tasks : InPut(t)}')
  BY OfferCountStep DEF Putters
<1>2. ASSUME NEW u \in Tasks, Armed(u)', at'[u] = "parkWait" PROVE navail' = 0
  <2>1. CASE JustParked(u)
    BY <1>2, <2>1 DEF JustParked
  <2>2. CASE Slept(u)
    <3>1. navail = 0
      BY <1>2, <2>2 DEF Slept, WaitersSeeOffers
    <3>2. data = <<>> /\ Len(data) = 0 /\ \A v \in Tasks : ~InPut(v)
      <4>1. Cardinality(Putters) = 0 /\ Len(data) = 0 /\ data \in Seq(Tasks)
        <5> navail = Len(data) + Cardinality(Putters) /\ data \in Seq(Tasks) /\ Len(data) \in Nat
          BY DEF WaitersSeeOffers, Putters, ChannelTypeOK
        <5> QED
          BY <3>1, PuttersFinite
      <4>2. Putters = {} /\ data = <<>>
        BY <4>1, PuttersFinite, FS_EmptySet
      <4> QED
        BY <4>1, <4>2 DEF Putters
    <3>3. sz_max \in Nat /\ takeq \in Seq(Tasks) /\ waitq \in Seq(Tasks) /\ Linked(u)
      BY DEF ChannelTypeOK, LinkInv
    <3>4. u \in IF sz_max = 0 THEN All(waitq) ELSE All(takeq)
      BY <1>2, <2>2, <3>3, AllFacts DEF Slept, Linked, Home
    <3>5. ASSUME NEW t \in Tasks, PutThrow(t) \/ PutClaim(t) PROVE navail' = 0
      <4>1. at[t] = "put"
        BY <3>2, <3>5 DEF PutThrow, PutClaim, Enters, InPut
      <4> QED
        BY <3>1, <3>5, <4>1 DEF PutThrow, PutClaim, Counted
    <3>6. ASSUME NEW t \in Tasks, PutBuffer(t) PROVE FALSE
      <4>1. wake' = Woken(All(takeq), "value", t) /\ sz_max # 0
        BY <3>3, <3>6 DEF PutBuffer
      <4> QED
        BY <1>2, <3>4, <4>1, WokenFacts DEF Armed
    <3>7. ASSUME NEW t \in Tasks, PutWaitTaker(t) PROVE FALSE
      <4>1. wake' = Woken(All(waitq), "value", t) /\ sz_max = 0
        BY <3>7 DEF PutWaitTaker
      <4> QED
        BY <1>2, <3>4, <4>1, WokenFacts DEF Armed
    <3>8. ASSUME NEW t \in Tasks, PutWaitFull(t) \/ TakeItem(t) \/ Undo(t) PROVE FALSE
      BY <3>2, <3>3, <3>8 DEF PutWaitFull, TakeItem, Undo, InPut
    <3>9. Empty => navail' = 0
      BY <3>1, <3>2 DEF Empty
    <3> QED
      BY <3>1, <3>5, <3>6, <3>7, <3>8, <3>9, Frame
  <2> QED
    BY <1>2, <2>1, <2>2, Sleepers
<1> QED
  BY <1>1, <1>2 DEF WaitersSeeOffers


-----------------------------------------------------------------------------
(* Invitations.                                                              *)

\* The take!s that sleep.
AsleepTakers == {u \in Tasks : Armed(u) /\ at[u] = "parkTake"}

\* Both sets are finite, before and after a step.
LEMMA InvitedFinite ==
  /\ IsFiniteSet(Invited) /\ Cardinality(Invited) \in Nat
  /\ IsFiniteSet(Invited') /\ Cardinality(Invited') \in Nat
  /\ IsFiniteSet(AsleepTakers) /\ Cardinality(AsleepTakers) \in Nat
  /\ IsFiniteSet(AsleepTakers') /\ Cardinality(AsleepTakers') \in Nat
<1>1. /\ Invited \in SUBSET Tasks /\ Invited' \in SUBSET Tasks
      /\ AsleepTakers \in SUBSET Tasks /\ AsleepTakers' \in SUBSET Tasks
  BY DEF Invited, AsleepTakers
<1> QED
  BY <1>1, FS_Subset, FS_CardinalityType, ChannelAssumption

\* Only running takes an invited put! out of the set: a put! step of its own.
LEMMA InvitedStep ==
  ASSUME ChannelInv, [ChannelNext]_channelVars, NEW v \in Invited
  PROVE  v \in Invited' \/ \E t \in Tasks :
           PutThrow(t) \/ PutBuffer(t) \/ PutWaitFull(t) \/ PutWaitTaker(t) \/ PutClaim(t)
<1> USE DEF ChannelInv
<1>0. /\ at \in [Tasks -> Places]
      /\ wake \in [Tasks -> {"none", "value", "claimed", "error", "cancel"}]
      /\ takeq \in Seq(Tasks) /\ putq \in Seq(Tasks) /\ waitq \in Seq(Tasks)
      /\ Distinct(putq)
      /\ v \in Tasks /\ at[v] = "parkPut" /\ wake[v] = "value"
  BY DEF ChannelTypeOK, LinkInv, Invited
<1> DEFINE Goal == at'[v] = "parkPut" /\ wake'[v] = "value"
<1>1. ASSUME NEW t \in Tasks, Hand(t) PROVE Goal
  BY <1>0, <1>1 DEF Hand, Goto, WakeInv
<1>2. ASSUME NEW t \in Tasks, TakeItem(t) PROVE Goal
  <2>1. wake' = Woken(Notified(putq), "value", t) /\ t # v
    BY <1>0, <1>2 DEF TakeItem, Enters
  <2>2. wake'[v] = "value"
    BY <1>0, <2>1, WokenFacts
  <2> QED
    BY <1>0, <1>2, <2>1, <2>2 DEF TakeItem, Goto
<1>3. ASSUME NEW t \in Tasks, TakeWait(t) PROVE Goal
  <2>1. t # v
    BY <1>0, <1>3 DEF TakeWait, Enters
  <2>2. wake'[v] = "value"
    BY <1>0, <1>3, <2>1, WokenFacts DEF TakeWait
  <2> QED
    BY <1>0, <1>3, <2>1, <2>2 DEF TakeWait, Goto, ParkAt
<1>4. ASSUME NEW t \in Tasks, TakeInvite(t) PROVE Goal
  <2>1. wake' = Woken(Notified(putq), "value", t) /\ t # v
    BY <1>0, <1>4 DEF TakeInvite
  <2>2. wake'[v] = "value"
    BY <1>0, <2>1, WokenFacts
  <2> QED
    BY <1>0, <1>4, <2>1, <2>2 DEF TakeInvite, Goto, ParkAt
<1>5. ASSUME NEW t \in Tasks, TakeHanded(t) PROVE Goal
  <2>1. t # v
    BY <1>0, <1>5 DEF TakeHanded
  <2>2. wake'[v] = "value"
    BY <1>0, <1>5, <2>1, WokenFacts DEF TakeHanded
  <2> QED
    BY <1>0, <1>5, <2>1, <2>2 DEF TakeHanded, Goto
<1>6. ASSUME NEW t \in Tasks, TakeThrow(t) PROVE Goal
  <2>1. t # v
    BY <1>0, <1>6 DEF TakeThrow, Enters
  <2>2. wake'[v] = "value"
    BY <1>0, <1>6, <2>1, WokenFacts DEF TakeThrow, ThrowClosed
  <2> QED
    BY <1>0, <1>6, <2>1, <2>2 DEF TakeThrow, Goto, ThrowClosed
<1>7. ASSUME NEW t \in Tasks, Fetch(t) PROVE Goal
  <2>1. t # v
    BY <1>0, <1>7 DEF Fetch, Enters
  <2>2. wake'[v] = "value"
    BY <1>0, <1>7, <2>1, WokenFacts DEF Fetch
  <2> QED
    BY <1>0, <1>7, <2>1, <2>2 DEF Fetch, Goto, ParkAt
<1>8. ASSUME NEW t \in Tasks, Wait(t) PROVE Goal
  <2>1. t # v
    BY <1>0, <1>8 DEF Wait, Enters
  <2>2. wake'[v] = "value"
    BY <1>0, <1>8, <2>1, WokenFacts DEF Wait
  <2> QED
    BY <1>0, <1>8, <2>1, <2>2 DEF Wait, Goto, ParkAt
<1>9. ASSUME NEW t \in Tasks, IterReady(t) PROVE Goal
  BY <1>0, <1>9 DEF IterReady, Goto
<1>10. ASSUME NEW t \in Tasks, ResumeError(t) PROVE Goal
  <2>1. t # v
    BY <1>0, <1>10 DEF ResumeError
  <2>2. wake'[v] = "value"
    BY <1>0, <1>10, <2>1, WokenFacts DEF ResumeError, ThrowClosed
  <2> QED
    BY <1>0, <1>10, <2>1, <2>2 DEF ResumeError, Goto, ThrowClosed
<1>11. ASSUME NEW t \in Tasks, ResumeCancelled(t) PROVE Goal
  <2>1. t # v
    BY <1>0, <1>11 DEF ResumeCancelled
  <2>2. wake'[v] = "value"
    BY <1>0, <1>11, <2>1, WokenFacts DEF ResumeCancelled
  <2> QED
    BY <1>0, <1>11, <2>1, <2>2 DEF ResumeCancelled, Goto
<1>12. ASSUME NEW t \in Tasks, Undo(t) PROVE Goal
  BY <1>0, <1>12 DEF Undo, Goto
<1>13. ASSUME NEW t \in Tasks, LockThrow(t) PROVE Goal
  BY <1>0, <1>13 DEF LockThrow, Goto, Entries
<1>14. ASSUME NEW t \in Tasks, Begin(t) PROVE Goal
  BY <1>0, <1>14 DEF Begin, Goto
<1>15. ASSUME NEW t \in Tasks, Cancel(t) PROVE Goal
  BY <1>0, <1>15 DEF Cancel, Goto, Armed
<1>16. ASSUME Close \/ Empty PROVE Goal
  <2>1. v # NoTask /\ at' = at
    BY <1>0, <1>16, ChannelAssumption DEF Close, Empty
  <2>2. v \notin All(takeq) /\ v \notin All(waitq) /\ v \notin All(putq)
    BY <1>0, AllFacts DEF Armed
  <2>3. \/ wake' = Woken(All(takeq) \cup All(waitq) \cup All(putq), "error", NoTask)
        \/ wake' = Woken(All(putq), "value", NoTask)
    BY <1>16 DEF Close, Empty
  <2> QED
    BY <1>0, <2>1, <2>2, <2>3, WokenFacts
<1>17. ASSUME UNCHANGED channelVars PROVE Goal
  BY <1>0, <1>17 DEF channelVars
<1> QED
  BY <1>0, <1>1, <1>2, <1>3, <1>4, <1>5, <1>6, <1>7, <1>8, <1>9, <1>10, <1>11, <1>12,
     <1>13, <1>14, <1>15, <1>16, <1>17 DEF ChannelNext, Run, Invited

\* A put! asleep after a step was asleep before it, or has just parked.
LEMMA AsleepPut ==
  ASSUME ChannelInv, [ChannelNext]_channelVars,
         NEW u \in Tasks, Armed(u)', at'[u] = "parkPut",
         \A t \in Tasks : ~PutWaitFull(t) /\ ~PutWaitTaker(t)
  PROVE  /\ Armed(u) /\ at[u] = "parkPut" /\ Queued(putq, u)
         /\ sz_max > 0 => sz_max - Len(data) <= Cardinality(Invited)
         /\ sz_max = 0 => Cardinality(AsleepTakers) <= Cardinality(Invited)
<1>1. Armed(u) /\ at[u] = "parkPut"
  BY Sleepers DEF Slept, JustParked
<1>2. Queued(putq, u)
  BY <1>1 DEF ChannelInv, LinkInv, Linked, Home
<1> QED
  BY <1>1, <1>2 DEF ChannelInv, NoWastedInvitation, AsleepTakers

\* Losing one invited put!, or winning one, in cardinalities.
LEMMA InvitedCounts ==
  ASSUME NEW t
  PROVE  /\ Invited \subseteq Invited' => Cardinality(Invited) <= Cardinality(Invited')
         /\ Invited \ {t} \subseteq Invited' => Cardinality(Invited) - 1 <= Cardinality(Invited')
         /\ Invited \cup {t} \subseteq Invited' /\ t \notin Invited
              => Cardinality(Invited) + 1 <= Cardinality(Invited')
         /\ AsleepTakers' \subseteq AsleepTakers
              => Cardinality(AsleepTakers') <= Cardinality(AsleepTakers)
         /\ AsleepTakers' \subseteq AsleepTakers \ {t} /\ t \in AsleepTakers
              => Cardinality(AsleepTakers') <= Cardinality(AsleepTakers) - 1
         /\ AsleepTakers' \subseteq AsleepTakers \cup {t}
              => Cardinality(AsleepTakers') <= Cardinality(AsleepTakers) + 1
<1> DEFINE I == Invited
           J == Invited'
           A == AsleepTakers
           B == AsleepTakers'
<1>1. /\ IsFiniteSet(I) /\ Cardinality(I) \in Nat /\ IsFiniteSet(J) /\ Cardinality(J) \in Nat
      /\ IsFiniteSet(A) /\ Cardinality(A) \in Nat /\ IsFiniteSet(B) /\ Cardinality(B) \in Nat
  BY InvitedFinite
<1> HIDE DEF I, J, A, B
<1>2. /\ IsFiniteSet(A \ {t}) /\ IsFiniteSet(A \cup {t})
      /\ Cardinality(I \ {t}) = IF t \in I THEN Cardinality(I) - 1 ELSE Cardinality(I)
      /\ Cardinality(I \cup {t}) = IF t \in I THEN Cardinality(I) ELSE Cardinality(I) + 1
      /\ Cardinality(A \ {t}) = IF t \in A THEN Cardinality(A) - 1 ELSE Cardinality(A)
      /\ Cardinality(A \cup {t}) = IF t \in A THEN Cardinality(A) ELSE Cardinality(A) + 1
  BY <1>1, FS_AddElement, FS_RemoveElement
<1>3. /\ I \subseteq J => Cardinality(I) <= Cardinality(J)
      /\ I \ {t} \subseteq J => Cardinality(I \ {t}) <= Cardinality(J)
      /\ I \cup {t} \subseteq J => Cardinality(I \cup {t}) <= Cardinality(J)
      /\ B \subseteq A => Cardinality(B) <= Cardinality(A)
      /\ B \subseteq A \ {t} => Cardinality(B) <= Cardinality(A \ {t})
      /\ B \subseteq A \cup {t} => Cardinality(B) <= Cardinality(A \cup {t})
  BY <1>1, <1>2, FS_Subset
<1>4. /\ I \subseteq J => Cardinality(I) <= Cardinality(J)
      /\ I \ {t} \subseteq J => Cardinality(I) - 1 <= Cardinality(J)
      /\ I \cup {t} \subseteq J /\ t \notin I => Cardinality(I) + 1 <= Cardinality(J)
  BY <1>1, <1>2, <1>3
<1>5. /\ B \subseteq A => Cardinality(B) <= Cardinality(A)
      /\ B \subseteq A \ {t} /\ t \in A => Cardinality(B) <= Cardinality(A) - 1
      /\ B \subseteq A \cup {t} => Cardinality(B) <= Cardinality(A) + 1
  BY <1>1, <1>2, <1>3
<1> QED
  BY <1>4, <1>5 DEF I, J, A, B


\* A take! invites one put! for the slot or for itself, an invited put! that
\* runs uses its invitation or parks only when there is nothing to use it for.
LEMMA InvitationStep ==
  ASSUME ChannelInv, [ChannelNext]_channelVars
  PROVE  NoWastedInvitation'
<1> USE DEF ChannelInv
<1>0. /\ takeq \in Seq(Tasks) /\ putq \in Seq(Tasks) /\ Distinct(takeq) /\ Distinct(putq)
      /\ at \in [Tasks -> Places] /\ sz_max \in Nat /\ sz_max' = sz_max
      /\ wake \in [Tasks -> {"none", "value", "claimed", "error", "cancel"}]
      /\ data \in Seq(Tasks) /\ Len(data) \in Nat
      /\ \A u \in Tasks : Linked(u)
  BY Frame DEF ChannelTypeOK, LinkInv
<1>1. ASSUME NEW t \in Tasks, PutWaitFull(t) PROVE NoWastedInvitation'
  <2>1. sz_max' > 0 /\ Len(data') = sz_max'
    BY <1>0, <1>1 DEF PutWaitFull
  <2> QED
    BY <1>0, <2>1, InvitedFinite DEF NoWastedInvitation
<1>2. ASSUME NEW t \in Tasks, PutWaitTaker(t) PROVE NoWastedInvitation'
  <2>1. sz_max = 0 /\ Live(takeq) = {} /\ wake' = Woken(All(waitq), "value", t)
    BY <1>2 DEF PutWaitTaker
  <2>2. ASSUME NEW v \in Tasks, Armed(v)', at'[v] = "parkTake" PROVE FALSE
    <3>1. v # t /\ at'[v] = at[v]
      BY <1>0, <1>2, <2>2 DEF PutWaitTaker, Goto, ParkAt
    <3>2. Armed(v) /\ at[v] = "parkTake"
      BY <1>0, <2>1, <2>2, <3>1, WokenFacts DEF Armed
    <3> QED
      BY <1>0, <2>1, <3>2, NoLive DEF Linked, Home
  <2>3. AsleepTakers' = {}
    BY <2>2 DEF AsleepTakers
  <2>4. Cardinality(AsleepTakers') = 0
    BY <2>3, FS_EmptySet
  <2> QED
    BY <1>0, <2>1, <2>4, InvitedFinite DEF NoWastedInvitation, AsleepTakers
<1>3. CASE state' = "closed"
  BY <1>3, CloseStep DEF NoWastedInvitation, CloseReleases
<1> DEFINE NoParkedPut == \A t \in Tasks : ~PutWaitFull(t) /\ ~PutWaitTaker(t)
<1>4. ASSUME Empty, NoParkedPut PROVE NoWastedInvitation'
  <2>1. ASSUME NEW u \in Tasks, Armed(u)', at'[u] = "parkPut" PROVE FALSE
    <3>1. u \in All(putq)
      BY <1>0, <1>4, <2>1, AsleepPut, AllFacts
    <3>2. wake' = Woken(All(putq), "value", NoTask)
      BY <1>4 DEF Empty
    <3> QED
      BY <2>1, <3>1, <3>2, WokenFacts DEF Armed
  <2> QED
    BY <2>1 DEF NoWastedInvitation
<1>5. ASSUME NEW t \in Tasks, PutBuffer(t), NoParkedPut PROVE NoWastedInvitation'
  <2> SUFFICES ASSUME NEW u \in Tasks, Armed(u)', at'[u] = "parkPut"
               PROVE  sz_max > 0 /\ sz_max - Len(data') <= Cardinality(Invited')
    BY <1>0 DEF NoWastedInvitation
  <2>1. sz_max > 0 /\ Len(data') = Len(data) + 1 /\ wake' = Woken(All(takeq), "value", t)
    BY <1>0, <1>5 DEF PutBuffer
  <2>2. sz_max - Len(data) <= Cardinality(Invited)
    BY <1>5, <2>1, AsleepPut
  <2>3. Invited \ {t} \subseteq Invited'
    <3> SUFFICES ASSUME NEW v \in Tasks, v # t, at[v] = "parkPut", wake[v] = "value"
                 PROVE  at'[v] = "parkPut" /\ wake'[v] = "value"
      BY DEF Invited
    <3> QED
      BY <1>0, <1>5, <2>1, WokenFacts DEF PutBuffer, Goto
  <2>4. Cardinality(Invited) - 1 <= Cardinality(Invited')
    BY <2>3, InvitedCounts
  <2> QED
    BY <1>0, <2>1, <2>2, <2>4, InvitedFinite
<1>6. ASSUME NEW t \in Tasks, PutClaim(t), NoParkedPut PROVE NoWastedInvitation'
  <2>1. sz_max = 0
    BY <1>6 DEF PutClaim
  <2> SUFFICES ASSUME NEW u \in Tasks, Armed(u)', at'[u] = "parkPut"
               PROVE  Cardinality(AsleepTakers') <= Cardinality(Invited')
    BY <1>0, <2>1 DEF NoWastedInvitation, AsleepTakers
  <2>2. PICK w \in Notified(takeq) : wake' = Woken({w}, "claimed", t)
    BY <1>6 DEF PutClaim
  <2>3. w \in Tasks /\ Armed(w) /\ Queued(takeq, w)
    BY <1>0, <2>2, NotifyFacts
  <2>4. at[w] = "parkTake"
    BY <1>0, <2>1, <2>3 DEF Linked
  <2>5. at' = [at EXCEPT ![t] = "hand"]
    BY <1>6 DEF PutClaim, Goto
  <2>6. AsleepTakers' \subseteq AsleepTakers \ {w} /\ w \in AsleepTakers
    <3>1. ASSUME NEW v \in Tasks, Armed(v)', at'[v] = "parkTake"
          PROVE  Armed(v) /\ at[v] = "parkTake" /\ v # w
      BY <1>0, <2>2, <2>3, <2>5, <3>1, WokenFacts DEF Armed
    <3> QED
      BY <2>3, <2>4, <3>1 DEF AsleepTakers
  <2>7. Invited \ {t} \subseteq Invited'
    <3> SUFFICES ASSUME NEW v \in Tasks, v # t, at[v] = "parkPut", wake[v] = "value"
                 PROVE  at'[v] = "parkPut" /\ wake'[v] = "value"
      BY DEF Invited
    <3> QED
      BY <1>0, <2>2, <2>4, <2>5, WokenFacts
  <2>8. Cardinality(AsleepTakers) <= Cardinality(Invited)
    BY <1>6, <2>1, AsleepPut
  <2>9. Cardinality(AsleepTakers') <= Cardinality(AsleepTakers) - 1
    BY <2>6, InvitedCounts
  <2>10. Cardinality(Invited) - 1 <= Cardinality(Invited')
    BY <2>7, InvitedCounts
  <2> QED
    BY <2>8, <2>9, <2>10, InvitedFinite
\* A notified put! joins the invited ones.
<1>7. ASSUME NEW t \in Tasks, TakeItem(t) \/ TakeInvite(t), NoParkedPut,
             NEW u \in Tasks, Armed(u)', at'[u] = "parkPut"
      PROVE  Cardinality(Invited) + 1 <= Cardinality(Invited')
  <2>1. Queued(putq, u) /\ Armed(u)
    BY <1>7, AsleepPut
  <2>2. PICK w \in Notified(putq) : TRUE
    BY <1>0, <2>1, NotifyFacts
  <2>3. w \in Tasks /\ Armed(w) /\ Queued(putq, w)
    BY <1>0, <2>2, NotifyFacts
  <2>4. at[w] = "parkPut" /\ w \notin Invited
    BY <1>0, <2>3 DEF Linked, Invited, Armed
  <2>5. wake' = Woken(Notified(putq), "value", t) /\ at[t] # "parkPut"
    BY <1>7 DEF TakeItem, TakeInvite, Enters
  <2>6. \A v \in Tasks : v # t => at'[v] = at[v]
    BY <1>0, <1>7 DEF TakeItem, TakeInvite, Goto, ParkAt
  <2>7. Invited \cup {w} \subseteq Invited'
    <3>1. ASSUME NEW v \in Tasks, at[v] = "parkPut", wake[v] = "value" \/ v = w
          PROVE  at'[v] = "parkPut" /\ wake'[v] = "value"
      BY <1>0, <2>2, <2>5, <2>6, <3>1, WokenFacts
    <3> QED
      BY <2>3, <2>4, <3>1 DEF Invited
  <2> QED
    BY <2>4, <2>7, InvitedCounts
<1>8. ASSUME NEW t \in Tasks, TakeItem(t), NoParkedPut PROVE NoWastedInvitation'
  <2> SUFFICES ASSUME NEW u \in Tasks, Armed(u)', at'[u] = "parkPut"
               PROVE  sz_max > 0 /\ sz_max - Len(data') <= Cardinality(Invited')
    BY <1>0 DEF NoWastedInvitation
  <2>1. sz_max > 0 /\ Len(data') = Len(data) - 1
    BY <1>0, <1>8 DEF TakeItem
  <2>2. sz_max - Len(data) <= Cardinality(Invited)
    BY <1>8, <2>1, AsleepPut
  <2>3. Cardinality(Invited) + 1 <= Cardinality(Invited')
    BY <1>7, <1>8
  <2> QED
    BY <1>0, <2>1, <2>2, <2>3, InvitedFinite
<1>9. ASSUME NEW t \in Tasks, TakeInvite(t), NoParkedPut PROVE NoWastedInvitation'
  <2>1. sz_max = 0
    BY <1>9 DEF TakeInvite
  <2> SUFFICES ASSUME NEW u \in Tasks, Armed(u)', at'[u] = "parkPut"
               PROVE  Cardinality(AsleepTakers') <= Cardinality(Invited')
    BY <1>0, <2>1 DEF NoWastedInvitation, AsleepTakers
  <2>2. wake' = Woken(Notified(putq), "value", t)
    BY <1>9 DEF TakeInvite
  <2>3. \A v \in Tasks : v # t => at'[v] = at[v]
    BY <1>0, <1>9 DEF TakeInvite, Goto, ParkAt
  <2>4. AsleepTakers' \subseteq AsleepTakers \cup {t}
    <3>1. ASSUME NEW v \in Tasks, v # t, Armed(v)', at'[v] = "parkTake"
          PROVE  Armed(v) /\ at[v] = "parkTake"
      BY <1>0, <2>2, <2>3, <3>1, WokenFacts DEF Armed
    <3> QED
      BY <3>1 DEF AsleepTakers
  <2>5. Cardinality(AsleepTakers) <= Cardinality(Invited)
    BY <1>9, <2>1, AsleepPut
  <2>6. Cardinality(Invited) + 1 <= Cardinality(Invited')
    BY <1>7, <1>9
  <2>7. Cardinality(AsleepTakers') <= Cardinality(AsleepTakers) + 1
    BY <2>4, InvitedCounts
  <2> QED
    BY <2>5, <2>6, <2>7, InvitedFinite
\* Every other step leaves the buffer and the invited put!s as they are.
<1>10. ASSUME NoParkedPut, state' # "closed", ~Empty,
              \A t \in Tasks : /\ ~PutBuffer(t) /\ ~PutClaim(t)
                               /\ ~TakeItem(t) /\ ~TakeInvite(t)
       PROVE  NoWastedInvitation'
  <2>1. data' = data
    BY <1>10, Frame
  <2>2. Invited \subseteq Invited'
    <3>1. ASSUME NEW t \in Tasks, PutThrow(t) PROVE FALSE
      BY <1>10, <3>1 DEF PutThrow
    <3> QED
      BY <1>10, <3>1, InvitedStep
  <2>3. sz_max = 0 => AsleepTakers' \subseteq AsleepTakers
    <3>1. ASSUME sz_max = 0, NEW v \in Tasks, Armed(v)', at'[v] = "parkTake"
          PROVE  Armed(v) /\ at[v] = "parkTake"
      BY <1>10, <3>1, Sleepers DEF Slept, JustParked, TakeWait
    <3> QED
      BY <3>1 DEF AsleepTakers
  <2>4. Cardinality(Invited) <= Cardinality(Invited')
    BY <2>2, InvitedCounts
  <2>5. sz_max = 0 => Cardinality(AsleepTakers') <= Cardinality(AsleepTakers)
    BY <2>3, InvitedCounts
  <2> SUFFICES ASSUME NEW u \in Tasks, Armed(u)', at'[u] = "parkPut"
               PROVE  IF sz_max > 0 THEN sz_max - Len(data) <= Cardinality(Invited')
                      ELSE Cardinality(AsleepTakers') <= Cardinality(Invited')
    BY <1>0, <2>1 DEF NoWastedInvitation, AsleepTakers
  <2>6. /\ sz_max > 0 => sz_max - Len(data) <= Cardinality(Invited)
        /\ sz_max = 0 => Cardinality(AsleepTakers) <= Cardinality(Invited)
    BY <1>10, AsleepPut
  <2> QED
    BY <1>0, <2>4, <2>5, <2>6, InvitedFinite
<1> QED
  BY <1>1, <1>2, <1>3, <1>4, <1>5, <1>6, <1>8, <1>9, <1>10

-----------------------------------------------------------------------------
(* Theorems.                                                                 *)

\* A channel just constructed: nothing buffered, nobody waiting.
LEMMA ChannelInitInv == ChannelInit => ChannelInv
<1> SUFFICES ASSUME ChannelInit PROVE ChannelInv
  OBVIOUS
<1>1. ChannelTypeOK
  <2>1. /\ at \in [Tasks -> Places] /\ give \in [Tasks -> Tasks \cup {NoTask}]
        /\ wake \in [Tasks -> {"none", "value", "claimed", "error", "cancel"}]
        /\ ops \in [Tasks -> Nat]
    BY DEF ChannelInit, Places
  <2>2. iter \in [Tasks -> BOOLEAN] /\ ended \in BOOLEAN
    BY DEF ChannelInit
  <2>3. /\ sz_max \in Nat /\ state \in {"open", "closed"} /\ navail \in Int
        /\ cancelled \subseteq Tasks /\ data \in Seq(Tasks)
        /\ takeq \in Seq(Tasks) /\ putq \in Seq(Tasks) /\ waitq \in Seq(Tasks)
    BY ChannelAssumption, NoneQueued DEF ChannelInit
  <2> QED
    BY <2>1, <2>2, <2>3 DEF ChannelTypeOK
<1>2. \A t \in Tasks : at[t] = "idle" /\ wake[t] = "none" /\ ~iter[t] /\ ~Armed(t) /\ ~InPut(t)
  BY DEF ChannelInit, Armed, InPut, Parks
<1>3. takeq = <<>> /\ putq = <<>> /\ waitq = <<>> /\ data = <<>> /\ navail = 0 /\ ~ended
  BY DEF ChannelInit
<1>4. LinkInv
  BY <1>2, <1>3, NoneQueued DEF LinkInv, Linked
<1>5. WakeInv /\ IterInv
  BY <1>2, <1>3 DEF WakeInv, IterInv
<1>6. CloseReleases /\ TakersSeeItems /\ NoWastedInvitation /\ IterationIsComplete
  BY <1>2, <1>3 DEF CloseReleases, TakersSeeItems, NoWastedInvitation, IterationIsComplete
<1>7. WaitersSeeOffers
  <2>1. {t \in Tasks : InPut(t)} = {}
    BY <1>2
  <2>2. Cardinality({t \in Tasks : InPut(t)}) = 0
    BY <2>1, FS_EmptySet
  <2> QED
    BY <1>2, <1>3, <2>2 DEF WaitersSeeOffers
<1> QED
  BY <1>1, <1>4, <1>5, <1>6, <1>7 DEF ChannelInv

\* Every reachable state satisfies the channel's inductive invariant.
THEOREM ChannelInvHolds == ChannelSpec => []ChannelInv
<1>1. ChannelInv /\ [ChannelNext]_channelVars => ChannelInv'
  BY ChannelTypeStep, LinkStep, WakeStep, IterStep, CloseStep, TakersStep, OffersStep,
     InvitationStep, EndStep DEF ChannelInv
<1> QED
  BY <1>1, ChannelInitInv, PTL DEF ChannelSpec

\* Type correctness of channels.jl's state, for every size and set of tasks.
THEOREM ChannelTypeCorrect == ChannelSpec => []ChannelTypeOK
<1>1. ChannelInv => ChannelTypeOK
  BY DEF ChannelInv
<1> QED
  BY <1>1, ChannelInvHolds, PTL

\* put_buffered's notify of all of cond_take: no take! and no fetch is ever left
\* asleep next to a buffered value, however many wait and whichever are cancelled.
THEOREM TakersAreServed == ChannelSpec => []TakersSeeItems
<1>1. ChannelInv => TakersSeeItems
  BY DEF ChannelInv
<1> QED
  BY <1>1, ChannelInvHolds, PTL

\* _increment_n_avail and the finally clauses of put!: n_avail_items is exactly
\* what is buffered and on offer, so nobody sleeps in wait(c) with something ready.
THEOREM OffersAreCounted == ChannelSpec => []WaitersSeeOffers
<1>1. ChannelInv => WaitersSeeOffers
  BY DEF ChannelInv
<1> QED
  BY <1>1, ChannelInvHolds, PTL

\* take!'s notify of a single put!: no invitation is lost on a cancelled waiter
\* or to a third put!, so no put! and no taker is stranded.
THEOREM InvitationsAreUsed == ChannelSpec => []NoWastedInvitation
<1>1. ChannelInv => NoWastedInvitation
  BY DEF ChannelInv
<1> QED
  BY <1>1, ChannelInvHolds, PTL

\* iterate's isopen and isready outside the lock, and the exception it catches:
\* an iteration that has ended has left no value behind.
THEOREM IterationMissesNothing == ChannelSpec => []IterationIsComplete
<1>1. ChannelInv => IterationIsComplete
  BY DEF ChannelInv
<1> QED
  BY <1>1, ChannelInvHolds, PTL

\* close and cancel!: whoever was parked, or about to park, is released.
THEOREM CloseIsComplete == ChannelSpec => []CloseReleases
<1>1. ChannelInv => CloseReleases
  BY DEF ChannelInv
<1> QED
  BY <1>1, ChannelInvHolds, PTL

=============================================================================
