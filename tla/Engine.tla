------------------------------- MODULE Engine -------------------------------
(***************************************************************************)
(* The inference engine's table of leases (src/engine.c).  A thread that   *)
(* wants to infer a (method instance, owner) pair reserves it; a second    *)
(* thread waits on engine_wait until the lease is fulfilled, unless that   *)
(* would close a cycle of waiters, in which case it gets a placeholder     *)
(* that is not in the table.  A lease whose placeholder has become garbage *)
(* is removed by the collector.                                            *)
(*                                                                         *)
(* Everything between lock and unlock of engine_lock is one step.          *)
(***************************************************************************)
EXTENDS Integers, FiniteSets

CONSTANTS
  Threads,      \* threads that run inference, by tid
  Keys,         \* infer_key_t: pairs of a method instance and an owner
  NoKey,        \* a NULL entry of `awaiting`
  MaxCalls      \* bound: calls of jl_engine_reserve by one thread

ASSUME EngineAssumption ==
  /\ NoKey \notin Keys
  /\ MaxCalls \in Nat
  /\ IsFiniteSet(Threads) /\ IsFiniteSet(Keys)

VARIABLES
  pc,             \* where a thread is in jl_engine_reserve
  ci,             \* the placeholder of its current call, which names mi and owner
  calls,          \* calls made so far; numbers the placeholders of a thread
  held,           \* placeholders a thread still refers to
  reservations,   \* the leases: key to the placeholder in the table
  awaiting,       \* which key a thread is blocked on
  engine_nqueued  \* per thread; finalizers run only when it is zero

vars == <<pc, ci, calls, held, reservations, awaiting, engine_nqueued>>

\* A code instance made by jl_new_codeinst_uninit; its tid is the one that
\* reservation_info_t records.
CodeInst == [tid : Threads, key : Keys, n : 1..MaxCalls]

HT_NOTFOUND == [tid |-> NoKey, key |-> NoKey, n |-> 0]

Reserved(k) == reservations[k] # HT_NOTFOUND

\* The thread blocks: its key is leased, so it cannot resume yet.
Blocked(t) == awaiting[t] # NoKey /\ Reserved(awaiting[t])

LeaseHolder(t) == reservations[awaiting[t]].tid

\* Mutant: only the holder itself is looked at.
VisitedDirect(w) == {w}

(***************************************************************************)
(* The threads the walk over `awaiting` visits, starting at w: the         *)
(* smallest set that holds w and the holder of whatever a member waits     *)
(* for.  The walk stops at a thread that is not blocked.                   *)
(***************************************************************************)
ClosedUnderWait(S) == \A x \in S : Blocked(x) => LeaseHolder(x) \in S

Visited(w) ==
  {u \in Threads :
     \A S \in SUBSET Threads : w \in S /\ ClosedUnderWait(S) => u \in S}

Init ==
  /\ pc = [t \in Threads |-> "run"]
  /\ ci = [t \in Threads |-> HT_NOTFOUND]
  /\ calls = [t \in Threads |-> 0]
  /\ held = [t \in Threads |-> {}]
  /\ reservations = [k \in Keys |-> HT_NOTFOUND]
  /\ awaiting = [t \in Threads |-> NoKey]
  /\ engine_nqueued = [t \in Threads |-> 0]

\* jl_engine_reserve up to the lock: finalizers are disabled first, then
\* jl_new_codeinst_uninit makes an object that is not in use.
ReserveCall(t, k) ==
  LET c == [tid |-> t, key |-> k, n |-> calls[t] + 1] IN
  /\ pc[t] = "run"
  /\ calls[t] < MaxCalls
  /\ calls' = [calls EXCEPT ![t] = @ + 1]
  /\ ci' = [ci EXCEPT ![t] = c]
  /\ engine_nqueued' = [engine_nqueued EXCEPT ![t] = @ + 1]
  /\ held' = [held EXCEPT ![t] = @ \cup {c}]
  /\ pc' = [pc EXCEPT ![t] = "lock"]
  /\ UNCHANGED <<reservations, awaiting>>

\* A turn of the loop under engine_lock: the first one, or the one after
\* uv_cond_wait has returned.
AtLock(t) == pc[t] \in {"lock", "woken"}

ReserveInsert(t) ==
  /\ AtLock(t)
  /\ ~Reserved(ci[t].key)
  /\ reservations' = [reservations EXCEPT ![ci[t].key] = ci[t]]
  /\ awaiting' = [awaiting EXCEPT ![t] = NoKey]
  /\ ci' = [ci EXCEPT ![t] = HT_NOTFOUND]
  /\ pc' = [pc EXCEPT ![t] = "run"]
  /\ UNCHANGED <<calls, held, engine_nqueued>>

\* The lease is this thread's own, or its holder waits, directly or through
\* others, for one that is.
ReserveCycle(t) ==
  /\ AtLock(t)
  /\ Reserved(ci[t].key)
  /\ t \in Visited(reservations[ci[t].key].tid)
  /\ awaiting' = [awaiting EXCEPT ![t] = NoKey]
  /\ pc' = [pc EXCEPT ![t] = "cycle"]
  /\ UNCHANGED <<ci, calls, held, reservations, engine_nqueued>>

\* uv_cond_wait(&engine_wait, &engine_lock), with the key published.
ReserveWait(t) ==
  /\ AtLock(t)
  /\ Reserved(ci[t].key)
  /\ t \notin Visited(reservations[ci[t].key].tid)
  /\ awaiting' = [awaiting EXCEPT ![t] = ci[t].key]
  /\ pc' = [pc EXCEPT ![t] = "wait"]
  /\ UNCHANGED <<ci, calls, held, reservations, engine_nqueued>>

\* uv_cond_wait may return without a broadcast.
SpuriousWake(t) ==
  /\ pc[t] = "wait"
  /\ pc' = [pc EXCEPT ![t] = "woken"]
  /\ UNCHANGED <<ci, calls, held, reservations, awaiting, engine_nqueued>>

\* Mutant: the count is not given back.
ReserveReturnKeepsCount(t) ==
  /\ pc[t] = "cycle"
  /\ ci' = [ci EXCEPT ![t] = HT_NOTFOUND]
  /\ pc' = [pc EXCEPT ![t] = "run"]
  /\ UNCHANGED <<calls, held, reservations, awaiting, engine_nqueued>>

\* After the unlock, when a cycle was found: the caller gets a placeholder
\* that is not in the table.
ReserveReturn(t) ==
  /\ pc[t] = "cycle"
  /\ engine_nqueued' = [engine_nqueued EXCEPT ![t] = @ - 1]
  /\ ci' = [ci EXCEPT ![t] = HT_NOTFOUND]
  /\ pc' = [pc EXCEPT ![t] = "run"]
  /\ UNCHANGED <<calls, held, reservations, awaiting>>

\* Mutant: uv_cond_signal
SignalOne ==
  LET asleep == {t \in Threads : pc[t] = "wait"} IN
  IF asleep = {} THEN pc ELSE [pc EXCEPT ![CHOOSE t \in asleep : TRUE] = "woken"]

\* Mutant: the waiters are not told.
Silent == pc

\* uv_cond_broadcast(&engine_wait)
Broadcast == [t \in Threads |-> IF pc[t] = "wait" THEN "woken" ELSE pc[t]]

\* jl_engine_fulfill, which jl_engine_reject also is: a placeholder that is
\* not in the table is ignored.
Fulfill(t, c) ==
  /\ pc[t] = "run"
  /\ c \in held[t]
  /\ held' = [held EXCEPT ![t] = @ \ {c}]
  /\ IF reservations[c.key] = c
     THEN /\ engine_nqueued' = [engine_nqueued EXCEPT ![t] = @ - 1]
          /\ reservations' = [reservations EXCEPT ![c.key] = HT_NOTFOUND]
          /\ pc' = Broadcast
     ELSE UNCHANGED <<engine_nqueued, reservations, pc>>
  /\ UNCHANGED <<ci, calls, awaiting>>

\* Inference throws, or its task is dropped: nobody refers to the placeholder
\* any more and nobody will fulfil it.
Abandon(t, c) ==
  /\ pc[t] = "run"
  /\ c \in held[t]
  /\ held' = [held EXCEPT ![t] = @ \ {c}]
  /\ UNCHANGED <<pc, ci, calls, reservations, awaiting, engine_nqueued>>

\* The placeholder in the table was not marked.
Unmarked(k) == Reserved(k) /\ \A t \in Threads : reservations[k] \notin held[t]

\* jl_engine_sweep, called by the collector with the world stopped: it removes
\* every unmarked lease and gives its thread the count back.
Sweep ==
  LET dead == {k \in Keys : Unmarked(k)} IN
  /\ dead # {}
  /\ reservations' = [k \in Keys |-> IF k \in dead THEN HT_NOTFOUND ELSE reservations[k]]
  /\ engine_nqueued' =
       [t \in Threads |->
          engine_nqueued[t] - Cardinality({k \in dead : reservations[k].tid = t})]
  /\ pc' = Broadcast
  /\ UNCHANGED <<ci, calls, held, awaiting>>

\* All calls made and every lease given back.
Done ==
  /\ \A t \in Threads : pc[t] = "run" /\ calls[t] = MaxCalls /\ held[t] = {}
  /\ \A k \in Keys : ~Reserved(k)
  /\ UNCHANGED vars

Reserve(t) ==
  \/ ReserveInsert(t)
  \/ ReserveCycle(t)
  \/ ReserveWait(t)
  \/ ReserveReturn(t)

Next ==
  \/ \E t \in Threads :
       \/ \E k \in Keys : ReserveCall(t, k)
       \/ Reserve(t)
       \/ SpuriousWake(t)
       \/ \E c \in held[t] : Fulfill(t, c) \/ Abandon(t, c)
  \/ Sweep
  \/ Done

Spec == Init /\ [][Next]_vars

(***************************************************************************)
(* A thread in jl_engine_reserve is scheduled, and inference ends: a       *)
(* running thread fulfils what it holds.  No collection is promised.       *)
(***************************************************************************)
Fairness ==
  \A t \in Threads :
    /\ WF_vars(Reserve(t))
    /\ WF_vars(\E c \in held[t] : Fulfill(t, c))

FairSpec == Spec /\ Fairness

-----------------------------------------------------------------------------
\* Every variable has the type engine.c gives it.
TypeOK ==
  /\ pc \in [Threads -> {"run", "lock", "wait", "woken", "cycle"}]
  /\ ci \in [Threads -> CodeInst \cup {HT_NOTFOUND}]
  /\ calls \in [Threads -> 0..MaxCalls]
  /\ held \in [Threads -> SUBSET CodeInst]
  /\ reservations \in [Keys -> CodeInst \cup {HT_NOTFOUND}]
  /\ awaiting \in [Threads -> Keys \cup {NoKey}]
  /\ engine_nqueued \in [Threads -> Int]

(***************************************************************************)
(* No set of threads is blocked on itself: following "waits for the lease  *)
(* of" from any thread ends at a thread that can run.  This is what the    *)
(* deadlock detection of jl_engine_reserve is for, and also why its own    *)
(* walk ends: each of its steps follows one such edge.                     *)
(***************************************************************************)
NoWaitCycle ==
  \A S \in SUBSET Threads :
    (\A x \in S : Blocked(x) /\ LeaseHolder(x) \in S) => S = {}

(***************************************************************************)
(* A thread asleep in uv_cond_wait waits for a lease somebody has: the     *)
(* broadcasts of fulfil and sweep miss nobody.                             *)
(***************************************************************************)
SleepsOnLease == \A t \in Threads : pc[t] = "wait" => Reserved(ci[t].key)

(***************************************************************************)
(* engine_nqueued counts the leases a thread has and the call it is in, so *)
(* that finalizers are disabled exactly while it infers: no path (a cycle, *)
(* a fulfil of a placeholder that lost, a sweep) leaves it off by one.     *)
(***************************************************************************)
QueuedIsExact ==
  \A t \in Threads :
    engine_nqueued[t] =
      Cardinality({k \in Keys : Reserved(k) /\ reservations[k].tid = t})
        + (IF pc[t] = "run" THEN 0 ELSE 1)

(***************************************************************************)
(* Every call of jl_engine_reserve returns, unless a lease has been        *)
(* abandoned, which only a collection can release.                         *)
(***************************************************************************)
ReserveEnds ==
  \A t \in Threads :
    pc[t] # "run" ~> (pc[t] = "run" \/ \E k \in Keys : Unmarked(k))
=============================================================================
