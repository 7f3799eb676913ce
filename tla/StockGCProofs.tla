---- MODULE StockGCProofs ----
(* Proofs about StockGC, for any sets of objects, mutators and collector     *)
(* threads and any number of collections, and about the queues its markers   *)
(* take their work from (WorkStealingQueue).                                 *)
EXTENDS StockGC, WorkStealingQueue, FiniteSetTheorems, TLAPS

Item == Obj \X Nat
Barrier == [at : {"wb", "queue"}, parent : Obj, ptr : Heap]

TypeOK ==
  /\ alloc \subseteq Heap /\ root \subseteq Heap
  /\ bits \in [Obj -> {GC_CLEAN, GC_MARKED, GC_OLD, GC_OLD_MARKED}]
  /\ field \in [Obj -> Heap \cup {NULL}]
  /\ remset \in [Obj -> Nat] /\ image_remset \subseteq Image
  /\ weak \in Heap \cup {NULL}
  /\ finalizers \subseteq Heap /\ finalizer_list_marked \subseteq Heap
  /\ to_finalize \subseteq Heap
  /\ wb \in [Thread -> Barrier \cup {NULL}]
  /\ phase \in {"none", "mark", "marked", "sweep", "swept"}
  /\ recollect \in BOOLEAN /\ prev_sweep_full \in BOOLEAN
  /\ queue \in [Marker -> SUBSET Item]
  /\ hand \in [Marker -> Item \cup {NULL}]
  /\ metadata \subseteq Obj
  /\ victims \in [Marker -> SUBSET Marker]
  /\ mpc \in [Marker -> {"idle", "loop", "observing", "enough", "mark"}]
  /\ gc_n_threads_marking \in Nat /\ observed \in Nat

-----------------------------------------------------------------------------
(* The inductive invariant of the mark loop.                                 *)
Marking == {m \in Marker : mpc[m] = "mark"}
Observing(m) == mpc[m] \in {"observing", "enough"}

\* Only a marking thread has work in hand, at most one observes, and work in
\* the queue of a thread that is not marking is still to be tried by one that is.
LoopInv ==
  /\ gc_n_threads_marking = Cardinality(Marking)
  /\ \A m \in Marker : hand[m] # NULL => m \in Marking
  /\ \A m, n \in Marker : Observing(m) /\ Observing(n) => m = n
  /\ \A v \in Marker \ Marking : queue[v] # {} => \E m \in Marking : v \in victims[m]

\* Outside the mark phase all queues are empty and all markers at rest.
RestInv ==
  /\ \A m \in Marker : mpc[m] = "idle" <=> m = Initiator /\ phase # "mark"
  /\ phase # "mark" => \A m \in Marker : queue[m] = {} /\ m \notin Marking /\ ~Observing(m)

-----------------------------------------------------------------------------
(* The inductive invariant of the header bits and the remembered sets.       *)
Collecting == phase \in {"mark", "marked", "sweep"}
Marked == {o \in Obj : gc_marked(bits[o])}

\* The mark work that is yet to be done for an object.
InQueue(o, m, k) == <<o, k>> \in queue[m]
InHand(o, m) == hand[m] # NULL /\ hand[m][1] = o
Pending(o) == \E m \in Marker : InHand(o, m) \/ \E k \in Nat : InQueue(o, m, k)

\* A barrier between the store that made `o` point to where it does and the
\* remembering of `o`.
PendingWb(o) ==
  \E t \in Thread : /\ wb[t] # NULL /\ wb[t].parent = o
                    /\ wb[t].at = "queue" \/ wb[t].ptr = field[o]

BarrierInv ==
  \A t \in Thread : wb[t] # NULL =>
    /\ phase = "none"
    /\ wb[t].parent \in root \cup Image /\ wb[t].ptr \in root
    /\ wb[t].at = "queue" => wb[t].parent \in Marked

\* Outside a collection GC_MARKED means remembered; within one, what is
\* remembered is old and marked.  Work waits for marked objects only.
RemInv ==
  \A o \in Obj :
    /\ ~Collecting => ((bits[o] = GC_MARKED) <=> remset[o] > 0)
    /\ Collecting /\ remset[o] > 0 => bits[o] = GC_OLD_MARKED
    /\ Pending(o) => o \in Marked

\* A heap object that is scanned in one pass is remembered or waits for
\* marking, and either only once.
Single == Heap \ MultiPass
OnceInv ==
  \A o \in Single :
    /\ remset[o] <= 1
    /\ Pending(o) => remset[o] = 0
    /\ \A m, n \in Marker : InHand(o, m) /\ InHand(o, n) => m = n
    /\ \A m, n \in Marker, k \in Nat : ~(InHand(o, m) /\ InQueue(o, n, k))
    /\ \A m, n \in Marker, j, k \in Nat : InQueue(o, m, j) /\ InQueue(o, n, k) => m = n /\ j = k

\* Image objects stay marked, and one that holds a pointer was written.
ImageInv ==
  \A o \in Image :
    /\ o \in Marked
    /\ Collecting => bits[o] = GC_OLD_MARKED
    /\ bits[o] = GC_MARKED \/ remset[o] > 0 => o \in image_remset
    /\ field[o] # NULL => o \in image_remset \/ PendingWb(o)

\* The generational invariant: outside a collection an old, marked object
\* refers to a marked one, unless the next collection or a barrier sees to it.
OldInv ==
  ~Collecting => \A o \in Obj : bits[o] = GC_OLD_MARKED =>
    \/ field[o] = NULL \/ field[o] \in Marked
    \/ o \in image_remset /\ prev_sweep_full
    \/ PendingWb(o)

\* The invariant of marking: a marked object that no work waits for refers to
\* a marked one, and is remembered if it is old and the other is not.
ColorInv ==
  Collecting => \A o \in Marked :
    \/ Pending(o) \/ field[o] = NULL
    \/ /\ field[o] \in Marked
       /\ bits[o] = GC_OLD_MARKED => remset[o] > 0 \/ bits[field[o]] = GC_OLD_MARKED

Roots == root \cup Image \cup to_finalize \cup finalizers \cup finalizer_list_marked
         \cup ({weak} \ {NULL})

\* What is marked and what the roots lead to is in use; a collection marks the
\* roots, and at its end all of them are.
LiveInv ==
  /\ \E T \in SUBSET (alloc \cup Image) : Roots \cup Marked \subseteq T /\ Closed(T, Obj)
  /\ Collecting => root \subseteq Marked
  /\ phase = "sweep" => Roots \subseteq Marked

\* The objects on the list of old ones are old, and stay marked until a full
\* sweep.
FinInv ==
  \A o \in finalizer_list_marked :
    /\ gc_old(bits[o]) \/ (~Collecting /\ bits[o] = GC_MARKED)
    /\ ~prev_sweep_full => o \in Marked

\* What waits for its finalizer is out of the mutators' reach.
WeakInv ==
  \E R \in SUBSET Obj : /\ root \cup Image \cup ({weak} \ {NULL}) \subseteq R
                        /\ Closed(R, Obj)
                        /\ R \cap to_finalize = {}

\* A task is never left to the write barrier: outside a collection it is not
\* in the state that would ask for one, and within it a marked old task is
\* remembered once it is scanned.
TaskInv ==
  \A o \in Tasks : bits[o] = GC_OLD_MARKED => Collecting /\ (Pending(o) \/ remset[o] > 0)

\* An object that was claimed waits in one place, and until it is scanned its
\* metadata has not been updated; that of an unmarked object never was.
HoldsClaim(o, m) == hand[m] = <<o, 0>>
ClaimInv ==
  /\ metadata # {} => phase \in {"mark", "marked"}
  /\ \A o \in metadata : o \in Marked
  /\ \A o \in Obj, m \in Marker : HoldsClaim(o, m) \/ InQueue(o, m, 0) => o \notin metadata
  /\ \A o \in Obj : \A m, n \in Marker : HoldsClaim(o, m) /\ HoldsClaim(o, n) => m = n
  /\ \A o \in Obj : \A m, n \in Marker : ~(HoldsClaim(o, m) /\ InQueue(o, n, 0))
  /\ \A o \in Obj : \A m, n \in Marker : InQueue(o, m, 0) /\ InQueue(o, n, 0) => m = n

HeapInv == BarrierInv /\ RemInv /\ OnceInv /\ ImageInv /\ OldInv /\ ColorInv /\ LiveInv /\ FinInv /\ WeakInv

-----------------------------------------------------------------------------
(* Types.                                                                    *)
LEMMA Distinct ==
  /\ NULL \notin Obj /\ NULL \notin Heap /\ NULL \notin Item /\ NULL \notin Barrier
  /\ Heap \cap Image = {} /\ Watched \subseteq Heap /\ Tasks \subseteq Heap
  /\ Initiator \in Marker /\ Initiator \notin Collector /\ Collector \subseteq Marker
BY StockGCAssumption DEF Obj, Item, Barrier, Marker

LEMMA ItemFacts ==
  ASSUME NEW o \in Obj, NEW k \in Nat
  PROVE  <<o, k>> # NULL /\ <<o, k>>[1] = o
<1>1. <<o, k>> \in Item
  BY DEF Item
<1> QED
  BY <1>1, Distinct

LEMMA MarkerFinite == IsFiniteSet(Marker)
<1>1. IsFiniteSet(Collector)
  BY StockGCAssumption
<1>2. IsFiniteSet(Collector \cup {Initiator})
  BY <1>1, FS_AddElement
<1> QED
  BY <1>2 DEF Marker

LEMMA TypeInit == Init => TypeOK
<1> SUFFICES ASSUME Init PROVE TypeOK
  OBVIOUS
<1>1. bits \in [Obj -> {GC_CLEAN, GC_MARKED, GC_OLD, GC_OLD_MARKED}]
  BY DEF Init
<1>2. /\ queue \in [Marker -> SUBSET Item] /\ hand \in [Marker -> Item \cup {NULL}]
      /\ victims \in [Marker -> SUBSET Marker]
      /\ mpc \in [Marker -> {"idle", "loop", "observing", "enough", "mark"}]
  BY DEF Init
<1> QED
  BY <1>1, <1>2 DEF Init, TypeOK

LEMMA TypeMutate ==
  ASSUME TypeOK, Mutate
  PROVE  TypeOK'
<1> USE DEF TypeOK
<1>1. ASSUME NEW t \in Thread, NEW o \in Obj, NEW c \in Heap \cup {NULL}, Store(t, o, c)
      PROVE  TypeOK'
  <2>1. c # NULL => [at |-> "wb", parent |-> o, ptr |-> c] \in Barrier
    BY DEF Barrier
  <2>2. wb' \in [Thread -> Barrier \cup {NULL}]
    BY <1>1, <2>1 DEF Store
  <2> QED
    BY <1>1, <2>2 DEF Store, barVars, finVars, cycleVars, markVars
<1>8. ASSUME NEW t \in Thread, NEW o \in Obj, NEW c \in Heap \cup {NULL}, StackStore(t, o, c)
      PROVE  TypeOK'
  BY <1>8 DEF StackStore, barVars, finVars, cycleVars, markVars
<1>2. ASSUME NEW t \in Thread, jl_gc_wb(t) PROVE TypeOK'
  <2>1. wb[t] \in Barrier
    BY <1>2 DEF jl_gc_wb
  <2>2. [wb[t] EXCEPT !.at = "queue"] \in Barrier
    BY <2>1 DEF Barrier
  <2>3. wb' \in [Thread -> Barrier \cup {NULL}]
    BY <1>2, <2>2 DEF jl_gc_wb
  <2> QED
    BY <1>2, <2>3 DEF jl_gc_wb, heapVars, barVars, finVars, cycleVars, markVars
<1>3. ASSUME NEW t \in Thread, jl_gc_queue_root(t) PROVE TypeOK'
  <2>1. wb[t].parent \in Obj
    BY <1>3 DEF jl_gc_queue_root, Barrier
  <2>2. /\ bits' \in [Obj -> {GC_CLEAN, GC_MARKED, GC_OLD, GC_OLD_MARKED}]
        /\ remset' \in [Obj -> Nat] /\ image_remset' \subseteq Image
    BY <1>3, <2>1 DEF jl_gc_queue_root, Remember
  <2>3. wb' \in [Thread -> Barrier \cup {NULL}]
    BY <1>3 DEF jl_gc_queue_root
  <2> QED
    BY <1>3, <2>2, <2>3 DEF jl_gc_queue_root, heapVars, finVars, cycleVars, markVars
<1>4. ASSUME NEW t \in Thread, NEW o \in Obj, o \in Heap /\ Alloc(t, o) PROVE TypeOK'
  BY <1>4 DEF Alloc, finVars, cycleVars, markVars
<1>5. ASSUME NEW t \in Thread, NEW o \in Obj,
             Load(t, o) \/ Drop(t, o) \/ LoadWeakRef(t) \/ run_finalizers(t)
      PROVE  TypeOK'
  BY <1>5 DEF Load, Drop, LoadWeakRef, run_finalizers, barVars, finVars, cycleVars, markVars
<1>6. ASSUME NEW t \in Thread, NEW o \in Obj,
             NewWeakRef(t, o) \/ jl_gc_add_finalizer(t, o) \/ jl_finalize_th(t, o)
      PROVE  TypeOK'
  BY <1>6 DEF NewWeakRef, jl_gc_add_finalizer, jl_finalize_th, heapVars, barVars, finVars,
              cycleVars, markVars
<1>7. ASSUME NEW t \in Thread, LoadWeakRef(t) \/ run_finalizers(t) PROVE TypeOK'
  BY <1>7 DEF LoadWeakRef, run_finalizers, barVars, finVars, cycleVars, markVars
<1> QED
  BY <1>1, <1>2, <1>3, <1>4, <1>5, <1>6, <1>7, <1>8 DEF Mutate

LEMMA TypeStart ==
  ASSUME TypeOK, StartCollect
  PROVE  TypeOK'
<1> USE DEF TypeOK
<1>1. bits' \in [Obj -> {GC_CLEAN, GC_MARKED, GC_OLD, GC_OLD_MARKED}] /\ remset' \in [Obj -> Nat]
  BY DEF StartCollect, QueueRoots, SetMark
<1>2. ASSUME NEW o \in Obj PROVE Claimed(o) \in Item /\ Tagged(o, remset[o]) \subseteq Item
                                 /\ <<o, remset[o] + 1>> \in Item
  BY DEF Claimed, Tagged, Item
<1>3. queue' \in [Marker -> SUBSET Item]
  <2> DEFINE remembered == {o \in Obj : remset[o] > 0}
             claims == {o \in root : ~gc_marked(bits[o])}
             work == {Claimed(o) : o \in claims} \cup UNION {Tagged(o, remset[o]) : o \in remembered}
             image == IF prev_sweep_full THEN {<<o, remset[o] + 1>> : o \in image_remset} ELSE {}
  <2>1. work \subseteq Item
    BY <1>2 DEF Obj
  <2>2. image \subseteq Item
    BY <1>2 DEF Obj
  <2>3. \E dest \in [work -> Marker] :
          queue' = [m \in Marker |-> {item \in work : dest[item] = m}
                                     \cup (IF m = Initiator THEN image ELSE {})]
    BY DEF StartCollect, QueueRoots
  <2> HIDE DEF work, image
  <2> QED
    BY <2>1, <2>2, <2>3, Distinct
<1>4. /\ mpc' \in [Marker -> {"idle", "loop", "observing", "enough", "mark"}]
      /\ victims' \in [Marker -> SUBSET Marker] /\ gc_n_threads_marking' \in Nat
  BY Distinct DEF StartCollect, Others
<1> QED
  BY <1>1, <1>3, <1>4 DEF StartCollect, heapVars, finVars

LEMMA TypeMark ==
  ASSUME TypeOK, LoopInv, NEW m \in Marker,
         \/ \E item \in queue[m] : Pop(m, item)
         \/ \E v \in Others(m) :
              \/ \E item \in queue[v], losers \in SUBSET Others(m) : Steal(m, v, item, losers)
              \/ StealNothing(m, v)
         \/ \E n \in 1..MaxPasses : gc_mark_outrefs(m, n)
         \/ LeaveMarkAndSteal(m)
         \/ ObserveMarking(m) \/ CountWork(m) \/ EnterMarkLoop(m) \/ ObserveZero(m)
  PROVE  TypeOK'
<1> USE DEF TypeOK
<1>1. ASSUME NEW item \in queue[m], Pop(m, item) PROVE TypeOK'
  BY <1>1 DEF Pop, heapVars, barVars, finVars, cycleVars
<1>2. ASSUME NEW v \in Others(m), NEW item \in queue[v], NEW losers \in SUBSET Others(m),
             Steal(m, v, item, losers)
      PROVE  TypeOK'
  <2>1. v \in Marker /\ item \in Item
    BY <1>2 DEF Others
  <2>2. victims' \in [Marker -> SUBSET Marker]
    BY <1>2 DEF Steal, Others
  <2> QED
    BY <1>2, <2>1, <2>2 DEF Steal, heapVars, barVars, finVars, cycleVars
<1>3. ASSUME NEW v \in Others(m), StealNothing(m, v) PROVE TypeOK'
  BY <1>3 DEF StealNothing, heapVars, barVars, finVars, cycleVars
<1>4. ASSUME NEW n \in 1..MaxPasses, gc_mark_outrefs(m, n) PROVE TypeOK'
  <2>1. hand[m] \in Item /\ hand[m][1] \in Obj
    BY <1>4 DEF gc_mark_outrefs, Item
  <2>2. field[hand[m][1]] # NULL => field[hand[m][1]] \in Obj /\ Claimed(field[hand[m][1]]) \in Item
    BY <2>1 DEF Claimed, Item, Obj
  <2>3. bits' \in [Obj -> {GC_CLEAN, GC_MARKED, GC_OLD, GC_OLD_MARKED}]
    BY <1>4, <2>2 DEF gc_mark_outrefs, SetMark
  <2>4. queue' \in [Marker -> SUBSET Item]
    BY <1>4, <2>2 DEF gc_mark_outrefs
  <2>5. remset' \in [Obj -> Nat] /\ metadata' \subseteq Obj
    <3>1. n \in Nat
      BY StockGCAssumption
    <3> QED
      BY <1>4, <2>1, <3>1 DEF gc_mark_outrefs
  <2> QED
    BY <1>4, <2>3, <2>4, <2>5 DEF gc_mark_outrefs, heapVars, finVars, cycleVars
<1>5. CASE LeaveMarkAndSteal(m)
  <2>1. m \in Marking /\ IsFiniteSet(Marking)
    BY <1>5, MarkerFinite, FS_Subset DEF LeaveMarkAndSteal, Stealing, Marking
  <2>2. Cardinality(Marking) # 0
    BY <2>1, FS_EmptySet
  <2>3. gc_n_threads_marking' \in Nat
    BY <1>5, <2>2 DEF LeaveMarkAndSteal, LoopInv
  <2> QED
    BY <1>5, <2>3 DEF LeaveMarkAndSteal, heapVars, barVars, finVars, cycleVars
<1>6. CASE ObserveMarking(m) \/ CountWork(m) \/ EnterMarkLoop(m) \/ ObserveZero(m)
  BY <1>6 DEF ObserveMarking, CountWork, EnterMarkLoop, ObserveZero, Others, heapVars, barVars,
              finVars, cycleVars
<1> QED
  BY <1>1, <1>2, <1>3, <1>4, <1>5, <1>6

LEMMA TypeFinish ==
  ASSUME TypeOK,
         \/ \E young \in SUBSET Watched : FinishMark(young)
         \/ \E full, forced \in BOOLEAN : \E skipped \in SUBSET Heap : Sweep(full, forced, skipped)
  PROVE  TypeOK'
<1> USE DEF TypeOK
<1>1. ASSUME NEW young \in SUBSET Watched, FinishMark(young) PROVE TypeOK'
  <2>1. FoundDead \subseteq Heap /\ FoundOld(young) \subseteq Heap
    BY DEF FoundDead, FoundOld, Unmarked
  <2>2. weak' \in Heap \cup {NULL}
    BY <1>1 DEF FinishMark, ClearedWeak
  <2>3. bits' \in [Obj -> {GC_CLEAN, GC_MARKED, GC_OLD, GC_OLD_MARKED}]
    BY <1>1 DEF FinishMark
  <2> QED
    BY <1>1, <2>1, <2>2, <2>3 DEF FinishMark, heapVars, markVars
<1>2. ASSUME NEW full \in BOOLEAN, NEW forced \in BOOLEAN, NEW skipped \in SUBSET Heap,
             Sweep(full, forced, skipped)
      PROVE  TypeOK'
  <2>1. \A o \in Obj : SweptBits(o, full) \in {GC_CLEAN, GC_MARKED, GC_OLD, GC_OLD_MARKED}
    BY DEF SweptBits, Promote
  <2>2. /\ alloc' \subseteq Heap /\ field' \in [Obj -> Heap \cup {NULL}]
        /\ bits' \in [Obj -> {GC_CLEAN, GC_MARKED, GC_OLD, GC_OLD_MARKED}]
    BY <1>2, <2>1 DEF Sweep
  <2> QED
    BY <1>2, <2>2 DEF Sweep, finVars, markVars
<1> QED
  BY <1>1, <1>2

-----------------------------------------------------------------------------
(* The mark loop ends when its work is done.                                 *)
LEMMA MarkingCounted ==
  /\ IsFiniteSet(Marking) /\ Cardinality(Marking) \in Nat
  /\ Cardinality(Marking) = 0 <=> Marking = {}
<1>1. IsFiniteSet(Marking)
  BY MarkerFinite, FS_Subset DEF Marking
<1> QED
  BY <1>1, FS_CardinalityType, FS_EmptySet

\* A step that leaves the mark loop alone, and the phase too unless it stays
\* outside the mark phase.
LEMMA LoopFrame ==
  ASSUME TypeOK, LoopInv, RestInv, UNCHANGED <<queue, hand, victims, mpc, gc_n_threads_marking>>,
         phase' = phase \/ (phase # "mark" /\ phase' # "mark")
  PROVE  LoopInv' /\ RestInv'
<1>1. Marking' = Marking /\ \A m \in Marker : Observing(m)' <=> Observing(m)
  BY DEF Marking, Observing
<1>2. Cardinality(Marking)' = Cardinality(Marking)
  BY <1>1
<1>3. LoopInv'
  BY <1>1, <1>2 DEF LoopInv
<1>4. RestInv'
  BY <1>1 DEF RestInv
<1> QED
  BY <1>3, <1>4

LEMMA LoopStart ==
  ASSUME TypeOK, LoopInv, RestInv, StartCollect
  PROVE  LoopInv' /\ RestInv'
<1> USE Distinct
<1>1. phase # "mark" /\ phase' = "mark"
  BY DEF StartCollect
<1>2. Marking = {} /\ \A m \in Marker : ~Observing(m) /\ hand[m] = NULL /\ queue[m] = {}
  BY <1>1 DEF LoopInv, RestInv, Marking
<1>3. Marking' = Marking \cup {Initiator} /\ Initiator \notin Marking
  BY <1>2 DEF StartCollect, Marking, TypeOK
<1>4. Cardinality(Marking \cup {Initiator}) = Cardinality(Marking) + 1
  BY <1>3, MarkingCounted, FS_AddElement
<1>5. gc_n_threads_marking' = Cardinality(Marking')
  BY <1>3, <1>4 DEF StartCollect, LoopInv
<1>6. \A m \in Marker : ~Observing(m)'
  BY <1>2 DEF StartCollect, Observing, TypeOK
<1>7. \A v \in Marker \ Marking' : \E m \in Marking' : v \in victims'[m]
  BY <1>3 DEF StartCollect, TypeOK, Others
<1>8. LoopInv'
  BY <1>2, <1>3, <1>5, <1>6, <1>7 DEF StartCollect, LoopInv
<1>9. RestInv'
  BY <1>1 DEF StartCollect, RestInv, TypeOK
<1> QED
  BY <1>8, <1>9

\* Markers exchange work among themselves: Marking stays.
LEMMA LoopWork ==
  ASSUME TypeOK, LoopInv, RestInv, NEW m \in Marker,
         \/ \E item \in queue[m] : Pop(m, item)
         \/ \E v \in Others(m) :
              \/ \E item \in queue[v], losers \in SUBSET Others(m) : Steal(m, v, item, losers)
              \/ StealNothing(m, v)
         \/ \E n \in 1..MaxPasses : gc_mark_outrefs(m, n)
  PROVE  LoopInv' /\ RestInv'
<1>1. mpc' = mpc /\ phase' = phase /\ gc_n_threads_marking' = gc_n_threads_marking
  BY DEF Pop, Steal, StealNothing, gc_mark_outrefs, cycleVars
<1>2. Marking' = Marking /\ \A n \in Marker : Observing(n)' <=> Observing(n)
  BY <1>1 DEF Marking, Observing
<1>3. gc_n_threads_marking' = Cardinality(Marking')
  BY <1>1, <1>2 DEF LoopInv
<1>4. m \in Marking /\ phase = "mark"
  BY Distinct DEF Pop, Steal, StealNothing, gc_mark_outrefs, Stealing, LoopInv, Marking, RestInv
<1>5. \A n \in Marker : hand'[n] # NULL => n \in Marking
  BY <1>4 DEF Pop, Steal, StealNothing, gc_mark_outrefs, LoopInv, TypeOK
<1>6. ASSUME NEW w \in Marker \ Marking, queue'[w] # {}
      PROVE  \E n \in Marking : w \in victims'[n]
  <2>1. CASE \E item \in queue[m] : Pop(m, item)
    BY <1>4, <1>6, <2>1 DEF Pop, LoopInv, TypeOK
  <2>2. ASSUME NEW v \in Others(m), NEW item \in queue[v], NEW losers \in SUBSET Others(m),
               Steal(m, v, item, losers)
        PROVE  \E n \in Marking : w \in victims'[n]
    <3>1. w \in Others(m) /\ victims'[m] = Others(m)
      BY <1>4, <2>2 DEF Steal, Others
    <3> QED
      BY <3>1, <1>4
  <2>3. ASSUME NEW v \in Others(m), StealNothing(m, v)
        PROVE  \E n \in Marking : w \in victims'[n]
    <3>1. queue' = queue /\ w # v
      BY <1>6, <2>3 DEF StealNothing
    <3>2. PICK n \in Marking : w \in victims[n]
      BY <1>6, <3>1 DEF LoopInv
    <3>3. w \in victims'[n]
      BY <2>3, <3>1, <3>2 DEF StealNothing, TypeOK, Marking
    <3> QED
      BY <3>3
  <2>4. ASSUME NEW p \in 1..MaxPasses, gc_mark_outrefs(m, p)
        PROVE  \E n \in Marking : w \in victims'[n]
    <3>1. queue'[w] = queue[w] /\ victims' = victims
      BY <1>4, <2>4 DEF gc_mark_outrefs, TypeOK
    <3> QED
      BY <1>6, <3>1 DEF LoopInv
  <2> QED
    BY <2>1, <2>2, <2>3, <2>4
<1>7. LoopInv'
  BY <1>2, <1>3, <1>5, <1>6 DEF LoopInv
<1>8. RestInv'
  BY <1>1, <1>2, <1>4 DEF RestInv
<1> QED
  BY <1>7, <1>8

LEMMA LoopLeave ==
  ASSUME TypeOK, LoopInv, RestInv, NEW m \in Marker, LeaveMarkAndSteal(m)
  PROVE  LoopInv' /\ RestInv'
<1>1. m \in Marking /\ phase = "mark" /\ phase' = phase
  BY DEF LeaveMarkAndSteal, Stealing, Marking, RestInv, cycleVars
<1>2. Marking' = Marking \ {m}
  BY DEF LeaveMarkAndSteal, Marking, TypeOK
<1>3. Cardinality(Marking \ {m}) = Cardinality(Marking) - 1
  BY <1>1, MarkingCounted, FS_RemoveElement
<1>4. gc_n_threads_marking' = Cardinality(Marking')
  BY <1>2, <1>3 DEF LeaveMarkAndSteal, LoopInv
<1>5. \A n \in Marker : Observing(n)' <=> Observing(n)
  BY DEF LeaveMarkAndSteal, Stealing, Observing, TypeOK
<1>6. \A n \in Marker : hand'[n] # NULL => n \in Marking'
  BY <1>2 DEF LeaveMarkAndSteal, Stealing, LoopInv
<1>7. ASSUME NEW v \in Marker \ Marking', queue'[v] # {} PROVE \E n \in Marking' : v \in victims'[n]
  <2>1. v # m /\ queue[v] # {} /\ v \notin Marking
    BY <1>2, <1>7 DEF LeaveMarkAndSteal, Stealing
  <2>2. PICK n \in Marking : v \in victims[n]
    BY <2>1 DEF LoopInv
  <2> QED
    BY <1>2, <2>2 DEF LeaveMarkAndSteal
<1>8. LoopInv'
  BY <1>4, <1>5, <1>6, <1>7 DEF LoopInv
<1>9. RestInv'
  BY <1>1 DEF LeaveMarkAndSteal, Stealing, RestInv, TypeOK
<1> QED
  BY <1>8, <1>9

LEMMA LoopEnter ==
  ASSUME TypeOK, LoopInv, RestInv, NEW m \in Marker, EnterMarkLoop(m)
  PROVE  LoopInv' /\ RestInv'
<1>1. m \notin Marking /\ phase = "mark" /\ phase' = phase
  BY DEF EnterMarkLoop, Observing, Marking, RestInv, cycleVars
<1>2. Marking' = Marking \cup {m}
  BY DEF EnterMarkLoop, Marking, TypeOK
<1>3. Cardinality(Marking \cup {m}) = Cardinality(Marking) + 1
  BY <1>1, MarkingCounted, FS_AddElement
<1>4. gc_n_threads_marking' = Cardinality(Marking')
  BY <1>2, <1>3 DEF EnterMarkLoop, LoopInv
<1>5. \A n \in Marker : Observing(n)' => Observing(n)
  BY DEF EnterMarkLoop, Observing, TypeOK
<1>6. \A n \in Marker : hand'[n] # NULL => n \in Marking'
  BY <1>2 DEF EnterMarkLoop, LoopInv
<1>7. \A v \in Marker \ Marking' : queue'[v] # {} => \E n \in Marking' : v \in victims'[n]
  BY <1>2 DEF EnterMarkLoop, TypeOK, Others
<1>8. LoopInv'
  BY <1>4, <1>5, <1>6, <1>7 DEF LoopInv
<1>9. RestInv'
  BY <1>1 DEF EnterMarkLoop, RestInv, TypeOK
<1> QED
  BY <1>8, <1>9

\* The observer lock: one thread at a time looks at the counter and the queues.
LEMMA LoopObserve ==
  ASSUME TypeOK, LoopInv, RestInv, NEW m \in Marker,
         ObserveMarking(m) \/ CountWork(m) \/ ObserveZero(m)
  PROVE  LoopInv' /\ RestInv'
<1>1. Marking' = Marking /\ m \notin Marking
  BY DEF ObserveMarking, CountWork, ObserveZero, Marking, TypeOK
<1>2. gc_n_threads_marking' = Cardinality(Marking')
  BY <1>1 DEF ObserveMarking, CountWork, ObserveZero, LoopInv
<1>3. \A n \in Marker : n # m => ~Observing(n)
  BY DEF ObserveMarking, CountWork, ObserveZero, ObserverLockFree, Observing, LoopInv
<1>4. \A n \in Marker : n # m => ~Observing(n)'
  BY <1>3 DEF ObserveMarking, CountWork, ObserveZero, Observing, TypeOK
<1>5. queue' = queue /\ hand' = hand /\ victims' = victims
  BY DEF ObserveMarking, CountWork, ObserveZero
<1>6. LoopInv'
  BY <1>1, <1>2, <1>4, <1>5 DEF LoopInv
<1>7. CASE ObserveMarking(m) \/ CountWork(m)
  <2>1. Marking # {} \/ Observing(m)
    BY <1>7, MarkingCounted DEF ObserveMarking, CountWork, Observing, LoopInv
  <2>2. phase = "mark" /\ phase' = phase
    BY <1>7, <2>1 DEF RestInv, ObserveMarking, CountWork, Marking, cycleVars
  <2> QED
    BY <1>6, <1>7, <2>2 DEF RestInv, ObserveMarking, CountWork, TypeOK
<1>8. CASE ObserveZero(m)
  <2>1. Marking = {}
    BY <1>8, MarkingCounted DEF ObserveZero, LoopInv
  <2>2. \A n \in Marker : queue'[n] = {} /\ n \notin Marking'
    BY <1>1, <1>5, <2>1 DEF LoopInv
  <2>3. \A n \in Marker : ~Observing(n)'
    BY <1>4, <1>8 DEF ObserveZero, Observing, TypeOK
  <2>4. \A n \in Marker : mpc'[n] = "idle" <=> n = Initiator /\ phase' # "mark"
    BY <1>8 DEF ObserveZero, RestInv, TypeOK
  <2> QED
    BY <1>6, <2>2, <2>3, <2>4 DEF RestInv
<1> QED
  BY <1>7, <1>8

-----------------------------------------------------------------------------
(* The heap under the mutators.                                              *)
LoopOK == TypeOK /\ LoopInv /\ RestInv

LEMMA InitHeap == Init => LoopOK /\ HeapInv
<1> SUFFICES ASSUME Init PROVE LoopOK /\ HeapInv
  OBVIOUS
<1> USE Distinct
<1>1. TypeOK
  BY TypeInit
<1>2. Marking = {} /\ \A m \in Marker : ~Observing(m) /\ queue[m] = {} /\ hand[m] = NULL
  BY DEF Init, Marking, Observing
<1>3. LoopInv /\ RestInv
  BY <1>2, MarkingCounted DEF Init, LoopInv, RestInv
<1>4. \A o \in Obj : ~Pending(o)
  BY <1>2 DEF Pending, InHand, InQueue
<1>5. \A o \in Obj, m \in Marker, k \in Nat : ~InHand(o, m) /\ ~InQueue(o, m, k)
  BY <1>2 DEF InHand, InQueue
<1>6. Marked = Image /\ ~Collecting
  BY DEF Init, Marked, gc_marked, Obj, GC_CLEAN, GC_MARKED, GC_OLD, GC_OLD_MARKED, Collecting
<1>7. BarrierInv /\ RemInv /\ OnceInv
  BY <1>4, <1>5, <1>6 DEF Init, BarrierInv, RemInv, OnceInv, Single, Obj, GC_CLEAN, GC_MARKED, GC_OLD_MARKED
<1>8. ImageInv /\ OldInv /\ ColorInv /\ FinInv
  BY <1>6 DEF Init, ImageInv, OldInv, ColorInv, FinInv, Obj, GC_CLEAN, GC_MARKED, GC_OLD_MARKED
<1>9. Closed(Image, Obj)
  BY DEF Init, Closed, Obj
<1>10. LiveInv
  BY <1>6, <1>9 DEF Init, LiveInv, Roots, Collecting
<1>11. WeakInv
  BY <1>9 DEF Init, WeakInv, Obj
<1> QED
  BY <1>1, <1>3, <1>7, <1>8, <1>10, <1>11 DEF LoopOK, HeapInv

LEMMA NothingPending ==
  ASSUME LoopInv, RestInv, phase # "mark"
  PROVE  /\ \A o \in Obj : ~Pending(o)
         /\ \A o \in Obj, m \in Marker, k \in Nat : ~InHand(o, m) /\ ~InQueue(o, m, k)
BY DEF LoopInv, RestInv, Pending, InHand, InQueue

\* A step outside a collection that starts none keeps the queues empty.
LEMMA Quiet ==
  ASSUME LoopOK, phase \notin {"mark", "marked", "sweep"}, UNCHANGED markVars, phase' = phase
  PROVE  /\ ~Collecting /\ ~Collecting' /\ phase # "mark" /\ phase # "sweep"
         /\ \A o \in Obj : ~Pending(o)'
         /\ \A o \in Obj, m \in Marker, k \in Nat : ~InHand(o, m)' /\ ~InQueue(o, m, k)'
<1>1. \A o \in Obj, m \in Marker, k \in Nat : ~InHand(o, m)' /\ ~InQueue(o, m, k)'
  BY NothingPending DEF LoopOK, InHand, InQueue, markVars
<1>2. \A o \in Obj : ~Pending(o)'
  BY <1>1 DEF Pending
<1> QED
  BY <1>1, <1>2 DEF Collecting

\* Steps that leave headers and pointers alone.
LEMMA BitsFrame ==
  ASSUME LoopOK, HeapInv, UNCHANGED <<field, barVars, wb, cycleVars, markVars>>
  PROVE  RemInv' /\ OnceInv' /\ ImageInv' /\ OldInv' /\ ColorInv'
<1>1. /\ Marked' = Marked /\ Collecting' = Collecting
      /\ \A o \in Obj : (Pending(o)' <=> Pending(o)) /\ (PendingWb(o)' <=> PendingWb(o))
      /\ \A o \in Obj, m \in Marker, k \in Nat : /\ InHand(o, m)' <=> InHand(o, m)
                                                 /\ InQueue(o, m, k)' <=> InQueue(o, m, k)
  BY DEF Marked, Collecting, Pending, PendingWb, InHand, InQueue, barVars, cycleVars, markVars
<1>2. RemInv' /\ OnceInv'
  BY <1>1 DEF HeapInv, RemInv, OnceInv, Single, barVars, Obj
<1>3. ImageInv' /\ OldInv' /\ ColorInv'
  BY <1>1 DEF HeapInv, ImageInv, OldInv, ColorInv, barVars, cycleVars, Obj, Marked
<1> QED
  BY <1>2, <1>3

\* Steps of a mutator that load, drop, watch or finalize objects.
HoldStep(t) ==
  \/ \E o \in Obj : \/ Load(t, o) \/ Drop(t, o) \/ NewWeakRef(t, o)
                    \/ jl_gc_add_finalizer(t, o) \/ jl_finalize_th(t, o)
  \/ LoadWeakRef(t) \/ run_finalizers(t)

LEMMA HoldHeap ==
  ASSUME LoopOK, HeapInv, NEW t \in Thread, HoldStep(t)
  PROVE  HeapInv'
<1> USE DEF HeapInv
<1>1. /\ UNCHANGED <<alloc, field, barVars, wb, cycleVars, markVars>> /\ phase = "none"
      /\ bits' = bits /\ phase' = "none" /\ prev_sweep_full' = prev_sweep_full
  BY DEF HoldStep, Load, Drop, NewWeakRef, jl_gc_add_finalizer, jl_finalize_th, LoadWeakRef,
         run_finalizers, heapVars, Mutating, barVars, cycleVars
<1>2. RemInv' /\ OnceInv' /\ ImageInv' /\ OldInv' /\ ColorInv'
  BY <1>1, BitsFrame
<1>3. Marked' = Marked /\ ~Collecting /\ ~Collecting' /\ \A T : Closed(T, Obj)' <=> Closed(T, Obj)
  BY <1>1 DEF Marked, Collecting, Closed
<1>4. BarrierInv'
  <2>1. \/ root \subseteq root'
        \/ \E o \in Obj : /\ root' = root \ {o}
                          /\ \A u \in Thread : wb[u] # NULL => o \notin {wb[u].parent, wb[u].ptr}
    BY DEF HoldStep, Load, Drop, NewWeakRef, jl_gc_add_finalizer, jl_finalize_th, LoadWeakRef,
           run_finalizers, heapVars
  <2> QED
    BY <1>1, <1>3, <2>1 DEF BarrierInv
<1>5. LiveInv'
  <2>1. PICK T \in SUBSET (alloc \cup Image) : Roots \cup Marked \subseteq T /\ Closed(T, Obj)
    BY DEF LiveInv
  <2>2. \A o \in root \cup Image : field[o] \in Heap => field[o] \in T
    BY <2>1 DEF Closed, Roots, Obj
  <2>3. root' \subseteq T
    BY <2>1, <2>2, Distinct DEF HoldStep, Load, Drop, NewWeakRef, jl_gc_add_finalizer,
                                jl_finalize_th, LoadWeakRef, run_finalizers, heapVars, Roots
  <2>4. weak' \in {weak} \cup root
    BY DEF HoldStep, Load, Drop, NewWeakRef, jl_gc_add_finalizer, jl_finalize_th, LoadWeakRef,
           run_finalizers, finVars
  <2>5. to_finalize' \cup finalizers' \cup finalizer_list_marked' \subseteq Roots
    BY DEF HoldStep, Load, Drop, NewWeakRef, jl_gc_add_finalizer, jl_finalize_th, LoadWeakRef,
           run_finalizers, finVars, Roots
  <2>6. Roots' \subseteq T
    BY <2>1, <2>3, <2>4, <2>5 DEF Roots
  <2> QED
    BY <1>1, <1>3, <2>1, <2>6 DEF LiveInv
<1>6. FinInv'
  <2>1. finalizer_list_marked' \subseteq finalizer_list_marked
    BY DEF HoldStep, Load, Drop, NewWeakRef, jl_gc_add_finalizer, jl_finalize_th, LoadWeakRef,
           run_finalizers, finVars
  <2> QED
    BY <1>1, <1>3, <2>1 DEF FinInv
<1>7. WeakInv'
  <2>1. PICK R \in SUBSET Obj : /\ root \cup Image \cup ({weak} \ {NULL}) \subseteq R
                                /\ Closed(R, Obj) /\ R \cap to_finalize = {}
    BY DEF WeakInv
  <2>2. CASE run_finalizers(t)
    <3>1. Closed(Obj, Obj) /\ to_finalize' = {}
      BY <2>2 DEF Closed, run_finalizers
    <3>2. root' \cup Image \cup ({weak'} \ {NULL}) \subseteq Obj
      BY <2>1, <2>2 DEF run_finalizers, LoopOK, TypeOK, Obj
    <3> QED
      BY <1>3, <3>1, <3>2 DEF WeakInv
  <2>3. CASE ~run_finalizers(t)
    <3>1. \A o \in root \cup Image : field[o] \in Heap => field[o] \in R
      BY <2>1 DEF Closed, Obj
    <3>2. root' \subseteq R
      BY <2>1, <2>3, <3>1, Distinct DEF HoldStep, Load, Drop, NewWeakRef, jl_gc_add_finalizer,
                              jl_finalize_th, LoadWeakRef, heapVars, Obj
    <3>3. to_finalize' = to_finalize /\ weak' \in {weak} \cup root
      BY <2>3 DEF HoldStep, Load, Drop, NewWeakRef, jl_gc_add_finalizer, jl_finalize_th,
                  LoadWeakRef, finVars
    <3> QED
      BY <1>3, <2>1, <3>2, <3>3 DEF WeakInv
  <2> QED
    BY <2>2, <2>3
<1> QED
  BY <1>2, <1>4, <1>5, <1>6, <1>7

LEMMA AllocHeap ==
  ASSUME LoopOK, HeapInv, NEW t \in Thread, NEW o \in Heap, Alloc(t, o)
  PROVE  HeapInv'
<1> USE Distinct DEF HeapInv
<1>1. PICK T \in SUBSET (alloc \cup Image) : Roots \cup Marked \subseteq T /\ Closed(T, Obj)
  BY DEF LiveInv
<1>2. o \notin alloc /\ o \notin Image /\ o \in Obj /\ phase = "none" /\ phase' = phase /\ UNCHANGED markVars
  BY DEF Alloc, Mutating, Obj, cycleVars
<1>3. /\ \A x \in Obj : bits'[x] = IF x = o THEN GC_CLEAN ELSE bits[x]
      /\ \A x \in Obj : field'[x] = IF x = o THEN NULL ELSE field[x]
      /\ remset' = remset /\ image_remset' = image_remset /\ wb' = wb
      /\ prev_sweep_full' = prev_sweep_full /\ root' = root \cup {o} /\ alloc' = alloc \cup {o}
  BY <1>2 DEF Alloc, LoopOK, TypeOK, cycleVars
<1>4. o \notin Marked /\ Marked' = Marked
  BY <1>1, <1>2, <1>3 DEF Marked, gc_marked, GC_CLEAN, GC_MARKED, GC_OLD_MARKED
<1>5. /\ ~Collecting /\ ~Collecting' /\ phase # "mark" /\ phase # "sweep"
      /\ \A x \in Obj : ~Pending(x)'
      /\ \A x \in Obj, m \in Marker, k \in Nat : ~InHand(x, m)' /\ ~InQueue(x, m, k)'
  BY <1>2, Quiet
<1>6. \A x \in Obj : x # o => (PendingWb(x)' <=> PendingWb(x))
  BY <1>3 DEF PendingWb
<1>7. BarrierInv'
  BY <1>2, <1>3, <1>4 DEF BarrierInv
<1>8. RemInv' /\ OnceInv'
  <2>1. bits[o] # GC_MARKED /\ GC_CLEAN # GC_MARKED
    BY <1>2, <1>4 DEF Marked, gc_marked, GC_CLEAN, GC_MARKED
  <2>2. RemInv'
    BY <1>3, <1>5, <2>1 DEF RemInv
  <2>3. OnceInv'
    BY <1>3, <1>5 DEF OnceInv, Single, Obj
  <2> QED
    BY <2>2, <2>3
<1>9. ImageInv'
  BY <1>2, <1>3, <1>4, <1>5, <1>6 DEF ImageInv, Obj
<1>10. OldInv' /\ ColorInv'
  <2>1. GC_CLEAN # GC_OLD_MARKED
    BY DEF GC_CLEAN, GC_OLD_MARKED
  <2> QED
    BY <1>3, <1>4, <1>5, <1>6, <2>1 DEF OldInv, ColorInv
<1>11. LiveInv'
  <2>1. Closed(T \cup {o}, Obj)'
    BY <1>1, <1>2, <1>3 DEF Closed, Obj, LoopOK, TypeOK
  <2>2. Roots' \subseteq T \cup {o}
    BY <1>1, <1>3 DEF Alloc, finVars, Roots
  <2>3. T \cup {o} \in SUBSET (alloc' \cup Image)
    BY <1>1, <1>3
  <2> QED
    BY <1>1, <1>2, <1>4, <1>5, <2>1, <2>2, <2>3 DEF LiveInv
<1>12. FinInv'
  <2>1. o \notin finalizer_list_marked /\ finalizer_list_marked' = finalizer_list_marked
    BY <1>1, <1>2 DEF Roots, Alloc, finVars
  <2> QED
    BY <1>3, <1>4, <1>5, <2>1 DEF FinInv, LoopOK, TypeOK, Obj
<1>13. WeakInv'
  <2>1. PICK R \in SUBSET Obj : /\ root \cup Image \cup ({weak} \ {NULL}) \subseteq R
                                /\ Closed(R, Obj) /\ R \cap to_finalize = {}
    BY DEF WeakInv
  <2>2. o \notin to_finalize /\ to_finalize' = to_finalize /\ weak' = weak
    BY <1>1, <1>2 DEF Roots, Alloc, finVars
  <2>3. Closed(R \cup {o}, Obj)'
    BY <1>2, <1>3, <2>1 DEF Closed, Obj
  <2> QED
    BY <1>2, <1>3, <2>1, <2>2, <2>3 DEF WeakInv
<1> QED
  BY <1>7, <1>8, <1>9, <1>10, <1>11, <1>12, <1>13

LEMMA StoreHeap ==
  ASSUME LoopOK, HeapInv, NEW t \in Thread, NEW o \in Obj, NEW c \in Heap \cup {NULL},
         Store(t, o, c)
  PROVE  HeapInv'
<1> USE Distinct DEF HeapInv
<1>1. PICK T \in SUBSET (alloc \cup Image) : Roots \cup Marked \subseteq T /\ Closed(T, Obj)
  BY DEF LiveInv
<1>2. /\ phase = "none" /\ phase' = phase /\ UNCHANGED markVars
      /\ wb[t] = NULL /\ o \in root \cup Image /\ c \in root \cup {NULL}
  BY DEF Store, MayStore, Mutating, cycleVars
<1>3. /\ \A x \in Obj : field'[x] = IF x = o THEN c ELSE field[x]
      /\ remset' = remset /\ image_remset' = image_remset /\ bits' = bits
      /\ prev_sweep_full' = prev_sweep_full /\ root' = root /\ alloc' = alloc
      /\ UNCHANGED finVars /\ Marked' = Marked /\ Roots' = Roots
  BY DEF Store, LoopOK, TypeOK, cycleVars, barVars, finVars, Marked, Roots
<1>4. \A u \in Thread : wb'[u] = IF u # t THEN wb[u] ELSE IF c = NULL THEN NULL
                                 ELSE [at |-> "wb", parent |-> o, ptr |-> c]
  BY DEF Store, LoopOK, TypeOK
<1>5. /\ ~Collecting /\ ~Collecting' /\ phase # "mark" /\ phase # "sweep"
      /\ \A x \in Obj : ~Pending(x)'
      /\ \A x \in Obj, m \in Marker, k \in Nat : ~InHand(x, m)' /\ ~InQueue(x, m, k)'
  BY <1>2, Quiet
<1>6. ASSUME c # NULL
      PROVE  LET w == [at |-> "wb", parent |-> o, ptr |-> c]
             IN  w # NULL /\ w.at = "wb" /\ w.parent = o /\ w.ptr = c
  <2>1. [at |-> "wb", parent |-> o, ptr |-> c] \in Barrier
    BY <1>6 DEF Barrier
  <2> QED
    BY <2>1
<1>7. ASSUME NEW x \in Obj, x # o, PendingWb(x) PROVE PendingWb(x)'
  BY <1>2, <1>3, <1>4, <1>7 DEF PendingWb
<1>8. c # NULL => PendingWb(o)'
  BY <1>3, <1>4, <1>6 DEF PendingWb
<1>9. BarrierInv'
  BY <1>2, <1>3, <1>4, <1>6 DEF BarrierInv
<1>10. RemInv' /\ OnceInv'
  BY <1>3, <1>5 DEF RemInv, OnceInv, Single, Obj
<1>11. ImageInv'
  BY <1>3, <1>5, <1>7, <1>8 DEF ImageInv, Obj
<1>12. OldInv' /\ ColorInv'
  BY <1>3, <1>5, <1>7, <1>8 DEF OldInv, ColorInv
<1>13. LiveInv'
  <2>1. Closed(T, Obj)'
    BY <1>1, <1>2, <1>3 DEF Closed, Obj, Roots, LoopOK, TypeOK
  <2> QED
    BY <1>1, <1>2, <1>3, <1>5, <2>1 DEF LiveInv
<1>14. FinInv'
  BY <1>3, <1>5 DEF FinInv, finVars
<1>15. WeakInv'
  <2>1. PICK R \in SUBSET Obj : /\ root \cup Image \cup ({weak} \ {NULL}) \subseteq R
                                /\ Closed(R, Obj) /\ R \cap to_finalize = {}
    BY DEF WeakInv
  <2>2. Closed(R, Obj)'
    BY <1>2, <1>3, <2>1 DEF Closed, Obj
  <2> QED
    BY <1>3, <2>1, <2>2 DEF WeakInv, finVars
<1> QED
  BY <1>9, <1>10, <1>11, <1>12, <1>13, <1>14, <1>15

\* A store on a task's stack, which no barrier follows.
LEMMA StackHeap ==
  ASSUME LoopOK, HeapInv, TaskInv, NEW t \in Thread, NEW o \in Obj, NEW c \in Heap \cup {NULL},
         StackStore(t, o, c)
  PROVE  HeapInv'
<1> USE Distinct DEF HeapInv
<1>1. PICK T \in SUBSET (alloc \cup Image) : Roots \cup Marked \subseteq T /\ Closed(T, Obj)
  BY DEF LiveInv
<1>2. /\ phase = "none" /\ phase' = phase /\ UNCHANGED markVars
      /\ o \in root /\ o \in Tasks /\ o \notin Image /\ c \in root \cup {NULL}
  BY DEF StackStore, MayStore, Mutating, cycleVars
<1>3. /\ \A x \in Obj : field'[x] = IF x = o THEN c ELSE field[x]
      /\ remset' = remset /\ image_remset' = image_remset /\ bits' = bits /\ wb' = wb
      /\ prev_sweep_full' = prev_sweep_full /\ root' = root /\ alloc' = alloc
      /\ UNCHANGED finVars /\ Marked' = Marked /\ Roots' = Roots
  BY DEF StackStore, LoopOK, TypeOK, cycleVars, barVars, finVars, Marked, Roots
<1>4. /\ ~Collecting /\ ~Collecting' /\ phase # "mark" /\ phase # "sweep"
      /\ \A x \in Obj : ~Pending(x)'
      /\ \A x \in Obj, m \in Marker, k \in Nat : ~InHand(x, m)' /\ ~InQueue(x, m, k)'
  BY <1>2, Quiet
<1>5. bits[o] # GC_OLD_MARKED
  BY <1>2, <1>4 DEF TaskInv
<1>6. ASSUME NEW x \in Obj, x # o, PendingWb(x) PROVE PendingWb(x)'
  BY <1>3, <1>6 DEF PendingWb
<1>7. BarrierInv' /\ RemInv' /\ OnceInv'
  BY <1>2, <1>3, <1>4 DEF BarrierInv, RemInv, OnceInv, Single, Obj
<1>8. ImageInv'
  BY <1>2, <1>3, <1>4, <1>6 DEF ImageInv, Obj
<1>9. OldInv' /\ ColorInv'
  BY <1>3, <1>4, <1>5, <1>6 DEF OldInv, ColorInv
<1>10. LiveInv'
  <2>1. Closed(T, Obj)'
    BY <1>1, <1>2, <1>3 DEF Closed, Obj, Roots, LoopOK, TypeOK
  <2> QED
    BY <1>1, <1>2, <1>3, <1>4, <2>1 DEF LiveInv
<1>11. FinInv'
  BY <1>3, <1>4 DEF FinInv, finVars
<1>12. WeakInv'
  <2>1. PICK R \in SUBSET Obj : /\ root \cup Image \cup ({weak} \ {NULL}) \subseteq R
                                /\ Closed(R, Obj) /\ R \cap to_finalize = {}
    BY DEF WeakInv
  <2>2. Closed(R, Obj)'
    BY <1>2, <1>3, <2>1 DEF Closed, Obj
  <2> QED
    BY <1>3, <2>1, <2>2 DEF WeakInv, finVars
<1> QED
  BY <1>7, <1>8, <1>9, <1>10, <1>11, <1>12

LEMMA WbHeap ==
  ASSUME LoopOK, HeapInv, NEW t \in Thread, jl_gc_wb(t)
  PROVE  HeapInv'
<1> USE Distinct DEF HeapInv
<1> DEFINE o == wb[t].parent
           c == wb[t].ptr
<1>1. /\ wb[t] \in Barrier /\ wb[t].at = "wb" /\ o \in Obj /\ c \in Heap
      /\ phase = "none" /\ phase' = phase /\ UNCHANGED markVars
      /\ wb[t] # NULL /\ o \in root \cup Image /\ c \in root
  BY DEF jl_gc_wb, LoopOK, TypeOK, Barrier, BarrierInv, cycleVars
<1>2. /\ field' = field /\ remset' = remset /\ image_remset' = image_remset /\ bits' = bits
      /\ prev_sweep_full' = prev_sweep_full /\ root' = root /\ alloc' = alloc
      /\ UNCHANGED finVars /\ Marked' = Marked /\ Roots' = Roots
      /\ \A S : Closed(S, Obj)' <=> Closed(S, Obj)
  BY DEF jl_gc_wb, heapVars, cycleVars, barVars, finVars, Marked, Roots, Closed
<1>3. \A u \in Thread : wb'[u] = IF u # t THEN wb[u]
                                 ELSE IF NeedsQueue(o, c) THEN [wb[t] EXCEPT !.at = "queue"] ELSE NULL
  BY DEF jl_gc_wb, LoopOK, TypeOK
<1>4. LET w == [wb[t] EXCEPT !.at = "queue"]
      IN  w # NULL /\ w.at = "queue" /\ w.parent = o /\ w.ptr = c
  <2>1. [wb[t] EXCEPT !.at = "queue"] \in Barrier
    BY <1>1 DEF Barrier
  <2> QED
    BY <1>1, <2>1 DEF Barrier
<1>5. /\ ~Collecting /\ ~Collecting' /\ phase # "mark" /\ phase # "sweep"
      /\ \A x \in Obj : ~Pending(x)'
      /\ \A x \in Obj, m \in Marker, k \in Nat : ~InHand(x, m)' /\ ~InQueue(x, m, k)'
  BY <1>1, Quiet
<1>6. ASSUME NEW x \in Obj, PendingWb(x)
      PROVE  PendingWb(x)' \/ (x = o /\ c = field[o] /\ ~NeedsQueue(o, c))
  BY <1>1, <1>2, <1>3, <1>4, <1>6 DEF PendingWb
<1>7. NeedsQueue(o, c) => o \in Marked
  BY <1>1 DEF NeedsQueue, Marked, gc_marked
<1>8. BarrierInv'
  <2>1. ASSUME NEW u \in Thread, wb'[u] # NULL
        PROVE  /\ phase' = "none" /\ wb'[u].parent \in root' \cup Image /\ wb'[u].ptr \in root'
               /\ wb'[u].at = "queue" => wb'[u].parent \in Marked'
    <3>1. CASE u = t
      <4>1. NeedsQueue(o, c) /\ wb'[t] = [wb[t] EXCEPT !.at = "queue"]
        BY <1>3, <2>1, <3>1
      <4> QED
        BY <1>1, <1>2, <1>4, <1>7, <3>1, <4>1
    <3>2. CASE u # t
      BY <1>1, <1>2, <1>3, <2>1, <3>2 DEF BarrierInv
    <3> QED
      BY <3>1, <3>2
  <2> QED
    BY <2>1 DEF BarrierInv
<1>9. RemInv' /\ OnceInv'
  BY <1>2, <1>5 DEF RemInv, OnceInv, Single, Obj
<1>10. ImageInv'
  <2>1. ASSUME NEW x \in Image, field[x] # NULL PROVE x \in image_remset \/ PendingWb(x)'
    <3>1. CASE x = o /\ ~NeedsQueue(o, c)
      <4>1. bits[o] \in {GC_MARKED, GC_OLD_MARKED}
        BY <3>1 DEF ImageInv, Marked, gc_marked
      <4> QED
        BY <2>1, <3>1, <4>1 DEF NeedsQueue, ImageInv
    <3>2. CASE ~(x = o /\ ~NeedsQueue(o, c))
      BY <1>6, <2>1, <3>2 DEF ImageInv, Obj
    <3> QED
      BY <3>1, <3>2
  <2> QED
    BY <1>2, <1>5, <2>1 DEF ImageInv
<1>11. OldInv'
  <2>1. ASSUME NEW x \in Obj, bits[x] = GC_OLD_MARKED, x = o, c = field[o], ~NeedsQueue(o, c)
        PROVE  field[x] \in Marked
    BY <1>1, <2>1 DEF NeedsQueue, Marked, Obj
  <2> QED
    BY <1>2, <1>5, <1>6, <2>1 DEF OldInv
<1>12. ColorInv' /\ LiveInv' /\ FinInv' /\ WeakInv'
  BY <1>1, <1>2, <1>5 DEF ColorInv, LiveInv, FinInv, WeakInv, finVars
<1> QED
  BY <1>8, <1>9, <1>10, <1>11, <1>12

LEMMA QueueRootHeap ==
  ASSUME LoopOK, HeapInv, NEW t \in Thread, jl_gc_queue_root(t)
  PROVE  HeapInv'
<1> USE Distinct DEF HeapInv
<1> DEFINE o == wb[t].parent
<1>1. /\ wb[t] \in Barrier /\ wb[t].at = "queue" /\ o \in Obj
      /\ phase = "none" /\ phase' = phase /\ UNCHANGED markVars
      /\ wb[t] # NULL /\ o \in Marked
  BY DEF jl_gc_queue_root, LoopOK, TypeOK, Barrier, BarrierInv, cycleVars
<1>2. /\ field' = field /\ prev_sweep_full' = prev_sweep_full /\ root' = root /\ alloc' = alloc
      /\ UNCHANGED finVars /\ Roots' = Roots /\ \A S : Closed(S, Obj)' <=> Closed(S, Obj)
  BY DEF jl_gc_queue_root, heapVars, cycleVars, finVars, Roots, Closed
<1>3. /\ \A u \in Thread : wb'[u] = IF u # t THEN wb[u] ELSE NULL
      /\ \A x \in Obj : bits'[x] = IF x = o THEN GC_MARKED ELSE bits[x]
  BY DEF jl_gc_queue_root, LoopOK, TypeOK, Remember
<1>4. IF bits[o] = GC_OLD_MARKED
      THEN /\ \A x \in Obj : remset'[x] = IF x = o THEN remset[x] + 1 ELSE remset[x]
           /\ image_remset' = image_remset \cup ({o} \cap Image)
      ELSE remset' = remset /\ image_remset' = image_remset /\ bits[o] = GC_MARKED
  <2>1. bits[o] \in {GC_MARKED, GC_OLD_MARKED} /\ GC_MARKED # GC_OLD_MARKED
    BY <1>1 DEF Marked, gc_marked, GC_MARKED, GC_OLD_MARKED
  <2>2. gc_old(bits[o]) <=> bits[o] = GC_OLD_MARKED
    BY <2>1 DEF gc_old, GC_MARKED, GC_OLD, GC_OLD_MARKED
  <2> QED
    BY <2>1, <2>2 DEF jl_gc_queue_root, Remember, LoopOK, TypeOK
<1>5. Marked' = Marked
  BY <1>1, <1>3 DEF Marked, gc_marked
<1>6. /\ ~Collecting /\ ~Collecting' /\ phase # "mark" /\ phase # "sweep"
      /\ \A x \in Obj : ~Pending(x)'
      /\ \A x \in Obj, m \in Marker, k \in Nat : ~InHand(x, m)' /\ ~InQueue(x, m, k)'
  BY <1>1, Quiet
<1>7. ASSUME NEW x \in Obj, x # o, PendingWb(x) PROVE PendingWb(x)'
  BY <1>2, <1>3, <1>7 DEF PendingWb
<1>8. BarrierInv'
  BY <1>1, <1>2, <1>3, <1>5 DEF BarrierInv
<1>9. GC_MARKED # GC_OLD_MARKED
  BY DEF GC_MARKED, GC_OLD_MARKED
<1>10. \A x \in Obj : remset[x] \in Nat
  BY DEF LoopOK, TypeOK
<1>11. \A x \in Obj : (bits[x] = GC_MARKED) <=> remset[x] > 0
  BY <1>6 DEF RemInv
<1>12. RemInv'
  BY <1>1, <1>3, <1>4, <1>6, <1>9, <1>10, <1>11 DEF RemInv
<1>13. OnceInv'
  BY <1>1, <1>3, <1>4, <1>6, <1>9, <1>10, <1>11 DEF OnceInv, Single, Obj
<1>14. ImageInv'
  BY <1>1, <1>2, <1>3, <1>4, <1>5, <1>6, <1>7 DEF ImageInv, Obj
<1>15. OldInv' /\ ColorInv'
  BY <1>1, <1>2, <1>3, <1>4, <1>5, <1>6, <1>7, <1>9 DEF OldInv, ColorInv
<1>16. LiveInv' /\ WeakInv'
  BY <1>1, <1>2, <1>5, <1>6 DEF LiveInv, WeakInv, finVars
<1>17. FinInv'
  BY <1>2, <1>3, <1>5, <1>6 DEF FinInv, finVars, LoopOK, TypeOK, Obj
<1> QED
  BY <1>8, <1>12, <1>13, <1>14, <1>15, <1>16, <1>17

\* The mutators keep the invariant, however their stores and barriers mix.
LEMMA MutateHeap ==
  ASSUME LoopOK, HeapInv, TaskInv, Mutate
  PROVE  HeapInv'
BY AllocHeap, StoreHeap, StackHeap, WbHeap, QueueRootHeap, HoldHeap DEF Mutate, HoldStep

-----------------------------------------------------------------------------
(* Marking.                                                                  *)
LEMMA BitFacts ==
  /\ GC_MARKED # GC_OLD_MARKED /\ gc_old(GC_OLD_MARKED) /\ gc_old(GC_OLD) /\ ~gc_old(GC_MARKED)
  /\ ~gc_old(GC_CLEAN) /\ gc_marked(GC_MARKED) /\ gc_marked(GC_OLD_MARKED) /\ ~gc_marked(GC_OLD)
  /\ ~gc_marked(GC_CLEAN)
  /\ \A b : gc_marked(b) <=> b \in {GC_MARKED, GC_OLD_MARKED}
  /\ \A b : gc_marked(b) /\ gc_old(b) => b = GC_OLD_MARKED
  /\ \A b : gc_marked(SetMark(b)) /\ (gc_old(b) => SetMark(b) = GC_OLD_MARKED)
BY DEF gc_marked, gc_old, SetMark, GC_CLEAN, GC_MARKED, GC_OLD, GC_OLD_MARKED

LEMMA StartHeap ==
  ASSUME LoopOK, HeapInv, TaskInv, ClaimInv, StartCollect
  PROVE  HeapInv' /\ TaskInv' /\ ClaimInv'
<1> USE Distinct, BitFacts DEF HeapInv
<1> DEFINE remembered == {x \in Obj : remset[x] > 0}
           claims == {x \in root : ~gc_marked(bits[x])}
           claimed == {Claimed(x) : x \in claims}
           tagged == UNION {Tagged(x, remset[x]) : x \in remembered}
           work == claimed \cup tagged
           image == IF prev_sweep_full THEN {<<x, remset[x] + 1>> : x \in image_remset} ELSE {}
<1>1. /\ phase \in {"none", "swept"} /\ ~Collecting /\ phase' = "mark" /\ Collecting'
      /\ \A t \in Thread : wb[t] = NULL
      /\ UNCHANGED <<alloc, field, root, image_remset, finVars, wb, prev_sweep_full, hand>>
  BY DEF StartCollect, Collecting, heapVars
<1>2. PICK dest \in [work -> Marker] :
        queue' = [m \in Marker |-> {item \in work : dest[item] = m}
                                   \cup (IF m = Initiator THEN image ELSE {})]
  BY DEF StartCollect, QueueRoots
<1>3. /\ \A x \in Obj : bits'[x] = IF x \in remembered THEN GC_OLD_MARKED
                                   ELSE IF x \in claims THEN SetMark(bits[x]) ELSE bits[x]
      /\ \A x \in Obj : remset'[x] = 0
  BY DEF StartCollect, QueueRoots
<1>4. \A m \in Marker : queue'[m] = {item \in work : dest[item] = m}
                                    \cup (IF m = Initiator THEN image ELSE {})
  <2> HIDE DEF work, image
  <2> QED
    BY <1>2
<1>5. \A x \in Obj, k \in Nat :
        /\ <<x, k>> \in work <=> (x \in claims /\ k = 0) \/ (x \in remembered /\ k \in 1 .. remset[x])
        /\ <<x, k>> \in image <=> prev_sweep_full /\ x \in image_remset /\ k = remset[x] + 1
  <2>1. ASSUME NEW x \in Obj, NEW k \in Nat
        PROVE  <<x, k>> \in claimed <=> x \in claims /\ k = 0
    BY DEF Claimed
  <2>2. ASSUME NEW x \in Obj, NEW k \in Nat
        PROVE  <<x, k>> \in tagged <=> x \in remembered /\ k \in 1 .. remset[x]
    BY DEF Tagged
  <2>3. ASSUME NEW x \in Obj, NEW k \in Nat
        PROVE  <<x, k>> \in image <=> prev_sweep_full /\ x \in image_remset /\ k = remset[x] + 1
    OBVIOUS
  <2> HIDE DEF claimed, tagged, image, claims, remembered
  <2> QED
    BY <2>1, <2>2, <2>3
<1>6. /\ \A x \in Obj : remset[x] \in Nat /\ (x \in remembered <=> bits[x] = GC_MARKED)
      /\ \A x \in Single : remset[x] <= 1
      /\ remembered \subseteq Obj /\ claims \subseteq root /\ root \subseteq Obj
  BY <1>1 DEF RemInv, OnceInv, LoopOK, TypeOK, Obj
<1>7. \A x \in Obj, m \in Marker : ~InHand(x, m)'
  <2>1. \A m \in Marker : hand[m] = NULL
    BY <1>1 DEF LoopOK, LoopInv, RestInv
  <2> QED
    BY <1>1, <2>1 DEF InHand
<1> HIDE DEF work, image
<1>8. \A x \in Obj, m \in Marker, k \in Nat : InQueue(x, m, k)' <=>
        \/ <<x, k>> \in work /\ dest[<<x, k>>] = m
        \/ m = Initiator /\ <<x, k>> \in image
  BY <1>4 DEF InQueue
<1>9. Marked' = Marked \cup claims
  <2>1. \A x \in Obj : gc_marked(bits'[x]) <=> gc_marked(bits[x]) \/ x \in claims
    BY <1>3, <1>6
  <2> QED
    BY <1>6, <2>1 DEF Marked
<1>10. /\ \A x \in claims \cup remembered : Pending(x)'
       /\ \A x \in image_remset : prev_sweep_full => Pending(x)'
  <2>0. \A x \in Obj, k \in Nat : <<x, k>> \in work => \E m \in Marker : InQueue(x, m, k)'
    BY <1>8
  <2>1. ASSUME NEW x \in claims PROVE <<x, 0>> \in work /\ x \in Obj
    BY <1>5, <1>6
  <2>2. ASSUME NEW x \in remembered PROVE <<x, 1>> \in work /\ x \in Obj
    BY <1>5, <1>6
  <2>3. ASSUME NEW x \in image_remset, prev_sweep_full PROVE \E k \in Nat : InQueue(x, Initiator, k)'
    <3>1. x \in Obj
      BY DEF LoopOK, TypeOK, Obj
    <3>2. PICK k \in Nat : k = remset[x] + 1
      BY <1>6, <3>1
    <3>3. InQueue(x, Initiator, k)'
      BY <1>5, <1>8, <2>3, <3>1, <3>2, Distinct
    <3> QED
      BY <3>3
  <2>4. 0 \in Nat /\ 1 \in Nat
    OBVIOUS
  <2> QED
    BY <1>6, <2>0, <2>1, <2>2, <2>3, <2>4 DEF Pending
<1>11. BarrierInv' /\ OldInv'
  BY <1>1 DEF BarrierInv, OldInv
<1>12. RemInv'
  <2>1. ASSUME NEW x \in Obj, Pending(x)' PROVE x \in Marked'
    <3>1. x \in claims \/ x \in remembered \/ x \in image_remset
      BY <1>5, <1>7, <1>8, <2>1 DEF Pending
    <3>2. x \in remembered => x \in Marked
      BY <1>6 DEF Marked
    <3>3. x \in image_remset => x \in Marked
      BY DEF LoopOK, TypeOK, ImageInv
    <3> QED
      BY <1>9, <3>1, <3>2, <3>3
  <2> QED
    BY <1>1, <1>3, <2>1 DEF RemInv
<1>13. OnceInv'
  <2>1. ASSUME NEW x \in Single, NEW m \in Marker, NEW k \in Nat, InQueue(x, m, k)'
        PROVE  m = dest[<<x, k>>] /\ k = IF x \in claims THEN 0 ELSE 1
    <3>1. x \notin image_remset /\ x \in Obj
      BY DEF LoopOK, TypeOK, Obj, Single
    <3>2. x \in claims => x \notin remembered
      BY <1>6, <3>1
    <3>3. x \in remembered /\ k \in 1 .. remset[x] => k = 1
      BY <1>6, <3>1
    <3> QED
      BY <1>5, <1>8, <2>1, <3>1, <3>2, <3>3
  <2>2. \A x \in Single : x \in Obj /\ remset'[x] = 0
    BY <1>3 DEF Obj, Single
  <2>3. ASSUME NEW x \in Single, NEW m \in Marker, NEW n \in Marker, NEW j \in Nat, NEW k \in Nat,
               InQueue(x, m, j)', InQueue(x, n, k)'
        PROVE  m = n /\ j = k
    <3>1. /\ m = dest[<<x, j>>] /\ j = IF x \in claims THEN 0 ELSE 1
          /\ n = dest[<<x, k>>] /\ k = IF x \in claims THEN 0 ELSE 1
      BY <2>1, <2>3
    <3>2. j = k
      BY <3>1
    <3> QED
      BY <3>1, <3>2
  <2>4. \A x \in Single, m \in Marker : ~InHand(x, m)'
    BY <1>7, <2>2
  <2>5. \A x \in Single : remset'[x] <= 1 /\ remset'[x] = 0
    BY <2>2
  <2> QED
    BY <2>3, <2>4, <2>5 DEF OnceInv
<1>14. ImageInv'
  <2>1. ASSUME NEW x \in Image PROVE bits'[x] = GC_OLD_MARKED /\ x \in Marked'
    <3>1. x \in Obj /\ x \notin claims /\ bits[x] \in {GC_MARKED, GC_OLD_MARKED}
      BY DEF Obj, LoopOK, TypeOK, ImageInv, Marked
    <3> QED
      BY <1>3, <1>6, <1>9, <3>1 DEF ImageInv
  <2>2. \A x \in Image : ~PendingWb(x) /\ remset'[x] = 0
    BY <1>1, <1>3 DEF PendingWb, Obj
  <2> QED
    BY <1>1, <2>1, <2>2 DEF ImageInv
<1>15. ColorInv'
  <2>1. ASSUME NEW x \in Marked'
        PROVE  \/ Pending(x)' \/ field[x] = NULL
               \/ field[x] \in Marked' /\ bits'[field[x]] = GC_OLD_MARKED
    <3>1. CASE x \in claims \cup remembered
      BY <1>10, <3>1
    <3>2. CASE x \notin claims \cup remembered
      <4>1. x \in Obj /\ bits[x] = GC_OLD_MARKED
        BY <1>6, <1>9, <2>1, <3>2 DEF Marked
      <4>2. \/ field[x] = NULL \/ field[x] \in Marked \/ (x \in image_remset /\ prev_sweep_full)
        <5>1. ~PendingWb(x)
          BY <1>1 DEF PendingWb
        <5> QED
          BY <1>1, <4>1, <5>1 DEF OldInv
      <4>3. field[x] \in Marked => bits'[field[x]] = GC_OLD_MARKED
        BY <1>3, <1>6 DEF Marked
      <4> QED
        BY <1>9, <1>10, <4>2, <4>3
    <3> QED
      BY <3>1, <3>2
  <2> QED
    BY <1>1, <2>1 DEF ColorInv
<1>16. LiveInv'
  <2>1. PICK T \in SUBSET (alloc \cup Image) : Roots \cup Marked \subseteq T /\ Closed(T, Obj)
    BY DEF LiveInv
  <2>2. Roots' = Roots /\ Closed(T, Obj)' /\ Marked' \subseteq T
    BY <1>1, <1>6, <1>9, <2>1 DEF Roots, Closed, finVars
  <2>3. root' \subseteq Marked'
    BY <1>1, <1>6, <1>9 DEF Marked
  <2> QED
    BY <1>1, <2>1, <2>2, <2>3 DEF LiveInv
<1>17. FinInv'
  <2>1. ASSUME NEW x \in finalizer_list_marked PROVE gc_old(bits'[x])
    <3>1. x \in Obj /\ (gc_old(bits[x]) \/ bits[x] = GC_MARKED)
      BY DEF FinInv, LoopOK, TypeOK, Obj
    <3> QED
      BY <1>3, <1>6, <3>1
  <2> QED
    BY <1>1, <1>9, <2>1 DEF FinInv, finVars
<1>18. WeakInv'
  BY <1>1 DEF WeakInv, finVars, Closed
<1>19. TaskInv'
  <2>1. ASSUME NEW x \in Tasks, bits'[x] = GC_OLD_MARKED PROVE Pending(x)'
    <3>1. x \in Obj /\ bits[x] # GC_OLD_MARKED
      BY <1>1 DEF TaskInv, Obj
    <3>2. x \in claims \cup remembered
      BY <1>3, <2>1, <3>1
    <3> QED
      BY <1>10, <3>2
  <2> QED
    BY <1>1, <2>1 DEF TaskInv
<1>20. ClaimInv'
  <2>1. metadata' = {}
    BY <1>1 DEF StartCollect, ClaimInv
  <2>2. \A x \in Obj, m \in Marker : ~HoldsClaim(x, m)'
    <3>1. ASSUME NEW x \in Obj, NEW m \in Marker, HoldsClaim(x, m)' PROVE FALSE
      <4>1. hand'[m] = <<x, 0>> /\ <<x, 0>> \in Item
        BY <3>1 DEF HoldsClaim, Item
      <4>2. InHand(x, m)'
        BY <4>1 DEF InHand
      <4> QED
        BY <1>7, <4>2
    <3> QED
      BY <3>1
  <2>3. ASSUME NEW x \in Obj, NEW m \in Marker, InQueue(x, m, 0)' PROVE m = dest[<<x, 0>>]
    <3>1. <<x, 0>> \notin image
      BY <1>5, <1>6
    <3> QED
      BY <1>8, <2>3, <3>1
  <2> QED
    BY <2>1, <2>2, <2>3 DEF ClaimInv
<1> QED
  BY <1>11, <1>12, <1>13, <1>14, <1>15, <1>16, <1>17, <1>18, <1>19, <1>20

\* Steps of the markers that change no header.
LEMMA MarkFrame ==
  ASSUME LoopOK, HeapInv, TaskInv, UNCHANGED <<heapVars, barVars, finVars, wb, prev_sweep_full>>,
         Collecting' <=> Collecting, phase' = "sweep" => phase = "sweep",
         phase = "none" => phase' = "none",
         \A o \in Obj : Pending(o)' <=> Pending(o), OnceInv'
  PROVE  HeapInv' /\ TaskInv'
<1>1. /\ Marked' = Marked /\ Roots' = Roots /\ \A o \in Obj : PendingWb(o)' <=> PendingWb(o)
      /\ \A T : Closed(T, Obj)' <=> Closed(T, Obj)
      /\ UNCHANGED <<alloc, field, root, bits, remset, image_remset, weak, finalizers,
                     finalizer_list_marked, to_finalize>>
  BY DEF Marked, Roots, PendingWb, Closed, heapVars, barVars, finVars
<1>2. BarrierInv' /\ RemInv' /\ ImageInv' /\ OldInv'
  BY <1>1 DEF HeapInv, BarrierInv, RemInv, ImageInv, OldInv, Obj
<1>3. ColorInv' /\ LiveInv' /\ FinInv' /\ WeakInv'
  BY <1>1 DEF HeapInv, ColorInv, LiveInv, FinInv, WeakInv, Marked
<1>4. TaskInv'
  BY <1>1, Distinct DEF TaskInv, Obj
<1> QED
  BY <1>2, <1>3, <1>4 DEF HeapInv

\* An item goes from a queue to a hand.
LEMMA MoveHeap ==
  ASSUME LoopOK, HeapInv, TaskInv, ClaimInv, NEW m \in Marker, NEW v \in Marker, NEW item \in queue[v],
         hand[m] = NULL, UNCHANGED <<heapVars, barVars, finVars, wb, cycleVars>>,
         queue' = [queue EXCEPT ![v] = @ \ {item}], hand' = [hand EXCEPT ![m] = item],
         metadata' = metadata
  PROVE  HeapInv' /\ TaskInv' /\ ClaimInv'
<1> USE Distinct
<1>1. item \in Item /\ item # NULL
  BY DEF LoopOK, TypeOK
<1>2. PICK y \in Obj, j \in Nat : item = <<y, j>>
  BY <1>1 DEF Item
<1>3. \A n \in Marker : /\ queue'[n] = IF n = v THEN queue[n] \ {item} ELSE queue[n]
                        /\ hand'[n] = IF n = m THEN item ELSE hand[n]
  BY DEF LoopOK, TypeOK
<1>4. \A x \in Obj, n \in Marker, k \in Nat :
        InQueue(x, n, k)' <=> InQueue(x, n, k) /\ ~(n = v /\ x = y /\ k = j)
  BY <1>2, <1>3 DEF InQueue
<1>5. \A x \in Obj, n \in Marker :
        InHand(x, n)' <=> IF n = m THEN x = y ELSE InHand(x, n)
  <2>0. item[1] = y
    BY <1>2
  <2>1. hand'[m] # NULL /\ hand'[m][1] = y
    BY <1>1, <1>3, <2>0
  <2> QED
    BY <1>3, <2>1 DEF InHand
<1>6. InQueue(y, v, j) /\ \A x \in Obj : ~InHand(x, m)
  BY <1>2 DEF InQueue, InHand
<1>7. ASSUME NEW x \in Obj PROVE Pending(x)' <=> Pending(x)
  <2>1. Pending(x) => Pending(x)'
    BY <1>4, <1>5, <1>6 DEF Pending
  <2>2. Pending(x)' => Pending(x)
    BY <1>4, <1>5, <1>6 DEF Pending
  <2> QED
    BY <2>1, <2>2
<1>8. OnceInv'
  <2> SUFFICES ASSUME NEW x \in Single
               PROVE  /\ remset[x] <= 1
                      /\ Pending(x)' => remset[x] = 0
                      /\ \A a, b \in Marker : InHand(x, a)' /\ InHand(x, b)' => a = b
                      /\ \A a, b \in Marker, k \in Nat : ~(InHand(x, a)' /\ InQueue(x, b, k)')
                      /\ \A a, b \in Marker, i, k \in Nat :
                            InQueue(x, a, i)' /\ InQueue(x, b, k)' => a = b /\ i = k
    BY DEF OnceInv, barVars
  <2>1. x \in Obj
    BY DEF Obj, Single
  <2>2. /\ remset[x] <= 1 /\ (Pending(x) => remset[x] = 0)
        /\ \A a, b \in Marker : InHand(x, a) /\ InHand(x, b) => a = b
        /\ \A a, b \in Marker, k \in Nat : ~(InHand(x, a) /\ InQueue(x, b, k))
        /\ \A a, b \in Marker, i, k \in Nat : InQueue(x, a, i) /\ InQueue(x, b, k) => a = b /\ i = k
    BY DEF HeapInv, OnceInv
  <2> QED
    BY <1>4, <1>5, <1>6, <1>7, <2>1, <2>2
<1>9. ClaimInv'
  <2>1. \A x \in Obj, n \in Marker :
          HoldsClaim(x, n)' <=> IF n = m THEN x = y /\ j = 0 ELSE HoldsClaim(x, n)
    <3>1. \A x \in Obj : item = <<x, 0>> <=> x = y /\ j = 0
      BY <1>2
    <3>2. ASSUME NEW x \in Obj, NEW n \in Marker
          PROVE  hand'[n] = <<x, 0>> <=> IF n = m THEN item = <<x, 0>> ELSE hand[n] = <<x, 0>>
      BY <1>3
    <3> QED
      BY <3>1, <3>2 DEF HoldsClaim
  <2>2. \A x \in Obj : ~HoldsClaim(x, m)
    BY DEF HoldsClaim, Item
  <2>3. \A x \in Obj, n \in Marker :
          InQueue(x, n, 0)' <=> InQueue(x, n, 0) /\ ~(n = v /\ x = y /\ j = 0)
    BY <1>4
  <2>4. Marked' = Marked /\ phase' = phase
    BY DEF Marked, barVars, cycleVars
  <2>5. j = 0 => InQueue(y, v, 0)
    BY <1>6
  <2>6. /\ metadata' # {} => phase' \in {"mark", "marked"}
        /\ \A x \in metadata' : x \in Marked'
    BY <2>4 DEF ClaimInv
  <2>7. \A x \in Obj, n \in Marker : HoldsClaim(x, n)' \/ InQueue(x, n, 0)' => x \notin metadata'
    BY <2>1, <2>3, <2>5 DEF ClaimInv
  <2>8. ASSUME NEW x \in Obj, NEW a \in Marker, NEW b \in Marker
        PROVE  /\ HoldsClaim(x, a)' /\ HoldsClaim(x, b)' => a = b
               /\ ~(HoldsClaim(x, a)' /\ InQueue(x, b, 0)')
               /\ InQueue(x, a, 0)' /\ InQueue(x, b, 0)' => a = b
    BY <2>1, <2>2, <2>3, <2>5 DEF ClaimInv
  <2> QED
    BY <2>6, <2>7, <2>8 DEF ClaimInv
<1> QED
  BY <1>7, <1>8, <1>9, MarkFrame DEF cycleVars, Collecting

LEMMA OutrefsHeap ==
  ASSUME LoopOK, HeapInv, TaskInv, ClaimInv, NEW m \in Marker, NEW p \in 1..MaxPasses, gc_mark_outrefs(m, p)
  PROVE  HeapInv' /\ TaskInv' /\ ClaimInv'
<1> USE Distinct, BitFacts DEF HeapInv
<1>0. PICK o, c : o = hand[m][1] /\ c = field[o]
  OBVIOUS
<1> DEFINE claim == c # NULL /\ ~gc_marked(bits[c])
<1>1. /\ hand[m] # NULL /\ o \in Obj /\ InHand(o, m)
      /\ c \in Heap \cup {NULL} /\ (c # NULL => c \in Obj /\ c \notin Image)
  BY <1>0 DEF gc_mark_outrefs, LoopOK, TypeOK, Item, InHand, Obj
<1>2. Pending(o) /\ o \in Marked
  BY <1>1 DEF Pending, RemInv
<1>3. phase = "mark" /\ phase' = phase /\ Collecting /\ Collecting' /\ \A t \in Thread : wb[t] = NULL
  BY <1>1 DEF gc_mark_outrefs, cycleVars, LoopOK, LoopInv, RestInv, Collecting, BarrierInv
<1>4. UNCHANGED <<alloc, field, root, image_remset, weak, finalizers, finalizer_list_marked,
                  to_finalize, wb, prev_sweep_full>>
  BY DEF gc_mark_outrefs, heapVars, finVars, cycleVars
<1>5. /\ \A x \in Obj : /\ bits'[x] = IF claim /\ x = c THEN SetMark(bits[x]) ELSE bits[x]
                        /\ remset'[x] = IF RefersYoung(o) /\ x = o THEN remset[x] + p ELSE remset[x]
                        /\ remset[x] \in Nat
      /\ p \in Nat /\ p > 0 /\ (o \in Single => p = 1)
  <2>1. p \in Nat /\ p > 0
    BY StockGCAssumption
  <2>2. o \in Single => p = 1
    BY <1>0, <2>1 DEF gc_mark_outrefs, Single
  <2> QED
    BY <1>0, <1>1, <2>1, <2>2 DEF gc_mark_outrefs, LoopOK, TypeOK
<1>6. /\ claim => /\ c \in Obj /\ c \in Heap /\ c # o /\ c \notin Marked /\ ~Pending(c)
                  /\ remset[c] = 0
      /\ \A x \in Obj : remset[x] > 0 => bits[x] = GC_OLD_MARKED
  <2>1. \A x \in Obj : remset[x] > 0 => bits[x] = GC_OLD_MARKED
    BY <1>3 DEF RemInv
  <2>2. ASSUME claim PROVE c \in Obj /\ c \in Heap /\ c # o /\ c \notin Marked /\ ~Pending(c)
    BY <1>1, <1>2, <2>2 DEF Marked, RemInv
  <2>3. ASSUME claim PROVE remset[c] = 0
    BY <1>5, <2>1, <2>2, <2>3 DEF Marked
  <2> QED
    BY <2>1, <2>2, <2>3
<1>7. \A n \in Marker : /\ hand'[n] = IF n = m THEN NULL ELSE hand[n]
                        /\ queue'[n] = IF claim /\ n = m THEN queue[n] \cup {<<c, 0>>} ELSE queue[n]
  BY <1>0, ZenonT(60) DEF gc_mark_outrefs, LoopOK, TypeOK, Claimed
<1> HIDE DEF claim
<1>8. \A x \in Obj, n \in Marker : InHand(x, n)' <=> n # m /\ InHand(x, n)
  BY <1>7 DEF InHand
<1>9. \A x \in Obj, n \in Marker, k \in Nat :
        InQueue(x, n, k)' <=> InQueue(x, n, k) \/ (claim /\ n = m /\ x = c /\ k = 0)
  <2> SUFFICES ASSUME NEW x \in Obj, NEW n \in Marker, NEW k \in Nat
               PROVE  <<x, k>> \in queue'[n] <=>
                        <<x, k>> \in queue[n] \/ (claim /\ n = m /\ x = c /\ k = 0)
    BY DEF InQueue
  <2>1. CASE claim /\ n = m
    <3>1. queue'[n] = queue[n] \cup {<<c, 0>>}
      BY <1>7, <2>1
    <3>2. <<x, k>> = <<c, 0>> <=> x = c /\ k = 0
      OBVIOUS
    <3> QED
      BY <2>1, <3>1, <3>2
  <2>2. CASE ~(claim /\ n = m)
    BY <1>7, <2>2
  <2> QED
    BY <2>1, <2>2
<1>10. Marked' = Marked \cup (IF claim THEN {c} ELSE {})
  BY <1>5, <1>6 DEF Marked
<1>11. \A x \in Obj : Pending(x)' => Pending(x) \/ (claim /\ x = c)
  BY <1>8, <1>9 DEF Pending
<1>12. \A x \in Obj : Pending(x) => Pending(x)' \/ x = o
  <2>1. \A x \in Obj : InHand(x, m) => x = o
    BY <1>0 DEF InHand
  <2> QED
    BY <1>8, <1>9, <2>1 DEF Pending
<1>13. claim => Pending(c)'
  <2>1. claim => \E k \in Nat : <<c, k>> \in queue'[m]
    BY <1>7
  <2> QED
    BY <2>1 DEF Pending, InQueue
<1>14. BarrierInv' /\ OldInv'
  BY <1>3, <1>4 DEF BarrierInv, OldInv
<1>15. RefersYoung(o) => bits[o] = GC_OLD_MARKED /\ bits'[o] = GC_OLD_MARKED
  BY <1>0, <1>1, <1>2, <1>5, <1>6 DEF RefersYoung, Marked
<1>16. RemInv'
  <2>1. ASSUME NEW x \in Obj, remset'[x] > 0 PROVE bits'[x] = GC_OLD_MARKED
    <3>1. CASE RefersYoung(o) /\ x = o
      BY <3>1, <1>15
    <3>2. CASE ~(RefersYoung(o) /\ x = o)
      BY <1>5, <1>6, <2>1, <3>2
    <3> QED
      BY <3>1, <3>2
  <2> QED
    BY <1>3, <1>10, <1>11, <2>1 DEF RemInv
<1>17. OnceInv'
  <2> SUFFICES ASSUME NEW x \in Single
               PROVE  /\ remset'[x] <= 1
                      /\ Pending(x)' => remset'[x] = 0
                      /\ \A a, b \in Marker : InHand(x, a)' /\ InHand(x, b)' => a = b
                      /\ \A a, b \in Marker, k \in Nat : ~(InHand(x, a)' /\ InQueue(x, b, k)')
                      /\ \A a, b \in Marker, i, k \in Nat :
                            InQueue(x, a, i)' /\ InQueue(x, b, k)' => a = b /\ i = k
    BY DEF OnceInv
  <2>1. x \in Obj
    BY DEF Obj, Single
  <2>2. /\ remset[x] <= 1 /\ (Pending(x) => remset[x] = 0)
        /\ \A a, b \in Marker : InHand(x, a) /\ InHand(x, b) => a = b
        /\ \A a, b \in Marker, k \in Nat : ~(InHand(x, a) /\ InQueue(x, b, k))
        /\ \A a, b \in Marker, i, k \in Nat : InQueue(x, a, i) /\ InQueue(x, b, k) => a = b /\ i = k
    BY DEF OnceInv
  <2>3. remset'[x] <= 1
    BY <1>2, <1>5, <2>1, <2>2
  <2>4. x = o => ~Pending(x)'
    <3>1. x = o => \A a \in Marker, k \in Nat : ~InHand(x, a)' /\ ~InQueue(x, a, k)'
      BY <1>1, <1>6, <1>8, <1>9, <2>1, <2>2
    <3> QED
      BY <3>1 DEF Pending
  <2>5. Pending(x)' => remset'[x] = 0
    BY <1>5, <1>6, <1>11, <2>1, <2>2, <2>4
  <2>6. claim /\ x = c => \A a \in Marker, k \in Nat : ~InHand(x, a) /\ ~InQueue(x, a, k)
    BY <1>6 DEF Pending
  <2> QED
    BY <1>8, <1>9, <2>1, <2>2, <2>3, <2>5, <2>6
<1>18. ImageInv'
  <2>1. \A x \in Image : x \in Obj /\ bits'[x] = bits[x] /\ x \in Marked'
    BY <1>1, <1>5, <1>6, <1>10 DEF ImageInv, Obj
  <2>2. \A x \in Image : ~PendingWb(x)
    BY <1>3 DEF PendingWb
  <2>3. ASSUME NEW x \in Image, remset'[x] > 0 PROVE x \in image_remset
    <3>1. CASE RefersYoung(o) /\ x = o
      BY <2>2, <3>1, Distinct DEF ImageInv, RefersYoung
    <3>2. CASE ~(RefersYoung(o) /\ x = o)
      BY <1>5, <2>1, <2>3, <3>2 DEF ImageInv
    <3> QED
      BY <3>1, <3>2
  <2> QED
    BY <1>3, <1>4, <2>1, <2>2, <2>3 DEF ImageInv
<1>19. ColorInv'
  <2>1. ASSUME NEW x \in Marked'
        PROVE  \/ Pending(x)' \/ field[x] = NULL
               \/ /\ field[x] \in Marked'
                  /\ bits'[x] = GC_OLD_MARKED => remset'[x] > 0 \/ bits'[field[x]] = GC_OLD_MARKED
    <3>1. CASE claim /\ x = c
      BY <1>13, <3>1
    <3>2. CASE ~(claim /\ x = c) /\ x = o
      <4>1. c # NULL => c \in Marked'
        BY <1>0, <1>1, <1>10 DEF claim, Marked
      <4>2. bits'[o] = bits[o]
        BY <1>1, <1>5, <3>2
      <4>3. CASE RefersYoung(o)
        BY <1>0, <1>1, <1>5, <3>2, <4>1, <4>3
      <4>4. CASE ~RefersYoung(o)
        <5>1. bits[o] = GC_OLD_MARKED /\ c # NULL => gc_old(bits[c])
          BY <1>0, <4>4 DEF RefersYoung
        <5>2. bits[o] = GC_OLD_MARKED /\ c # NULL => bits'[c] = GC_OLD_MARKED
          BY <1>0, <1>1, <1>5, <5>1 DEF claim
        <5> QED
          BY <1>0, <3>2, <4>1, <4>2, <5>2
      <4> QED
        BY <4>3, <4>4
    <3>3. CASE ~(claim /\ x = c) /\ x # o
      <4>1. x \in Marked /\ x \in Obj
        BY <1>10, <2>1, <3>3 DEF Marked
      <4>2. \/ Pending(x) \/ field[x] = NULL
            \/ /\ field[x] \in Marked
               /\ bits[x] = GC_OLD_MARKED => remset[x] > 0 \/ bits[field[x]] = GC_OLD_MARKED
        BY <1>3, <4>1 DEF ColorInv
      <4>3. bits'[x] = bits[x] /\ remset'[x] = remset[x]
        BY <1>5, <3>3, <4>1
      <4>4. field[x] \in Marked => field[x] \in Marked' /\ bits'[field[x]] = bits[field[x]]
        BY <1>5, <1>6, <1>10 DEF Marked
      <4> QED
        BY <1>12, <3>3, <4>1, <4>2, <4>3, <4>4
    <3> QED
      BY <3>1, <3>2, <3>3
  <2> QED
    BY <1>3, <1>4, <2>1 DEF ColorInv
<1>20. LiveInv'
  <2>1. PICK T \in SUBSET (alloc \cup Image) : Roots \cup Marked \subseteq T /\ Closed(T, Obj)
    BY DEF LiveInv
  <2>2. claim => c \in T
    BY <1>0, <1>1, <1>2, <1>6, <2>1 DEF Closed
  <2>3. Roots' = Roots /\ Closed(T, Obj)' /\ Marked' \subseteq T
    BY <1>4, <1>10, <2>1, <2>2 DEF Roots, Closed
  <2> QED
    BY <1>3, <1>4, <1>10, <2>1, <2>3 DEF LiveInv
<1>21. FinInv'
  <2>1. ASSUME NEW x \in finalizer_list_marked PROVE gc_old(bits'[x])
    <3>1. x \in Obj /\ gc_old(bits[x])
      BY <1>3 DEF FinInv, LoopOK, TypeOK, Obj
    <3> QED
      BY <1>5, <3>1
  <2> QED
    BY <1>4, <1>10, <2>1 DEF FinInv
<1>22. WeakInv'
  BY <1>4 DEF WeakInv, Closed
<1>23. TaskInv'
  <2>1. ASSUME NEW x \in Tasks, bits'[x] = GC_OLD_MARKED PROVE Pending(x)' \/ remset'[x] > 0
    <3>1. x \in Obj
      BY DEF Obj
    <3>2. CASE claim /\ x = c
      BY <1>13, <3>2
    <3>3. CASE ~(claim /\ x = c) /\ x = o
      <4>1. RefersYoung(o)
        BY <1>5, <2>1, <3>1, <3>3 DEF RefersYoung
      <4> QED
        BY <1>5, <3>1, <3>3, <4>1
    <3>4. CASE ~(claim /\ x = c) /\ x # o
      <4>1. bits[x] = GC_OLD_MARKED /\ remset'[x] = remset[x]
        BY <1>5, <2>1, <3>1, <3>4
      <4> QED
        BY <1>12, <3>1, <3>4, <4>1 DEF TaskInv
    <3> QED
      BY <3>2, <3>3, <3>4
  <2> QED
    BY <1>3, <2>1 DEF TaskInv
<1>24. ClaimInv'
  <2>1. \A x \in Obj, n \in Marker : HoldsClaim(x, n)' <=> n # m /\ HoldsClaim(x, n)
    <3>1. \A x \in Obj : <<x, 0>> # NULL
      BY ItemFacts
    <3> QED
      BY <1>7, <3>1 DEF HoldsClaim
  <2>2. \A x \in Obj, n \in Marker :
          InQueue(x, n, 0)' <=> InQueue(x, n, 0) \/ (claim /\ n = m /\ x = c)
    BY <1>9
  <2>3. metadata' = IF HoldsClaim(o, m) THEN metadata \cup {o} ELSE metadata
    BY <1>0 DEF gc_mark_outrefs, HoldsClaim, Claimed
  <2>4. claim => /\ c \notin metadata /\ c # o
                 /\ \A n \in Marker : ~HoldsClaim(c, n) /\ ~InQueue(c, n, 0)
    <3>1. ASSUME claim, NEW n \in Marker PROVE ~InHand(c, n) /\ ~InQueue(c, n, 0)
      BY <1>6, <3>1 DEF Pending
    <3>2. ASSUME claim, NEW n \in Marker PROVE ~HoldsClaim(c, n)
      <4>1. InHand(c, n) <=> hand[n] # NULL /\ hand[n][1] = c
        BY DEF InHand
      <4>2. <<c, 0>> # NULL /\ <<c, 0>>[1] = c
        BY <1>6, <3>2, ItemFacts
      <4> QED
        BY <3>1, <3>2, <4>1, <4>2 DEF HoldsClaim
    <3> QED
      BY <1>6, <3>1, <3>2 DEF ClaimInv
  <2>5. /\ metadata' # {} => phase' \in {"mark", "marked"}
        /\ \A x \in metadata' : x \in Marked'
    BY <1>2, <1>3, <1>10, <2>3 DEF ClaimInv
  <2>6. ASSUME NEW x \in Obj, NEW n \in Marker, HoldsClaim(x, n)' \/ InQueue(x, n, 0)'
        PROVE  x \notin metadata'
    <3>1. CASE claim /\ x = c
      BY <2>3, <2>4, <3>1
    <3>2. CASE ~(claim /\ x = c) /\ x = o
      BY <1>1, <2>1, <2>2, <2>3, <2>6, <3>2 DEF ClaimInv
    <3>3. CASE ~(claim /\ x = c) /\ x # o
      BY <2>1, <2>2, <2>3, <2>6, <3>3 DEF ClaimInv
    <3> QED
      BY <3>1, <3>2, <3>3
  <2>7. ASSUME NEW x \in Obj, NEW a \in Marker, NEW b \in Marker
        PROVE  /\ HoldsClaim(x, a)' /\ HoldsClaim(x, b)' => a = b
               /\ ~(HoldsClaim(x, a)' /\ InQueue(x, b, 0)')
               /\ InQueue(x, a, 0)' /\ InQueue(x, b, 0)' => a = b
    BY <2>1, <2>2, <2>4 DEF ClaimInv
  <2> QED
    BY <2>5, <2>6, <2>7 DEF ClaimInv
<1> QED
  BY <1>14, <1>16, <1>17, <1>18, <1>19, <1>20, <1>21, <1>22, <1>23, <1>24

LEMMA MarkHeap ==
  ASSUME LoopOK, HeapInv, TaskInv, ClaimInv, MarkStep
  PROVE  HeapInv' /\ TaskInv' /\ ClaimInv'
<1> DEFINE Passive(m) ==
      \/ \E v \in Others(m) : StealNothing(m, v)
      \/ LeaveMarkAndSteal(m) \/ ObserveMarking(m) \/ CountWork(m) \/ EnterMarkLoop(m) \/ ObserveZero(m)
<1>1. ASSUME NEW m \in Marker, NEW item \in queue[m], Pop(m, item) PROVE HeapInv' /\ TaskInv' /\ ClaimInv'
  BY <1>1, MoveHeap DEF Pop
<1>2. ASSUME NEW m \in Marker, NEW v \in Others(m), NEW item \in queue[v],
             NEW losers \in SUBSET Others(m), Steal(m, v, item, losers)
      PROVE  HeapInv' /\ TaskInv' /\ ClaimInv'
  BY <1>2, MoveHeap DEF Steal, Stealing, Others
<1>3. ASSUME NEW m \in Marker, Passive(m) PROVE HeapInv' /\ TaskInv' /\ ClaimInv'
  <2>1. UNCHANGED <<heapVars, barVars, finVars, wb, prev_sweep_full, queue, hand, metadata>>
    BY <1>3 DEF StealNothing, LeaveMarkAndSteal, ObserveMarking, CountWork, EnterMarkLoop,
                ObserveZero, cycleVars
  <2>2. phase' = phase \/ (phase = "mark" /\ phase' = "marked")
    BY <1>3, Distinct DEF StealNothing, LeaveMarkAndSteal, ObserveMarking, CountWork,
                EnterMarkLoop, ObserveZero, cycleVars, LoopOK, RestInv, Observing
  <2>3. /\ \A o \in Obj : Pending(o)' <=> Pending(o)
        /\ OnceInv'
    BY <2>1 DEF Pending, InHand, InQueue, HeapInv, OnceInv, barVars
  <2>4. ClaimInv'
    BY <2>1, <2>2 DEF ClaimInv, HoldsClaim, InQueue, Marked, barVars
  <2> QED
    BY <2>1, <2>2, <2>3, <2>4, MarkFrame DEF Collecting
<1> QED
  BY <1>1, <1>2, <1>3, OutrefsHeap DEF MarkStep

-----------------------------------------------------------------------------
(* The end of a collection.                                                  *)

\* The closure of a set contains it, no pointer leads out of it, and it is the
\* smallest such set.
LEMMA ClosureFacts ==
  ASSUME NEW S \in SUBSET Obj, NEW Via \in SUBSET Obj
  PROVE  /\ Closure(S, Via) \subseteq Obj /\ S \subseteq Closure(S, Via)
         /\ Closed(Closure(S, Via), Via)
         /\ \A T \in SUBSET Obj : S \subseteq T /\ Closed(T, Via) => Closure(S, Via) \subseteq T
<1>1. /\ Closure(S, Via) \subseteq Obj /\ S \subseteq Closure(S, Via)
      /\ \A T \in SUBSET Obj : S \subseteq T /\ Closed(T, Via) => Closure(S, Via) \subseteq T
  BY DEF Closure
<1>2. ASSUME NEW o \in Closure(S, Via), field[o] \in Via PROVE field[o] \in Closure(S, Via)
  <2>1. \A T \in SUBSET Obj : S \subseteq T /\ Closed(T, Via) => field[o] \in T
    BY <1>1, <1>2 DEF Closed
  <2> QED
    BY <1>2, <2>1 DEF Closure
<1> QED
  BY <1>1, <1>2 DEF Closed

LEMMA FinishHeap ==
  ASSUME LoopOK, HeapInv, NEW young \in SUBSET Watched, FinishMark(young)
  PROVE  HeapInv'
<1> USE Distinct, BitFacts DEF HeapInv
<1>1. /\ phase = "marked" /\ phase' = "sweep" /\ Collecting /\ Collecting'
      /\ UNCHANGED <<alloc, field, root, remset, image_remset, wb, prev_sweep_full, queue, hand>>
      /\ \A t \in Thread : wb[t] = NULL
  BY DEF FinishMark, heapVars, markVars, Collecting, BarrierInv
<1>2. \A x \in Obj : ~Pending(x) /\ ~Pending(x)'
  <2>1. \A x \in Obj : ~Pending(x)
    BY <1>1, NothingPending DEF LoopOK
  <2> QED
    BY <1>1, <2>1 DEF Pending, InHand, InQueue
<1>3. \A x \in Obj : x \in Unmarked(Obj) <=> x \notin Marked
  BY DEF Unmarked, Marked
<1>4. /\ Revived \subseteq Unmarked(Obj)
      /\ Unmarked(to_finalize \cup FoundDead) \subseteq Revived
      /\ Closed(Revived, Unmarked(Obj))
      /\ \A T \in SUBSET Obj : Unmarked(to_finalize \cup FoundDead) \subseteq T /\ Closed(T, Unmarked(Obj))
                                 => Revived \subseteq T
  <2>1. Unmarked(to_finalize \cup FoundDead) \in SUBSET Obj /\ Unmarked(Obj) \in SUBSET Obj
    BY DEF Unmarked, FoundDead, LoopOK, TypeOK, Obj
  <2>2. /\ Unmarked(to_finalize \cup FoundDead) \subseteq Revived /\ Closed(Revived, Unmarked(Obj))
        /\ \A T \in SUBSET Obj : Unmarked(to_finalize \cup FoundDead) \subseteq T /\ Closed(T, Unmarked(Obj))
                                 => Revived \subseteq T
    BY <2>1, ClosureFacts DEF Revived
  <2>3. Unmarked(to_finalize \cup FoundDead) \subseteq Unmarked(Obj) /\ Closed(Unmarked(Obj), Unmarked(Obj))
    BY <2>1 DEF Unmarked, Closed
  <2> QED
    BY <2>1, <2>2, <2>3
<1>5. \A x \in Obj : bits'[x] = IF x \in Revived THEN GC_MARKED ELSE bits[x]
  BY DEF FinishMark
<1>6. Marked' = Marked \cup Revived /\ Revived \cap Marked = {} /\ Revived \subseteq Obj
  <2>1. Revived \subseteq Obj /\ Revived \cap Marked = {}
    BY <1>3, <1>4 DEF Unmarked
  <2> QED
    BY <1>5, <2>1 DEF Marked
<1>7. BarrierInv' /\ OldInv'
  BY <1>1 DEF BarrierInv, OldInv
<1>8. RemInv'
  <2>1. ASSUME NEW x \in Obj, remset[x] > 0 PROVE bits'[x] = GC_OLD_MARKED
    <3>1. bits[x] = GC_OLD_MARKED
      BY <1>1, <2>1 DEF RemInv
    <3> QED
      BY <1>5, <1>6, <3>1 DEF Marked
  <2> QED
    BY <1>1, <1>2, <2>1 DEF RemInv
<1>9. OnceInv'
  BY <1>1 DEF OnceInv, Pending, InHand, InQueue
<1>10. ImageInv'
  <2>1. \A x \in Image : x \in Obj /\ bits'[x] = bits[x] /\ x \in Marked' /\ ~PendingWb(x)
    BY <1>1, <1>5, <1>6 DEF ImageInv, Obj, PendingWb
  <2> QED
    BY <1>1, <2>1 DEF ImageInv
<1>11. ColorInv'
  <2>1. ASSUME NEW x \in Marked'
        PROVE  \/ field[x] = NULL
               \/ /\ field[x] \in Marked'
                  /\ bits'[x] = GC_OLD_MARKED => remset[x] > 0 \/ bits'[field[x]] = GC_OLD_MARKED
    <3>1. CASE x \in Marked
      <4>1. \/ field[x] = NULL
            \/ /\ field[x] \in Marked
               /\ bits[x] = GC_OLD_MARKED => remset[x] > 0 \/ bits[field[x]] = GC_OLD_MARKED
        BY <1>1, <1>2, <3>1 DEF ColorInv, Marked
      <4>2. \A y \in Marked : bits'[y] = bits[y] /\ y \in Marked'
        BY <1>5, <1>6 DEF Marked
      <4> QED
        BY <3>1, <4>1, <4>2
    <3>2. CASE x \in Revived
      <4>1. x \in Obj /\ bits'[x] = GC_MARKED
        BY <1>5, <1>6, <3>2
      <4>2. field[x] = NULL \/ field[x] \in Obj
        BY <4>1 DEF LoopOK, TypeOK, Obj
      <4>3. field[x] \in Unmarked(Obj) => field[x] \in Revived
        BY <1>4, <3>2 DEF Closed
      <4> QED
        BY <1>3, <1>6, <4>1, <4>2, <4>3
    <3> QED
      BY <1>6, <2>1, <3>1, <3>2
  <2> QED
    BY <1>1, <2>1 DEF ColorInv
<1>12. /\ FoundDead \subseteq finalizers \cup finalizer_list_marked
       /\ FoundDead \cap Marked = {} /\ FoundOld(young) \subseteq finalizers
       /\ \A x \in finalizers \ FoundDead : x \in Marked
       /\ prev_sweep_full => \A x \in finalizer_list_marked \ FoundDead : x \in Marked
       /\ \A x \in FoundOld(young) : x \in Marked /\ bits[x] = GC_OLD_MARKED
  <2>1. finalizers \subseteq Obj /\ finalizer_list_marked \subseteq Obj
    BY DEF LoopOK, TypeOK, Obj
  <2> QED
    BY <2>1 DEF FoundDead, FoundOld, Unmarked, Marked
<1>13. /\ finalizers' = finalizers \ (FoundDead \cup FoundOld(young))
       /\ finalizer_list_marked' = (finalizer_list_marked \ FoundDead) \cup FoundOld(young)
       /\ to_finalize' = to_finalize \cup FoundDead
       /\ weak' = NULL \/ (weak' = weak /\ weak \in Marked)
  <2>1. weak' = NULL \/ (weak' = weak /\ gc_marked(bits[weak]) /\ weak \in Obj)
    BY DEF FinishMark, ClearedWeak, LoopOK, TypeOK, Obj
  <2> QED
    BY <2>1 DEF FinishMark, Marked
<1>14. \A x \in finalizer_list_marked' : x \in Marked /\ gc_old(bits[x])
  <2>1. \A x \in finalizer_list_marked : gc_old(bits[x]) /\ (~prev_sweep_full => x \in Marked)
    BY <1>1 DEF FinInv
  <2> QED
    BY <1>12, <1>13, <2>1 DEF LoopOK, TypeOK
<1>15. LiveInv'
  <2>1. PICK T \in SUBSET (alloc \cup Image) : Roots \cup Marked \subseteq T /\ Closed(T, Obj)
    BY DEF LiveInv
  <2>2. Roots' \subseteq Roots
    BY <1>1, <1>12, <1>13 DEF Roots
  <2>3. Revived \subseteq T
    <3>1. T \in SUBSET Obj
      BY <2>1 DEF LoopOK, TypeOK, Obj
    <3>2. Unmarked(to_finalize \cup FoundDead) \subseteq T
      BY <1>12, <2>1 DEF Unmarked, Roots
    <3>3. Closed(T, Unmarked(Obj))
      BY <2>1 DEF Closed, Unmarked
    <3> QED
      BY <1>4, <3>1, <3>2, <3>3
  <2>4. Closed(T, Obj)' /\ Marked' \subseteq T
    BY <1>1, <1>6, <2>1, <2>3 DEF Closed
  <2>5. root' \subseteq Marked'
    BY <1>1, <1>6 DEF LiveInv
  <2>6. Roots' \subseteq Marked'
    <3>1. to_finalize' \subseteq Marked'
      <4>1. to_finalize \cup FoundDead \subseteq Obj
        BY <1>12 DEF LoopOK, TypeOK, Obj
      <4> QED
        BY <1>4, <1>6, <1>13, <4>1 DEF Unmarked, Marked
    <3>2. finalizers' \cup finalizer_list_marked' \subseteq Marked'
      BY <1>6, <1>12, <1>13, <1>14
    <3>3. Image \subseteq Marked'
      BY <1>6 DEF ImageInv
    <3> QED
      BY <1>6, <1>13, <2>5, <3>1, <3>2, <3>3 DEF Roots
  <2> QED
    BY <1>1, <2>1, <2>2, <2>4, <2>5, <2>6 DEF LiveInv
<1>16. FinInv'
  <2>1. \A x \in finalizer_list_marked' : bits'[x] = bits[x] /\ x \in Marked'
    BY <1>5, <1>6, <1>14 DEF Marked
  <2> QED
    BY <1>14, <2>1 DEF FinInv
<1>17. WeakInv'
  <2>1. PICK R \in SUBSET Obj : /\ root \cup Image \cup ({weak} \ {NULL}) \subseteq R
                                /\ Closed(R, Obj) /\ R \cap to_finalize = {}
    BY DEF WeakInv
  <2>2. Closed(R \cap Marked, Obj)
    <3>1. ASSUME NEW x \in R \cap Marked, field[x] \in Obj PROVE field[x] \in R \cap Marked
      <4>1. field[x] \in R
        BY <2>1, <3>1 DEF Closed
      <4>2. field[x] \in Marked
        BY <1>1, <1>2, <3>1 DEF ColorInv, Marked
      <4> QED
        BY <4>1, <4>2
    <3> QED
      BY <3>1 DEF Closed
  <2>3. root' \cup Image \cup ({weak'} \ {NULL}) \subseteq R \cap Marked
    BY <1>1, <1>13, <2>1 DEF LiveInv, ImageInv
  <2>4. (R \cap Marked) \cap to_finalize' = {}
    BY <1>12, <1>13, <2>1
  <2>5. PICK Q \in SUBSET Obj : Q = R \cap Marked
    BY <2>1
  <2>6. Closed(Q, Obj)'
    BY <1>1, <2>2, <2>5 DEF Closed
  <2> QED
    BY <2>3, <2>4, <2>5, <2>6 DEF WeakInv
<1> QED
  BY <1>7, <1>8, <1>9, <1>10, <1>11, <1>15, <1>16, <1>17

\* What the sweep keeps: every marked object, and with it all the roots.
LEMMA SweepHeap ==
  ASSUME LoopOK, HeapInv, NEW full \in BOOLEAN, NEW forced \in BOOLEAN, NEW skipped \in SUBSET Heap,
         Sweep(full, forced, skipped)
  PROVE  HeapInv'
<1> USE Distinct, BitFacts DEF HeapInv
<1> DEFINE freed == Unmarked(alloc) \ skipped
<1>1. /\ phase = "sweep" /\ phase' \in {"none", "swept"} /\ Collecting /\ ~Collecting'
      /\ UNCHANGED <<root, image_remset, weak, finalizers, finalizer_list_marked, to_finalize, wb, queue, hand>>
      /\ prev_sweep_full' = full /\ \A t \in Thread : wb[t] = NULL
  BY DEF Sweep, finVars, markVars, Collecting, BarrierInv
<1>2. \A x \in Obj : /\ bits'[x] = IF x \in freed THEN GC_CLEAN ELSE SweptBits(x, full)
                     /\ field'[x] = IF x \in freed THEN NULL ELSE field[x]
                     /\ remset'[x] = IF full THEN 0 ELSE remset[x]
                     /\ remset[x] \in Nat
  BY DEF Sweep, LoopOK, TypeOK
<1>3. alloc' = alloc \ freed /\ freed \cap Marked = {} /\ freed \subseteq alloc /\ freed \subseteq Heap
  BY DEF Sweep, Unmarked, Marked, LoopOK, TypeOK
<1> HIDE DEF freed
<1>4. \A x \in Obj, m \in Marker, k \in Nat : ~InHand(x, m)' /\ ~InQueue(x, m, k)' /\ ~Pending(x)'
  <2>1. \A x \in Obj, m \in Marker, k \in Nat : ~InHand(x, m)' /\ ~InQueue(x, m, k)'
    BY <1>1, NothingPending DEF LoopOK, InHand, InQueue
  <2> QED
    BY <2>1 DEF Pending
<1>5. \A x \in Obj : /\ remset[x] > 0 => bits[x] = GC_OLD_MARKED
                     /\ x \in Marked <=> gc_marked(bits[x])
  BY <1>1 DEF RemInv, Marked
<1>6. \A x \in Marked : field[x] = NULL \/ field[x] \in Marked
  BY <1>1, <1>4, NothingPending DEF ColorInv, LoopOK, Marked
\* What the bits become.
<1>7. ASSUME NEW x \in Obj
      PROVE  /\ full /\ x \in Heap => ~gc_marked(bits'[x]) /\ (x \in Marked => bits'[x] = GC_OLD)
             /\ x \in Image => bits'[x] = (IF ~full /\ remset[x] > 0 THEN GC_MARKED ELSE GC_OLD_MARKED)
             /\ ~full => /\ remset[x] > 0 <=> bits'[x] = GC_MARKED
                         /\ bits[x] = GC_OLD_MARKED => bits'[x] \in {GC_MARKED, GC_OLD_MARKED}
             /\ gc_marked(bits'[x]) => x \in Marked
             /\ bits'[x] = GC_OLD_MARKED => bits[x] = GC_OLD_MARKED
  <2>1. CASE x \in freed
    <3>1. x \in Heap /\ x \notin Marked /\ bits'[x] = GC_CLEAN /\ x \notin Image
      BY <1>2, <1>3, <2>1
    <3>2. ~gc_marked(bits[x]) /\ remset[x] = 0
      BY <1>2, <1>5, <3>1
    <3> QED
      BY <3>1, <3>2
  <2>2. CASE x \notin freed /\ x \in Heap
    <3>1. bits'[x] = IF ~full /\ remset[x] > 0 THEN GC_MARKED
                     ELSE IF gc_marked(bits[x]) THEN IF full \/ bits[x] = GC_MARKED THEN GC_OLD ELSE bits[x]
                     ELSE bits[x]
      BY <1>2, <2>2 DEF SweptBits, Promote
    <3>2. x \notin Image
      BY <2>2
    <3> QED
      BY <1>2, <1>5, <3>1, <3>2
  <2>3. CASE x \notin freed /\ x \in Image
    <3>1. bits'[x] = (IF ~full /\ remset[x] > 0 THEN GC_MARKED ELSE bits[x]) /\ x \notin Heap
      BY <1>2, <2>3 DEF SweptBits
    <3>2. bits[x] = GC_OLD_MARKED
      BY <1>1, <2>3 DEF ImageInv
    <3> QED
      BY <1>5, <3>1, <3>2
  <2> QED
    BY <2>1, <2>2, <2>3 DEF Obj
<1>8. Marked' \subseteq Marked
  BY <1>7 DEF Marked
<1>9. BarrierInv' /\ ColorInv'
  BY <1>1 DEF BarrierInv, ColorInv
<1>10. RemInv'
  <2>1. ASSUME NEW x \in Obj PROVE (bits'[x] = GC_MARKED) <=> remset'[x] > 0
    <3>1. CASE full
      <4>1. bits'[x] # GC_MARKED
        BY <1>7, <3>1 DEF Obj
      <4>2. remset'[x] = 0
        BY <1>2, <3>1
      <4> QED
        BY <4>1, <4>2
    <3>2. CASE ~full
      BY <1>2, <1>7, <3>2
    <3> QED
      BY <3>1, <3>2
  <2>2. \A x \in Obj : ~Pending(x)'
    BY <1>4 DEF Pending
  <2> QED
    BY <1>1, <2>1, <2>2 DEF RemInv
<1>11. OnceInv'
  <2>1. \A x \in Obj : ~Pending(x)'
    BY <1>4 DEF Pending
  <2>2. ASSUME NEW x \in Single PROVE remset'[x] <= 1 /\ x \in Obj
    <3>1. x \in Obj /\ remset[x] <= 1
      BY DEF Obj, OnceInv, Single
    <3> QED
      BY <1>2, <3>1
  <2> QED
    BY <1>4, <2>1, <2>2 DEF OnceInv
<1>12. ImageInv'
  <2>1. ASSUME NEW x \in Image PROVE x \in Obj /\ x \notin freed /\ gc_marked(bits'[x])
    BY <1>3, <1>7 DEF Obj
  <2>2. ASSUME NEW x \in Image, bits'[x] = GC_MARKED PROVE x \in image_remset
    <3>1. ~full /\ remset[x] > 0 /\ x \in Obj
      BY <1>7, <2>1, <2>2
    <3> QED
      BY <3>1 DEF ImageInv
  <2>3. ASSUME NEW x \in Image, remset'[x] > 0 PROVE x \in image_remset
    BY <1>2, <2>1, <2>3 DEF ImageInv
  <2>4. \A x \in Image : ~PendingWb(x)
    BY <1>1 DEF PendingWb
  <2> QED
    BY <1>1, <1>2, <2>1, <2>2, <2>3, <2>4 DEF ImageInv, Marked
<1>13. OldInv'
  <2>1. ASSUME NEW x \in Obj, bits'[x] = GC_OLD_MARKED
        PROVE  \/ field'[x] = NULL \/ field'[x] \in Marked' \/ (x \in image_remset /\ full)
    <3>1. x \in Marked /\ bits[x] = GC_OLD_MARKED /\ field'[x] = field[x]
      BY <1>2, <1>3, <1>7, <2>1 DEF Marked
    <3>2. CASE full
      <4>1. x \in Image
        BY <1>7, <2>1, <3>2 DEF Obj
      <4>2. ~PendingWb(x)
        BY <1>1 DEF PendingWb
      <4> QED
        BY <3>1, <3>2, <4>1, <4>2 DEF ImageInv
    <3>3. CASE ~full /\ field[x] # NULL
      <4>1. ~(remset[x] > 0)
        BY <1>7, <2>1, <3>3
      <4>2. ~Pending(x)
        BY <1>1, NothingPending DEF LoopOK
      <4>3. field[x] \in Marked /\ bits[field[x]] = GC_OLD_MARKED
        BY <1>1, <3>1, <3>3, <4>1, <4>2 DEF ColorInv
      <4>4. field[x] \in Obj /\ gc_marked(bits'[field[x]])
        BY <1>7, <3>3, <4>3 DEF Marked
      <4> QED
        BY <3>1, <4>4 DEF Marked
    <3> QED
      BY <3>1, <3>2, <3>3
  <2> QED
    BY <1>1, <2>1 DEF OldInv
<1>14. LiveInv'
  <2>1. PICK T \in SUBSET (alloc \cup Image) : Roots \cup Marked \subseteq T /\ Closed(T, Obj)
    BY DEF LiveInv
  <2>2. PICK S : S = Marked
    OBVIOUS
  <2>3. S \in SUBSET (alloc' \cup Image)
    BY <1>3, <2>1, <2>2
  <2>4. Roots' \cup Marked' \subseteq S
    BY <1>1, <1>8, <2>2 DEF LiveInv, Roots
  <2>5. Closed(S, Obj)'
    BY <1>2, <1>3, <1>6, <2>2 DEF Closed, Marked
  <2> QED
    BY <1>1, <2>3, <2>4, <2>5 DEF LiveInv
<1>15. FinInv'
  <2>1. ASSUME NEW x \in finalizer_list_marked
        PROVE  /\ gc_old(bits'[x]) \/ bits'[x] = GC_MARKED
               /\ ~full => x \in Marked'
    <3>1. x \in Obj /\ x \in Heap /\ x \in Marked
      BY <1>1 DEF LoopOK, TypeOK, Obj, LiveInv, Roots
    <3>2. bits[x] = GC_OLD_MARKED
      BY <1>1, <1>5, <3>1 DEF FinInv
    <3> QED
      BY <1>7, <3>1, <3>2 DEF Marked
  <2> QED
    BY <1>1, <2>1 DEF FinInv
<1>16. WeakInv'
  <2>1. PICK R \in SUBSET Obj : /\ root \cup Image \cup ({weak} \ {NULL}) \subseteq R
                                /\ Closed(R, Obj) /\ R \cap to_finalize = {}
    BY DEF WeakInv
  <2>2. Closed(R, Obj)'
    BY <1>2, <2>1 DEF Closed
  <2> QED
    BY <1>1, <2>1, <2>2 DEF WeakInv
<1> QED
  BY <1>9, <1>10, <1>11, <1>12, <1>13, <1>14, <1>15, <1>16

-----------------------------------------------------------------------------
GCInv == LoopOK /\ HeapInv /\ TaskInv /\ ClaimInv

\* Outside the mark phase nothing is claimed; the mutators and the sweep leave
\* no task old and marked.
LEMMA ScanQuiet ==
  ASSUME GCInv, phase \notin {"mark", "marked"}, phase' \notin {"mark", "marked"},
         UNCHANGED markVars
  PROVE  ClaimInv'
<1>1. metadata = {} /\ \A m \in Marker : hand[m] = NULL /\ queue[m] = {}
  BY DEF GCInv, ClaimInv, LoopOK, LoopInv, RestInv
<1>2. \A o \in Obj, m \in Marker : ~HoldsClaim(o, m)' /\ ~InQueue(o, m, 0)'
  BY <1>1, Distinct DEF HoldsClaim, InQueue, Item, markVars
<1> QED
  BY <1>1, <1>2 DEF ClaimInv, markVars

LEMMA TaskMutate ==
  ASSUME GCInv, Mutate
  PROVE  TaskInv'
<1>1. phase = "none" /\ phase' = "none"
  BY DEF Mutate, Alloc, Load, Drop, Store, StackStore, MayStore, NewWeakRef, jl_gc_add_finalizer,
         jl_finalize_th, jl_gc_wb, jl_gc_queue_root, LoadWeakRef, run_finalizers, Mutating, cycleVars,
         GCInv, HeapInv, BarrierInv
<1>2. ASSUME NEW o \in Tasks PROVE bits'[o] # GC_OLD_MARKED
  <2>1. o \in Obj /\ bits[o] # GC_OLD_MARKED
    BY <1>1, Distinct DEF GCInv, TaskInv, Collecting, Obj
  <2>2. bits'[o] \in {bits[o], GC_CLEAN, GC_MARKED}
    BY <2>1 DEF Mutate, Alloc, Load, Drop, Store, StackStore, NewWeakRef, jl_gc_add_finalizer,
                jl_finalize_th, jl_gc_wb, jl_gc_queue_root, Remember, LoadWeakRef, run_finalizers,
                barVars, GCInv, LoopOK, TypeOK
  <2> QED
    BY <2>1, <2>2 DEF GC_CLEAN, GC_MARKED, GC_OLD_MARKED
<1> QED
  BY <1>2 DEF TaskInv

LEMMA TaskFinish ==
  ASSUME GCInv, NEW young \in SUBSET Watched, FinishMark(young)
  PROVE  TaskInv' /\ ClaimInv'
<1> USE Distinct, BitFacts DEF GCInv
<1>1. /\ phase = "marked" /\ phase' = "sweep" /\ Collecting /\ Collecting' /\ metadata' = {}
      /\ UNCHANGED <<remset, queue, hand>>
      /\ \A o \in Obj : bits'[o] = GC_MARKED \/ bits'[o] = bits[o]
  BY DEF FinishMark, Collecting
<1>2. \A o \in Obj : ~Pending(o)
  BY <1>1, NothingPending DEF LoopOK
<1>3. TaskInv'
  BY <1>1, <1>2 DEF TaskInv, Obj
<1>4. \A m \in Marker : hand'[m] = NULL /\ queue'[m] = {}
  BY <1>1 DEF LoopOK, LoopInv, RestInv
<1>5. \A o \in Obj, m \in Marker : ~HoldsClaim(o, m)' /\ ~InQueue(o, m, 0)'
  BY <1>4 DEF HoldsClaim, InQueue, Item
<1>6. ClaimInv'
  BY <1>1, <1>5 DEF ClaimInv
<1> QED
  BY <1>3, <1>6

LEMMA TaskSweep ==
  ASSUME GCInv, NEW full \in BOOLEAN, NEW forced \in BOOLEAN, NEW skipped \in SUBSET Heap,
         Sweep(full, forced, skipped)
  PROVE  TaskInv'
<1> USE Distinct, BitFacts DEF GCInv
<1>1. phase = "sweep" /\ Collecting /\ \A o \in Obj : ~Pending(o)
  BY NothingPending DEF Sweep, Collecting, LoopOK
<1>2. ASSUME NEW o \in Tasks PROVE bits'[o] # GC_OLD_MARKED
  <2>1. o \in Obj /\ o \in Heap /\ (bits[o] = GC_OLD_MARKED => remset[o] > 0)
    BY <1>1 DEF TaskInv, Obj
  <2>2. bits'[o] = GC_CLEAN \/ bits'[o] = SweptBits(o, full)
    BY <2>1 DEF Sweep
  <2>3. SweptBits(o, full) # GC_OLD_MARKED
    BY <2>1 DEF SweptBits, Promote, GC_CLEAN, GC_MARKED, GC_OLD, GC_OLD_MARKED
  <2> QED
    BY <2>2, <2>3 DEF GC_CLEAN, GC_OLD_MARKED
<1> QED
  BY <1>2 DEF TaskInv

LEMMA GCStep == GCInv /\ [Next]_vars => GCInv'
<1> SUFFICES ASSUME GCInv, [Next]_vars PROVE GCInv'
  OBVIOUS
<1> USE DEF GCInv
<1>1. CASE Mutate
  <2>1. UNCHANGED markVars /\ phase' = phase
    BY <1>1 DEF Mutate, Alloc, Load, Drop, Store, StackStore, NewWeakRef, jl_gc_add_finalizer, jl_finalize_th,
                jl_gc_wb, jl_gc_queue_root, LoadWeakRef, run_finalizers, cycleVars
  <2>2. ClaimInv'
    <3>1. phase = "none"
      BY <1>1 DEF Mutate, Alloc, Load, Drop, Store, StackStore, MayStore, NewWeakRef,
                  jl_gc_add_finalizer, jl_finalize_th, jl_gc_wb, jl_gc_queue_root, LoadWeakRef,
                  run_finalizers, Mutating, HeapInv, BarrierInv
    <3> QED
      BY <2>1, <3>1, ScanQuiet
  <2> QED
    BY <1>1, <2>1, <2>2, TypeMutate, LoopFrame, MutateHeap, TaskMutate DEF LoopOK, markVars
<1>2. CASE StartCollect
  BY <1>2, TypeStart, LoopStart, StartHeap DEF LoopOK
<1>3. CASE MarkStep
  <2>1. TypeOK'
    BY <1>3, TypeMark DEF MarkStep, LoopOK
  <2>2. LoopInv' /\ RestInv'
    BY <1>3, LoopWork, LoopLeave, LoopEnter, LoopObserve DEF MarkStep, LoopOK
  <2> QED
    BY <1>3, <2>1, <2>2, MarkHeap DEF LoopOK
<1>4. ASSUME NEW young \in SUBSET Watched, FinishMark(young) PROVE GCInv'
  <2>1. /\ UNCHANGED <<queue, hand, victims, mpc, gc_n_threads_marking>>
        /\ phase = "marked" /\ phase' = "sweep"
    BY <1>4 DEF FinishMark
  <2> QED
    BY <1>4, <2>1, TypeFinish, LoopFrame, FinishHeap, TaskFinish DEF LoopOK
<1>5. ASSUME NEW full \in BOOLEAN, NEW forced \in BOOLEAN, NEW skipped \in SUBSET Heap,
             Sweep(full, forced, skipped)
      PROVE  GCInv'
  <2>1. UNCHANGED markVars /\ phase = "sweep" /\ phase' \in {"none", "swept"}
    BY <1>5 DEF Sweep
  <2>2. TypeOK'
    BY <1>5, TypeFinish DEF LoopOK
  <2>3. LoopInv' /\ RestInv'
    BY <2>1, LoopFrame DEF LoopOK, markVars
  <2>4. ClaimInv'
    BY <2>1, ScanQuiet
  <2> QED
    BY <1>5, <2>2, <2>3, <2>4, SweepHeap, TaskSweep DEF LoopOK
<1>6. CASE UNCHANGED vars
  <2>1. TypeOK'
    BY <1>6 DEF vars, heapVars, barVars, finVars, cycleVars, markVars, LoopOK, TypeOK
  <2>2. UNCHANGED <<heapVars, barVars, finVars, wb, cycleVars, markVars>>
    BY <1>6 DEF vars
  <2>3. LoopInv' /\ RestInv'
    BY <2>2, LoopFrame DEF LoopOK, cycleVars, markVars
  <2>4. OnceInv' /\ \A o \in Obj : Pending(o)' <=> Pending(o)
    BY <2>2 DEF HeapInv, OnceInv, Pending, InHand, InQueue, markVars, barVars
  <2>5. HeapInv' /\ TaskInv'
    BY <2>2, <2>4, MarkFrame DEF cycleVars, Collecting
  <2>6. ClaimInv'
    BY <2>2 DEF ClaimInv, HoldsClaim, InQueue, Marked, barVars, cycleVars, markVars
  <2> QED
    BY <2>1, <2>3, <2>5, <2>6 DEF LoopOK
<1> QED
  BY <1>1, <1>2, <1>3, <1>4, <1>5, <1>6 DEF Next

\* The inductive invariant of the collector holds in every reachable state.
THEOREM GCInvHolds == Spec => []GCInv
<1>1. Init => TaskInv /\ ClaimInv
  BY Distinct DEF Init, TaskInv, ClaimInv, HoldsClaim, InQueue, Item, Obj, GC_CLEAN, GC_OLD_MARKED
<1>2. Init => GCInv
  BY <1>1, InitHeap DEF GCInv
<1> QED
  BY <1>2, GCStep, PTL DEF Spec

\* Headers, remembered sets, queues and lists of the collector keep their types.
THEOREM TypeCorrect == Spec => []TypeOK
<1>1. GCInv => TypeOK
  BY DEF GCInv, LoopOK
<1> QED
  BY GCInvHolds, <1>1, PTL

\* The argument above gc_should_mark holds for any number of collector threads:
\* when the initiator leaves gc_mark_loop no queue, no hand and no thread about
\* to mark is left.
THEOREM MarkLoopTerminatesSafely == Spec => []MarkingIsOver
<1>1. GCInv => MarkingIsOver
  BY DEF GCInv, LoopOK, LoopInv, RestInv, MarkingIsOver, Marking, Observing
<1> QED
  BY GCInvHolds, <1>1, PTL

\* jl_gc_queue_root, gc_mark_outrefs and the sweep keep the queued state and
\* the remembered sets in step, remember no object twice that is scanned in one
\* pass, and account once for the metadata of those remembered many times.
THEOREM RememberedOnceHolds == Spec => RememberedOnce
<1>1. GCInv => InStep
  <2> SUFFICES ASSUME GCInv PROVE InStep
    OBVIOUS
  <2>1. phase = "none" => \A o \in Obj :
          /\ (bits[o] = GC_MARKED) <=> remset[o] > 0
          /\ o \in Heap \ MultiPass => remset[o] <= 1
    BY DEF GCInv, HeapInv, RemInv, OnceInv, Single, Collecting
  <2>2. \A m \in Marker, o \in metadata : hand[m] # Claimed(o)
    BY DEF GCInv, ClaimInv, HoldsClaim, Claimed, LoopOK, TypeOK
  <2> QED
    BY <2>1, <2>2 DEF InStep
<1>2. GCInv /\ [Next]_vars => [BarrierStep]_vars
  <2> SUFFICES ASSUME GCInv, Next, phase = "none", NEW o \in Obj, remset'[o] > remset[o]
               PROVE  remset[o] = 0 /\ remset'[o] = 1
    BY DEF BarrierStep
  <2>1. remset \in [Obj -> Nat]
    BY DEF GCInv, LoopOK, TypeOK
  <2>2. PICK t \in Thread : jl_gc_queue_root(t)
    <3>1. remset' # remset
      BY <2>1
    <3>2. ~StartCollect
      BY <2>1 DEF StartCollect, QueueRoots
    <3>3. ~MarkStep
      <4>1. \A m \in Marker, n \in 1 .. MaxPasses : ~gc_mark_outrefs(m, n)
        BY DEF gc_mark_outrefs, GCInv, LoopOK, LoopInv, RestInv
      <4> QED
        BY <3>1, <4>1 DEF MarkStep, Pop, Steal, StealNothing, LeaveMarkAndSteal, ObserveMarking, CountWork,
              EnterMarkLoop, ObserveZero, barVars
    <3>4. \A young \in SUBSET Watched : ~FinishMark(young)
      BY <3>1 DEF FinishMark
    <3>5. \A full, forced \in BOOLEAN : \A skipped \in SUBSET Heap : ~Sweep(full, forced, skipped)
      BY DEF Sweep
    <3>6. Mutate
      BY <3>2, <3>3, <3>4, <3>5 DEF Next
    <3> QED
      BY <3>1, <3>6 DEF Mutate, Alloc, Load, Drop, Store, StackStore, NewWeakRef, jl_gc_add_finalizer,
            jl_finalize_th, jl_gc_wb, LoadWeakRef, run_finalizers, barVars
  <2>3. gc_old(bits[wb[t].parent]) /\ remset' = [remset EXCEPT ![wb[t].parent] = @ + 1]
    BY <2>1, <2>2 DEF jl_gc_queue_root, Remember
  <2>4. o = wb[t].parent
    BY <2>1, <2>3
  <2>5. remset[o] = 0
    BY <2>1, <2>3, <2>4 DEF GCInv, HeapInv, RemInv, Collecting, gc_old, GC_OLD, GC_OLD_MARKED, GC_MARKED
  <2> QED
    BY <2>1, <2>3, <2>4, <2>5
<1> QED
  BY GCInvHolds, <1>1, <1>2, PTL DEF Spec, RememberedOnce

\* No collection, quick, full or forced, frees an object that the stacks, the
\* globals, a weak reference or a finalizer list can still reach.
THEOREM CollectorIsSafe == Spec => []NoDangling
<1>1. GCInv => NoDangling
  <2> SUFFICES ASSUME GCInv PROVE Closure(Roots, Obj) \subseteq alloc \cup Image
    BY DEF NoDangling, Roots
  <2>1. PICK T \in SUBSET (alloc \cup Image) : Roots \cup Marked \subseteq T /\ Closed(T, Obj)
    BY DEF GCInv, HeapInv, LiveInv
  <2>2. T \in SUBSET Obj /\ Roots \in SUBSET Obj
    BY <2>1 DEF GCInv, LoopOK, TypeOK, Obj
  <2> QED
    BY <2>1, <2>2, ClosureFacts
<1> QED
  BY GCInvHolds, <1>1, PTL

\* clear_weak_refs comes first: the object of a weak reference is never one
\* that waits for its finalizer, nor can a mutator get to such an object.
THEOREM WeakClearedFirst == Spec => []WeakBeforeFinalizer
<1>1. GCInv => WeakBeforeFinalizer
  BY Distinct DEF GCInv, LoopOK, TypeOK, HeapInv, WeakInv, WeakBeforeFinalizer
<1> QED
  BY GCInvHolds, <1>1, PTL

-----------------------------------------------------------------------------
(* The work-stealing queue, for any number of thieves and items and any      *)
(* capacity of the first array.                                              *)
\* A ws_array_t of each capacity, and the stores that can be in the buffer.
Values == Items \cup {Garbage}
Arrays ==
  UNION {[capacity : {c}, buffer : [0 .. c - 1 -> Values]] : c \in Nat \ {0}}
Stores ==
  [to : {"bottom", "array", "slot"}, arr : Nat, idx : Nat, val : Int, fenced : BOOLEAN]

QueueTypeOK ==
  /\ top \in Nat /\ bottom \in Int /\ obottom \in Int
  /\ arrays \in Seq(Arrays) /\ array \in 1 .. Len(arrays)
  /\ oslots \in [0 .. ocap - 1 -> Values]
  /\ buffered \in Seq(Stores)
  /\ opc \in {"idle", "push", "pop", "cas"}
  /\ ob \in Int /\ ot \in Nat /\ odest \in Values
  /\ spc \in [Thieves -> {"idle", "top", "bottom", "array", "copy", "cas"}]
  /\ st \in [Thieves -> Nat] /\ sb \in [Thieves -> Int]
  /\ sary \in [Thieves -> 1 .. Len(arrays)] /\ sdest \in [Thieves -> Values]
  /\ pushed \in 0 .. MaxItems
  /\ done \in [Values -> Nat]

\* The indices from top to oend hold what was pushed and not taken.  A pop
\* under way has lowered bottom and not yet taken anything.
oend == IF opc \in {"pop", "cas"} THEN ob + 1 ELSE obottom

IsStore(n, to) == buffered[n].to = to

BoundInv ==
  /\ top <= oend /\ oend <= pushed /\ bottom <= oend
  /\ \A n \in 1 .. Len(buffered) : IsStore(n, "bottom") => buffered[n].val <= oend

\* A store of bottom waits for what was stored before it; the last store is
\* one of bottom; a slot stored after it is at or above it.
OrderInv ==
  /\ \A m, n \in 1 .. Len(buffered) :
       m < n /\ ~IsStore(m, "bottom") /\ IsStore(n, "bottom") =>
         \E k \in m + 1 .. n : buffered[k].fenced
  /\ buffered = <<>> => bottom = obottom
  /\ buffered # <<>> =>
       IsStore(Len(buffered), "bottom") /\ buffered[Len(buffered)].val = obottom
  /\ \A m \in 1 .. Len(buffered) : IsStore(m, "slot") =>
       /\ bottom <= buffered[m].idx
       /\ \A n \in 1 .. m - 1 : IsStore(n, "bottom") => buffered[n].val <= buffered[m].idx

\* The arrays are published in the order of their creation, up to the newest.
NewestInv ==
  /\ \A m \in 1 .. Len(buffered) : IsStore(m, "array") =>
       /\ buffered[m].val \in array .. Len(arrays)
       /\ \A n \in 1 .. m - 1 : IsStore(n, "array") => buffered[n].val <= buffered[m].val
  /\ array = Len(arrays)
     \/ \E m \in 1 .. Len(buffered) : IsStore(m, "array") /\ buffered[m].val = Len(arrays)

SlotInv ==
  \A m \in 1 .. Len(buffered) : IsStore(m, "slot") =>
    /\ buffered[m].arr \in 1 .. Len(arrays)
    /\ buffered[m].idx \in top .. oend - 1
    /\ buffered[m].idx < top + arrays[buffered[m].arr].capacity
    /\ buffered[m].val = OwnSlot(buffered[m].idx)

\* Once the stores before the n-th are in memory, a thief that loads array may
\* get a, and finds the item of index i there.
Visible(n, a) ==
  /\ array <= a
  /\ \A m \in 1 .. n - 1 : IsStore(m, "array") => buffered[m].val <= a
Covered(n, a, i) ==
  \/ MemSlot(a, i) = OwnSlot(i)
  \/ \E m \in 1 .. n - 1 : IsStore(m, "slot") /\ buffered[m].arr = a /\ buffered[m].idx = i
View(n, v) ==
  \A a \in 1 .. Len(arrays) : Visible(n, a) =>
    /\ v - top <= arrays[a].capacity
    /\ \A i \in top .. v - 1 : Covered(n, a, i)

\* So it is for bottom in memory, for every store of bottom under way, and for
\* the owner.
ViewInv ==
  /\ View(0, bottom)
  /\ \A n \in 1 .. Len(buffered) : IsStore(n, "bottom") => View(n, buffered[n].val)
  /\ View(Len(buffered) + 1, oend)

OwnerInv ==
  /\ opc = "push" => ob = obottom /\ ot <= top /\ ob - ot <= ocap /\ pushed < MaxItems
  /\ opc \in {"pop", "cas"} => ob = obottom
  /\ opc = "cas" => Drained /\ ot = ob /\ ot <= top /\ odest = OwnSlot(ob)

\* A thief that has found bottom above the top it read, which is still the top.
Sighted(h) == spc[h] \notin {"idle", "top"} /\ st[h] < sb[h] /\ st[h] = top

\* The item at the top stays where the thief reads it.
SightInv ==
  \A h \in Thieves :
    /\ st[h] <= top
    /\ spc[h] \in {"array", "copy", "cas"} => st[h] < sb[h]
    /\ Sighted(h) =>
         /\ top < oend
         /\ \A a \in array .. Len(arrays) : MemSlot(a, top) = OwnSlot(top)
         /\ \A m \in 1 .. Len(buffered) : IsStore(m, "slot") => buffered[m].idx # top
         /\ spc[h] # "bottom" => MemSlot(sary[h], top) = OwnSlot(top)
         /\ spc[h] \in {"copy", "cas"} => sdest[h] = OwnSlot(top)

ItemInv ==
  /\ \A i \in top .. oend - 1 : OwnSlot(i) \in Untaken
  /\ \A i, j \in top .. oend - 1 : OwnSlot(i) = OwnSlot(j) => i = j
  /\ \A x \in Untaken : \E i \in top .. oend - 1 : OwnSlot(i) = x
  /\ \A x \in Items : done[x] \in {0, 1} /\ (x > pushed => done[x] = 0)
  /\ done[Garbage] = 0

QueueInv ==
  /\ QueueTypeOK /\ BoundInv /\ OrderInv /\ NewestInv /\ SlotInv /\ ViewInv
  /\ OwnerInv /\ SightInv /\ ItemInv

-----------------------------------------------------------------------------
(* Indices and arrays.                                                       *)

LEMMA Multiple ==
  ASSUME NEW n \in Int, NEW c \in Nat \ {0}, n >= 1
  PROVE  c * n >= c
OBVIOUS

\* Indices less than a capacity apart have different slots.
LEMMA MaskedApart ==
  ASSUME NEW j \in Nat, NEW k \in Nat, NEW c \in Nat \ {0}, j < k, k < j + c
  PROVE  Masked(j, c) # Masked(k, c)
<1> SUFFICES ASSUME j % c = k % c PROVE FALSE
  BY DEF Masked
<1> DEFINE m == j \div c
           n == k \div c
<1>1. /\ m \in Int /\ n \in Int /\ j % c \in Int
      /\ j = c * m + (j % c) /\ k = c * n + (k % c)
  OBVIOUS
<1> HIDE DEF m, n
<1>2. k - j = c * n - c * m
  BY <1>1
<1>3. c * n - c * m = c * (n - m)
  BY <1>1
<1>4. c * (n - m) > 0 /\ c * (n - m) < c
  BY <1>2, <1>3
<1>5. n - m >= 1
  BY <1>1, <1>4
<1> QED
  BY <1>1, <1>4, <1>5, Multiple

LEMMA MaskedDiffers ==
  \A j, k, b \in Nat, c \in Nat \ {0} :
    b <= j /\ j < b + c /\ b <= k /\ k < b + c /\ j # k => Masked(j, c) # Masked(k, c)
<1> SUFFICES ASSUME NEW j \in Nat, NEW k \in Nat, NEW b \in Nat, NEW c \in Nat \ {0},
                    b <= j, j < b + c, b <= k, k < b + c, j # k
             PROVE  Masked(j, c) # Masked(k, c)
  OBVIOUS
<1>1. CASE j < k
  BY <1>1, MaskedApart
<1>2. CASE k < j
  BY <1>2, MaskedApart
<1> QED
  BY <1>1, <1>2

LEMMA MaskedType ==
  \A i \in Int, c \in Nat \ {0} : Masked(i, c) \in 0 .. c - 1
BY DEF Masked

LEMMA ArrayFacts ==
  /\ \A r \in Arrays : /\ r.capacity \in Nat \ {0}
                       /\ r.buffer \in [0 .. r.capacity - 1 -> Values]
                       /\ r \in [capacity : {r.capacity}, buffer : [0 .. r.capacity - 1 -> Values]]
  /\ \A c \in Nat \ {0} : \A f \in [0 .. c - 1 -> Values] :
       [capacity |-> c, buffer |-> f] \in Arrays
<1>1. ASSUME NEW r \in Arrays
      PROVE  /\ r.capacity \in Nat \ {0}
             /\ r \in [capacity : {r.capacity}, buffer : [0 .. r.capacity - 1 -> Values]]
  <2>1. PICK c \in Nat \ {0} : r \in [capacity : {c}, buffer : [0 .. c - 1 -> Values]]
    BY DEF Arrays
  <2>2. r.capacity = c
    BY <2>1
  <2> QED BY <2>1, <2>2
<1>2. \A r \in Arrays : r.buffer \in [0 .. r.capacity - 1 -> Values]
  BY <1>1
<1>3. ASSUME NEW c \in Nat \ {0}, NEW f \in [0 .. c - 1 -> Values]
      PROVE  [capacity |-> c, buffer |-> f] \in Arrays
  BY DEF Arrays
<1> QED BY <1>1, <1>2, <1>3

\* The facts about the state that every step needs.
LEMMA TypeFacts ==
  ASSUME QueueTypeOK
  PROVE  /\ Len(arrays) \in Nat \ {0} /\ Len(buffered) \in Nat
         /\ ocap \in Nat \ {0}
         /\ \A a \in 1 .. Len(arrays) :
              /\ arrays[a].capacity \in Nat \ {0}
              /\ arrays[a].buffer \in [0 .. arrays[a].capacity - 1 -> Values]
         /\ \A i \in Int : OwnSlot(i) \in Values
         /\ \A a \in 1 .. Len(arrays), i \in Int : MemSlot(a, i) \in Values
         /\ \A n \in 1 .. Len(buffered) :
              /\ buffered[n] \in Stores
              /\ buffered[n].to \in {"bottom", "array", "slot"}
              /\ buffered[n].arr \in Nat /\ buffered[n].idx \in Nat
              /\ buffered[n].val \in Int /\ buffered[n].fenced \in BOOLEAN
         /\ oend \in Int
<1>1. Len(arrays) \in Nat \ {0} /\ Len(buffered) \in Nat
  BY DEF QueueTypeOK
<1>2. \A a \in 1 .. Len(arrays) : arrays[a] \in Arrays
  BY DEF QueueTypeOK
<1>3. \A a \in 1 .. Len(arrays) :
              /\ arrays[a].capacity \in Nat \ {0}
              /\ arrays[a].buffer \in [0 .. arrays[a].capacity - 1 -> Values]
  BY <1>2, ArrayFacts
<1>4. ocap \in Nat \ {0}
  BY <1>1, <1>3 DEF ocap
<1>5. \A i \in Int : OwnSlot(i) \in Values
  BY <1>4, MaskedType DEF QueueTypeOK, OwnSlot
<1>6. \A a \in 1 .. Len(arrays), i \in Int : MemSlot(a, i) \in Values
  BY <1>3, MaskedType DEF MemSlot
<1>7. \A n \in 1 .. Len(buffered) : buffered[n] \in Stores
  BY DEF QueueTypeOK
<1>8. oend \in Int
  BY DEF oend, QueueTypeOK
<1> QED
  BY <1>1, <1>3, <1>4, <1>5, <1>6, <1>7, <1>8 DEF Stores

\* What a commit leaves of the buffer.
Place(n, i) == IF i < n THEN i ELSE i + 1

LEMMA WithoutFacts ==
  ASSUME QueueTypeOK, NEW n \in 1 .. Len(buffered), buffered' = Without(n)
  PROVE  /\ buffered' \in Seq(Stores) /\ Len(buffered') = Len(buffered) - 1
         /\ \A i \in 1 .. Len(buffered') :
              /\ Place(n, i) \in 1 .. Len(buffered) /\ Place(n, i) # n
              /\ buffered'[i] = buffered[Place(n, i)]
         /\ \A k \in 1 .. Len(buffered) :
              k # n => \E i \in 1 .. Len(buffered') : k = Place(n, i)
         /\ \A i, j \in 1 .. Len(buffered') : i < j => Place(n, i) < Place(n, j)
<1>1. Len(buffered) \in Nat /\ \A i \in 1 .. Len(buffered) : buffered[i] \in Stores
  BY DEF QueueTypeOK
<1>2. buffered' \in Seq(Stores) /\ Len(buffered') = Len(buffered) - 1
  BY <1>1 DEF Without
<1>3. \A i \in 1 .. Len(buffered') :
              /\ Place(n, i) \in 1 .. Len(buffered) /\ Place(n, i) # n
              /\ buffered'[i] = buffered[Place(n, i)]
  BY <1>1, <1>2 DEF Without, Place
<1>4. ASSUME NEW k \in 1 .. Len(buffered), k # n
      PROVE  \E i \in 1 .. Len(buffered') : k = Place(n, i)
  <2>1. CASE k < n
    <3>1. k \in 1 .. Len(buffered') /\ k = Place(n, k)
      BY <1>1, <1>2, <2>1 DEF Place
    <3> QED BY <3>1
  <2>2. CASE k > n
    <3>1. k - 1 \in 1 .. Len(buffered') /\ k = Place(n, k - 1)
      BY <1>1, <1>2, <2>2 DEF Place
    <3> QED BY <3>1
  <2> QED BY <1>4, <2>1, <2>2
<1>5. \A i, j \in 1 .. Len(buffered') : i < j => Place(n, i) < Place(n, j)
  BY DEF Place
<1> QED BY <1>2, <1>3, <1>4, <1>5

\* Only a slot overtakes another store.
LEMMA HeadFirst ==
  ASSUME QueueTypeOK, OrderInv, NEW n \in 1 .. Len(buffered), MayCommit(n),
         ~IsStore(n, "slot")
  PROVE  n = 1
<1>0. Len(buffered) \in Nat /\ buffered[n].to \in {"bottom", "array", "slot"}
      /\ (n # 1 => buffered[1].to \in {"bottom", "array", "slot"})
  BY TypeFacts
<1> SUFFICES ASSUME n # 1, IsStore(n, "bottom") PROVE FALSE
  BY <1>0 DEF MayCommit, IsStore
<1>1. CASE IsStore(1, "bottom")
  BY <1>0, <1>1 DEF MayCommit, SamePlace, IsStore
<1>2. CASE ~IsStore(1, "bottom")
  <2>1. PICK k \in 2 .. n : buffered[k].fenced
    BY <1>0, <1>2 DEF OrderInv
  <2> QED BY <2>1 DEF MayCommit
<1> QED BY <1>1, <1>2

\* Appending two or three stores.
LEMMA TwoMore ==
  ASSUME NEW S, NEW s \in Seq(S), NEW x \in S, NEW y \in S
  PROVE  /\ s \o <<x, y>> \in Seq(S) /\ Len(s \o <<x, y>>) = Len(s) + 2
         /\ \A n \in 1 .. Len(s) : (s \o <<x, y>>)[n] = s[n]
         /\ (s \o <<x, y>>)[Len(s) + 1] = x /\ (s \o <<x, y>>)[Len(s) + 2] = y
<1>1. Len(s) \in Nat /\ <<x, y>> \in Seq(S) /\ Len(<<x, y>>) = 2 /\ <<x, y>>[1] = x /\ <<x,y>>[2] = y
  OBVIOUS
<1>2. s \o <<x, y>> \in Seq(S) /\ Len(s \o <<x, y>>) = Len(s) + 2
  BY <1>1
<1>3. \A n \in 1 .. Len(s) : (s \o <<x, y>>)[n] = s[n]
  BY <1>1, <1>2
<1>4. (s \o <<x, y>>)[Len(s) + 1] = x /\ (s \o <<x, y>>)[Len(s) + 2] = y
  BY <1>1, <1>2
<1> QED BY <1>2, <1>3, <1>4

LEMMA ThreeMore ==
  ASSUME NEW S, NEW s \in Seq(S), NEW w \in S, NEW x \in S, NEW y \in S
  PROVE  /\ s \o <<w, x, y>> \in Seq(S) /\ Len(s \o <<w, x, y>>) = Len(s) + 3
         /\ \A n \in 1 .. Len(s) : (s \o <<w, x, y>>)[n] = s[n]
         /\ (s \o <<w, x, y>>)[Len(s) + 1] = w /\ (s \o <<w, x, y>>)[Len(s) + 2] = x
         /\ (s \o <<w, x, y>>)[Len(s) + 3] = y
<1>1. Len(s) \in Nat /\ <<w, x, y>> \in Seq(S) /\ Len(<<w, x, y>>) = 3
      /\ <<w, x, y>>[1] = w /\ <<w, x,y>>[2] = x /\ <<w, x, y>>[3] = y
  OBVIOUS
<1>2. s \o <<w, x, y>> \in Seq(S) /\ Len(s \o <<w, x, y>>) = Len(s) + 3
  BY <1>1
<1>3. \A n \in 1 .. Len(s) : (s \o <<w, x, y>>)[n] = s[n]
  BY <1>1, <1>2
<1>4. (s \o <<w, x, y>>)[Len(s) + 1] = w /\ (s \o <<w, x, y>>)[Len(s) + 2] = x
      /\ (s \o <<w, x, y>>)[Len(s) + 3] = y
  BY <1>1, <1>2
<1> QED BY <1>2, <1>3, <1>4

\* Growing copies the items it has to keep to their slots in the new array.
LEMMA GrownFacts ==
  ASSUME QueueTypeOK
  PROVE  /\ Grown \in [0 .. 2 * ocap - 1 -> Values]
         /\ \A i \in ot .. ot + ocap - 1 : Grown[Masked(i, 2 * ocap)] = OwnSlot(i)
<1> DEFINE from == ot .. ot + ocap - 1
           Here(i, r) == Masked(i, 2 * ocap) = r
           slot(r) == IF \E i \in from : Here(i, r)
                      THEN OwnSlot(CHOOSE i \in from : Here(i, r)) ELSE Garbage
<1>0. ocap \in Nat \ {0} /\ ot \in Nat
  BY TypeFacts DEF QueueTypeOK
<1>1. ocap \in Nat \ {0} /\ ot \in Nat /\ 2 * ocap \in Nat \ {0} /\ ocap <= 2 * ocap
  BY <1>0
<1>2. \A i \in Int : OwnSlot(i) \in Values
  BY TypeFacts
<1>3. Grown = [r \in 0 .. 2 * ocap - 1 |-> slot(r)]
  BY DEF Grown
<1>4. ASSUME NEW r PROVE slot(r) \in Values
  <2>1. CASE \E i \in from : Here(i, r)
    <3>1. (CHOOSE i \in from : Here(i, r)) \in from
      BY <2>1
    <3>2. (CHOOSE i \in from : Here(i, r)) \in Int
      BY <1>1, <3>1
    <3> QED BY <1>2, <2>1, <3>2
  <2>2. CASE ~\E i \in from : Here(i, r)
    BY <2>2 DEF Values
  <2> QED BY <2>1, <2>2
<1>5. ASSUME NEW i \in from PROVE slot(Masked(i, 2 * ocap)) = OwnSlot(i)
  <2> DEFINE r == Masked(i, 2 * ocap)
             j == CHOOSE k \in from : Here(k, r)
  <2>1. Here(i, r)
    OBVIOUS
  <2>2. j \in from /\ Here(j, r)
    BY <2>1
  <2>3. j = i
    <3>1. /\ i \in Nat /\ j \in Nat /\ ot <= i /\ ot <= j
          /\ i < ot + 2 * ocap /\ j < ot + 2 * ocap
      BY <1>1, <2>2
    <3>2. Masked(j, 2 * ocap) = Masked(i, 2 * ocap)
      BY <2>2
    <3> HIDE DEF j
    <3> QED BY <1>1, <3>1, <3>2, MaskedDiffers
  <2> QED BY <2>1, <2>3
<1>6. \A i \in from : Masked(i, 2 * ocap) \in 0 .. 2 * ocap - 1
  BY <1>1, MaskedType
<1> HIDE DEF slot
<1>7. Grown \in [0 .. 2 * ocap - 1 -> Values]
  BY <1>3, <1>4
<1>8. \A i \in from : Grown[Masked(i, 2 * ocap)] = OwnSlot(i)
  BY <1>3, <1>5, <1>6
<1> QED BY <1>7, <1>8

\* What a push, with or without growth, does to the buffer and the arrays; d is
\* the place in front of its slot store.
Pushed(d) ==
  /\ Len(buffered') = d + 2
  /\ \A n \in 1 .. Len(buffered) : buffered'[n] = buffered[n]
  /\ buffered'[d + 1] = StoreSlot(Len(arrays'), ob, pushed + 1)
  /\ buffered'[d + 2] = StoreBottom(ob + 1, TRUE)
  /\ \A a \in 1 .. Len(arrays) : arrays'[a] = arrays[a]
  /\ \/ d = Len(buffered) /\ arrays' = arrays
     \/ /\ d = Len(buffered) + 1 /\ buffered'[d] = StoreArray(Len(arrays'))
        /\ Len(arrays') = Len(arrays) + 1
        /\ \A i \in top .. ob - 1 : MemSlot(Len(arrays), i)' = OwnSlot(i)'

LEMMA PushEffect ==
  ASSUME QueueInv, PushStore \/ PushGrow
  PROVE  /\ QueueTypeOK'
         /\ ob \in Nat /\ ob = oend /\ oend' = ob + 1 /\ obottom' = ob + 1 /\ opc' = "idle"
         /\ pushed' = pushed + 1 /\ pushed' <= MaxItems
         /\ UNCHANGED <<top, bottom, array, thief, done>>
         /\ \A i \in top .. ob - 1 : OwnSlot(i)' = OwnSlot(i)
         /\ \A i : i = ob => OwnSlot(i)' = pushed + 1
         /\ ob + 1 - top <= ocap' /\ ocap <= ocap' /\ ocap' \in Nat \ {0}
         /\ \E d \in Nat : Pushed(d)
<1>1. /\ opc = "push" /\ ob = obottom /\ ot <= top /\ ob - ot <= ocap /\ pushed < MaxItems
      /\ opc' = "idle" /\ obottom' = ob + 1 /\ pushed' = pushed + 1
      /\ ob' = 0 /\ ot' = 0 /\ odest' = Garbage
      /\ UNCHANGED <<top, bottom, array, thief, done>>
  BY DEF QueueInv, OwnerInv, PushStore, PushGrow, Stored, OwnerReturns
<1>2. QueueTypeOK /\ top <= oend
  BY DEF QueueInv, BoundInv
<1>9. ob = oend /\ oend' = ob + 1
  BY <1>1 DEF oend
<1>3. /\ ob \in Nat /\ top \in Nat /\ ot \in Nat /\ top <= ob
      /\ pushed \in Nat /\ pushed' \in 0 .. MaxItems /\ pushed + 1 \in Values
  BY <1>1, <1>2, <1>9, QueueAssumption DEF QueueTypeOK, Values, Items
<1>4. /\ ocap \in Nat \ {0} /\ Len(arrays) \in Nat \ {0} /\ Len(buffered) \in Nat
  BY <1>2, TypeFacts
<1>5. ob \in Int /\ ob \in Nat /\ ocap \in Nat \ {0}
  BY <1>3, <1>4
<1>6. /\ UNCHANGED <<spc, st, sb, sary, sdest>> /\ Garbage \in Values
  BY <1>1 DEF thief, Values
<1>7. CASE PushStore
  <2>1. /\ arrays' = arrays /\ ob - ot <= ocap - 1
        /\ buffered' = buffered \o <<StoreSlot(Len(arrays), ob, pushed + 1), StoreBottom(ob + 1, TRUE)>>
        /\ oslots' = [oslots EXCEPT ![Masked(ob, ocap)] = pushed + 1]
    BY <1>7 DEF PushStore, Stored
  <2>2. ocap' = ocap /\ ob + 1 - top <= ocap
    BY <1>1, <1>3, <1>4, <2>1 DEF ocap
  <2>3. /\ StoreSlot(Len(arrays), ob, pushed + 1) \in Stores /\ StoreBottom(ob + 1, TRUE) \in Stores
    BY <1>3, <1>4 DEF StoreSlot, StoreBottom, Stores
  <2>4. buffered \in Seq(Stores) /\ oslots \in [0 .. ocap - 1 -> Values]
    BY <1>2 DEF QueueTypeOK
  <2>5. /\ buffered' \in Seq(Stores) /\ Len(buffered') = Len(buffered) + 2
        /\ \A n \in 1 .. Len(buffered) : buffered'[n] = buffered[n]
        /\ buffered'[Len(buffered) + 1] = StoreSlot(Len(arrays), ob, pushed + 1)
        /\ buffered'[Len(buffered) + 2] = StoreBottom(ob + 1, TRUE)
    <3> DEFINE x == StoreSlot(Len(arrays), ob, pushed + 1)
               y == StoreBottom(ob + 1, TRUE)
    <3>1. x \in Stores /\ y \in Stores /\ buffered' = buffered \o <<x, y>>
      BY <2>1, <2>3
    <3> HIDE DEF x, y
    <3>2. /\ buffered' \in Seq(Stores) /\ Len(buffered') = Len(buffered) + 2
          /\ \A n \in 1 .. Len(buffered) : buffered'[n] = buffered[n]
          /\ buffered'[Len(buffered) + 1] = x /\ buffered'[Len(buffered) + 2] = y
      BY <2>4, <3>1, TwoMore
    <3> QED BY <3>2 DEF x, y
  <2>6. oslots' \in [0 .. ocap' - 1 -> Values]
    BY <1>3, <2>1, <2>2, <2>4
  <2>7. QueueTypeOK'
    <3>1. top' \in Nat /\ bottom' \in Int /\ obottom' \in Int /\ pushed' \in 0 .. MaxItems
          /\ opc' \in {"idle", "push", "pop", "cas"} /\ ob' \in Int /\ ot' \in Nat
          /\ odest' \in Values /\ done' \in [Values -> Nat]
      BY <1>1, <1>2, <1>3, <1>6 DEF QueueTypeOK
    <3>2. Len(arrays') \in Nat /\ 1 .. Len(arrays) \subseteq 1 .. Len(arrays')
      BY <1>4, <2>1
    <3>3. array' \in 1 .. Len(arrays')
      BY <1>1, <1>2, <3>2 DEF QueueTypeOK
    <3>4. /\ spc' \in [Thieves -> {"idle", "top", "bottom", "array", "copy", "cas"}]
          /\ st' \in [Thieves -> Nat] /\ sb' \in [Thieves -> Int] /\ sdest' \in [Thieves -> Values]
      BY <1>2, <1>6 DEF QueueTypeOK
    <3>5. sary' \in [Thieves -> 1 .. Len(arrays')]
      <4>1. sary' \in [Thieves -> 1 .. Len(arrays)]
        BY <1>2, <1>6 DEF QueueTypeOK
      <4> QED BY <3>2, <4>1
    <3>6. arrays' \in Seq(Arrays)
      BY <1>2, <2>1 DEF QueueTypeOK
    <3> QED BY <3>1, <3>3, <3>4, <3>5, <3>6, <2>5, <2>6 DEF QueueTypeOK
  <2>8. Masked(ob, ocap) \in 0 .. ocap - 1
    BY <1>5, MaskedType
  <2>9. ASSUME NEW i, i = ob PROVE OwnSlot(i)' = pushed + 1
    BY <2>1, <2>2, <2>4, <2>8, <2>9 DEF OwnSlot
  <2>10. ASSUME NEW i \in top .. ob - 1 PROVE OwnSlot(i)' = OwnSlot(i)
    <3>0. i \in Nat /\ top <= i /\ i < top + ocap /\ top <= ob /\ ob < top + ocap /\ i # ob
      BY <1>3, <1>5, <2>2
    <3>1. Masked(i, ocap) # Masked(ob, ocap)
      BY <1>3, <1>5, <3>0, MaskedDiffers
    <3>2. Masked(i, ocap) \in 0 .. ocap - 1
      BY <1>5, <3>0, MaskedType
    <3> QED BY <2>1, <2>2, <2>4, <3>1, <3>2 DEF OwnSlot
  <2>11. Pushed(Len(buffered))
    BY <2>1, <2>5 DEF Pushed
  <2> QED BY <1>1, <1>3, <1>4, <1>9, <2>2, <2>7, <2>9, <2>10, <2>11
<1>8. CASE PushGrow
  <2> DEFINE A == Len(arrays) + 1
             new == [capacity |-> 2 * ocap, buffer |-> Grown]
  <2>1. /\ arrays' = Append(arrays, new)
        /\ buffered' = buffered \o <<StoreArray(A), StoreSlot(A, ob, pushed + 1), StoreBottom(ob + 1, TRUE)>>
        /\ oslots' = [Grown EXCEPT ![Masked(ob, 2 * ocap)] = pushed + 1]
    BY <1>8 DEF PushGrow, Stored
  <2>2. /\ Grown \in [0 .. 2 * ocap - 1 -> Values] /\ 2 * ocap \in Nat \ {0}
        /\ \A i \in ot .. ot + ocap - 1 : Grown[Masked(i, 2 * ocap)] = OwnSlot(i)
    BY <1>2, <1>4, GrownFacts
  <2>3. new \in Arrays
    BY <2>2, ArrayFacts
  <2>4. arrays \in Seq(Arrays) /\ buffered \in Seq(Stores)
    BY <1>2 DEF QueueTypeOK
  <2>5. /\ arrays' \in Seq(Arrays) /\ Len(arrays') = A /\ arrays'[A] = new
        /\ \A a \in 1 .. Len(arrays) : arrays'[a] = arrays[a]
    BY <2>1, <2>3, <2>4
  <2>6. ocap' = 2 * ocap
    BY <2>5 DEF ocap
  <2>7. /\ StoreArray(A) \in Stores /\ StoreSlot(A, ob, pushed + 1) \in Stores
        /\ StoreBottom(ob + 1, TRUE) \in Stores
    BY <1>3, <1>4 DEF StoreArray, StoreSlot, StoreBottom, Stores
  <2>8. /\ buffered' \in Seq(Stores) /\ Len(buffered') = Len(buffered) + 3
        /\ \A n \in 1 .. Len(buffered) : buffered'[n] = buffered[n]
        /\ buffered'[Len(buffered) + 1] = StoreArray(A)
        /\ buffered'[Len(buffered) + 2] = StoreSlot(A, ob, pushed + 1)
        /\ buffered'[Len(buffered) + 3] = StoreBottom(ob + 1, TRUE)
    <3> DEFINE w == StoreArray(A)
               x == StoreSlot(A, ob, pushed + 1)
               y == StoreBottom(ob + 1, TRUE)
    <3>1. /\ w \in Stores /\ x \in Stores /\ y \in Stores
          /\ buffered' = buffered \o <<w, x, y>>
      BY <2>1, <2>7
    <3> HIDE DEF w, x, y
    <3>2. /\ buffered' \in Seq(Stores) /\ Len(buffered') = Len(buffered) + 3
          /\ \A n \in 1 .. Len(buffered) : buffered'[n] = buffered[n]
          /\ buffered'[Len(buffered) + 1] = w /\ buffered'[Len(buffered) + 2] = x
          /\ buffered'[Len(buffered) + 3] = y
      BY <2>4, <3>1, ThreeMore
    <3> QED BY <3>2 DEF w, x, y
  <2>9. oslots' \in [0 .. ocap' - 1 -> Values]
    BY <1>3, <2>1, <2>2, <2>6
  <2>10. QueueTypeOK'
    <3>1. top' \in Nat /\ bottom' \in Int /\ obottom' \in Int /\ pushed' \in 0 .. MaxItems
          /\ opc' \in {"idle", "push", "pop", "cas"} /\ ob' \in Int /\ ot' \in Nat
          /\ odest' \in Values /\ done' \in [Values -> Nat]
      BY <1>1, <1>2, <1>3, <1>6 DEF QueueTypeOK
    <3>2. Len(arrays') \in Nat /\ 1 .. Len(arrays) \subseteq 1 .. Len(arrays')
      BY <1>4, <2>5
    <3>3. array' \in 1 .. Len(arrays')
      BY <1>1, <1>2, <3>2 DEF QueueTypeOK
    <3>4. /\ spc' \in [Thieves -> {"idle", "top", "bottom", "array", "copy", "cas"}]
          /\ st' \in [Thieves -> Nat] /\ sb' \in [Thieves -> Int] /\ sdest' \in [Thieves -> Values]
      BY <1>2, <1>6 DEF QueueTypeOK
    <3>5. sary' \in [Thieves -> 1 .. Len(arrays')]
      <4>1. sary' \in [Thieves -> 1 .. Len(arrays)]
        BY <1>2, <1>6 DEF QueueTypeOK
      <4> QED BY <3>2, <4>1
    <3>6. arrays' \in Seq(Arrays)
      BY <1>2, <2>5 DEF QueueTypeOK
    <3> QED BY <3>1, <3>3, <3>4, <3>5, <3>6, <2>8, <2>9 DEF QueueTypeOK
  <2>11. Masked(ob, 2 * ocap) \in 0 .. 2 * ocap - 1
    <3>1. 2 * ocap \in Nat \ {0}
      BY <1>5
    <3> QED BY <1>5, <3>1, MaskedType
  <2>12. ASSUME NEW i, i = ob PROVE OwnSlot(i)' = pushed + 1
    BY <2>1, <2>2, <2>6, <2>11, <2>12 DEF OwnSlot
  <2>13. ob + 1 - top <= 2 * ocap /\ ocap <= 2 * ocap
    BY <1>1, <1>3, <1>4
  <2>14. ASSUME NEW i \in top .. ob - 1
         PROVE  OwnSlot(i)' = OwnSlot(i) /\ MemSlot(Len(arrays), i)' = OwnSlot(i)
    <3>0. i \in Nat /\ i \in ot .. ot + ocap - 1
      BY <1>1, <1>3, <1>4
    <3>1. Masked(i, 2 * ocap) # Masked(ob, 2 * ocap)
      <4>1. top <= i /\ i < top + 2 * ocap /\ top <= ob /\ ob < top + 2 * ocap /\ i # ob
        BY <1>3, <1>4, <2>13, <3>0
      <4> QED BY <1>3, <2>2, <3>0, <4>1, MaskedDiffers
    <3>2. Masked(i, 2 * ocap) \in 0 .. 2 * ocap - 1
      <4>1. 2 * ocap \in Nat \ {0}
        BY <1>5
      <4> QED BY <3>0, <4>1, MaskedType
    <3>3. oslots'[Masked(i, 2 * ocap)] = Grown[Masked(i, 2 * ocap)]
      BY <2>1, <2>2, <3>1, <3>2
    <3>4. Grown[Masked(i, 2 * ocap)] = OwnSlot(i)
      BY <2>2, <3>0
    <3>5. arrays'[A].buffer = Grown /\ arrays'[A].capacity = 2 * ocap
      BY <2>5
    <3> QED BY <2>5, <2>6, <3>3, <3>4, <3>5 DEF OwnSlot, MemSlot
  <2>15. Pushed(Len(buffered) + 1)
    <3>1. Len(buffered) + 1 + 1 = Len(buffered) + 2 /\ Len(buffered) + 1 + 2 = Len(buffered) + 3
      BY <1>4
    <3>2. \A i \in top .. ob - 1 : MemSlot(Len(arrays), i)' = OwnSlot(i)'
      BY <2>14
    <3> QED BY <2>5, <2>8, <3>1, <3>2 DEF Pushed
  <2> QED BY <1>1, <1>3, <1>4, <1>9, <2>6, <2>10, <2>12, <2>13, <2>14, <2>15
<1> QED BY <1>7, <1>8

\* A push keeps the invariant.
LEMMA PushStep ==
  ASSUME QueueInv, PushStore \/ PushGrow
  PROVE  QueueInv'
<1> DEFINE l == Len(buffered)
           A == Len(arrays')
<1>0. /\ QueueTypeOK' /\ QueueTypeOK
      /\ ob = oend /\ oend' = ob + 1 /\ obottom' = ob + 1 /\ opc' = "idle"
      /\ pushed' = pushed + 1 /\ pushed' <= MaxItems
      /\ UNCHANGED <<top, bottom, array, thief, done>>
      /\ \A i \in top .. ob - 1 : OwnSlot(i)' = OwnSlot(i)
      /\ \A i : i = ob => OwnSlot(i)' = pushed + 1
  BY PushEffect DEF QueueInv
<1>1. ob \in Nat /\ ob + 1 - top <= ocap' /\ ocap <= ocap' /\ ocap' \in Nat
  BY PushEffect
<1>2. PICK d \in Nat : Pushed(d)
  BY PushEffect
<1>3. /\ l \in Nat /\ Len(arrays) \in Nat /\ A \in Nat /\ top \in Nat /\ bottom \in Int
      /\ array \in Nat /\ array <= Len(arrays) /\ pushed \in Nat /\ ocap \in Nat
      /\ Len(arrays) >= 1
  <2>1. l \in Nat /\ Len(arrays) \in Nat \ {0} /\ ocap \in Nat
    BY <1>0, TypeFacts
  <2>2. A \in Nat
    BY <1>0 DEF QueueTypeOK
  <2> QED BY <1>0, <2>1, <2>2 DEF QueueTypeOK
<1>4. /\ Len(buffered') = d + 2 /\ (d = l \/ d = l + 1)
      /\ A = Len(arrays) \/ A = Len(arrays) + 1
      /\ \A n \in 1 .. l : buffered'[n] = buffered[n]
      /\ \A a \in 1 .. Len(arrays) : arrays'[a] = arrays[a]
  BY <1>2, <1>3 DEF Pushed
<1>5. /\ buffered'[d + 1].to = "slot" /\ buffered'[d + 1].arr = A
      /\ buffered'[d + 1].idx = ob /\ buffered'[d + 1].val = pushed + 1
  BY <1>2 DEF Pushed, StoreSlot
<1>6. /\ buffered'[d + 2].to = "bottom" /\ buffered'[d + 2].val = ob + 1
      /\ buffered'[d + 2].fenced = TRUE
  BY <1>2 DEF Pushed, StoreBottom
<1>7. d = l + 1 => buffered'[d].to = "array" /\ buffered'[d].val = A /\ A = Len(arrays) + 1
  BY <1>2, <1>3 DEF Pushed, StoreArray
<1>8. d = l => arrays' = arrays /\ A = Len(arrays)
  BY <1>2, <1>3 DEF Pushed
<1>9. d = l + 1 => \A i \in top .. ob - 1 : MemSlot(Len(arrays), i)' = OwnSlot(i)'
  BY <1>2, <1>3 DEF Pushed
<1>10. \A n \in 1 .. Len(buffered') :
         n \in 1 .. l \/ n = d + 1 \/ n = d + 2 \/ (n = l + 1 /\ d = l + 1)
  BY <1>3, <1>4
<1>11. \A n \in 1 .. l : n \in 1 .. Len(buffered') /\ \A to : IsStore(n, to)' = IsStore(n, to)
  BY <1>3, <1>4 DEF IsStore
<1>12. /\ IsStore(d + 1, "slot") ' /\ ~IsStore(d + 1, "bottom")' /\ ~IsStore(d + 1, "array")'
       /\ IsStore(d + 2, "bottom")' /\ ~IsStore(d + 2, "slot")' /\ ~IsStore(d + 2, "array")'
       /\ d = l + 1 => IsStore(d, "array")' /\ ~IsStore(d, "bottom")' /\ ~IsStore(d, "slot")'
  BY <1>5, <1>6, <1>7 DEF IsStore
<1> HIDE DEF l, A
<1>13. /\ top <= ob /\ ob <= pushed /\ bottom <= ob
       /\ \A n \in 1 .. l : IsStore(n, "bottom") => buffered[n].val <= ob
  BY <1>0 DEF QueueInv, BoundInv, l
<1>14. \A n \in 1 .. l : buffered[n].val \in Int /\ buffered[n].idx \in Nat
  BY <1>0, TypeFacts DEF l
<1>15. BoundInv'
  <2>1. ASSUME NEW n \in 1 .. Len(buffered'), IsStore(n, "bottom")'
        PROVE  buffered'[n].val <= ob + 1
    <3>1. CASE n \in 1 .. l
      <4>1. buffered'[n] = buffered[n] /\ buffered[n].val <= ob /\ buffered[n].val \in Int
        BY <1>4, <1>11, <1>13, <1>14, <2>1, <3>1
      <4> QED BY <1>1, <4>1
    <3>2. CASE n = d + 2
      BY <1>1, <1>6, <3>2
    <3> QED BY <1>10, <1>12, <2>1, <3>1, <3>2
  <2> QED BY <1>0, <1>1, <1>3, <1>13, <2>1 DEF BoundInv
<1>16. OrderInv'
  <2>1. ASSUME NEW m \in 1 .. Len(buffered'), NEW n \in 1 .. Len(buffered'), m < n,
               ~IsStore(m, "bottom")', IsStore(n, "bottom")'
        PROVE  \E k \in m + 1 .. n : buffered'[k].fenced
    <3>1. CASE n \in 1 .. l
      <4>1. m \in 1 .. l /\ ~IsStore(m, "bottom") /\ IsStore(n, "bottom")
        BY <1>3, <1>11, <2>1, <3>1
      <4>2. PICK k \in m + 1 .. n : buffered[k].fenced
        BY <2>1, <4>1 DEF QueueInv, OrderInv, l
      <4>3. k \in 1 .. l
        BY <1>3, <3>1, <4>1
      <4> QED BY <1>4, <4>2, <4>3
    <3>2. CASE n = d + 2
      <4>1. n \in m + 1 .. n
        BY <2>1
      <4> QED BY <1>6, <3>2, <4>1
    <3> QED BY <1>10, <1>12, <2>1, <3>1, <3>2
  <2>2. buffered' # <<>>
    BY <1>4
  <2>3. IsStore(Len(buffered), "bottom")' /\ buffered'[Len(buffered')].val = obottom'
    BY <1>0, <1>4, <1>6 DEF IsStore
  <2>4. ASSUME NEW m \in 1 .. Len(buffered'), IsStore(m, "slot")'
        PROVE  /\ bottom <= buffered'[m].idx
               /\ \A n \in 1 .. m - 1 : IsStore(n, "bottom")' => buffered'[n].val <= buffered'[m].idx
    <3>1. CASE m \in 1 .. l
      <4>1. /\ bottom <= buffered[m].idx
            /\ \A n \in 1 .. m - 1 : IsStore(n, "bottom") => buffered[n].val <= buffered[m].idx
        BY <1>11, <2>4, <3>1 DEF QueueInv, OrderInv, l
      <4>2. \A n \in 1 .. m - 1 : n \in 1 .. l
        BY <1>3, <3>1
      <4> QED BY <1>4, <1>11, <3>1, <4>1, <4>2
    <3>2. CASE m = d + 1
      <4>1. \A n \in 1 .. m - 1 : n \in 1 .. l \/ (n = d /\ d = l + 1)
        BY <1>3, <1>4, <3>2
      <4> QED BY <1>4, <1>5, <1>11, <1>12, <1>13, <3>2, <4>1
    <3> QED BY <1>10, <1>12, <2>4, <3>1, <3>2
  <2> QED BY <1>0, <2>1, <2>2, <2>3, <2>4 DEF OrderInv
<1>17. NewestInv'
  <2>1. /\ \A m \in 1 .. l : IsStore(m, "array") =>
             /\ buffered[m].val \in array .. Len(arrays)
             /\ \A n \in 1 .. m - 1 : IsStore(n, "array") => buffered[n].val <= buffered[m].val
        /\ array = Len(arrays)
           \/ \E m \in 1 .. l : IsStore(m, "array") /\ buffered[m].val = Len(arrays)
    BY DEF QueueInv, NewestInv, l
  <2>2. ASSUME NEW m \in 1 .. Len(buffered'), IsStore(m, "array")'
        PROVE  /\ buffered'[m].val \in array .. A
               /\ \A n \in 1 .. m - 1 : IsStore(n, "array")' => buffered'[n].val <= buffered'[m].val
    <3>1. CASE m \in 1 .. l
      <4>1. \A n \in 1 .. m - 1 : n \in 1 .. l
        BY <1>3, <3>1
      <4>2. buffered'[m] = buffered[m] /\ IsStore(m, "array")
        BY <1>4, <1>11, <2>2, <3>1
      <4>3. buffered[m].val \in array .. A
        BY <1>3, <1>4, <2>1, <3>1, <4>2
      <4> QED BY <1>4, <1>11, <2>1, <3>1, <4>1, <4>2, <4>3
    <3>2. CASE m = l + 1 /\ d = l + 1
      <4>1. \A n \in 1 .. m - 1 : n \in 1 .. l
        BY <1>3, <3>2
      <4>2. \A n \in 1 .. l : IsStore(n, "array") => buffered[n].val <= A
        BY <1>3, <1>4, <2>1
      <4>3. A \in array .. A
        BY <1>3, <1>4
      <4> QED BY <1>4, <1>7, <1>11, <3>2, <4>1, <4>2, <4>3
    <3> QED BY <1>10, <1>12, <2>2, <3>1, <3>2
  <2>3. array = A \/ \E m \in 1 .. Len(buffered') : IsStore(m, "array")' /\ buffered'[m].val = A
    <3>1. CASE d = l
      BY <1>4, <1>8, <1>11, <2>1, <3>1
    <3>2. CASE d = l + 1
      <4>1. d \in 1 .. Len(buffered')
        BY <1>3, <1>4, <3>2
      <4> QED BY <1>7, <1>12, <3>2, <4>1
    <3> QED BY <1>4, <3>1, <3>2
  <2> QED BY <1>0, <2>2, <2>3 DEF NewestInv, A
<1>18. SlotInv'
  <2>1. ASSUME NEW m \in 1 .. Len(buffered'), IsStore(m, "slot")'
        PROVE  /\ buffered'[m].arr \in 1 .. A
               /\ buffered'[m].idx \in top .. ob
               /\ buffered'[m].idx < top + arrays'[buffered'[m].arr].capacity
               /\ \A i : i = buffered'[m].idx => buffered'[m].val = OwnSlot(i)'
    <3>1. CASE m \in 1 .. l
      <4>1. buffered'[m] = buffered[m] /\ IsStore(m, "slot")
        BY <1>4, <1>11, <2>1, <3>1
      <4>2. /\ buffered[m].arr \in 1 .. Len(arrays)
            /\ buffered[m].idx \in top .. ob - 1
            /\ buffered[m].idx < top + arrays[buffered[m].arr].capacity
            /\ buffered[m].val = OwnSlot(buffered[m].idx)
        BY <1>0, <3>1, <4>1 DEF QueueInv, SlotInv, l
      <4>3. buffered[m].arr \in 1 .. A /\ buffered[m].idx \in top .. ob
        <5>0. Len(arrays) \in Nat /\ A \in Nat /\ Len(arrays) <= A
          BY <1>1, <1>3, <1>4, <1>7, <1>8
        <5>1. \A c \in 1 .. Len(arrays) : c \in 1 .. A
          BY <5>0
        <5>2. \A i \in top .. ob - 1 : i \in top .. ob
          BY <1>1, <1>3, <1>4
        <5> QED BY <4>2, <5>1, <5>2
      <4>4. arrays'[buffered[m].arr] = arrays[buffered[m].arr]
        BY <1>4, <4>2
      <4>5. OwnSlot(buffered[m].idx) = buffered[m].val
            /\ \A i : i = buffered[m].idx => OwnSlot(i)' = OwnSlot(i)
        BY <1>0, <4>2
      <4> QED BY <4>1, <4>2, <4>3, <4>4, <4>5
    <3>2. CASE m = d + 1
      <4>1. ob \in top .. ob /\ A \in 1 .. A
        BY <1>1, <1>3, <1>4, <1>13
      <4>2. ob < top + arrays'[A].capacity
        BY <1>1, <1>3 DEF ocap, A
      <4> QED BY <1>0, <1>5, <3>2, <4>1, <4>2
    <3> QED BY <1>10, <1>12, <2>1, <3>1, <3>2
  <2> QED BY <1>0, <1>1, <2>1 DEF SlotInv, A
<1>26. top' = top /\ array' = array
  BY <1>0
<1>27. l \in Nat /\ array \in Nat /\ array >= 1 /\ Len(arrays) \in Nat
  BY <1>0, <1>3 DEF QueueTypeOK
\* A place in front of the push looks the same; the new array has its items.
<1>19. ASSUME NEW n \in 0 .. l + 1, NEW v \in Int, v <= ob, View(n, v)
       PROVE  View(n, v)'
  <2>0. \A m \in 1 .. n - 1 : m \in 1 .. l
    BY <1>3
  <2> SUFFICES ASSUME NEW a \in 1 .. A, Visible(n, a)'
               PROVE  /\ v - top <= arrays'[a].capacity
                      /\ \A i \in top .. v - 1 : Covered(n, a, i)'
    BY <1>0 DEF View, A
  <2>1. CASE a \in 1 .. Len(arrays)
    <3>1. Visible(n, a)
      BY <1>0, <1>4, <1>11, <2>0 DEF Visible
    <3>2. v - top <= arrays[a].capacity /\ \A i \in top .. v - 1 : Covered(n, a, i)
      BY <1>19, <2>1, <3>1 DEF View
    <3>3. arrays'[a] = arrays[a]
      BY <1>4, <2>1
    <3>4. ASSUME NEW i \in top .. v - 1 PROVE Covered(n, a, i)'
      <4>1. OwnSlot(i)' = OwnSlot(i)
        <5>1. i \in top .. ob - 1
          BY <1>1, <1>3, <1>19
        <5> QED BY <1>0, <5>1
      <4>2. MemSlot(a, i)' = MemSlot(a, i)
        BY <3>3 DEF MemSlot
      <4>3. Covered(n, a, i)
        BY <3>2
      <4> QED BY <1>4, <1>11, <2>0, <4>1, <4>2, <4>3 DEF Covered
    <3> QED BY <3>2, <3>3, <3>4
  <2>2. CASE a \notin 1 .. Len(arrays)
    <3>1. d = l + 1 /\ a = A
      BY <1>3, <1>4, <1>7, <1>8, <2>2
    <3>2. arrays'[a].capacity = ocap'
      BY <3>1 DEF ocap, A
    <3>3. ASSUME NEW i \in top .. v - 1 PROVE MemSlot(a, i)' = OwnSlot(i)'
      <4>1. i \in top .. ob - 1
        BY <1>1, <1>3, <1>19
      <4> QED BY <1>9, <3>1, <4>1 DEF A
    <3>4. v - top <= ocap'
      BY <1>1, <1>3, <1>19
    <3> QED BY <3>2, <3>3, <3>4 DEF Covered
  <2> QED BY <2>1, <2>2
\* Behind it only the newest array can be loaded.
<1>20. ASSUME NEW n \in Nat, n >= d + 2, NEW a \in 1 .. A, Visible(n, a)'
       PROVE  a = A
  <2>1. CASE d = l
    <3>1. array <= a /\ \A m \in 1 .. l : IsStore(m, "array") => buffered[m].val <= a
      <4>1. array <= a
        BY <1>20, <1>26 DEF Visible
      <4>2. ASSUME NEW m \in 1 .. l, IsStore(m, "array") PROVE buffered[m].val <= a
        <5>1. m \in 1 .. n - 1
          BY <1>3, <1>20, <2>1
        <5>2. buffered'[m] = buffered[m] /\ IsStore(m, "array")'
          BY <1>4, <1>11, <4>2
        <5> QED BY <1>20, <5>1, <5>2 DEF Visible
      <4> QED BY <4>1, <4>2
    <3>2. array = Len(arrays)
          \/ \E m \in 1 .. l : IsStore(m, "array") /\ buffered[m].val = Len(arrays)
      BY DEF QueueInv, NewestInv, l
    <3>3. Len(arrays) <= a
      BY <3>1, <3>2
    <3> QED BY <1>3, <1>8, <2>1, <3>3
  <2>2. CASE d = l + 1
    <3>1. d \in 1 .. n - 1
      BY <1>3, <1>20, <2>2
    <3>2. A <= a
      BY <1>7, <1>12, <1>20, <2>2, <3>1 DEF Visible
    <3> QED BY <1>3, <3>2
  <2> QED BY <1>4, <2>1, <2>2
<1>21. ASSUME NEW n \in Nat, n >= d + 2, NEW v, v = ob + 1
       PROVE  View(n, v)'
  <2> SUFFICES ASSUME NEW a \in 1 .. A, Visible(n, a)'
               PROVE  /\ v - top <= arrays'[a].capacity
                      /\ \A i \in top .. v - 1 : Covered(n, a, i)'
    BY <1>0 DEF View, A
  <2>1. a = A
    BY <1>20, <1>21
  <2>2. v - top <= arrays'[a].capacity
    <3>1. arrays'[a].capacity = ocap'
      BY <2>1 DEF ocap, A
    <3>2. v - top <= ocap'
      BY <1>1, <1>3, <1>21
    <3> QED BY <3>1, <3>2, Zenon
  <2>3. ASSUME NEW i \in top .. ob - 1 PROVE Covered(n, a, i)'
    <3>1. CASE d = l
      <4>1. View(l + 1, ob) /\ a \in 1 .. Len(arrays)
        BY <1>0, <1>3, <1>8, <2>1, <3>1 DEF QueueInv, ViewInv, l
      <4>2. Visible(l + 1, a)
        <5>1. array <= a
          BY <1>26 DEF Visible
        <5>2. ASSUME NEW m \in 1 .. l + 1 - 1, IsStore(m, "array") PROVE buffered[m].val <= a
          <6>1. m \in 1 .. l /\ m \in 1 .. n - 1
            BY <1>3, <1>21, <3>1
          <6>2. buffered'[m] = buffered[m] /\ IsStore(m, "array")'
            BY <1>4, <1>11, <5>2, <6>1
          <6> QED BY <6>1, <6>2 DEF Visible
        <5> QED BY <1>27, <5>1, <5>2 DEF Visible
      <4>3. Covered(l + 1, a, i)
        BY <4>1, <4>2 DEF View
      <4>4. MemSlot(a, i)' = MemSlot(a, i) /\ OwnSlot(i)' = OwnSlot(i)
        BY <1>0, <1>8, <3>1 DEF MemSlot
      <4>5. CASE MemSlot(a, i) = OwnSlot(i)
        BY <4>4, <4>5 DEF Covered
      <4>6. CASE MemSlot(a, i) # OwnSlot(i)
        <5>1. PICK m \in 1 .. l + 1 - 1 :
                IsStore(m, "slot") /\ buffered[m].arr = a /\ buffered[m].idx = i
          BY <1>27, <4>3, <4>6 DEF Covered
        <5>2. m \in 1 .. l /\ m \in 1 .. n - 1
          BY <1>3, <1>21, <3>1
        <5>3. buffered'[m] = buffered[m] /\ IsStore(m, "slot")'
          BY <1>4, <1>11, <5>1, <5>2
        <5> QED BY <5>1, <5>2, <5>3 DEF Covered
      <4> QED BY <4>5, <4>6
    <3>2. CASE d = l + 1
      BY <1>9, <2>1, <3>2 DEF Covered, A
    <3> QED BY <1>4, <3>1, <3>2
  <2>4. ASSUME NEW i, i = ob PROVE Covered(n, a, i)'
    <3>1. d + 1 \in 1 .. n - 1
      BY <1>21
    <3> QED BY <1>5, <1>12, <2>1, <2>4, <3>1 DEF Covered
  <2>5. \A i \in top .. v - 1 : i \in top .. ob - 1 \/ i = ob
    BY <1>1, <1>3, <1>21
  <2> QED BY <2>2, <2>3, <2>4, <2>5
<1>22. ViewInv'
  <2>1. View(0, bottom)'
    <3>1. View(0, bottom) /\ 0 \in 0 .. l + 1
      BY <1>3 DEF QueueInv, ViewInv
    <3> QED BY <1>0, <1>3, <1>13, <1>19, <3>1
  <2>2. ASSUME NEW n \in 1 .. Len(buffered'), IsStore(n, "bottom")',
               NEW v, v = buffered'[n].val
        PROVE  View(n, v)'
    <3>1. CASE n \in 1 .. l
      <4>1. v = buffered[n].val /\ IsStore(n, "bottom") /\ n \in 0 .. l + 1
        BY <1>3, <1>4, <1>11, <2>2, <3>1
      <4>2. View(n, v) /\ v \in Int /\ v <= ob
        BY <1>13, <1>14, <3>1, <4>1 DEF QueueInv, ViewInv, l
      <4> QED BY <1>19, <4>1, <4>2
    <3>2. CASE n = d + 2
      BY <1>6, <1>21, <2>2, <3>2
    <3> QED BY <1>10, <1>12, <2>2, <3>1, <3>2
  <2>3. ASSUME NEW n, NEW v, n = Len(buffered') + 1, v = oend' PROVE View(n, v)'
    BY <1>0, <1>4, <1>21, <2>3
  <2> QED BY <2>1, <2>2, <2>3 DEF ViewInv
<1>23. OwnerInv'
  BY <1>0 DEF OwnerInv
<1>24. SightInv'
  <2> SUFFICES ASSUME NEW h \in Thieves
               PROVE  /\ st'[h] <= top'
                      /\ spc'[h] \in {"array", "copy", "cas"} => st'[h] < sb'[h]
                      /\ Sighted(h)' =>
                           /\ top' < oend'
                           /\ \A a \in array' .. A : MemSlot(a, top)' = OwnSlot(top)'
                           /\ \A m \in 1 .. Len(buffered') :
                                IsStore(m, "slot")' => buffered'[m].idx # top'
                           /\ spc'[h] # "bottom" => MemSlot(sary[h], top)' = OwnSlot(top)'
                           /\ spc'[h] \in {"copy", "cas"} => sdest'[h] = OwnSlot(top)'
    BY DEF SightInv, A
  <2>1. UNCHANGED <<spc, st, sb, sary, sdest, top, array>>
    BY <1>0 DEF thief
  <2>2. /\ st[h] <= top /\ (spc[h] \in {"array", "copy", "cas"} => st[h] < sb[h])
        /\ Sighted(h)' = Sighted(h)
    BY <2>1 DEF QueueInv, SightInv, Sighted
  <2>3. ASSUME Sighted(h)
        PROVE  /\ top' < oend'
               /\ \A a \in array' .. A : MemSlot(a, top)' = OwnSlot(top)'
               /\ \A m \in 1 .. Len(buffered') : IsStore(m, "slot")' => buffered'[m].idx # top'
               /\ spc'[h] # "bottom" => MemSlot(sary[h], top)' = OwnSlot(top)'
               /\ spc'[h] \in {"copy", "cas"} => sdest'[h] = OwnSlot(top)'
    <3>1. /\ top < ob
          /\ \A a \in array .. Len(arrays) : MemSlot(a, top) = OwnSlot(top)
          /\ \A m \in 1 .. l : IsStore(m, "slot") => buffered[m].idx # top
          /\ spc[h] # "bottom" => MemSlot(sary[h], top) = OwnSlot(top)
          /\ spc[h] \in {"copy", "cas"} => sdest[h] = OwnSlot(top)
      BY <1>0, <2>3 DEF QueueInv, SightInv, l
    <3>2. top \in top .. ob - 1
      BY <1>1, <1>3, <3>1
    <3>3. OwnSlot(top)' = OwnSlot(top)
      BY <1>0, <2>1, <3>2
    <3>4. \A a \in 1 .. Len(arrays) : MemSlot(a, top)' = MemSlot(a, top)
      BY <1>4, <2>1 DEF MemSlot
    <3>5. ASSUME NEW a \in array' .. A PROVE MemSlot(a, top)' = OwnSlot(top)'
      <4>1. CASE a \in array .. Len(arrays)
        <5>1. a \in 1 .. Len(arrays)
          BY <1>27, <4>1
        <5>2. MemSlot(a, top) = OwnSlot(top)
          BY <3>1, <4>1
        <5> QED BY <3>3, <3>4, <5>1, <5>2
      <4>2. CASE a \notin array .. Len(arrays)
        <5>1. a = A /\ d = l + 1
          BY <1>3, <1>4, <1>7, <1>8, <2>1, <4>2
        <5> QED BY <1>9, <2>1, <3>2, <5>1 DEF A
      <4> QED BY <4>1, <4>2
    <3>6. ASSUME NEW m \in 1 .. Len(buffered'), IsStore(m, "slot")'
          PROVE  buffered'[m].idx # top'
      <4>1. CASE m \in 1 .. l
        BY <1>4, <1>11, <2>1, <3>1, <3>6, <4>1
      <4>2. CASE m = d + 1
        BY <1>1, <1>3, <1>5, <2>1, <3>1, <4>2
      <4> QED BY <1>10, <1>12, <3>6, <4>1, <4>2
    <3>7. sary[h] \in 1 .. Len(arrays)
      BY <1>0 DEF QueueTypeOK
    <3>8. top' < oend'
      BY <1>0, <1>1, <1>3, <3>1
    <3> QED BY <2>1, <3>1, <3>3, <3>4, <3>5, <3>6, <3>7, <3>8
  <2> QED BY <1>3, <2>1, <2>2, <2>3
<1>25. ItemInv'
  <2>1. /\ \A i \in top .. ob - 1 : OwnSlot(i) \in Untaken
        /\ \A i, j \in top .. ob - 1 : OwnSlot(i) = OwnSlot(j) => i = j
        /\ \A x \in Untaken : \E i \in top .. ob - 1 : OwnSlot(i) = x
        /\ \A x \in Items : done[x] \in {0, 1} /\ (x > pushed => done[x] = 0)
        /\ done[Garbage] = 0
    BY <1>0 DEF QueueInv, ItemInv
  <2>2. /\ pushed + 1 \in Items /\ pushed + 1 \notin Untaken
        /\ \A x : x \in Untaken' <=> (x \in Untaken \/ x = pushed + 1)
    <3>1. pushed + 1 \in Items /\ pushed + 1 \notin Untaken
      BY <1>0, <1>3, QueueAssumption DEF Items, Untaken
    <3>2. done[pushed + 1] = 0
      BY <1>3, <2>1, <3>1
    <3> QED BY <1>0, <1>3, <3>1, <3>2 DEF Untaken, Taken
  <2>3. \A i \in top .. ob : i \in top .. ob - 1 \/ i = ob
    BY <1>1, <1>3
  <2>4. \A i \in top .. ob - 1 : i \in top .. ob /\ i # ob
    BY <1>1, <1>3
  <2>5. ob \in top .. ob
    BY <1>1, <1>3, <1>13
  <2>6. \A i \in top .. ob : OwnSlot(i)' \in Untaken'
    BY <1>0, <2>1, <2>2, <2>3
  <2>7. \A i, j \in top .. ob : OwnSlot(i)' = OwnSlot(j)' => i = j
    BY <1>0, <2>1, <2>2, <2>3
  <2>8. \A x \in Untaken' : \E i \in top .. ob : OwnSlot(i)' = x
    BY <1>0, <2>1, <2>2, <2>4, <2>5
  <2>9. \A x \in Items : done'[x] \in {0, 1} /\ (x > pushed' => done'[x] = 0)
    BY <1>0, <1>3, <2>1 DEF Items
  <2>10. oend' - 1 = ob
    BY <1>0, <1>1
  <2> QED BY <1>0, <2>1, <2>6, <2>7, <2>8, <2>9, <2>10 DEF ItemInv
<1> QED BY <1>0, <1>15, <1>16, <1>17, <1>18, <1>22, <1>23, <1>24, <1>25 DEF QueueInv

\* What a commit does to memory: an array keeps the items it has, and gets the
\* one that is stored.
LEMMA CommitEffect ==
  ASSUME QueueInv, NEW n \in 1 .. Len(buffered), Commit(n)
  PROVE  /\ QueueTypeOK' /\ buffered' = Without(n) /\ Len(arrays') = Len(arrays)
         /\ UNCHANGED <<top, obottom, oslots, opc, ob, ot, odest, thief, pushed, done>>
         /\ oend' = oend /\ ocap' = ocap /\ \A i : OwnSlot(i)' = OwnSlot(i)
         /\ \A c \in 1 .. Len(arrays) : arrays'[c].capacity = arrays[c].capacity
         /\ \A c \in 1 .. Len(arrays) : \A i \in Nat :
              /\ top <= i /\ i < top + arrays[c].capacity
              /\ MemSlot(c, i) = OwnSlot(i)
              => MemSlot(c, i)' = OwnSlot(i)
         /\ IsStore(n, "slot") =>
              /\ bottom' = bottom /\ array' = array
              /\ \A c, i : c = buffered[n].arr /\ i = buffered[n].idx => MemSlot(c, i)' = OwnSlot(i)
         /\ IsStore(n, "array") => n = 1 /\ bottom' = bottom /\ array' = buffered[n].val
         /\ IsStore(n, "bottom") => n = 1 /\ bottom' = buffered[n].val /\ array' = array
<1>0. QueueTypeOK /\ OrderInv /\ NewestInv /\ MayCommit(n) /\ buffered' = Without(n)
  BY DEF QueueInv, Commit
<1>1. UNCHANGED <<top, obottom, oslots, opc, ob, ot, odest, thief, pushed, done>>
  BY DEF Commit, own, owner
<1>2. oend' = oend
  BY <1>1 DEF oend
<1>3. buffered[n].to \in {"bottom", "array", "slot"} /\ buffered[n].val \in Int
  BY <1>0, TypeFacts
<1>4. /\ IsStore(n, "slot") => bottom' = bottom /\ array' = array
      /\ IsStore(n, "array") => bottom' = bottom /\ array' = buffered[n].val
      /\ IsStore(n, "bottom") => bottom' = buffered[n].val /\ array' = array
      /\ ~IsStore(n, "slot") => arrays' = arrays
      /\ IsStore(n, "slot") =>
           arrays' = [arrays EXCEPT ![buffered[n].arr] =
                        Filled(buffered[n].arr, buffered[n].idx, buffered[n].val)]
  BY <1>3 DEF Commit, IsStore
<1>5. ~IsStore(n, "slot") => n = 1
  BY <1>0, HeadFirst
<1>6. /\ IsStore(n, "array") => n = 1
      /\ IsStore(n, "bottom") => n = 1
  BY <1>3, <1>5 DEF IsStore
<1>7. array' \in 1 .. Len(arrays) /\ bottom' \in Int
  <2>1. /\ array \in 1 .. Len(arrays) /\ bottom \in Int /\ Len(arrays) \in Nat
        /\ IsStore(n, "array") => buffered[n].val \in array .. Len(arrays)
    BY <1>0 DEF QueueTypeOK, NewestInv
  <2> QED BY <1>3, <1>4, <2>1 DEF IsStore
<1>8. buffered' \in Seq(Stores)
  BY <1>0, WithoutFacts
<1>9. ASSUME arrays' \in Seq(Arrays), Len(arrays') = Len(arrays), ocap' = ocap
      PROVE  QueueTypeOK'
  <2>1. UNCHANGED <<spc, st, sb, sary, sdest>>
    BY <1>1 DEF thief
  <2> QED BY <1>0, <1>1, <1>7, <1>8, <1>9, <2>1 DEF QueueTypeOK
<1>10. CASE ~IsStore(n, "slot")
  <2>1. arrays' = arrays
    BY <1>4, <1>10
  <2>2. ocap' = ocap
    BY <2>1 DEF ocap
  <2>3. \A i : OwnSlot(i)' = OwnSlot(i)
    BY <1>1, <2>2 DEF OwnSlot
  <2>4. \A c, i : MemSlot(c, i)' = MemSlot(c, i)
    BY <2>1 DEF MemSlot
  <2>5. QueueTypeOK'
    BY <1>0, <1>9, <2>1, <2>2 DEF QueueTypeOK
  <2> QED BY <1>0, <1>1, <1>2, <1>4, <1>6, <1>10, <2>1, <2>2, <2>3, <2>4, <2>5
<1>11. CASE IsStore(n, "slot")
  <2> DEFINE a == buffered[n].arr
             j == buffered[n].idx
             v == buffered[n].val
             c0 == arrays[a].capacity
  <2>1. a \in 1 .. Len(arrays) /\ j < top + c0 /\ v = OwnSlot(j) /\ top <= j /\ j \in Nat /\ top \in Nat
    <3>1. /\ a \in 1 .. Len(arrays) /\ j \in top .. oend - 1
          /\ j < top + c0 /\ v = OwnSlot(j)
      BY <1>11 DEF QueueInv, SlotInv
    <3>2. j \in Nat /\ top \in Nat /\ oend \in Int
      BY <1>0, TypeFacts DEF QueueTypeOK
    <3> QED BY <3>1, <3>2
  <2>2. arrays' = [arrays EXCEPT ![a] = Filled(a, j, v)]
    BY <1>4, <1>11
  <2>3. c0 \in Nat \ {0} /\ arrays[a].buffer \in [0 .. c0 - 1 -> Values] /\ v \in Values
    <3>1. c0 \in Nat \ {0} /\ arrays[a].buffer \in [0 .. c0 - 1 -> Values]
      BY <1>0, <2>1, TypeFacts
    <3>2. j \in Int
      BY <2>1
    <3>3. OwnSlot(j) \in Values
      BY <1>0, <3>2, TypeFacts
    <3> QED BY <2>1, <3>1, <3>3
  <2>4. arrays[a] \in Arrays /\ arrays \in Seq(Arrays) /\ Len(arrays) \in Nat
    BY <1>0, <2>1 DEF QueueTypeOK
  <2>5. Masked(j, c0) \in 0 .. c0 - 1
    <3>1. j \in Int
      BY <2>1
    <3> QED BY <2>3, <3>1, MaskedType
  <2> HIDE DEF j, v
  <2>6. /\ Filled(a, j, v).capacity = c0
        /\ Filled(a, j, v).buffer = [arrays[a].buffer EXCEPT ![Masked(j, c0)] = v]
    <3>1. arrays[a] \in [capacity : {c0}, buffer : [0 .. c0 - 1 -> Values]]
      BY <2>4, ArrayFacts
    <3> QED BY <3>1 DEF Filled
  <2>7. Filled(a, j, v) \in Arrays
    <3>1. arrays[a] \in [capacity : {c0}, buffer : [0 .. c0 - 1 -> Values]]
      BY <2>4, ArrayFacts
    <3>2. Filled(a, j, v) \in [capacity : {c0}, buffer : [0 .. c0 - 1 -> Values]]
      BY <2>3, <2>5, <3>1 DEF Filled
    <3> QED BY <2>3, <3>2 DEF Arrays
  <2>8. arrays' \in Seq(Arrays) /\ Len(arrays') = Len(arrays)
    BY <2>1, <2>2, <2>4, <2>7
  <2>9. /\ \A c \in 1 .. Len(arrays) : c # a => arrays'[c] = arrays[c]
        /\ arrays'[a] = Filled(a, j, v)
    BY <2>1, <2>2, <2>4
  <2>10. \A c \in 1 .. Len(arrays) : arrays'[c].capacity = arrays[c].capacity
    BY <2>6, <2>9
  <2>11. ocap' = ocap
    <3>1. Len(arrays) \in 1 .. Len(arrays)
      BY <2>1, <2>4
    <3> QED BY <2>8, <2>10, <3>1 DEF ocap
  <2>12. \A i : OwnSlot(i)' = OwnSlot(i)
    BY <1>1, <2>11 DEF OwnSlot
  <2>13. QueueTypeOK'
    BY <1>9, <2>8, <2>11
  <2>14. ASSUME NEW c, NEW i, c = a, i = j PROVE MemSlot(c, i)' = OwnSlot(i)
    <3>1. arrays'[a].buffer[Masked(j, c0)] = v
      BY <2>3, <2>5, <2>6, <2>9
    <3> QED BY <2>1, <2>6, <2>9, <2>14, <3>1 DEF MemSlot, j, v
  <2>15. ASSUME NEW c \in 1 .. Len(arrays), NEW i \in Nat, top <= i,
                i < top + arrays[c].capacity, MemSlot(c, i) = OwnSlot(i)
         PROVE  MemSlot(c, i)' = OwnSlot(i)
    <3>1. CASE c # a
      BY <2>9, <2>15, <3>1 DEF MemSlot
    <3>2. CASE c = a /\ i = j
      BY <2>14, <3>2
    <3>3. CASE c = a /\ i # j
      <4>1. Masked(i, c0) # Masked(j, c0)
        <5>1. j \in Nat /\ top \in Nat /\ top <= j /\ j < top + c0
          BY <2>1 DEF j
        <5>2. i < top + c0
          BY <2>15, <3>3
        <5> QED BY <2>3, <2>15, <3>3, <5>1, <5>2, MaskedDiffers
      <4>2. Masked(i, c0) \in 0 .. c0 - 1
        <5>1. i \in Int
          OBVIOUS
        <5> QED BY <2>3, <5>1, MaskedType
      <4>3. arrays'[a].buffer[Masked(i, c0)] = arrays[a].buffer[Masked(i, c0)]
        BY <2>3, <2>6, <2>9, <4>1, <4>2
      <4> QED BY <2>6, <2>9, <2>15, <3>3, <4>3 DEF MemSlot
    <3> QED BY <3>1, <3>2, <3>3
  <2>16. ~IsStore(n, "array") /\ ~IsStore(n, "bottom")
    BY <1>11 DEF IsStore
  <2> QED BY <1>0, <1>1, <1>2, <1>4, <1>11, <2>8, <2>10, <2>11, <2>12, <2>13, <2>14, <2>15, <2>16
          DEF j
<1> QED BY <1>10, <1>11

\* A commit keeps the invariant.
LEMMA CommitStep ==
  ASSUME QueueInv, NEW n \in 1 .. Len(buffered), Commit(n)
  PROVE  QueueInv'
<1> DEFINE l == Len(buffered)
           P(i) == Place(n, i)
<1>0. /\ QueueTypeOK' /\ buffered' = Without(n) /\ Len(arrays') = Len(arrays)
      /\ UNCHANGED <<top, obottom, oslots, opc, ob, ot, odest, thief, pushed, done>>
      /\ oend' = oend /\ \A i : OwnSlot(i)' = OwnSlot(i)
  BY CommitEffect
<1>1. /\ ocap' = ocap
      /\ \A c \in 1 .. Len(arrays) : arrays'[c].capacity = arrays[c].capacity
  BY CommitEffect
<1>2. \A c \in 1 .. Len(arrays) : \A i \in Nat :
        /\ top <= i /\ i < top + arrays[c].capacity
        /\ MemSlot(c, i) = OwnSlot(i)
        => MemSlot(c, i)' = OwnSlot(i)
  BY CommitEffect
<1>3. IsStore(n, "slot") =>
        /\ bottom' = bottom /\ array' = array
        /\ \A c, i : c = buffered[n].arr /\ i = buffered[n].idx => MemSlot(c, i)' = OwnSlot(i)
  BY CommitEffect
<1>4. /\ IsStore(n, "array") => n = 1 /\ bottom' = bottom /\ array' = buffered[n].val
      /\ IsStore(n, "bottom") => n = 1 /\ bottom' = buffered[n].val /\ array' = array
  BY CommitEffect
<1>5. QueueTypeOK /\ MayCommit(n)
  BY DEF QueueInv, Commit
<1>6. /\ l \in Nat /\ Len(arrays) \in Nat /\ top \in Nat /\ oend \in Int
      /\ array \in Nat /\ array >= 1 /\ bottom \in Int
      /\ IsStore(n, "slot") \/ IsStore(n, "array") \/ IsStore(n, "bottom")
  <2>1. l \in Nat /\ Len(arrays) \in Nat /\ oend \in Int /\ buffered[n].to \in {"bottom", "array", "slot"}
    BY <1>5, TypeFacts
  <2> QED BY <1>5, <2>1 DEF QueueTypeOK, IsStore
<1>7. /\ Len(buffered') = l - 1
      /\ \A i \in 1 .. Len(buffered') :
           P(i) \in 1 .. l /\ P(i) # n /\ buffered'[i] = buffered[P(i)]
      /\ \A k \in 1 .. l : k # n => \E i \in 1 .. Len(buffered') : k = P(i)
  BY <1>0, <1>5, WithoutFacts
<1>8. /\ \A i, j \in Nat : i < j <=> P(i) < P(j)
      /\ \A i \in Nat : P(i) \in Nat /\ i <= P(i)
      /\ P(l) = l + 1 /\ (n # l => P(l - 1) = l)
  BY <1>6 DEF Place
<1>9. \A i \in 1 .. Len(buffered') : \A to : IsStore(i, to)' = IsStore(P(i), to)
  BY <1>7 DEF IsStore
<1>10. \A i \in 1 .. l : /\ buffered[i].val \in Int /\ buffered[i].idx \in Nat
                         /\ buffered[i].arr \in Nat
  BY <1>5, TypeFacts
<1>11. \A to, other \in {"slot", "array", "bottom"} : to # other /\ IsStore(n, to) => ~IsStore(n, other)
  BY DEF IsStore
<1> HIDE DEF l, P
<1>12. BoundInv'
  <2>1. /\ top <= oend /\ oend <= pushed /\ bottom <= oend
        /\ \A i \in 1 .. l : IsStore(i, "bottom") => buffered[i].val <= oend
    BY DEF QueueInv, BoundInv, l
  <2>2. ASSUME NEW i \in 1 .. Len(buffered'), IsStore(i, "bottom")'
        PROVE  buffered'[i].val <= oend
    BY <1>7, <1>9, <2>1, <2>2
  <2>3. bottom' <= oend
    BY <1>3, <1>4, <1>6, <2>1 DEF l
  <2> QED BY <1>0, <2>1, <2>2, <2>3 DEF BoundInv
<1>13. OrderInv'
  <2>0. /\ \A m, k \in 1 .. l :
             m < k /\ ~IsStore(m, "bottom") /\ IsStore(k, "bottom") =>
               \E r \in m + 1 .. k : buffered[r].fenced
        /\ IsStore(l, "bottom") /\ buffered[l].val = obottom
        /\ \A m \in 1 .. l : IsStore(m, "slot") =>
             /\ bottom <= buffered[m].idx
             /\ \A k \in 1 .. m - 1 : IsStore(k, "bottom") => buffered[k].val <= buffered[m].idx
    BY DEF QueueInv, OrderInv, l
  <2>1. ASSUME NEW i \in 1 .. Len(buffered'), NEW j \in 1 .. Len(buffered'), i < j,
               ~IsStore(i, "bottom")', IsStore(j, "bottom")'
        PROVE  \E k \in i + 1 .. j : buffered'[k].fenced
    <3>1. P(i) \in 1 .. l /\ P(j) \in 1 .. l /\ P(i) < P(j)
      <4>1. i \in Nat /\ j \in Nat
        OBVIOUS
      <4>2. P(i) < P(j)
        BY <1>8, <2>1, <4>1
      <4> QED BY <1>7, <4>2
    <3>2. ~IsStore(P(i), "bottom") /\ IsStore(P(j), "bottom")
      BY <1>9, <2>1
    <3>3. PICK r \in P(i) + 1 .. P(j) : buffered[r].fenced
      BY <2>0, <3>1, <3>2
    <3>4. r \in 1 .. l /\ r >= 2
      BY <1>6, <3>1
    <3>5. r # n
      BY <1>5, <3>3, <3>4 DEF MayCommit
    <3>6. PICK k \in 1 .. Len(buffered') : r = P(k)
      BY <1>7, <3>4, <3>5
    <3>7. i < k
      <4>1. P(i) < P(k)
        BY <3>1, <3>4, <3>6
      <4> QED BY <1>8, <4>1
    <3>8. ~(j < k)
      <4>1. ~(P(j) < P(k))
        BY <3>1, <3>4, <3>6
      <4> QED BY <1>8, <4>1
    <3>9. k \in i + 1 .. j
      BY <3>7, <3>8
    <3> QED BY <1>7, <3>3, <3>6, <3>9
  <2>2. CASE n = l
    <3>1. IsStore(n, "bottom") /\ n = 1
      BY <1>4, <2>0, <2>2
    <3>2. Len(buffered') = 0 /\ bottom' = obottom'
      BY <1>0, <1>4, <1>7, <2>0, <2>2, <3>1
    <3>3. \A i \in 1 .. Len(buffered') : FALSE
      BY <3>2
    <3>4. buffered' = <<>>
      BY <1>0, <3>2 DEF QueueTypeOK
    <3> QED BY <3>2, <3>3, <3>4 DEF OrderInv
  <2>3. CASE n # l
    <3>1. l - 1 \in 1 .. Len(buffered') /\ Len(buffered') = l - 1
      BY <1>6, <1>7, <2>3 DEF l
    <3>2. buffered'[l - 1] = buffered[l]
      BY <1>7, <1>8, <2>3, <3>1
    <3>3. IsStore(Len(buffered), "bottom")' /\ buffered'[Len(buffered')].val = obottom'
      BY <1>0, <2>0, <3>1, <3>2 DEF IsStore
    <3>4. buffered' # <<>>
      BY <3>1
    <3>5. ASSUME NEW i \in 1 .. Len(buffered'), IsStore(i, "slot")'
          PROVE  /\ bottom' <= buffered'[i].idx
                 /\ \A k \in 1 .. i - 1 : IsStore(k, "bottom")' => buffered'[k].val <= buffered'[i].idx
      <4>1. P(i) \in 1 .. l /\ P(i) # n /\ buffered'[i] = buffered[P(i)] /\ IsStore(P(i), "slot")
        BY <1>7, <1>9, <3>5
      <4>2. ASSUME NEW k \in 1 .. i - 1, IsStore(k, "bottom")'
            PROVE  buffered'[k].val <= buffered'[i].idx
        <5>1. k \in 1 .. Len(buffered') /\ k < i
          OBVIOUS
        <5>2. P(k) \in 1 .. l /\ P(k) < P(i) /\ buffered'[k] = buffered[P(k)] /\ IsStore(P(k), "bottom")
          BY <1>7, <1>8, <1>9, <4>2, <5>1
        <5>3. P(k) \in 1 .. P(i) - 1
          BY <4>1, <5>2
        <5> QED BY <2>0, <4>1, <5>2, <5>3
      <4>3. bottom' <= buffered'[i].idx
        <5>1. CASE IsStore(n, "bottom")
          <6>1. n \in 1 .. P(i) - 1
            BY <1>4, <4>1, <5>1
          <6> QED BY <1>4, <2>0, <4>1, <5>1, <6>1
        <5>2. CASE ~IsStore(n, "bottom")
          <6>1. bottom' = bottom
            BY <1>3, <1>4, <1>6, <5>2
          <6> QED BY <2>0, <4>1, <6>1
        <5> QED BY <5>1, <5>2
      <4> QED BY <4>2, <4>3
    <3> QED BY <2>1, <3>3, <3>4, <3>5 DEF OrderInv
  <2> QED BY <2>2, <2>3
<1>14. array <= array' /\ (IsStore(n, "array") => array' = buffered[n].val) /\ array' \in Nat
  <2>1. IsStore(n, "array") => buffered[n].val \in array .. Len(arrays)
    BY DEF QueueInv, NewestInv
  <2> QED BY <1>3, <1>4, <1>6, <2>1
<1>15. NewestInv'
  <2>0. /\ \A m \in 1 .. l : IsStore(m, "array") =>
             /\ buffered[m].val \in array .. Len(arrays)
             /\ \A k \in 1 .. m - 1 : IsStore(k, "array") => buffered[k].val <= buffered[m].val
        /\ array = Len(arrays)
           \/ \E m \in 1 .. l : IsStore(m, "array") /\ buffered[m].val = Len(arrays)
    BY DEF QueueInv, NewestInv, l
  <2>1. ASSUME NEW i \in 1 .. Len(buffered'), IsStore(i, "array")'
        PROVE  /\ buffered'[i].val \in array' .. Len(arrays)
               /\ \A k \in 1 .. i - 1 : IsStore(k, "array")' => buffered'[k].val <= buffered'[i].val
    <3>1. P(i) \in 1 .. l /\ P(i) # n /\ buffered'[i] = buffered[P(i)] /\ IsStore(P(i), "array")
      BY <1>7, <1>9, <2>1
    <3>2. ASSUME NEW k \in 1 .. i - 1, IsStore(k, "array")'
          PROVE  buffered'[k].val <= buffered'[i].val
      <4>1. k \in 1 .. Len(buffered') /\ k < i
        OBVIOUS
      <4>2. P(k) \in 1 .. l /\ P(k) < P(i) /\ buffered'[k] = buffered[P(k)] /\ IsStore(P(k), "array")
        BY <1>7, <1>8, <1>9, <3>2, <4>1
      <4>3. P(k) \in 1 .. P(i) - 1
        BY <3>1, <4>2
      <4> QED BY <2>0, <3>1, <4>2, <4>3
    <3>3. buffered[P(i)].val \in array' .. Len(arrays)
      <4>1. buffered[P(i)].val \in array .. Len(arrays)
        BY <2>0, <3>1
      <4>2. CASE IsStore(n, "array")
        <5>1. n \in 1 .. P(i) - 1
          BY <1>4, <3>1, <4>2
        <5>2. array' <= buffered[P(i)].val
          BY <1>4, <2>0, <3>1, <4>2, <5>1
        <5> QED BY <1>14, <4>1, <5>2
      <4>3. CASE ~IsStore(n, "array")
        BY <1>3, <1>4, <1>6, <4>1, <4>3
      <4> QED BY <4>2, <4>3
    <3> QED BY <3>1, <3>2, <3>3
  <2>2. array' = Len(arrays)
        \/ \E i \in 1 .. Len(buffered') : IsStore(i, "array")' /\ buffered'[i].val = Len(arrays)
    <3>1. CASE array = Len(arrays)
      BY <1>3, <1>4, <1>6, <1>14, <2>0, <3>1 DEF l
    <3>2. CASE \E m \in 1 .. l : IsStore(m, "array") /\ buffered[m].val = Len(arrays)
      <4>1. PICK m \in 1 .. l : IsStore(m, "array") /\ buffered[m].val = Len(arrays)
        BY <3>2
      <4>2. CASE m = n
        BY <1>4, <4>1, <4>2
      <4>3. CASE m # n
        BY <1>7, <1>9, <4>1, <4>3
      <4> QED BY <4>2, <4>3
    <3> QED BY <2>0, <3>1, <3>2
  <2> QED BY <1>0, <2>1, <2>2 DEF NewestInv
<1>16. SlotInv'
  <2>1. ASSUME NEW i \in 1 .. Len(buffered'), IsStore(i, "slot")'
        PROVE  /\ buffered'[i].arr \in 1 .. Len(arrays)
               /\ buffered'[i].idx \in top .. oend - 1
               /\ buffered'[i].idx < top + arrays'[buffered'[i].arr].capacity
               /\ buffered'[i].val = OwnSlot(buffered[i].idx)'
    <3>1. P(i) \in 1 .. l /\ buffered'[i] = buffered[P(i)] /\ IsStore(P(i), "slot")
      BY <1>7, <1>9, <2>1
    <3>2. /\ buffered[P(i)].arr \in 1 .. Len(arrays)
          /\ buffered[P(i)].idx \in top .. oend - 1
          /\ buffered[P(i)].idx < top + arrays[buffered[P(i)].arr].capacity
          /\ buffered[P(i)].val = OwnSlot(buffered[P(i)].idx)
      BY <3>1 DEF QueueInv, SlotInv, l
    <3>3. arrays'[buffered[P(i)].arr].capacity = arrays[buffered[P(i)].arr].capacity
      BY <1>1, <3>2
    <3> QED BY <1>0, <3>1, <3>2, <3>3
  <2> QED BY <1>0, <2>1 DEF SlotInv
\* What a thief sees once q - 1 stores are in memory it sees after the commit
\* once the k - 1 others are.
<1>17. ASSUME NEW k \in Nat, NEW q \in Nat, NEW v \in Int, k <= l, q <= l + 1,
              \A m \in 1 .. q - 1 : m # n => \E i \in 1 .. k - 1 : m = P(i),
              View(q, v)
       PROVE  View(k, v)'
  <2>1. ASSUME NEW c \in 1 .. Len(arrays), Visible(k, c)'
        PROVE  /\ v - top <= arrays'[c].capacity
               /\ \A i \in top .. v - 1 : Covered(k, c, i)'
    <3>1. array' <= c /\ \A m \in 1 .. k - 1 : IsStore(m, "array")' => buffered'[m].val <= c
      BY <2>1 DEF Visible
    <3>2. \A m \in 1 .. k - 1 : m \in 1 .. Len(buffered')
      BY <1>6, <1>7, <1>17
    <3>3. ASSUME NEW m \in 1 .. q - 1, IsStore(m, "array") PROVE buffered[m].val <= c
      <4>1. CASE m = n
        BY <1>4, <3>1, <3>3, <4>1
      <4>2. CASE m # n
        <5>1. PICK i \in 1 .. k - 1 : m = P(i)
          BY <1>17, <4>2
        <5> QED BY <1>7, <1>9, <3>1, <3>2, <3>3, <5>1
      <4> QED BY <4>1, <4>2
    <3>4. array <= c
      BY <1>6, <1>14, <3>1
    <3>5. Visible(q, c)
      BY <3>3, <3>4 DEF Visible
    <3>6. v - top <= arrays[c].capacity /\ \A i \in top .. v - 1 : Covered(q, c, i)
      BY <1>17, <3>5 DEF View
    <3>7. arrays[c].capacity \in Nat
      BY <1>5, TypeFacts
    <3>8. ASSUME NEW i \in top .. v - 1 PROVE Covered(k, c, i)'
      <4>1. i \in Nat /\ top <= i /\ i < top + arrays[c].capacity
        BY <1>6, <3>6, <3>7
      <4>2. CASE MemSlot(c, i) = OwnSlot(i)
        <5>1. MemSlot(c, i)' = OwnSlot(i)'
          BY <1>0, <1>2, <4>1, <4>2
        <5> QED BY <5>1 DEF Covered
      <4>3. ASSUME NEW m \in 1 .. q - 1, IsStore(m, "slot"), buffered[m].arr = c, buffered[m].idx = i
            PROVE  Covered(k, c, i)'
        <5>1. CASE m = n
          <6>1. MemSlot(c, i)' = OwnSlot(i)'
            BY <1>0, <1>3, <4>3, <5>1
          <6> QED BY <6>1 DEF Covered
        <5>2. CASE m # n
          <6>1. PICK j \in 1 .. k - 1 : m = P(j)
            BY <1>17, <5>2
          <6>2. IsStore(j, "slot")' /\ buffered'[j].arr = c /\ buffered'[j].idx = i
            BY <1>7, <1>9, <3>2, <4>3, <6>1
          <6> QED BY <6>2 DEF Covered
        <5> QED BY <5>1, <5>2
      <4>4. Covered(q, c, i)
        BY <3>6
      <4> QED BY <4>2, <4>3, <4>4 DEF Covered
    <3> QED BY <1>1, <3>6, <3>8
  <2> QED BY <1>0, <2>1 DEF View
<1>18. ViewInv'
  <2>0. /\ View(0, bottom) /\ View(l + 1, oend)
        /\ \A i \in 1 .. l : IsStore(i, "bottom") => View(i, buffered[i].val)
    BY DEF QueueInv, ViewInv, l
  <2>1. ASSUME NEW v, v = bottom' PROVE View(0, v)'
    <3>1. CASE IsStore(n, "bottom")
      <4>1. n = 1 /\ v = buffered[n].val /\ v \in Int
        BY <1>4, <1>10, <2>1, <3>1 DEF l
      <4>2. View(1, v)
        BY <2>0, <3>1, <4>1 DEF l
      <4>3. \A m \in 1 .. 1 - 1 : m # n => \E i \in 1 .. 0 - 1 : m = P(i)
        OBVIOUS
      <4>4. 0 \in Nat /\ 1 \in Nat /\ 0 <= l /\ 1 <= l + 1
        BY <1>6
      <4> QED BY <1>17, <4>1, <4>2, <4>3, <4>4
    <3>2. CASE ~IsStore(n, "bottom")
      <4>1. v = bottom /\ v \in Int
        BY <1>3, <1>4, <1>6, <2>1, <3>2
      <4>2. View(0, v)
        BY <2>0, <4>1
      <4>3. \A m \in 1 .. 0 - 1 : m # n => \E i \in 1 .. 0 - 1 : m = P(i)
        OBVIOUS
      <4>4. 0 \in Nat /\ 0 <= l /\ 0 <= l + 1
        BY <1>6
      <4> QED BY <1>17, <4>1, <4>2, <4>3, <4>4
    <3> QED BY <3>1, <3>2
  <2>2. ASSUME NEW k \in 1 .. Len(buffered'), IsStore(k, "bottom")', NEW v, v = buffered'[k].val
        PROVE  View(k, v)'
    <3>1. P(k) \in 1 .. l /\ buffered'[k] = buffered[P(k)] /\ IsStore(P(k), "bottom")
      BY <1>7, <1>9, <2>2
    <3>2. View(P(k), v) /\ v \in Int
      BY <1>10, <2>0, <2>2, <3>1
    <3>3. ASSUME NEW m \in 1 .. P(k) - 1, m # n PROVE \E i \in 1 .. k - 1 : m = P(i)
      <4>1. m \in 1 .. l /\ m < P(k)
        BY <1>6, <3>1
      <4>2. PICK i \in 1 .. Len(buffered') : m = P(i)
        BY <1>7, <3>3, <4>1
      <4>3. i < k
        BY <1>8, <4>1, <4>2
      <4>4. i \in 1 .. k - 1
        BY <4>3
      <4> QED BY <4>2, <4>4
    <3>4. k \in Nat /\ k <= l /\ P(k) \in Nat /\ P(k) <= l + 1
      BY <1>6, <1>7, <3>1
    <3> QED BY <1>17, <3>2, <3>3, <3>4
  <2>3. ASSUME NEW k, k = Len(buffered') + 1, NEW v, v = oend' PROVE View(k, v)'
    <3>1. k = l /\ k \in Nat /\ k <= l /\ l + 1 \in Nat /\ l + 1 <= l + 1 /\ v \in Int
      BY <1>0, <1>6, <1>7, <2>3
    <3>2. ASSUME NEW m \in 1 .. (l + 1) - 1, m # n PROVE \E i \in 1 .. k - 1 : m = P(i)
      <4>1. m \in 1 .. l
        BY <1>6
      <4>2. PICK i \in 1 .. Len(buffered') : m = P(i)
        BY <1>7, <3>2, <4>1
      <4>3. i \in 1 .. k - 1
        BY <1>6, <1>7, <3>1
      <4> QED BY <4>2, <4>3
    <3>3. View(l + 1, v)
      BY <1>0, <2>0, <2>3
    <3> QED BY <1>17, <3>1, <3>2, <3>3
  <2> QED BY <2>1, <2>2, <2>3 DEF ViewInv
<1>19. OwnerInv'
  <2>1. OwnerInv
    BY DEF QueueInv
  <2>2. buffered # <<>>
    BY <1>6 DEF l
  <2>3. opc # "cas"
    BY <2>1, <2>2 DEF OwnerInv, Drained
  <2>4. UNCHANGED <<top, obottom, opc, ob, ot, odest, pushed>> /\ ocap' = ocap
    BY <1>0, <1>1
  <2> QED BY <2>1, <2>3, <2>4 DEF OwnerInv
<1>20. SightInv'
  <2>0. UNCHANGED <<spc, st, sb, sary, sdest, top>>
    BY <1>0 DEF thief
  <2>1. ASSUME NEW h \in Thieves
        PROVE  /\ st[h] <= top
               /\ spc[h] \in {"array", "copy", "cas"} => st[h] < sb[h]
               /\ Sighted(h) =>
                    /\ top < oend
                    /\ \A a \in array' .. Len(arrays) : MemSlot(a, top)' = OwnSlot(top)'
                    /\ \A m \in 1 .. Len(buffered') : IsStore(m, "slot")' => buffered'[m].idx # top
                    /\ spc[h] # "bottom" => MemSlot(sary[h], top)' = OwnSlot(top)'
                    /\ spc[h] \in {"copy", "cas"} => sdest[h] = OwnSlot(top)'
    <3>1. /\ st[h] <= top
          /\ spc[h] \in {"array", "copy", "cas"} => st[h] < sb[h]
      BY DEF QueueInv, SightInv
    <3>2. ASSUME Sighted(h)
          PROVE  /\ top < oend
                 /\ \A a \in array .. Len(arrays) : MemSlot(a, top) = OwnSlot(top)
                 /\ \A m \in 1 .. l : IsStore(m, "slot") => buffered[m].idx # top
                 /\ spc[h] # "bottom" => MemSlot(sary[h], top) = OwnSlot(top)
                 /\ spc[h] \in {"copy", "cas"} => sdest[h] = OwnSlot(top)
      BY <3>2 DEF QueueInv, SightInv, l
    <3>3. ASSUME NEW a \in 1 .. Len(arrays), MemSlot(a, top) = OwnSlot(top)
          PROVE  MemSlot(a, top)' = OwnSlot(top)'
      <4>1. arrays[a].capacity \in Nat \ {0}
        BY <1>5, TypeFacts
      <4>2. top <= top /\ top < top + arrays[a].capacity
        BY <1>6, <4>1
      <4>3. \A i \in Nat : i = top => MemSlot(a, i)' = OwnSlot(i)
        BY <1>2, <3>3, <4>2
      <4>4. top' = top
        BY <2>0
      <4> QED BY <1>0, <1>6, <4>3, <4>4
    <3>4. \A a \in array' .. Len(arrays) : a \in array .. Len(arrays) /\ a \in 1 .. Len(arrays)
      BY <1>6, <1>14
    <3>5. sary[h] \in 1 .. Len(arrays)
      BY <1>5 DEF QueueTypeOK
    <3>6. ASSUME Sighted(h), NEW m \in 1 .. Len(buffered'), IsStore(m, "slot")'
          PROVE  buffered'[m].idx # top
      BY <1>7, <1>9, <3>2, <3>6
    <3>7. OwnSlot(top)' = OwnSlot(top)
      BY <1>0, <2>0
    <3>8. ASSUME Sighted(h), spc[h] # "bottom"
          PROVE  MemSlot(sary[h], top)' = OwnSlot(top)'
      <4>1. \A a \in 1 .. Len(arrays) : a = sary[h] => MemSlot(a, top)' = OwnSlot(top)'
        BY <3>2, <3>3, <3>8
      <4> QED BY <2>0, <3>5, <4>1
    <3>9. ASSUME Sighted(h), NEW a \in array' .. Len(arrays) PROVE MemSlot(a, top)' = OwnSlot(top)'
      BY <3>2, <3>3, <3>4, <3>9
    <3> QED BY <3>1, <3>2, <3>6, <3>7, <3>8, <3>9
  <2>2. \A h \in Thieves : Sighted(h)' = Sighted(h)
    BY <2>0 DEF Sighted
  <2> QED BY <1>0, <2>0, <2>1, <2>2 DEF SightInv
<1>21. ItemInv'
  <2>1. ItemInv /\ UNCHANGED <<top, pushed, done>>
    BY <1>0 DEF QueueInv
  <2>2. Untaken' = Untaken
    BY <2>1 DEF Untaken, Taken
  <2> QED BY <1>0, <2>1, <2>2 DEF ItemInv
<1> QED
  BY <1>0, <1>12, <1>13, <1>15, <1>16, <1>18, <1>19, <1>20, <1>21 DEF QueueInv

\* A step that leaves the arrays alone, takes at most from the top and stores at
\* most bottom, shows a thief no less.
LEMMA ViewKept ==
  ASSUME QueueTypeOK, UNCHANGED <<array, arrays, oslots>>, top' \in Nat, top <= top',
         NEW k \in Nat, NEW q \in Nat, k <= q,
         \A m \in 1 .. k - 1 : buffered'[m] = buffered[m],
         \A m \in k .. q - 1 : buffered'[m].to = "bottom",
         NEW v \in Int, NEW w \in Int, w <= v, View(k, v)
  PROVE  View(q, w)'
<1>1. ocap' = ocap /\ top \in Nat
  BY DEF ocap, QueueTypeOK
<1>2. \A i : OwnSlot(i)' = OwnSlot(i)
  BY <1>1 DEF OwnSlot
<1>3. \A c, i : MemSlot(c, i)' = MemSlot(c, i)
  BY DEF MemSlot
<1>4. ASSUME NEW c \in 1 .. Len(arrays), Visible(q, c)'
      PROVE  w - top' <= arrays[c].capacity /\ \A i \in top' .. w - 1 : Covered(q, c, i)'
  <2>1. \A m \in 1 .. k - 1 : m \in 1 .. q - 1
    OBVIOUS
  <2>2. Visible(k, c)
    BY <1>4, <2>1 DEF Visible, IsStore
  <2>3. v - top <= arrays[c].capacity /\ \A i \in top .. v - 1 : Covered(k, c, i)
    BY <2>2 DEF View
  <2>4. arrays[c].capacity \in Nat
    BY TypeFacts
  <2>5. ASSUME NEW i \in top' .. w - 1 PROVE Covered(q, c, i)'
    <3>1. i \in top .. v - 1
      BY <1>1
    <3>2. Covered(k, c, i)
      BY <2>3, <3>1
    <3> QED BY <1>2, <1>3, <2>1, <3>2 DEF Covered, IsStore
  <2> QED BY <1>1, <2>3, <2>4, <2>5
<1> QED BY <1>4 DEF View

\* The steps that leave the queue and what the owner has stored as they are.
LEMMA SameQueue ==
  ASSUME QueueInv, UNCHANGED <<mem, own, pushed, done>>, oend' = oend
  PROVE  /\ BoundInv' /\ OrderInv' /\ NewestInv' /\ SlotInv' /\ ViewInv' /\ ItemInv'
         /\ ocap' = ocap /\ \A i : OwnSlot(i)' = OwnSlot(i)
         /\ \A c, i : MemSlot(c, i)' = MemSlot(c, i)
<1>1. UNCHANGED <<top, bottom, array, arrays, buffered, obottom, oslots, pushed, done>>
  BY DEF mem, own
<1>2. ocap' = ocap
  BY <1>1 DEF ocap
<1>3. \A i : OwnSlot(i)' = OwnSlot(i)
  BY <1>1, <1>2 DEF OwnSlot
<1>4. \A c, i : MemSlot(c, i)' = MemSlot(c, i)
  BY <1>1 DEF MemSlot
<1>5. \A i, to : IsStore(i, to)' = IsStore(i, to)
  BY <1>1 DEF IsStore
<1>6. BoundInv'
  BY <1>1, <1>5 DEF QueueInv, BoundInv
<1>7. OrderInv'
  BY <1>1, <1>5 DEF QueueInv, OrderInv
<1>8. NewestInv'
  BY <1>1, <1>5 DEF QueueInv, NewestInv
<1>9. SlotInv'
  BY <1>1, <1>3, <1>5 DEF QueueInv, SlotInv
<1>10. /\ \A k, c : Visible(k, c)' = Visible(k, c)
       /\ \A k, c, i : Covered(k, c, i)' = Covered(k, c, i)
  BY <1>1, <1>3, <1>4, <1>5 DEF Visible, Covered
<1>11. \A k, v : View(k, v)' = View(k, v)
  BY <1>1, <1>10 DEF View
<1>12. ViewInv'
  BY <1>1, <1>5, <1>11 DEF QueueInv, ViewInv
<1>13. Untaken' = Untaken
  BY <1>1 DEF Untaken, Taken
<1>14. ItemInv'
  BY <1>1, <1>3, <1>13 DEF QueueInv, ItemInv
<1> QED BY <1>2, <1>3, <1>4, <1>6, <1>7, <1>8, <1>9, <1>12, <1>14

LEMMA SameSight ==
  ASSUME QueueInv, UNCHANGED <<top, array, arrays, buffered, thief>>, oend' = oend,
         \A i : OwnSlot(i)' = OwnSlot(i)
  PROVE  SightInv'
<1>1. UNCHANGED <<spc, st, sb, sary, sdest>>
  BY DEF thief
<1>2. \A c, i : MemSlot(c, i)' = MemSlot(c, i)
  BY DEF MemSlot
<1>3. \A i, to : IsStore(i, to)' = IsStore(i, to)
  BY DEF IsStore
<1>4. \A h : Sighted(h)' = Sighted(h)
  BY <1>1 DEF Sighted
<1> QED BY <1>1, <1>2, <1>3, <1>4 DEF QueueInv, SightInv

LEMMA StutterStep ==
  ASSUME QueueInv, UNCHANGED queueVars
  PROVE  QueueInv'
<1>1. UNCHANGED <<mem, own, owner, thief, pushed, done>>
  BY DEF queueVars
<1>2. UNCHANGED <<top, bottom, array, arrays, buffered, obottom, oslots, opc, ob, ot, odest>>
  BY <1>1 DEF mem, own, owner
<1>3. oend' = oend
  BY <1>2 DEF oend
<1>4. QueueTypeOK'
  BY <1>1, <1>2 DEF QueueInv, QueueTypeOK, ocap, thief
<1>5. /\ BoundInv' /\ OrderInv' /\ NewestInv' /\ SlotInv' /\ ViewInv' /\ ItemInv'
      /\ ocap' = ocap /\ \A i : OwnSlot(i)' = OwnSlot(i)
  BY <1>1, <1>3, SameQueue
<1>6. SightInv'
  BY <1>1, <1>2, <1>3, <1>5, SameSight
<1>7. OwnerInv'
  BY <1>1, <1>2, <1>5 DEF QueueInv, OwnerInv, Drained
<1> QED BY <1>4, <1>5, <1>6, <1>7 DEF QueueInv

LEMMA PushLoadStep ==
  ASSUME QueueInv, PushLoad
  PROVE  QueueInv'
<1>1. /\ opc = "idle" /\ opc' = "push" /\ ob' = obottom /\ ot' = top /\ pushed < MaxItems
      /\ UNCHANGED <<mem, own, odest, thief, pushed, done>>
  BY DEF PushLoad
<1>2. UNCHANGED <<top, bottom, array, arrays, buffered, obottom, oslots>>
  BY <1>1 DEF mem, own
<1>3. oend' = oend /\ oend = obottom
  BY <1>1, <1>2 DEF oend
<1>4. QueueTypeOK'
  BY <1>1, <1>2 DEF QueueInv, QueueTypeOK, ocap, thief
<1>5. /\ BoundInv' /\ OrderInv' /\ NewestInv' /\ SlotInv' /\ ViewInv' /\ ItemInv'
      /\ ocap' = ocap /\ \A i : OwnSlot(i)' = OwnSlot(i)
  BY <1>1, <1>3, SameQueue
<1>6. SightInv'
  BY <1>1, <1>2, <1>3, <1>5, SameSight
<1>7. obottom - top <= ocap
  <2>1. Len(arrays) \in Nat \ {0} /\ Len(buffered) \in Nat /\ top \in Nat
    BY TypeFacts DEF QueueInv, QueueTypeOK
  <2>2. Visible(Len(buffered) + 1, Len(arrays))
    <3>1. array <= Len(arrays)
      BY <2>1 DEF QueueInv, QueueTypeOK
    <3>2. ASSUME NEW m \in 1 .. Len(buffered) + 1 - 1, IsStore(m, "array")
          PROVE  buffered[m].val <= Len(arrays)
      <4>1. m \in 1 .. Len(buffered)
        BY <2>1
      <4>2. buffered[m].val \in array .. Len(arrays)
        BY <3>2, <4>1 DEF QueueInv, NewestInv
      <4> QED BY <2>1, <4>2 DEF QueueInv, QueueTypeOK
    <3> QED BY <3>1, <3>2 DEF Visible
  <2>3. View(Len(buffered) + 1, oend)
    BY DEF QueueInv, ViewInv
  <2>4. Len(arrays) \in 1 .. Len(arrays)
    BY <2>1
  <2>5. oend - top <= arrays[Len(arrays)].capacity
    BY <2>2, <2>3, <2>4 DEF View
  <2> QED BY <1>3, <2>5 DEF ocap
<1>8. OwnerInv'
  <2>1. top <= top
    BY DEF QueueInv, QueueTypeOK
  <2> QED BY <1>1, <1>2, <1>5, <1>7, <2>1 DEF OwnerInv
<1> QED BY <1>4, <1>5, <1>6, <1>8 DEF QueueInv

LEMMA PopLastStep ==
  ASSUME QueueInv, PopLast
  PROVE  QueueInv'
<1>1. /\ opc = "pop" /\ opc' = "cas" /\ ot' = top /\ top = ob /\ odest' = OwnSlot(ob) /\ Drained
      /\ UNCHANGED <<mem, own, ob, thief, pushed, done>>
  BY DEF PopLast
<1>2. UNCHANGED <<top, bottom, array, arrays, buffered, obottom, oslots, ob>>
  BY <1>1 DEF mem, own
<1>3. oend' = oend
  BY <1>1, <1>2 DEF oend
<1>4. odest' \in Values
  BY <1>1, TypeFacts DEF QueueInv, QueueTypeOK
<1>5. QueueTypeOK'
  BY <1>1, <1>2, <1>4 DEF QueueInv, QueueTypeOK, ocap, thief
<1>6. /\ BoundInv' /\ OrderInv' /\ NewestInv' /\ SlotInv' /\ ViewInv' /\ ItemInv'
      /\ ocap' = ocap /\ \A i : OwnSlot(i)' = OwnSlot(i)
  BY <1>1, <1>3, SameQueue
<1>7. SightInv'
  BY <1>1, <1>2, <1>3, <1>6, SameSight
<1>8. OwnerInv'
  <2>1. ob = obottom
    BY <1>1 DEF QueueInv, OwnerInv
  <2>2. top <= top
    BY DEF QueueInv, QueueTypeOK
  <2>3. odest' = OwnSlot(ob)'
    BY <1>1, <1>2, <1>6
  <2> QED BY <1>1, <1>2, <2>1, <2>2, <2>3 DEF OwnerInv, Drained
<1> QED BY <1>5, <1>6, <1>7, <1>8 DEF QueueInv

\* A store of bottom that is not fenced, behind the others.
LEMMA BottomStored ==
  ASSUME QueueTypeOK, OrderInv, NewestInv, NEW v \in Int, SetBottom(v),
         UNCHANGED <<bottom, array, arrays>>
  PROVE  /\ buffered' \in Seq(Stores) /\ Len(buffered') = Len(buffered) + 1
         /\ \A i \in 1 .. Len(buffered) : buffered'[i] = buffered[i]
         /\ buffered'[Len(buffered) + 1].to = "bottom" /\ buffered'[Len(buffered) + 1].val = v
         /\ OrderInv' /\ NewestInv'
<1> DEFINE l == Len(buffered)
<1>1. buffered \in Seq(Stores) /\ l \in Nat
  BY DEF QueueTypeOK
<1>2. buffered' = Append(buffered, StoreBottom(v, FALSE)) /\ obottom' = v
  BY DEF SetBottom
<1>3. StoreBottom(v, FALSE) \in Stores
  BY DEF StoreBottom, Stores
<1>4. /\ buffered' \in Seq(Stores) /\ Len(buffered') = l + 1
      /\ \A i \in 1 .. l : buffered'[i] = buffered[i]
      /\ buffered'[l + 1] = StoreBottom(v, FALSE)
  <2>1. ASSUME NEW s \in Stores, buffered' = Append(buffered, s)
        PROVE  /\ buffered' \in Seq(Stores) /\ Len(buffered') = l + 1
               /\ \A i \in 1 .. l : buffered'[i] = buffered[i]
               /\ buffered'[l + 1] = s
    BY <1>1, <2>1
  <2> HIDE DEF l
  <2> QED BY <1>2, <1>3, <2>1, Zenon
<1> HIDE DEF l
<1>5. buffered'[l + 1].to = "bottom" /\ buffered'[l + 1].val = v
  BY <1>4 DEF StoreBottom
<1>6. /\ \A i \in 1 .. l : \A to : IsStore(i, to)' = IsStore(i, to)
      /\ \A i : i = l + 1 => IsStore(i, "bottom")' /\ ~IsStore(i, "slot")' /\ ~IsStore(i, "array")'
  BY <1>4, <1>5 DEF IsStore
<1>7. \A i \in 1 .. Len(buffered') : i \in 1 .. l \/ i = l + 1
  BY <1>1, <1>4
<1>8. OrderInv'
  <2>0. /\ \A m, n \in 1 .. l :
             m < n /\ ~IsStore(m, "bottom") /\ IsStore(n, "bottom") =>
               \E k \in m + 1 .. n : buffered[k].fenced
        /\ buffered # <<>> => IsStore(l, "bottom")
        /\ \A m \in 1 .. l : IsStore(m, "slot") =>
             /\ bottom <= buffered[m].idx
             /\ \A n \in 1 .. m - 1 : IsStore(n, "bottom") => buffered[n].val <= buffered[m].idx
    BY DEF OrderInv, l
  <2>1. ASSUME NEW m \in 1 .. l, NEW n \in 1 .. l, m < n, ~IsStore(m, "bottom"), IsStore(n, "bottom")
        PROVE  \E k \in m + 1 .. n : buffered'[k].fenced
    <3>1. PICK k \in m + 1 .. n : buffered[k].fenced
      BY <2>0, <2>1
    <3>2. k \in 1 .. l
      BY <1>1
    <3> QED BY <1>4, <3>1, <3>2
  <2>2. ASSUME NEW m \in 1 .. Len(buffered'), NEW n \in 1 .. Len(buffered'), m < n,
               ~IsStore(m, "bottom")', IsStore(n, "bottom")'
        PROVE  \E k \in m + 1 .. n : buffered'[k].fenced
    <3>1. m \in 1 .. l /\ ~IsStore(m, "bottom")
      BY <1>1, <1>6, <1>7, <2>2
    <3>2. CASE n \in 1 .. l
      BY <1>6, <2>1, <2>2, <3>1, <3>2
    <3>3. CASE n = l + 1
      <4>1. l \in 1 .. l /\ IsStore(l, "bottom")
        BY <1>1, <2>0, <3>1 DEF l
      <4>2. m < l
        BY <3>1, <4>1
      <4>3. PICK k \in m + 1 .. l : buffered'[k].fenced
        BY <2>1, <3>1, <4>1, <4>2
      <4>4. k \in m + 1 .. n
        BY <1>1, <3>3
      <4> QED BY <4>3, <4>4
    <3> QED BY <1>7, <3>2, <3>3
  <2>3. buffered' # <<>>
    BY <1>1, <1>4
  <2>4. \A i : i = Len(buffered') => IsStore(i, "bottom")' /\ buffered'[i].val = obottom'
    BY <1>2, <1>4, <1>5, <1>6
  <2>5. ASSUME NEW m \in 1 .. Len(buffered'), IsStore(m, "slot")'
        PROVE  /\ bottom' <= buffered'[m].idx
               /\ \A n \in 1 .. m - 1 : IsStore(n, "bottom")' => buffered'[n].val <= buffered'[m].idx
    <3>1. m \in 1 .. l /\ IsStore(m, "slot") /\ buffered'[m] = buffered[m]
      BY <1>4, <1>6, <1>7, <2>5
    <3>2. \A n \in 1 .. m - 1 : n \in 1 .. l
      BY <1>1, <3>1
    <3> QED BY <1>4, <1>6, <2>0, <3>1, <3>2
  <2> QED BY <2>2, <2>3, <2>4, <2>5 DEF OrderInv
<1>9. NewestInv'
  <2>0. /\ \A m \in 1 .. l : IsStore(m, "array") =>
             /\ buffered[m].val \in array .. Len(arrays)
             /\ \A n \in 1 .. m - 1 : IsStore(n, "array") => buffered[n].val <= buffered[m].val
        /\ array = Len(arrays)
           \/ \E m \in 1 .. l : IsStore(m, "array") /\ buffered[m].val = Len(arrays)
    BY DEF NewestInv, l
  <2>1. ASSUME NEW m \in 1 .. Len(buffered'), IsStore(m, "array")'
        PROVE  /\ buffered'[m].val \in array .. Len(arrays)
               /\ \A n \in 1 .. m - 1 : IsStore(n, "array")' => buffered'[n].val <= buffered'[m].val
    <3>1. m \in 1 .. l /\ IsStore(m, "array") /\ buffered'[m] = buffered[m]
      BY <1>4, <1>6, <1>7, <2>1
    <3>2. \A n \in 1 .. m - 1 : n \in 1 .. l
      BY <1>1, <3>1
    <3> QED BY <1>4, <1>6, <2>0, <3>1, <3>2
  <2>2. array = Len(arrays)
        \/ \E m \in 1 .. Len(buffered') : IsStore(m, "array")' /\ buffered'[m].val = Len(arrays)
    <3>1. \A m \in 1 .. l : m \in 1 .. Len(buffered')
      BY <1>1, <1>4
    <3> QED BY <1>4, <1>6, <2>0, <3>1
  <2> QED BY <2>1, <2>2 DEF NewestInv
<1> QED BY <1>4, <1>5, <1>8, <1>9 DEF l

\* A pop's stores of bottom.
LEMMA BottomSet ==
  ASSUME QueueInv, NEW v \in Int, SetBottom(v), v <= oend, oend' = oend,
         opc' \in {"idle", "pop"}, ob' \in Int, ot' \in Nat, odest' \in Values,
         top' \in Nat, top <= top', top' <= oend, done' \in [Values -> Nat],
         UNCHANGED <<bottom, array, arrays, oslots, thief, pushed>>
  PROVE  /\ QueueTypeOK' /\ BoundInv' /\ OrderInv' /\ NewestInv' /\ ViewInv'
         /\ \A i : OwnSlot(i)' = OwnSlot(i)
         /\ \A c, i : MemSlot(c, i)' = MemSlot(c, i)
         /\ \A m \in 1 .. Len(buffered') : IsStore(m, "slot")' =>
              m \in 1 .. Len(buffered) /\ IsStore(m, "slot") /\ buffered'[m] = buffered[m]
<1> DEFINE l == Len(buffered)
<1>0. QueueTypeOK /\ OrderInv /\ NewestInv /\ l \in Nat /\ oend \in Int /\ top \in Nat
  BY TypeFacts DEF QueueInv, QueueTypeOK
<1>1. /\ buffered' \in Seq(Stores) /\ Len(buffered') = l + 1
      /\ \A i \in 1 .. l : buffered'[i] = buffered[i]
      /\ buffered'[l + 1].to = "bottom" /\ buffered'[l + 1].val = v
      /\ OrderInv' /\ NewestInv'
  BY <1>0, BottomStored
<1> HIDE DEF l
<1>2. ocap' = ocap
  BY DEF ocap
<1>3. \A i : OwnSlot(i)' = OwnSlot(i)
  BY <1>2 DEF OwnSlot
<1>4. \A c, i : MemSlot(c, i)' = MemSlot(c, i)
  BY DEF MemSlot
<1>5. /\ \A i \in 1 .. l : \A to : IsStore(i, to)' = IsStore(i, to)
      /\ \A i : i = l + 1 => ~IsStore(i, "slot")' /\ ~IsStore(i, "array")'
  BY <1>1 DEF IsStore
<1>6. \A i \in 1 .. Len(buffered') : i \in 1 .. l \/ i = l + 1
  BY <1>0, <1>1
<1>7. QueueTypeOK'
  <2>1. obottom' \in Int
    BY DEF SetBottom
  <2> QED BY <1>0, <1>1, <1>2, <2>1 DEF QueueTypeOK, thief
<1>8. BoundInv'
  <2>1. \A i \in 1 .. l : IsStore(i, "bottom") => buffered[i].val <= oend
    BY DEF QueueInv, BoundInv, l
  <2>2. \A i \in 1 .. Len(buffered') : IsStore(i, "bottom")' => buffered'[i].val <= oend
    BY <1>1, <1>5, <1>6, <2>1
  <2>3. oend <= pushed /\ bottom <= oend
    BY DEF QueueInv, BoundInv
  <2> QED BY <2>2, <2>3 DEF BoundInv
<1>9. ViewInv'
  <2>0. /\ View(0, bottom) /\ View(l + 1, oend)
        /\ \A n \in 1 .. l : IsStore(n, "bottom") => View(n, buffered[n].val)
    BY DEF QueueInv, ViewInv, l
  <2>1. top' \in Nat /\ top <= top' /\ UNCHANGED <<array, arrays, oslots>>
    BY <1>0
  <2>2. ASSUME NEW k \in Nat, k <= l + 1, NEW w \in Int, View(k, w) PROVE View(k, w)'
    <3>1. \A m \in 1 .. k - 1 : buffered'[m] = buffered[m]
      BY <1>0, <1>1, <2>2
    <3>2. k <= k /\ w <= w /\ \A m \in k .. k - 1 : buffered'[m].to = "bottom"
      OBVIOUS
    <3> QED BY <1>0, <2>1, <2>2, <3>1, <3>2, ViewKept
  <2>3. ASSUME NEW k, k = l + 1 PROVE View(k, v)'
    <3>1. \A m \in 1 .. k - 1 : buffered'[m] = buffered[m]
      BY <1>0, <1>1, <2>3
    <3>2. k \in Nat /\ k <= k /\ \A m \in k .. k - 1 : buffered'[m].to = "bottom"
      BY <1>0, <2>3
    <3> QED BY <1>0, <2>0, <2>1, <2>3, <3>1, <3>2, ViewKept
  <2>4. ASSUME NEW q, q = l + 2, NEW w, w = oend PROVE View(q, w)'
    <3> DEFINE k == l + 1
    <3>1. \A m \in 1 .. k - 1 : buffered'[m] = buffered[m]
      BY <1>0, <1>1
    <3>2. k \in Nat /\ q \in Nat /\ k <= q /\ \A m \in k .. q - 1 : buffered'[m].to = "bottom"
      BY <1>0, <1>1, <2>4
    <3>3. w \in Int /\ w <= w /\ View(k, w)
      BY <1>0, <2>0, <2>4
    <3> HIDE DEF k
    <3> QED BY <1>0, <2>1, <3>1, <3>2, <3>3, ViewKept
  <2>5. View(0, bottom)'
    <3>1. bottom \in Int /\ 0 \in Nat /\ 0 <= l + 1
      BY <1>0 DEF QueueTypeOK
    <3>2. \A w \in Int : w = bottom => View(0, w)'
      BY <2>0, <2>2, <3>1
    <3> QED BY <3>1, <3>2
  <2>6. ASSUME NEW n \in 1 .. Len(buffered'), IsStore(n, "bottom")', NEW w, w = buffered'[n].val
        PROVE  View(n, w)'
    <3>1. CASE n \in 1 .. l
      <4>1. IsStore(n, "bottom") /\ w = buffered[n].val
        BY <1>1, <1>5, <2>6, <3>1
      <4>2. w \in Int /\ View(n, w)
        BY <1>0, <2>0, <3>1, <4>1, TypeFacts DEF l
      <4>3. n \in Nat /\ n <= l + 1
        BY <1>0, <3>1
      <4> QED BY <2>2, <4>2, <4>3
    <3>2. CASE n = l + 1
      BY <1>1, <2>3, <2>6, <3>2
    <3> QED BY <1>6, <3>1, <3>2
  <2>7. Len(buffered') + 1 = l + 2
    BY <1>0, <1>1
  <2>8. ASSUME NEW q, q = Len(buffered') + 1, NEW w, w = oend' PROVE View(q, w)'
    BY <2>4, <2>7, <2>8
  <2> QED BY <2>5, <2>6, <2>8 DEF ViewInv
<1> QED BY <1>1, <1>3, <1>4, <1>5, <1>6, <1>7, <1>8, <1>9 DEF l

LEMMA SetBottomStep ==
  ASSUME QueueInv, NEW v \in Int, SetBottom(v), v <= oend, oend' = oend, OwnerInv',
         opc' \in {"idle", "pop"}, ob' \in Int, ot' \in Nat, odest' \in Values,
         UNCHANGED <<top, bottom, array, arrays, oslots, thief, pushed, done>>
  PROVE  QueueInv'
<1>1. /\ top' \in Nat /\ top <= top' /\ top' <= oend /\ done' \in [Values -> Nat]
      /\ UNCHANGED <<bottom, array, arrays, oslots, thief, pushed>>
  BY DEF QueueInv, QueueTypeOK, BoundInv
<1>2. QueueTypeOK' /\ BoundInv' /\ OrderInv' /\ NewestInv' /\ ViewInv'
  BY <1>1, BottomSet
<1>3. /\ \A i : OwnSlot(i)' = OwnSlot(i)
      /\ \A c, i : MemSlot(c, i)' = MemSlot(c, i)
  BY <1>1, BottomSet
<1>4. \A m \in 1 .. Len(buffered') : IsStore(m, "slot")' =>
        m \in 1 .. Len(buffered) /\ IsStore(m, "slot") /\ buffered'[m] = buffered[m]
  BY <1>1, BottomSet
<1>5. SlotInv'
  <2>1. ASSUME NEW m \in 1 .. Len(buffered'), IsStore(m, "slot")'
        PROVE  /\ buffered'[m].arr \in 1 .. Len(arrays)
               /\ buffered'[m].idx \in top .. oend - 1
               /\ buffered'[m].idx < top + arrays[buffered'[m].arr].capacity
               /\ buffered'[m].val = OwnSlot(buffered[m].idx)'
    BY <1>3, <1>4, <2>1 DEF QueueInv, SlotInv
  <2> QED BY <2>1 DEF SlotInv
<1>6. SightInv'
  <2>0. UNCHANGED <<spc, st, sb, sary, sdest>>
    BY DEF thief
  <2>1. \A h : Sighted(h)' = Sighted(h)
    BY <2>0 DEF Sighted
  <2>2. ASSUME NEW h \in Thieves, Sighted(h), NEW m \in 1 .. Len(buffered'), IsStore(m, "slot")'
        PROVE  buffered'[m].idx # top
    BY <1>4, <2>2 DEF QueueInv, SightInv
  <2> QED BY <1>3, <2>0, <2>1, <2>2 DEF QueueInv, SightInv
<1>7. ItemInv'
  <2>1. Untaken' = Untaken
    BY DEF Untaken, Taken
  <2> QED BY <1>3, <2>1 DEF QueueInv, ItemInv
<1> QED BY <1>2, <1>5, <1>6, <1>7 DEF QueueInv

LEMMA PopStoreStep ==
  ASSUME QueueInv, PopStore
  PROVE  QueueInv'
<1>1. /\ opc = "idle" /\ opc' = "pop" /\ ob' = obottom - 1 /\ SetBottom(obottom - 1)
      /\ UNCHANGED <<top, bottom, array, arrays, oslots, ot, odest, thief, pushed, done>>
  BY DEF PopStore
<1>2. obottom \in Int /\ ot \in Nat /\ odest \in Values
  BY DEF QueueInv, QueueTypeOK
<1>3. obottom' = obottom - 1
  BY <1>1 DEF SetBottom
<1>4. oend' = oend /\ obottom - 1 <= oend
  BY <1>1, <1>2 DEF oend
<1>5. OwnerInv'
  BY <1>1, <1>3 DEF OwnerInv
<1> QED BY <1>1, <1>2, <1>4, <1>5, SetBottomStep

\* A pop that gives up puts bottom back: the queue is empty.
LEMMA PopEmpty ==
  ASSUME QueueInv, PopNone \/ PopLost
  PROVE  QueueInv' /\ top = oend
<1>1. /\ opc \in {"pop", "cas"} /\ SetBottom(ob + 1) /\ OwnerReturns
      /\ UNCHANGED <<top, bottom, array, arrays, oslots, thief, pushed, done>>
  BY DEF PopNone, PopLost
<1>2. ob \in Int /\ top \in Nat /\ ot \in Nat
  BY DEF QueueInv, QueueTypeOK
<1>3. top > ob
  <2>1. CASE PopNone
    BY <2>1 DEF PopNone
  <2>2. CASE PopLost
    BY <1>2, <2>2 DEF PopLost, QueueInv, OwnerInv
  <2> QED BY <2>1, <2>2
<1>4. oend = ob + 1 /\ top <= oend
  BY <1>1 DEF oend, QueueInv, BoundInv
<1>5. top = oend
  BY <1>2, <1>3, <1>4
<1>6. opc' = "idle" /\ obottom' = ob + 1 /\ ob' = 0 /\ ot' = 0 /\ odest' = Garbage
  BY <1>1 DEF OwnerReturns, SetBottom
<1>7. oend' = oend /\ ob + 1 <= oend /\ ob + 1 \in Int
  <2>1. oend' = ob + 1
    BY <1>6 DEF oend
  <2> QED BY <1>2, <1>4, <2>1
<1>8. OwnerInv'
  BY <1>6 DEF OwnerInv
<1>9. ob' \in Int /\ ot' \in Nat /\ odest' \in Values /\ opc' \in {"idle", "pop"}
  BY <1>6 DEF Values
<1> QED BY <1>1, <1>5, <1>7, <1>8, <1>9, SetBottomStep

\* An item leaves at one end of the queue.
LEMMA ItemTaken ==
  ASSUME QueueInv, NEW i \in top .. oend - 1, pushed' = pushed,
         done' = [done EXCEPT ![OwnSlot(i)] = @ + 1],
         \A j : OwnSlot(j)' = OwnSlot(j),
         \A j : j \in top' .. oend' - 1 <=> j \in top .. oend - 1 /\ j # i
  PROVE  /\ ItemInv' /\ done' \in [Values -> Nat]
         /\ OwnSlot(i) \in Untaken /\ Untaken' = Untaken \ {OwnSlot(i)}
<1> DEFINE y == OwnSlot(i)
           I == top .. oend - 1
<1>1. /\ \A j \in I : OwnSlot(j) \in Untaken
      /\ \A j, k \in I : OwnSlot(j) = OwnSlot(k) => j = k
      /\ \A x \in Untaken : \E j \in I : OwnSlot(j) = x
  BY DEF QueueInv, ItemInv
<1>2. /\ \A x \in Items : done[x] \in {0, 1} /\ (x > pushed => done[x] = 0)
      /\ done[Garbage] = 0
      /\ done \in [Values -> Nat] /\ pushed \in 0 .. MaxItems
  BY DEF QueueInv, ItemInv, QueueTypeOK
<1>3. y \in Untaken
  BY <1>1
<1>4. y \in Items /\ y <= pushed /\ ~Taken(y) /\ y # Garbage
  BY <1>2, <1>3, QueueAssumption DEF Untaken, Items, Garbage
<1>5. done[y] = 0
  BY <1>2, <1>4 DEF Taken
<1> HIDE DEF y
<1>6. /\ done' \in [Values -> Nat] /\ done'[y] = 1
      /\ \A x \in Values : x # y => done'[x] = done[x]
  <2>1. done' = [done EXCEPT ![y] = done[y] + 1] /\ y \in Values
    BY <1>4 DEF y, Values
  <2> QED BY <1>2, <1>5, <2>1
<1>7. Untaken' = Untaken \ {y}
  <2>1. \A x \in 1 .. pushed : x \in Values
    BY <1>2, QueueAssumption DEF Values, Items
  <2>2. \A x \in 1 .. pushed : Taken(x)' <=> Taken(x) \/ x = y
    BY <1>6, <2>1 DEF Taken
  <2>3. \A x : x \in Untaken' <=> x \in 1 .. pushed /\ ~Taken(x)'
    BY DEF Untaken
  <2>4. \A x : x \in Untaken <=> x \in 1 .. pushed /\ ~Taken(x)
    BY DEF Untaken
  <2> QED BY <2>2, <2>3, <2>4
<1>8. ASSUME NEW x \in Items
      PROVE  done'[x] \in {0, 1} /\ (x > pushed => done'[x] = 0)
  <2>1. CASE x = y
    <3>1. x \in Int /\ pushed \in Int /\ ~(x > pushed)
      BY <1>2, <1>4, <2>1, QueueAssumption DEF Items
    <3> QED BY <1>6, <2>1, <3>1
  <2>2. CASE x # y
    BY <1>2, <1>6, <2>2 DEF Values
  <2> QED BY <2>1, <2>2
<1>9. done'[Garbage] = 0
  BY <1>2, <1>4, <1>6 DEF Values
<1>10. ItemInv'
  <2>1. \A j \in top' .. oend' - 1 : OwnSlot(j)' \in Untaken'
    BY <1>1, <1>7 DEF y
  <2>2. \A j, k \in top' .. oend' - 1 : OwnSlot(j)' = OwnSlot(k)' => j = k
    BY <1>1
  <2>3. \A x \in Untaken' : \E j \in top' .. oend' - 1 : OwnSlot(j)' = x
    <3>1. ASSUME NEW x \in Untaken \ {y} PROVE \E j \in top' .. oend' - 1 : OwnSlot(j)' = x
      <4>1. PICK j \in I : OwnSlot(j) = x
        BY <1>1
      <4>2. j # i
        BY <4>1 DEF y
      <4> QED BY <4>1, <4>2
    <3> QED BY <1>7, <3>1
  <2> QED BY <1>8, <1>9, <2>1, <2>2, <2>3 DEF ItemInv
<1> QED BY <1>3, <1>6, <1>7, <1>10 DEF y

LEMMA PopTakeStep ==
  ASSUME QueueInv, PopTake
  PROVE  /\ QueueInv' /\ OwnSlot(ob) \in Untaken /\ Untaken' = Untaken \ {OwnSlot(ob)}
<1>1. /\ opc = "pop" /\ buffered = <<>> /\ top < ob /\ OwnerReturns
      /\ done' = [done EXCEPT ![OwnSlot(ob)] = @ + 1]
      /\ UNCHANGED <<mem, own, thief, pushed>>
  BY DEF PopTake, Drained, HandOut
<1>2. UNCHANGED <<top, bottom, array, arrays, buffered, obottom, oslots>>
  BY <1>1 DEF mem, own
<1>3. ob \in Int /\ top \in Nat /\ bottom \in Int /\ pushed \in Int
  BY DEF QueueInv, QueueTypeOK
<1>4. ob = obottom /\ bottom = ob
  BY <1>1 DEF QueueInv, OwnerInv, OrderInv
<1>5. oend = ob + 1
  BY <1>1 DEF oend
<1>6. opc' = "idle" /\ ob' = 0 /\ ot' = 0 /\ odest' = Garbage
  BY <1>1 DEF OwnerReturns
<1>7. oend' = ob
  BY <1>2, <1>4, <1>6 DEF oend
<1>8. ocap' = ocap
  BY <1>2 DEF ocap
<1>9. \A i : OwnSlot(i)' = OwnSlot(i)
  BY <1>2, <1>8 DEF OwnSlot
<1>10. \A c, i : MemSlot(c, i)' = MemSlot(c, i)
  BY <1>2 DEF MemSlot
<1>11. /\ ItemInv' /\ done' \in [Values -> Nat]
       /\ OwnSlot(ob) \in Untaken /\ Untaken' = Untaken \ {OwnSlot(ob)}
  <2>1. ob \in top .. oend - 1
    BY <1>1, <1>3, <1>5
  <2>2. \A j : j \in top' .. oend' - 1 <=> j \in top .. oend - 1 /\ j # ob
    BY <1>1, <1>2, <1>3, <1>5, <1>7
  <2>3. ASSUME NEW i \in top .. oend - 1, i = ob
        PROVE  /\ ItemInv' /\ done' \in [Values -> Nat]
               /\ OwnSlot(i) \in Untaken /\ Untaken' = Untaken \ {OwnSlot(i)}
    <3>1. done' = [done EXCEPT ![OwnSlot(i)] = @ + 1]
      BY <1>1, <2>3
    <3> QED BY <1>1, <1>9, <2>2, <2>3, <3>1, ItemTaken
  <2> QED BY <2>1, <2>3
<1>12. QueueTypeOK'
  BY <1>1, <1>2, <1>6, <1>8, <1>11 DEF QueueInv, QueueTypeOK, thief, Values
<1>13. BoundInv' /\ OrderInv' /\ SlotInv'
  <2>1. oend <= pushed
    BY DEF QueueInv, BoundInv
  <2>2. \A m \in 1 .. Len(buffered') : FALSE
    BY <1>1, <1>2
  <2>3. buffered' = <<>> /\ bottom' = obottom' /\ top' <= oend' /\ oend' <= pushed' /\ bottom' <= oend'
    BY <1>1, <1>2, <1>3, <1>4, <1>5, <1>7, <2>1
  <2> QED BY <2>2, <2>3 DEF BoundInv, OrderInv, SlotInv
<1>14. NewestInv'
  BY <1>2 DEF QueueInv, NewestInv, IsStore
<1>15. ViewInv'
  <2>1. Len(buffered') = 0 /\ \A m \in 1 .. Len(buffered') : FALSE
    BY <1>1, <1>2
  <2>2. View(0, bottom) /\ View(1, oend)
    <3>1. Len(buffered) + 1 = 1
      BY <1>1
    <3> QED BY <3>1 DEF QueueInv, ViewInv
  <2>3. /\ QueueTypeOK /\ UNCHANGED <<array, arrays, oslots>> /\ top' \in Nat /\ top <= top'
        /\ \A k \in {0, 1} : /\ \A m \in 1 .. k - 1 : buffered'[m] = buffered[m]
                             /\ \A m \in k .. k - 1 : buffered'[m].to = "bottom"
                             /\ k \in Nat /\ k <= k
    BY <1>2, <1>3 DEF QueueInv
  <2>4. ASSUME NEW k \in {0, 1}, NEW v \in Int, NEW w \in Int, w <= v, View(k, v) PROVE View(k, w)'
    BY <2>3, <2>4, ViewKept
  <2>5. \A w \in Int : w = ob => View(0, w)' /\ View(1, w)'
    <3>1. oend \in Int /\ ob <= oend /\ bottom <= bottom
      BY <1>3, <1>5
    <3> QED BY <1>3, <1>4, <2>2, <2>4, <3>1
  <2>6. View(0, bottom)' /\ View(Len(buffered) + 1, oend)'
    <3>1. bottom' = ob /\ oend' = ob /\ Len(buffered') + 1 = 1
      BY <1>2, <1>4, <1>7, <2>1
    <3> QED BY <1>3, <2>5, <3>1
  <2> QED BY <2>1, <2>6 DEF ViewInv
<1>16. OwnerInv'
  BY <1>6 DEF OwnerInv
<1>17. SightInv'
  <2>0. UNCHANGED <<spc, st, sb, sary, sdest>>
    BY <1>1 DEF thief
  <2>1. \A h : Sighted(h)' = Sighted(h)
    BY <1>2, <2>0 DEF Sighted
  <2>2. top' < oend'
    BY <1>1, <1>2, <1>7
  <2>3. \A m \in 1 .. Len(buffered') : FALSE
    BY <1>1, <1>2
  <2> QED BY <1>2, <1>9, <1>10, <2>0, <2>1, <2>2, <2>3 DEF QueueInv, SightInv
<1> QED BY <1>11, <1>12, <1>13, <1>14, <1>15, <1>16, <1>17 DEF QueueInv

LEMMA PopWonStep ==
  ASSUME QueueInv, PopWon
  PROVE  /\ QueueInv' /\ odest \in Untaken /\ Untaken' = Untaken \ {odest}
<1>1. /\ opc = "cas" /\ top = ot /\ top' = top + 1 /\ SetBottom(ob + 1) /\ OwnerReturns
      /\ done' = [done EXCEPT ![odest] = @ + 1]
      /\ UNCHANGED <<bottom, array, arrays, oslots, thief, pushed>>
  BY DEF PopWon, HandOut
<1>2. ob \in Int /\ top \in Nat /\ buffered = <<>> /\ top = ob /\ odest = OwnSlot(ob)
  BY <1>1 DEF QueueInv, QueueTypeOK, OwnerInv, Drained
<1>3. opc' = "idle" /\ obottom' = ob + 1 /\ ob' = 0 /\ ot' = 0 /\ odest' = Garbage
  BY <1>1 DEF OwnerReturns, SetBottom
<1>4. oend = ob + 1
  BY <1>1 DEF oend
<1>5. oend' = ob + 1
  BY <1>3 DEF oend
<1>6. ocap' = ocap
  BY <1>1 DEF ocap
<1>7. \A i : OwnSlot(i)' = OwnSlot(i)
  BY <1>1, <1>6 DEF OwnSlot
<1>8. /\ ItemInv' /\ done' \in [Values -> Nat]
      /\ odest \in Untaken /\ Untaken' = Untaken \ {odest}
  <2>1. ob \in top .. oend - 1
    BY <1>2, <1>4
  <2>2. \A j : j \in top' .. oend' - 1 <=> j \in top .. oend - 1 /\ j # ob
    BY <1>1, <1>2, <1>4, <1>5
  <2>3. ASSUME NEW i \in top .. oend - 1, i = ob
        PROVE  /\ ItemInv' /\ done' \in [Values -> Nat]
               /\ OwnSlot(i) \in Untaken /\ Untaken' = Untaken \ {OwnSlot(i)}
    <3>1. done' = [done EXCEPT ![OwnSlot(i)] = @ + 1]
      BY <1>1, <1>2, <2>3
    <3> QED BY <1>1, <1>7, <2>2, <2>3, <3>1, ItemTaken
  <2> QED BY <1>2, <2>1, <2>3
<1>9. /\ QueueTypeOK' /\ BoundInv' /\ OrderInv' /\ NewestInv' /\ ViewInv'
      /\ \A m \in 1 .. Len(buffered') : IsStore(m, "slot")' =>
           m \in 1 .. Len(buffered) /\ IsStore(m, "slot") /\ buffered'[m] = buffered[m]
  <2>1. /\ ob + 1 \in Int /\ ob + 1 <= oend /\ oend' = oend
        /\ top' \in Nat /\ top <= top' /\ top' <= oend
    BY <1>1, <1>2, <1>4, <1>5
  <2>2. opc' \in {"idle", "pop"} /\ ob' \in Int /\ ot' \in Nat /\ odest' \in Values
    BY <1>3 DEF Values
  <2> QED BY <1>1, <1>8, <2>1, <2>2, BottomSet
<1>10. SlotInv'
  <2>1. \A m \in 1 .. Len(buffered') : ~IsStore(m, "slot")'
    BY <1>2, <1>9
  <2> QED BY <2>1 DEF SlotInv
<1>11. OwnerInv'
  BY <1>3 DEF OwnerInv
<1>12. SightInv'
  <2>1. UNCHANGED <<spc, st, sb, sary, sdest>>
    BY <1>1 DEF thief
  <2>2. \A h \in Thieves : st[h] <= top /\ st[h] \in Nat
    BY DEF QueueInv, QueueTypeOK, SightInv
  <2>3. \A h \in Thieves : st[h] # top' /\ st[h] <= top'
    BY <1>1, <1>2, <2>2
  <2> QED BY <2>1, <2>3 DEF QueueInv, SightInv, Sighted
<1> QED BY <1>8, <1>9, <1>10, <1>11, <1>12 DEF QueueInv

\* A thief at its compare-and-swap, with top as it read it, has the top item.
LEMMA StealWonStep ==
  ASSUME QueueInv, NEW h \in Thieves, StealWon(h)
  PROVE  /\ QueueInv' /\ sdest[h] \in Untaken /\ Untaken' = Untaken \ {sdest[h]}
<1>1. /\ spc[h] = "cas" /\ top = st[h] /\ top' = top + 1 /\ ThiefReturns(h)
      /\ done' = [done EXCEPT ![sdest[h]] = @ + 1]
      /\ UNCHANGED <<bottom, array, arrays, buffered, own, owner, pushed>>
  BY DEF StealWon, HandOut
<1>2. UNCHANGED <<obottom, oslots, opc, ob, ot, odest>>
  BY <1>1 DEF own, owner
<1>3. QueueTypeOK /\ top \in Nat /\ oend \in Int /\ Len(buffered) \in Nat
  BY TypeFacts DEF QueueInv, QueueTypeOK
<1>4. /\ top < oend /\ sdest[h] = OwnSlot(top)
      /\ \A m \in 1 .. Len(buffered) : IsStore(m, "slot") => buffered[m].idx # top
  BY <1>1 DEF QueueInv, SightInv, Sighted
<1>5. oend' = oend
  BY <1>2 DEF oend
<1>6. ocap' = ocap
  BY <1>1 DEF ocap
<1>7. \A i : OwnSlot(i)' = OwnSlot(i)
  BY <1>2, <1>6 DEF OwnSlot
<1>8. /\ ItemInv' /\ done' \in [Values -> Nat]
      /\ sdest[h] \in Untaken /\ Untaken' = Untaken \ {sdest[h]}
  <2>1. top \in top .. oend - 1
    BY <1>3, <1>4
  <2>2. \A j : j \in top' .. oend' - 1 <=> j \in top .. oend - 1 /\ j # top
    BY <1>1, <1>3, <1>5
  <2>3. ASSUME NEW i \in top .. oend - 1, i = top
        PROVE  /\ ItemInv' /\ done' \in [Values -> Nat]
               /\ OwnSlot(i) \in Untaken /\ Untaken' = Untaken \ {OwnSlot(i)}
    <3>1. done' = [done EXCEPT ![OwnSlot(i)] = @ + 1]
      BY <1>1, <1>4, <2>3
    <3> QED BY <1>1, <1>7, <2>2, <2>3, <3>1, ItemTaken
  <2> QED BY <1>4, <2>1, <2>3
<1>9. /\ spc' = [spc EXCEPT ![h] = "idle"] /\ st' = [st EXCEPT ![h] = 0]
      /\ sb' = [sb EXCEPT ![h] = 0] /\ sary' = [sary EXCEPT ![h] = 1]
      /\ sdest' = [sdest EXCEPT ![h] = Garbage]
  BY <1>1 DEF ThiefReturns
<1>10. QueueTypeOK'
  <2>1. /\ spc' \in [Thieves -> {"idle", "top", "bottom", "array", "copy", "cas"}]
        /\ st' \in [Thieves -> Nat] /\ sb' \in [Thieves -> Int]
        /\ sary' \in [Thieves -> 1 .. Len(arrays)] /\ sdest' \in [Thieves -> Values]
    <3>1. 1 \in 1 .. Len(arrays)
      BY <1>3 DEF QueueTypeOK
    <3> QED BY <1>3, <1>9, <3>1 DEF QueueTypeOK, Values
  <2>2. top' \in Nat
    BY <1>1, <1>3
  <2> QED BY <1>1, <1>2, <1>3, <1>6, <1>8, <2>1, <2>2 DEF QueueTypeOK
<1>11. \A i, to : IsStore(i, to)' = IsStore(i, to)
  BY <1>1 DEF IsStore
<1>12. BoundInv'
  <2>1. top' <= oend
    BY <1>1, <1>3, <1>4
  <2> QED BY <1>1, <1>5, <1>11, <2>1 DEF QueueInv, BoundInv
<1>13. OrderInv' /\ NewestInv'
  BY <1>1, <1>2, <1>11 DEF QueueInv, OrderInv, NewestInv
<1>14. SlotInv'
  <2>1. ASSUME NEW m \in 1 .. Len(buffered), IsStore(m, "slot")
        PROVE  /\ buffered[m].arr \in 1 .. Len(arrays)
               /\ buffered[m].idx \in top' .. oend - 1
               /\ buffered[m].idx < top' + arrays[buffered[m].arr].capacity
               /\ buffered[m].val = OwnSlot(buffered[m].idx)
    <3>1. /\ buffered[m].arr \in 1 .. Len(arrays)
          /\ buffered[m].idx \in top .. oend - 1
          /\ buffered[m].idx < top + arrays[buffered[m].arr].capacity
          /\ buffered[m].val = OwnSlot(buffered[m].idx)
      BY <2>1 DEF QueueInv, SlotInv
    <3>2. arrays[buffered[m].arr].capacity \in Nat
      BY <1>3, <3>1, TypeFacts
    <3>3. buffered[m].idx # top
      BY <1>4, <2>1
    <3>4. buffered[m].idx \in top' .. oend - 1
      BY <1>1, <1>3, <3>1, <3>3
    <3>5. buffered[m].idx \in Int
      BY <1>3, <3>1
    <3>6. buffered[m].idx < top' + arrays[buffered[m].arr].capacity
      <4>1. \A x, c \in Int : x < top + c => x < top' + c
        BY <1>1, <1>3
      <4>2. arrays[buffered[m].arr].capacity \in Int
        BY <3>2
      <4> QED BY <3>1, <3>5, <4>1, <4>2
    <3> QED BY <3>1, <3>4, <3>6
  <2>2. ASSUME NEW m \in 1 .. Len(buffered), IsStore(m, "slot")
        PROVE  buffered'[m].val = OwnSlot(buffered[m].idx)'
    <3>1. OwnSlot(buffered[m].idx)' = OwnSlot(buffered[m].idx)
      BY <1>1, <1>7
    <3> QED BY <1>1, <2>1, <2>2, <3>1
  <2> QED BY <1>1, <1>5, <1>11, <2>1, <2>2 DEF SlotInv
<1>15. ViewInv'
  <2>1. ASSUME NEW k \in Nat, NEW v \in Int, View(k, v) PROVE View(k, v)'
    <3>1. /\ UNCHANGED <<array, arrays, oslots>> /\ top' \in Nat /\ top <= top'
          /\ \A m \in 1 .. k - 1 : buffered'[m] = buffered[m]
      BY <1>1, <1>2, <1>3
    <3>2. k <= k /\ v <= v /\ \A m \in k .. k - 1 : buffered'[m].to = "bottom"
      OBVIOUS
    <3> QED BY <1>3, <2>1, <3>1, <3>2, ViewKept
  <2>2. /\ bottom \in Int /\ 0 \in Nat /\ Len(buffered) + 1 \in Nat
        /\ \A n \in 1 .. Len(buffered) : n \in Nat /\ buffered[n].val \in Int
    <3>1. bottom \in Int
      BY <1>3 DEF QueueTypeOK
    <3>2. \A n \in 1 .. Len(buffered) : buffered[n].val \in Int
      BY <1>3, TypeFacts
    <3> QED BY <1>3, <3>1, <3>2
  <2>3. /\ \A w : w = bottom => View(0, w)'
        /\ \A n \in 1 .. Len(buffered) : \A w : IsStore(n, "bottom") /\ w = buffered[n].val => View(n, w)'
        /\ \A n, w : n = Len(buffered) + 1 /\ w = oend => View(n, w)'
    BY <1>3, <2>1, <2>2 DEF QueueInv, ViewInv
  <2> QED BY <1>1, <1>5, <1>11, <2>3 DEF ViewInv
<1>16. OwnerInv'
  <2>1. OwnerInv /\ ot \in Nat
    BY <1>3 DEF QueueInv, QueueTypeOK
  <2>2. ot <= top => ot <= top'
    BY <1>1, <1>3, <2>1
  <2>3. OwnSlot(ob)' = OwnSlot(ob)
    BY <1>2, <1>7
  <2> QED BY <1>1, <1>2, <1>6, <2>1, <2>2, <2>3 DEF OwnerInv, Drained
<1>17. SightInv'
  <2>1. \A g \in Thieves : st[g] <= top /\ st[g] \in Nat
                           /\ (spc[g] \in {"array", "copy", "cas"} => st[g] < sb[g])
    BY DEF QueueInv, QueueTypeOK, SightInv
  <2>2. \A g \in Thieves : st'[g] # top' /\ st'[g] <= top'
    BY <1>1, <1>3, <1>9, <2>1 DEF QueueTypeOK
  <2>3. \A g \in Thieves : spc'[g] \in {"array", "copy", "cas"} => st'[g] < sb'[g]
    BY <1>3, <1>9, <2>1 DEF QueueTypeOK
  <2> QED BY <2>2, <2>3 DEF SightInv, Sighted
<1> QED BY <1>8, <1>10, <1>12, <1>13, <1>14, <1>15, <1>16, <1>17 DEF QueueInv

\* A thief's step that takes nothing: only what that thief knows is at stake.
LEMMA ThiefMoves ==
  ASSUME QueueInv, NEW h \in Thieves, UNCHANGED <<mem, own, owner, pushed, done>>,
         spc' \in [Thieves -> {"idle", "top", "bottom", "array", "copy", "cas"}],
         st' \in [Thieves -> Nat], sb' \in [Thieves -> Int],
         sary' \in [Thieves -> 1 .. Len(arrays)], sdest' \in [Thieves -> Values],
         \A g \in Thieves : g # h =>
           /\ spc'[g] = spc[g] /\ st'[g] = st[g] /\ sb'[g] = sb[g]
           /\ sary'[g] = sary[g] /\ sdest'[g] = sdest[g],
         st'[h] <= top,
         spc'[h] \in {"array", "copy", "cas"} => st'[h] < sb'[h],
         spc'[h] \notin {"idle", "top"} /\ st'[h] < sb'[h] /\ st'[h] = top =>
           /\ top < oend
           /\ \A a \in array .. Len(arrays) : MemSlot(a, top) = OwnSlot(top)
           /\ \A m \in 1 .. Len(buffered) : IsStore(m, "slot") => buffered[m].idx # top
           /\ spc'[h] # "bottom" => \A a : a = sary'[h] => MemSlot(a, top) = OwnSlot(top)
           /\ spc'[h] \in {"copy", "cas"} => sdest'[h] = OwnSlot(top)
  PROVE  QueueInv'
<1>1. UNCHANGED <<top, bottom, array, arrays, buffered, obottom, oslots, opc, ob, ot, odest>>
  BY DEF mem, own, owner
<1>2. oend' = oend
  BY <1>1 DEF oend
<1>3. QueueTypeOK'
  BY <1>1 DEF QueueInv, QueueTypeOK, ocap
<1>4. /\ BoundInv' /\ OrderInv' /\ NewestInv' /\ SlotInv' /\ ViewInv' /\ ItemInv'
      /\ ocap' = ocap /\ \A i : OwnSlot(i)' = OwnSlot(i)
      /\ \A c, i : MemSlot(c, i)' = MemSlot(c, i)
  BY <1>2, SameQueue
<1>5. OwnerInv'
  BY <1>1, <1>4 DEF QueueInv, OwnerInv, Drained
<1>6. SightInv'
  <2>1. \A i, to : IsStore(i, to)' = IsStore(i, to)
    BY <1>1 DEF IsStore
  <2>2. OwnSlot(top)' = OwnSlot(top) /\ \A a : MemSlot(a, top)' = MemSlot(a, top)
    BY <1>1, <1>4
  <2>3. ASSUME NEW g \in Thieves
        PROVE  /\ st'[g] <= top
               /\ spc'[g] \in {"array", "copy", "cas"} => st'[g] < sb'[g]
               /\ spc'[g] \notin {"idle", "top"} /\ st'[g] < sb'[g] /\ st'[g] = top =>
                    /\ top < oend
                    /\ \A a \in array .. Len(arrays) : MemSlot(a, top) = OwnSlot(top)
                    /\ \A m \in 1 .. Len(buffered) : IsStore(m, "slot") => buffered[m].idx # top
                    /\ spc'[g] # "bottom" => \A a : a = sary'[g] => MemSlot(a, top) = OwnSlot(top)
                    /\ spc'[g] \in {"copy", "cas"} => sdest'[g] = OwnSlot(top)
    <3>1. CASE g = h
      BY <3>1
    <3>2. CASE g # h
      <4>1. /\ spc'[g] = spc[g] /\ st'[g] = st[g] /\ sb'[g] = sb[g]
            /\ sary'[g] = sary[g] /\ sdest'[g] = sdest[g]
        BY <3>2
      <4>2. /\ st[g] <= top
            /\ spc[g] \in {"array", "copy", "cas"} => st[g] < sb[g]
        BY DEF QueueInv, SightInv
      <4>3. ASSUME spc[g] \notin {"idle", "top"}, st[g] < sb[g], st[g] = top
            PROVE  /\ top < oend
                   /\ \A a \in array .. Len(arrays) : MemSlot(a, top) = OwnSlot(top)
                   /\ \A m \in 1 .. Len(buffered) : IsStore(m, "slot") => buffered[m].idx # top
                   /\ spc[g] # "bottom" => MemSlot(sary[g], top) = OwnSlot(top)
                   /\ spc[g] \in {"copy", "cas"} => sdest[g] = OwnSlot(top)
        BY <4>3 DEF QueueInv, SightInv, Sighted
      <4> QED BY <4>1, <4>2, <4>3
    <3> QED BY <3>1, <3>2
  <2>4. ASSUME NEW g \in Thieves, spc'[g] \notin {"idle", "top"}, spc'[g] # "bottom",
               st'[g] < sb'[g], st'[g] = top
        PROVE  MemSlot(sary[g], top)' = OwnSlot(top)'
    BY <2>2, <2>3, <2>4
  <2> QED BY <1>1, <1>2, <2>1, <2>2, <2>3, <2>4 DEF SightInv, Sighted
<1> QED BY <1>3, <1>4, <1>5, <1>6 DEF QueueInv

\* What a thief that is done, or has not looked at bottom, knows: nothing.
LEMMA ThiefIdle ==
  ASSUME QueueInv, NEW h \in Thieves, StealTop(h) \/ StealNone(h) \/ StealLost(h)
  PROVE  QueueInv' /\ UNCHANGED <<pushed, done>>
<1>1. UNCHANGED <<mem, own, owner, pushed, done>>
  BY DEF StealTop, StealNone, StealLost
<1>2. /\ spc \in [Thieves -> {"idle", "top", "bottom", "array", "copy", "cas"}]
      /\ st \in [Thieves -> Nat] /\ sb \in [Thieves -> Int]
      /\ sary \in [Thieves -> 1 .. Len(arrays)] /\ sdest \in [Thieves -> Values]
      /\ top \in Nat /\ 1 \in 1 .. Len(arrays) /\ Garbage \in Values
  BY DEF QueueInv, QueueTypeOK, Values
<1>3. CASE StealTop(h)
  <2>1. /\ spc' = [spc EXCEPT ![h] = "top"] /\ st' = [st EXCEPT ![h] = top]
        /\ UNCHANGED <<sb, sary, sdest>>
    BY <1>3 DEF StealTop, StealGoto
  <2>2. spc'[h] = "top" /\ st'[h] = top /\ st'[h] <= top
    BY <1>2, <2>1
  <2>3. \A g \in Thieves : g # h => spc'[g] = spc[g] /\ st'[g] = st[g]
    BY <1>2, <2>1
  <2>4. /\ spc' \in [Thieves -> {"idle", "top", "bottom", "array", "copy", "cas"}]
        /\ st' \in [Thieves -> Nat]
    BY <1>2, <2>1
  <2> QED BY <1>1, <1>2, <2>1, <2>2, <2>3, <2>4, ThiefMoves
<1>4. CASE StealNone(h) \/ StealLost(h)
  <2>1. /\ spc' = [spc EXCEPT ![h] = "idle"] /\ st' = [st EXCEPT ![h] = 0]
        /\ sb' = [sb EXCEPT ![h] = 0] /\ sary' = [sary EXCEPT ![h] = 1]
        /\ sdest' = [sdest EXCEPT ![h] = Garbage]
    BY <1>4 DEF StealNone, StealLost, ThiefReturns
  <2>2. spc'[h] = "idle" /\ st'[h] <= top
    BY <1>2, <2>1
  <2>3. \A g \in Thieves : g # h =>
           /\ spc'[g] = spc[g] /\ st'[g] = st[g] /\ sb'[g] = sb[g]
           /\ sary'[g] = sary[g] /\ sdest'[g] = sdest[g]
    BY <1>2, <2>1
  <2>4. /\ spc' \in [Thieves -> {"idle", "top", "bottom", "array", "copy", "cas"}]
        /\ st' \in [Thieves -> Nat] /\ sb' \in [Thieves -> Int]
        /\ sary' \in [Thieves -> 1 .. Len(arrays)] /\ sdest' \in [Thieves -> Values]
    BY <1>2, <2>1
  <2> QED BY <1>1, <2>2, <2>3, <2>4, ThiefMoves
<1> QED BY <1>3, <1>4

\* A thief that finds bottom above top finds the top item in memory.
LEMMA StealBottomStep ==
  ASSUME QueueInv, NEW h \in Thieves, StealBottom(h)
  PROVE  QueueInv'
<1>1. /\ spc[h] = "top" /\ spc' = [spc EXCEPT ![h] = "bottom"]
      /\ sb' = [sb EXCEPT ![h] = bottom]
      /\ UNCHANGED <<mem, own, owner, st, sary, sdest, pushed, done>>
  BY DEF StealBottom, StealGoto
<1>2. /\ QueueTypeOK /\ top \in Nat /\ bottom \in Int /\ oend \in Int /\ array \in Nat
      /\ array >= 1 /\ Len(arrays) \in Nat
  <2>1. QueueTypeOK
    BY DEF QueueInv
  <2>2. oend \in Int /\ Len(arrays) \in Nat
    BY <2>1, TypeFacts
  <2> QED BY <2>1, <2>2 DEF QueueTypeOK
<1>3. /\ spc' \in [Thieves -> {"idle", "top", "bottom", "array", "copy", "cas"}]
      /\ sb' \in [Thieves -> Int]
  BY <1>1, <1>2 DEF QueueTypeOK
<1>4. /\ st' \in [Thieves -> Nat] /\ sary' \in [Thieves -> 1 .. Len(arrays)]
      /\ sdest' \in [Thieves -> Values]
  BY <1>1, <1>2 DEF QueueTypeOK
<1>5. /\ spc'[h] = "bottom" /\ sb'[h] = bottom /\ st'[h] = st[h] /\ st[h] <= top
      /\ \A g \in Thieves : g # h => spc'[g] = spc[g] /\ sb'[g] = sb[g]
  BY <1>1, <1>2 DEF QueueTypeOK, QueueInv, SightInv
<1>6. ASSUME top < bottom
      PROVE  /\ top < oend
             /\ \A a \in array .. Len(arrays) : MemSlot(a, top) = OwnSlot(top)
             /\ \A m \in 1 .. Len(buffered) : IsStore(m, "slot") => buffered[m].idx # top
  <2>1. bottom <= oend /\ View(0, bottom)
    BY DEF QueueInv, BoundInv, ViewInv
  <2>2. ASSUME NEW a \in array .. Len(arrays) PROVE MemSlot(a, top) = OwnSlot(top)
    <3>1. Visible(0, a) /\ a \in 1 .. Len(arrays)
      BY <1>2 DEF Visible
    <3>2. top \in top .. bottom - 1
      BY <1>2, <1>6
    <3>3. Covered(0, a, top)
      BY <2>1, <3>1, <3>2 DEF View
    <3> QED BY <3>3 DEF Covered
  <2>3. ASSUME NEW m \in 1 .. Len(buffered), IsStore(m, "slot") PROVE buffered[m].idx # top
    <3>1. bottom <= buffered[m].idx
      BY <2>3 DEF QueueInv, OrderInv
    <3> QED BY <1>2, <1>6, <3>1
  <2> QED BY <1>2, <1>6, <2>1, <2>2, <2>3
<1>7. spc'[h] \notin {"idle", "top"} /\ st'[h] < sb'[h] /\ st'[h] = top =>
        /\ top < oend
        /\ \A a \in array .. Len(arrays) : MemSlot(a, top) = OwnSlot(top)
        /\ \A m \in 1 .. Len(buffered) : IsStore(m, "slot") => buffered[m].idx # top
  BY <1>5, <1>6
<1>8. /\ st'[h] <= top /\ spc'[h] = "bottom"
      /\ \A g \in Thieves : g # h =>
           /\ spc'[g] = spc[g] /\ st'[g] = st[g] /\ sb'[g] = sb[g]
           /\ sary'[g] = sary[g] /\ sdest'[g] = sdest[g]
  BY <1>1, <1>5
<1>9. UNCHANGED <<mem, own, owner, pushed, done>>
  BY <1>1
<1> QED BY <1>3, <1>4, <1>7, <1>8, <1>9, ThiefMoves

\* So it has the item once it has copied the slot.
LEMMA StealCopySteps ==
  ASSUME QueueInv, NEW h \in Thieves, StealArray(h) \/ StealCopy(h) \/ StealCopied(h)
  PROVE  QueueInv'
<1>1. UNCHANGED <<mem, own, owner, st, sb, pushed, done>>
  BY DEF StealArray, StealCopy, StealCopied
<1>2. /\ spc \in [Thieves -> {"idle", "top", "bottom", "array", "copy", "cas"}]
      /\ st \in [Thieves -> Nat] /\ sb \in [Thieves -> Int]
      /\ sary \in [Thieves -> 1 .. Len(arrays)] /\ sdest \in [Thieves -> Values]
      /\ array \in 1 .. Len(arrays) /\ Len(arrays) \in Nat /\ Garbage \in Values
  BY DEF QueueInv, QueueTypeOK, Values
<1>3. /\ st[h] <= top
      /\ spc[h] \in {"array", "copy", "cas"} => st[h] < sb[h]
  BY DEF QueueInv, SightInv
<1>4. ASSUME spc[h] \notin {"idle", "top"}, st[h] < sb[h], st[h] = top
      PROVE  /\ top < oend
             /\ \A a \in array .. Len(arrays) : MemSlot(a, top) = OwnSlot(top)
             /\ \A m \in 1 .. Len(buffered) : IsStore(m, "slot") => buffered[m].idx # top
             /\ spc[h] # "bottom" => MemSlot(sary[h], top) = OwnSlot(top)
             /\ spc[h] \in {"copy", "cas"} => sdest[h] = OwnSlot(top)
  BY <1>4 DEF QueueInv, SightInv, Sighted
<1>5. Slot(h) \in Values
  <2>1. \A i \in Int : MemSlot(sary[h], i) \in Values
    BY <1>2, TypeFacts DEF QueueInv
  <2> QED BY <1>2, <2>1 DEF Slot
<1>6. CASE StealArray(h)
  <2>1. /\ spc[h] = "bottom" /\ st[h] < sb[h] /\ UNCHANGED sdest
        /\ spc' = [spc EXCEPT ![h] = "array"] /\ sary' = [sary EXCEPT ![h] = array]
    BY <1>6 DEF StealArray, StealGoto
  <2>2. /\ spc' \in [Thieves -> {"idle", "top", "bottom", "array", "copy", "cas"}]
        /\ sary' \in [Thieves -> 1 .. Len(arrays)]
    BY <1>2, <2>1
  <2>3. /\ spc'[h] = "array" /\ sary'[h] = array
        /\ \A g \in Thieves : g # h => spc'[g] = spc[g] /\ sary'[g] = sary[g]
    BY <1>2, <2>1
  <2>4. array \in array .. Len(arrays)
    BY <1>2
  <2>5. st'[h] < sb'[h] /\ st'[h] = top =>
          /\ top < oend
          /\ \A a \in array .. Len(arrays) : MemSlot(a, top) = OwnSlot(top)
          /\ \A m \in 1 .. Len(buffered) : IsStore(m, "slot") => buffered[m].idx # top
          /\ \A a : a = sary'[h] => MemSlot(a, top) = OwnSlot(top)
    BY <1>1, <1>4, <2>1, <2>3, <2>4
  <2> QED BY <1>1, <1>2, <1>3, <2>1, <2>2, <2>3, <2>5, ThiefMoves
<1>7. CASE StealCopy(h)
  <2>1. /\ spc[h] = "array" /\ UNCHANGED sary
        /\ spc' = [spc EXCEPT ![h] = "copy"] /\ sdest' = [sdest EXCEPT ![h] = Slot(h)]
    BY <1>7 DEF StealCopy, StealGoto
  <2>2. /\ spc' \in [Thieves -> {"idle", "top", "bottom", "array", "copy", "cas"}]
        /\ sdest' \in [Thieves -> Values]
    BY <1>2, <1>5, <2>1
  <2>3. /\ spc'[h] = "copy" /\ sdest'[h] = Slot(h)
        /\ \A g \in Thieves : g # h => spc'[g] = spc[g] /\ sdest'[g] = sdest[g]
    BY <1>2, <2>1
  <2>4. st[h] = top => Slot(h) = MemSlot(sary[h], top)
    BY DEF Slot
  <2>5. st'[h] < sb'[h] /\ st'[h] = top =>
          /\ top < oend
          /\ \A a \in array .. Len(arrays) : MemSlot(a, top) = OwnSlot(top)
          /\ \A m \in 1 .. Len(buffered) : IsStore(m, "slot") => buffered[m].idx # top
          /\ \A a : a = sary'[h] => MemSlot(a, top) = OwnSlot(top)
          /\ sdest'[h] = OwnSlot(top)
    BY <1>1, <1>4, <2>1, <2>3, <2>4
  <2>6. st'[h] <= top /\ st'[h] < sb'[h]
    BY <1>1, <1>3, <2>1
  <2> QED BY <1>1, <1>2, <2>1, <2>2, <2>3, <2>5, <2>6, ThiefMoves
<1>8. CASE StealCopied(h)
  <2>1. /\ spc[h] = "copy" /\ UNCHANGED sary
        /\ spc' = [spc EXCEPT ![h] = "cas"]
        /\ sdest' = [sdest EXCEPT ![h] = IF sdest[h] = Slot(h) THEN sdest[h] ELSE Garbage]
    BY <1>8 DEF StealCopied, StealGoto
  <2>2. /\ spc' \in [Thieves -> {"idle", "top", "bottom", "array", "copy", "cas"}]
        /\ sdest' \in [Thieves -> Values]
    BY <1>2, <2>1
  <2>3. /\ spc'[h] = "cas" /\ (sdest[h] = Slot(h) => sdest'[h] = sdest[h])
        /\ \A g \in Thieves : g # h => spc'[g] = spc[g] /\ sdest'[g] = sdest[g]
    BY <1>2, <2>1
  <2>4. st[h] = top => Slot(h) = MemSlot(sary[h], top)
    BY DEF Slot
  <2>5. st'[h] < sb'[h] /\ st'[h] = top =>
          /\ top < oend
          /\ \A a \in array .. Len(arrays) : MemSlot(a, top) = OwnSlot(top)
          /\ \A m \in 1 .. Len(buffered) : IsStore(m, "slot") => buffered[m].idx # top
          /\ \A a : a = sary'[h] => MemSlot(a, top) = OwnSlot(top)
          /\ sdest'[h] = OwnSlot(top)
    BY <1>1, <1>4, <2>1, <2>3, <2>4
  <2>6. st'[h] <= top /\ st'[h] < sb'[h]
    BY <1>1, <1>3, <2>1
  <2> QED BY <1>1, <1>2, <2>1, <2>2, <2>3, <2>5, <2>6, ThiefMoves
<1> QED BY <1>6, <1>7, <1>8

-----------------------------------------------------------------------------
(* The theorems.                                                             *)

LEMMA QueueStarts == QueueInit => QueueInv
<1> SUFFICES ASSUME QueueInit PROVE QueueInv
  OBVIOUS
<1> DEFINE z == create_ws_array(InitCap)
<1>1. /\ z.capacity = InitCap /\ z.buffer \in [0 .. InitCap - 1 -> Values] /\ z \in Arrays
      /\ \A i \in 0 .. InitCap - 1 : z.buffer[i] = Garbage
  <2>1. [i \in 0 .. InitCap - 1 |-> Garbage] \in [0 .. InitCap - 1 -> Values]
    BY DEF Values
  <2> QED BY <2>1, QueueAssumption, ArrayFacts DEF create_ws_array
<1> HIDE DEF z
<1>2. arrays = <<z>> /\ oslots = z.buffer /\ array = 1
  BY DEF QueueInit, z
<1>3. arrays \in Seq(Arrays) /\ Len(arrays) = 1 /\ arrays[1] = z
  BY <1>1, <1>2
<1>4. ocap = InitCap
  BY <1>1, <1>3 DEF ocap
<1>5. top = 0 /\ bottom = 0 /\ obottom = 0 /\ buffered = <<>> /\ pushed = 0 /\ opc = "idle"
  BY DEF QueueInit
<1>6. oend = 0
  BY <1>5 DEF oend
<1>7. Len(buffered) = 0 /\ \A m \in 1 .. Len(buffered) : FALSE
  BY <1>5
<1>8. /\ done = [x \in Values |-> 0] /\ ob = 0 /\ ot = 0 /\ odest = Garbage
      /\ spc = [h \in Thieves |-> "idle"] /\ st = [h \in Thieves |-> 0]
      /\ sb = [h \in Thieves |-> 0] /\ sary = [h \in Thieves |-> 1]
      /\ sdest = [h \in Thieves |-> Garbage]
  BY DEF QueueInit, Values
<1>9. QueueTypeOK
  <2>1. buffered \in Seq(Stores)
    BY <1>5
  <2>2. pushed \in 0 .. MaxItems
    BY <1>5, QueueAssumption
  <2>3. oslots \in [0 .. ocap - 1 -> Values]
    BY <1>1, <1>2, <1>4
  <2>4. /\ spc \in [Thieves -> {"idle", "top", "bottom", "array", "copy", "cas"}]
        /\ st \in [Thieves -> Nat] /\ sb \in [Thieves -> Int]
        /\ sary \in [Thieves -> 1 .. Len(arrays)] /\ sdest \in [Thieves -> Values]
        /\ done \in [Values -> Nat] /\ odest \in Values
    BY <1>3, <1>8 DEF Values
  <2> QED BY <1>2, <1>3, <1>5, <1>8, <2>1, <2>2, <2>3, <2>4 DEF QueueTypeOK
<1>10. BoundInv /\ OrderInv /\ NewestInv /\ SlotInv
  BY <1>2, <1>3, <1>5, <1>6, <1>7 DEF BoundInv, OrderInv, NewestInv, SlotInv
<1>11. ViewInv
  <2>1. \A i \in top .. 0 - 1 : FALSE
    BY <1>5
  <2>2. \A c \in 1 .. Len(arrays) : 0 - top <= arrays[c].capacity
    BY <1>1, <1>3, <1>5, QueueAssumption
  <2>3. \A n : View(n, 0)
    BY <2>1, <2>2 DEF View
  <2> QED BY <1>5, <1>6, <1>7, <2>3 DEF ViewInv
<1>12. OwnerInv
  BY <1>5 DEF OwnerInv
<1>13. SightInv
  BY <1>5, <1>8 DEF SightInv, Sighted
<1>14. ItemInv
  <2>1. \A i \in top .. oend - 1 : FALSE
    BY <1>5, <1>6
  <2>2. \A x \in Untaken : FALSE
    BY <1>5 DEF Untaken
  <2>3. \A x \in Values : done[x] = 0
    BY <1>8
  <2>4. (\A x \in Items : done[x] = 0) /\ done[Garbage] = 0
    BY <2>3 DEF Values
  <2> QED BY <2>1, <2>2, <2>4 DEF ItemInv
<1> QED BY <1>9, <1>10, <1>11, <1>12, <1>13, <1>14 DEF QueueInv

LEMMA QueueStep == QueueInv /\ [QueueNext]_queueVars => QueueInv'
<1> SUFFICES ASSUME QueueInv, [QueueNext]_queueVars PROVE QueueInv'
  OBVIOUS
<1>1. CASE UNCHANGED queueVars
  BY <1>1, StutterStep
<1>2. CASE QueueOwner
  BY <1>2, PushLoadStep, PushStep, PopStoreStep, PopTakeStep, PopLastStep, PopEmpty, PopWonStep
     DEF QueueOwner
<1>3. ASSUME NEW n \in 1 .. Len(buffered), Commit(n) PROVE QueueInv'
  BY <1>3, CommitStep
<1>4. ASSUME NEW h \in Thieves, Thief(h) PROVE QueueInv'
  BY <1>4, ThiefIdle, StealBottomStep, StealCopySteps, StealWonStep DEF Thief
<1> QED BY <1>1, <1>2, <1>3, <1>4 DEF QueueNext

\* The inductive invariant of the queue holds in every reachable state.
THEOREM QueueInvHolds == QueueSpec => []QueueInv
  BY QueueStarts, QueueStep, PTL DEF QueueSpec

\* The queue in memory, the stores that are under way and the locals of
\* ws_queue_push, _pop and _steal_from keep their types.
THEOREM QueueTypeCorrect == QueueSpec => []QueueTypeOK
<1>1. QueueInv => QueueTypeOK
  BY DEF QueueInv
<1> QED BY QueueInvHolds, <1>1, PTL

\* What ws_queue_push stored and nobody took is in the array a thief loads,
\* between top and bottom, whatever was grown, popped or stolen meanwhile.
THEOREM QueueHoldsTheRest == QueueSpec => []HoldsTheRest
<1>1. ASSUME QueueInv, opc = "idle", buffered = <<>>
      PROVE  /\ bottom - top = Cardinality(Untaken)
             /\ {MemSlot(array, i) : i \in top .. bottom - 1} = Untaken
  <2> DEFINE I == top .. bottom - 1
  <2>1. top \in Nat /\ bottom \in Int /\ array \in 1 .. Len(arrays) /\ bottom = oend /\ top <= bottom
    BY <1>1 DEF QueueInv, QueueTypeOK, OrderInv, BoundInv, oend
  <2>2. ASSUME NEW i \in I PROVE MemSlot(array, i) = OwnSlot(i)
    <3>1. Visible(0, array)
      BY <2>1 DEF Visible
    <3>2. Covered(0, array, i)
      BY <1>1, <2>1, <3>1 DEF QueueInv, ViewInv, View
    <3> QED BY <3>2 DEF Covered
  <2>3. /\ \A i \in I : OwnSlot(i) \in Untaken
        /\ \A i, j \in I : OwnSlot(i) = OwnSlot(j) => i = j
        /\ \A x \in Untaken : \E i \in I : OwnSlot(i) = x
    BY <1>1, <2>1 DEF QueueInv, ItemInv
  <2>4. {MemSlot(array, i) : i \in I} = Untaken
    BY <2>2, <2>3
  <2> DEFINE f == [i \in I |-> OwnSlot(i)]
  <2> HIDE DEF I
  <2>5. f \in Bijection(I, Untaken)
    BY <2>3 DEF Bijection, Injection, Surjection, IsInjective
  <2>6. ExistsBijection(I, Untaken)
    BY <2>5 DEF ExistsBijection
  <2>7. IsFiniteSet(I) /\ Cardinality(I) = bottom - top
    <3>1. bottom - 1 \in Int /\ top \in Int
      BY <2>1
    <3>2. /\ IsFiniteSet(top .. bottom - 1)
          /\ Cardinality(top .. bottom - 1) = IF top > bottom - 1 THEN 0 ELSE (bottom - 1) - top + 1
      BY <3>1, FS_Interval
    <3>3. (IF top > bottom - 1 THEN 0 ELSE (bottom - 1) - top + 1) = bottom - top
      BY <2>1
    <3> QED BY <3>2, <3>3 DEF I
  <2>8. Cardinality(Untaken) = bottom - top
    BY <2>6, <2>7, FS_Bijection
  <2> QED BY <2>4, <2>8 DEF I
<1>2. QueueInv => HoldsTheRest
  BY <1>1 DEF HoldsTheRest
<1> QED BY QueueInvHolds, <1>2, PTL

\* ws_queue_pop returns NULL only when every item pushed so far was taken.
THEOREM QueueEmptyPop == QueueSpec => EmptyPopIsTrue
<1>1. ASSUME QueueInv, [QueueNext]_queueVars, opc # "idle", opc' = "idle", pushed' = pushed, done' = done
      PROVE  \A x \in 1 .. pushed : Taken(x)
  <2>1. PopNone \/ PopLost
    <3>1. CASE UNCHANGED queueVars
      BY <1>1, <3>1 DEF queueVars, owner
    <3>2. ASSUME NEW n \in 1 .. Len(buffered), Commit(n) PROVE FALSE
      BY <1>1, <3>2 DEF Commit, owner
    <3>3. ASSUME NEW h \in Thieves, Thief(h) PROVE FALSE
      BY <1>1, <3>3 DEF Thief, StealTop, StealBottom, StealNone, StealArray, StealCopy,
                        StealCopied, StealWon, StealLost, owner
    <3>4. CASE PushLoad \/ PopStore \/ PopLast
      BY <1>1, <3>4 DEF PushLoad, PopStore, PopLast
    <3>5. CASE PushStore \/ PushGrow
      <4>1. pushed' = pushed + 1 /\ pushed \in Nat
        BY <1>1, <3>5, PushEffect, QueueAssumption DEF QueueInv, QueueTypeOK
      <4> QED BY <1>1, <4>1
    <3>6. CASE PopTake
      <4>1. OwnSlot(ob) \in Untaken /\ Untaken' = Untaken \ {OwnSlot(ob)}
        BY <1>1, <3>6, PopTakeStep
      <4>2. Untaken' = Untaken
        BY <1>1 DEF Untaken, Taken
      <4> QED BY <4>1, <4>2
    <3>7. CASE PopWon
      <4>1. odest \in Untaken /\ Untaken' = Untaken \ {odest}
        BY <1>1, <3>7, PopWonStep
      <4>2. Untaken' = Untaken
        BY <1>1 DEF Untaken, Taken
      <4> QED BY <4>1, <4>2
    <3> QED BY <1>1, <3>1, <3>2, <3>3, <3>4, <3>5, <3>6, <3>7 DEF QueueNext, QueueOwner
  <2>2. top = oend /\ oend \in Int
    BY <1>1, <2>1, PopEmpty, TypeFacts DEF QueueInv
  <2>3. \A i \in top .. oend - 1 : FALSE
    BY <2>2
  <2>4. \A x \in Untaken : FALSE
    BY <1>1, <2>3 DEF QueueInv, ItemInv
  <2> QED BY <2>4 DEF Untaken
<1>2. QueueInv /\ [QueueNext]_queueVars =>
        [opc # "idle" /\ opc' = "idle" /\ pushed' = pushed /\ done' = done
           => \A x \in 1 .. pushed : Taken(x)]_queueVars
  BY <1>1
<1> QED BY QueueInvHolds, <1>2, PTL DEF QueueSpec, EmptyPopIsTrue

\* Every step of the queue is one of the bag, or changes nothing there.
LEMMA BagStep ==
  ASSUME QueueInv, [QueueNext]_queueVars
  PROVE  [\E x \in Items : Bag!Push(x) \/ Bag!Take(x)]_<<Untaken, [x \in Items |-> done[x]]>>
<1>1. QueueTypeOK /\ ItemInv
  BY DEF QueueInv
<1>2. ASSUME UNCHANGED <<pushed, done>>
      PROVE  UNCHANGED <<Untaken, [x \in Items |-> done[x]]>>
  BY <1>2 DEF Untaken, Taken
<1>3. ASSUME NEW y \in Untaken, Untaken' = Untaken \ {y}, done' = [done EXCEPT ![y] = @ + 1]
      PROVE  \E x \in Items : Bag!Take(x)
  <2>1. y \in Items /\ done \in [Values -> Nat] /\ ~Taken(y) /\ done[y] \in {0, 1} /\ y \in Values
    BY <1>1, QueueAssumption DEF Untaken, Items, ItemInv, QueueTypeOK, Values
  <2>2. done[y] = 0
    BY <2>1 DEF Taken
  <2>3. [x \in Items |-> done'[x]] = [[x \in Items |-> done[x]] EXCEPT ![y] = 1]
    <3>1. \A x \in Items : x \in Values
      BY DEF Values
    <3>2. \A x \in Items : done'[x] = IF x = y THEN 1 ELSE done[x]
      BY <1>3, <2>1, <2>2, <3>1
    <3> QED BY <2>1, <3>2
  <2> QED BY <1>3, <2>1, <2>3 DEF Bag!Take
<1>4. CASE UNCHANGED queueVars
  BY <1>2, <1>4 DEF queueVars
<1>5. ASSUME NEW n \in 1 .. Len(buffered), Commit(n)
      PROVE  UNCHANGED <<pushed, done>>
  BY <1>5 DEF Commit
<1>6. ASSUME NEW h \in Thieves, Thief(h)
      PROVE  UNCHANGED <<pushed, done>> \/ \E x \in Items : Bag!Take(x)
  <2>1. CASE StealWon(h)
    <3>1. sdest[h] \in Untaken /\ Untaken' = Untaken \ {sdest[h]}
      BY <2>1, StealWonStep
    <3>2. done' = [done EXCEPT ![sdest[h]] = @ + 1]
      BY <2>1 DEF StealWon, HandOut
    <3> QED BY <1>3, <3>1, <3>2
  <2> QED BY <1>6, <2>1 DEF Thief, StealTop, StealBottom, StealNone, StealArray, StealCopy,
                            StealCopied, StealLost
<1>7. CASE PushLoad \/ PopStore \/ PopLast \/ PopNone \/ PopLost
  BY <1>2, <1>7 DEF PushLoad, PopStore, PopLast, PopNone, PopLost
<1>8. CASE PopTake
  <2>1. OwnSlot(ob) \in Untaken /\ Untaken' = Untaken \ {OwnSlot(ob)}
    BY <1>8, PopTakeStep
  <2>2. done' = [done EXCEPT ![OwnSlot(ob)] = @ + 1]
    BY <1>8 DEF PopTake, HandOut
  <2> QED BY <1>3, <2>1, <2>2
<1>9. CASE PopWon
  <2>1. odest \in Untaken /\ Untaken' = Untaken \ {odest}
    BY <1>9, PopWonStep
  <2>2. done' = [done EXCEPT ![odest] = @ + 1]
    BY <1>9 DEF PopWon, HandOut
  <2> QED BY <1>3, <2>1, <2>2
<1>10. CASE PushStore \/ PushGrow
  <2>1. pushed' = pushed + 1 /\ pushed' <= MaxItems /\ done' = done
    BY <1>10, PushEffect
  <2>2. pushed \in Nat
    BY <1>1, QueueAssumption DEF QueueTypeOK
  <2>3. pushed + 1 \in Items /\ pushed + 1 > pushed
    BY <2>1, <2>2, QueueAssumption DEF Items
  <2>4. done[pushed + 1] = 0
    BY <1>1, <2>3 DEF ItemInv
  <2>5. pushed + 1 \notin Untaken
    BY <2>2 DEF Untaken
  <2>6. Untaken' = Untaken \cup {pushed + 1}
    <3>1. \A x : x \in 1 .. pushed + 1 <=> x \in 1 .. pushed \/ x = pushed + 1
      BY <2>2
    <3>2. ~Taken(pushed + 1)
      BY <2>4 DEF Taken
    <3>3. \A x : x \in Untaken' <=> x \in 1 .. pushed + 1 /\ ~Taken(x)
      BY <2>1 DEF Untaken, Taken
    <3>4. \A x : x \in Untaken <=> x \in 1 .. pushed /\ ~Taken(x)
      BY DEF Untaken
    <3> QED BY <3>1, <3>2, <3>3, <3>4
  <2>7. Bag!Push(pushed + 1)
    BY <2>1, <2>3, <2>4, <2>5, <2>6 DEF Bag!Push
  <2> QED BY <2>3, <2>7
<1> QED BY <1>2, <1>4, <1>5, <1>6, <1>7, <1>8, <1>9, <1>10 DEF QueueNext, QueueOwner

\* The queue implements the bag of work: with any number of thieves, however
\* late the owner's stores reach memory, an item is handed out once and a slot
\* that holds none never.
THEOREM QueueImplementsBag == QueueSpec => ImplementsBag
<1>1. QueueInit => Bag!Init
  BY QueueAssumption DEF QueueInit, Bag!Init, Untaken, Items
<1>2. QueueInv /\ [QueueNext]_queueVars =>
        [\E x \in Items : Bag!Push(x) \/ Bag!Take(x)]_<<Untaken, [x \in Items |-> done[x]]>>
  BY BagStep
<1>3. QueueInv => done[Garbage] = 0
  BY DEF QueueInv, ItemInv
<1> QED BY <1>1, <1>2, <1>3, QueueInvHolds, PTL DEF QueueSpec, ImplementsBag, Bag!Spec
====
