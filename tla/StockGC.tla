---- MODULE StockGC ----
(***************************************************************************)
(* The generational mark-and-sweep collector of src/src/gc-stock.c: the    *)
(* write barrier and its remembered set, the image objects that form a     *)
(* third, permanent generation, the parallel mark loop with its            *)
(* termination protocol, weak references, finalizers and the sweep.        *)
(*                                                                         *)
(* An object is a cell with one pointer slot; that of a task is in its     *)
(* stack.  `root` stands for what the running stacks and the globals hold; *)
(* image objects are globals.                                              *)
(* The cells of the thread-local remsets are one bag, because nothing      *)
(* depends on which thread remembers an object.  A mark queue is a set:    *)
(* the order of WorkStealingQueue does not matter here.                    *)
(***************************************************************************)
EXTENDS Naturals, FiniteSets, FiniteSetsExt

CONSTANTS
  Heap,       \* cells the allocator may hand out
  Watched,    \* those a weak reference or a finalizer may be put on
  Tasks,      \* those that are tasks, whose stack is written without barrier
  MultiPass,  \* those gc_mark_outrefs scans in passes: wait entries, cancel sources
  MaxPasses,  \* the most such passes (3 in the code)
  MaxRemset,  \* bound: an object remembered that often is not written again
  Image,      \* objects of the system image, never swept
  Thread,     \* mutator threads
  Collector,  \* parallel collector threads
  Initiator,  \* the mutator that runs the collection, as a marker
  WorkFactor, \* work per marking thread that calls in another (16 in the code)
  NULL

ASSUME StockGCAssumption ==
  /\ Watched \cup Tasks \cup MultiPass \subseteq Heap /\ Heap \cap Image = {}
  /\ MaxPasses \in Nat \ {0} /\ MaxRemset \in Nat \ {0}
  /\ Initiator \notin Collector
  /\ IsFiniteSet(Collector)
  /\ NULL \notin Heap \cup Image \cup Thread \cup Collector \cup {Initiator}
  /\ NULL \notin (Heap \cup Image) \X Nat
  /\ NULL \notin [at : {"wb", "queue"}, parent : Heap \cup Image, ptr : Heap]
  /\ WorkFactor \in Nat \ {0}

VARIABLES
  alloc,        \* the cells in use
  bits,         \* the gc bits of each object's header
  field,        \* the pointer each object holds
  root,         \* the objects the mutators hold
  remset,       \* how often each object is remembered
  image_remset, \* the image objects that were ever written
  weak,         \* the value of a (live) WeakRef
  finalizers,   \* the threads' finalizer lists
  finalizer_list_marked,
  to_finalize,
  wb,           \* per thread, the write barrier it is in the middle of
  phase,        \* what the collection is doing
  recollect,    \* a second collection follows at once
  prev_sweep_full,
  queue,        \* per marker, its mark queue
  hand,         \* per marker, the item gc_mark_outrefs is working on
  metadata,     \* the objects this collection's gc_setmark has accounted for
  victims,      \* per marker, the queues it has still to try to steal from
  mpc,          \* per marker, where it is in gc_mark_loop
  gc_n_threads_marking,
  observed      \* n_threads_marking as the holder of the observer lock read it

heapVars  == <<alloc, field, root>>
barVars   == <<bits, remset, image_remset>>
finVars   == <<weak, finalizers, finalizer_list_marked, to_finalize>>
markVars  == <<queue, hand, metadata, victims, mpc, gc_n_threads_marking, observed>>
cycleVars == <<phase, recollect, prev_sweep_full>>
vars == <<heapVars, barVars, finVars, wb, cycleVars, markVars>>

Obj    == Heap \cup Image
Marker == Collector \cup {Initiator}
Others(m) == Marker \ {m}

-----------------------------------------------------------------------------
(* Header bits *)
GC_CLEAN == 0
GC_MARKED == 1
GC_OLD == 2
GC_OLD_MARKED == 3
gc_marked(b) == b \in {GC_MARKED, GC_OLD_MARKED}
gc_old(b) == b \in {GC_OLD, GC_OLD_MARKED}

\* The bits gc_try_setmark_tag leaves in a header it finds unmarked.
SetMark(b) == IF gc_old(b) THEN GC_OLD_MARKED ELSE GC_MARKED

\* What a mark queue holds.  An object that was remembered is queued under a
\* tag, without being claimed, once for every time it is remembered.
Claimed(o) == <<o, 0>>
Tagged(o, n) == {<<o, k>> : k \in 1..n}

\* The objects of S and those reached from them through objects of Via: the
\* smallest set with S that no pointer into Via leads out of.
Closed(T, Via) == \A o \in T : field[o] \in Via => field[o] \in T
Closure(S, Via) ==
  {o \in Obj : \A T \in SUBSET Obj : S \subseteq T /\ Closed(T, Via) => o \in T}

-----------------------------------------------------------------------------
(* Mutators *)
Mutating(t) == phase = "none" /\ wb[t] = NULL

Alloc(t, o) ==
  /\ Mutating(t) /\ o \notin alloc
  /\ alloc' = alloc \cup {o}
  /\ bits' = [bits EXCEPT ![o] = GC_CLEAN]
  /\ field' = [field EXCEPT ![o] = NULL]
  /\ root' = root \cup {o}
  /\ UNCHANGED <<remset, image_remset, finVars, wb, cycleVars, markVars>>

Load(t, o) ==
  /\ Mutating(t) /\ o \in root \cup Image /\ field[o] \in Heap \ root
  /\ root' = root \cup {field[o]}
  /\ UNCHANGED <<alloc, field, barVars, finVars, wb, cycleVars, markVars>>

Drop(t, o) ==
  /\ Mutating(t) /\ o \in root
  /\ \A u \in Thread : wb[u] # NULL => o \notin {wb[u].parent, wb[u].ptr}
  /\ root' = root \ {o}
  /\ UNCHANGED <<alloc, field, barVars, finVars, wb, cycleVars, markVars>>

\* A store changes the object's pointer.  What is stored is a heap object: a
\* pointer to an image object, which is marked for ever, needs no care.
MayStore(t, o, c) ==
  /\ Mutating(t) /\ c \in root \cup {NULL} /\ field[o] # c
  /\ remset[o] < MaxRemset

\* A pointer store; jl_gc_wb follows, with no safepoint in between.
Store(t, o, c) ==
  /\ MayStore(t, o, c) /\ o \in root \cup Image
  /\ field' = [field EXCEPT ![o] = c]
  /\ wb' = [wb EXCEPT ![t] = IF c = NULL THEN NULL ELSE [at |-> "wb", parent |-> o, ptr |-> c]]
  /\ UNCHANGED <<alloc, root, barVars, finVars, cycleVars, markVars>>

\* A task puts a pointer on its stack: no barrier follows.
StackStore(t, o, c) ==
  /\ MayStore(t, o, c) /\ o \in root \cap Tasks
  /\ field' = [field EXCEPT ![o] = c]
  /\ UNCHANGED <<alloc, root, barVars, finVars, wb, cycleVars, markVars>>

\* mutant: image objects are treated like any old object.
NeedsQueueAlike(o, c) ==
  bits[o] = GC_OLD_MARKED /\ ~gc_marked(bits[c])

\* Must the barrier remember `o`, which now points to `c`?
NeedsQueue(o, c) ==
  /\ bits[o] = GC_OLD_MARKED
  /\ (o \in Image \ image_remset) \/ ~gc_marked(bits[c])

jl_gc_wb(t) ==
  /\ wb[t] # NULL /\ wb[t].at = "wb"
  /\ wb' = [wb EXCEPT ![t] = IF NeedsQueue(wb[t].parent, wb[t].ptr)
                               THEN [@ EXCEPT !.at = "queue"] ELSE NULL]
  /\ UNCHANGED <<heapVars, barVars, finVars, cycleVars, markVars>>

\* mutant: the bit is cleared, but every thread that does so remembers.
RememberAlways(o) ==
  /\ bits' = [bits EXCEPT ![o] = GC_MARKED]
  /\ remset' = [remset EXCEPT ![o] = @ + 1]
  /\ image_remset' = image_remset \cup ({o} \cap Image)

\* Clears GC_OLD atomically; only the thread that cleared it remembers.
Remember(o) ==
  /\ bits' = [bits EXCEPT ![o] = GC_MARKED]
  /\ IF gc_old(bits[o])
       THEN /\ remset' = [remset EXCEPT ![o] = @ + 1]
            /\ image_remset' = image_remset \cup ({o} \cap Image)
       ELSE UNCHANGED <<remset, image_remset>>

jl_gc_queue_root(t) ==
  /\ wb[t] # NULL /\ wb[t].at = "queue"
  /\ Remember(wb[t].parent)
  /\ wb' = [wb EXCEPT ![t] = NULL]
  /\ UNCHANGED <<heapVars, finVars, cycleVars, markVars>>

\* WeakRef(o): the weak reference is aimed at an object a mutator holds.
NewWeakRef(t, o) ==
  /\ Mutating(t) /\ o \in root \cap Watched /\ weak # o
  /\ weak' = o
  /\ UNCHANGED <<heapVars, barVars, finalizers, finalizer_list_marked, to_finalize, wb, cycleVars, markVars>>

\* The value of a weak reference becomes a strong one.
LoadWeakRef(t) ==
  /\ Mutating(t) /\ weak \in Heap \ root
  /\ root' = root \cup {weak}
  /\ UNCHANGED <<alloc, field, barVars, finVars, wb, cycleVars, markVars>>

jl_gc_add_finalizer(t, o) ==
  /\ Mutating(t) /\ o \in root \cap Watched
  /\ o \notin finalizers \cup finalizer_list_marked \cup to_finalize
  /\ finalizers' = finalizers \cup {o}
  /\ UNCHANGED <<heapVars, barVars, weak, finalizer_list_marked, to_finalize, wb, cycleVars, markVars>>

jl_finalize_th(t, o) ==
  /\ Mutating(t) /\ o \in root \cap (finalizers \cup finalizer_list_marked)
  /\ finalizers' = finalizers \ {o}
  /\ finalizer_list_marked' = finalizer_list_marked \ {o}
  /\ UNCHANGED <<heapVars, barVars, weak, to_finalize, wb, cycleVars, markVars>>

\* The copied list becomes a GC frame while the finalizers run.
run_finalizers(t) ==
  /\ Mutating(t) /\ to_finalize # {}
  /\ root' = root \cup to_finalize
  /\ to_finalize' = {}
  /\ UNCHANGED <<alloc, field, barVars, weak, finalizers, finalizer_list_marked, wb, cycleVars, markVars>>

-----------------------------------------------------------------------------
(* A collection starts: the world is stopped, every thread at a safepoint. *)

\* The roots and the remset of the threads are spread over the collectors'
\* queues; the global roots and (after a full sweep) the image remset go to
\* the initiator's.
QueueRoots ==
  LET remembered == {o \in Obj : remset[o] > 0}
      claims == {o \in root : ~gc_marked(bits[o])}
      work == {Claimed(o) : o \in claims} \cup UNION {Tagged(o, remset[o]) : o \in remembered}
      image == IF prev_sweep_full THEN {<<o, remset[o] + 1>> : o \in image_remset} ELSE {}
  IN  /\ bits' = [o \in Obj |-> IF o \in remembered THEN GC_OLD_MARKED
                                ELSE IF o \in claims THEN SetMark(bits[o]) ELSE bits[o]]
      /\ remset' = [o \in Obj |-> 0]
      /\ \E dest \in [work -> Marker] :
           /\ \A item \in work : dest[item] = Initiator => item[2] = 0
           /\ queue' = [m \in Marker |-> {item \in work : dest[item] = m}
                                         \cup (IF m = Initiator THEN image ELSE {})]

\* _jl_gc_collect up to gc_mark_loop, and that by the initiator up to
\* gc_mark_and_steal.
StartCollect ==
  /\ phase = "none" \/ (phase = "swept" /\ recollect)
  /\ \A t \in Thread : wb[t] = NULL
  /\ QueueRoots
  /\ phase' = "mark"
  /\ mpc' = [mpc EXCEPT ![Initiator] = "mark"]
  /\ victims' = [victims EXCEPT ![Initiator] = Others(Initiator)]
  /\ gc_n_threads_marking' = gc_n_threads_marking + 1
  /\ UNCHANGED <<heapVars, image_remset, finVars, wb, recollect, prev_sweep_full, hand, metadata, observed>>

-----------------------------------------------------------------------------
(* gc_mark_and_steal *)
\* gc_ptr_queue_pop on the own queue.
Pop(m, item) ==
  /\ mpc[m] = "mark" /\ hand[m] = NULL /\ item \in queue[m]
  /\ queue' = [queue EXCEPT ![m] = @ \ {item}]
  /\ hand' = [hand EXCEPT ![m] = item]
  /\ UNCHANGED <<heapVars, barVars, finVars, wb, cycleVars, metadata, victims, mpc, gc_n_threads_marking, observed>>

Stealing(m) == mpc[m] = "mark" /\ hand[m] = NULL /\ queue[m] = {}

\* A steal.  `losers` are other thieves at the same queue whose exchange of
\* `top` fails against this one: their attempt returns NULL although the
\* queue may hold more, and they go on to the next queue.
Steal(m, v, item, losers) ==
  /\ Stealing(m) /\ v \in victims[m] /\ item \in queue[v]
  /\ losers \subseteq {u \in Others(m) : Stealing(u) /\ v \in victims[u]}
  /\ queue' = [queue EXCEPT ![v] = @ \ {item}]
  /\ hand' = [hand EXCEPT ![m] = item]
  /\ victims' = [u \in Marker |-> CASE u = m -> Others(m)
                                   [] u \in losers -> victims[u] \ {v}
                                   [] OTHER -> victims[u]]
  /\ UNCHANGED <<heapVars, barVars, finVars, wb, cycleVars, metadata, mpc, gc_n_threads_marking, observed>>

StealNothing(m, v) ==
  /\ Stealing(m) /\ v \in victims[m] /\ queue[v] = {}
  /\ victims' = [victims EXCEPT ![m] = @ \ {v}]
  /\ UNCHANGED <<heapVars, barVars, finVars, wb, cycleVars, queue, hand, metadata, mpc, gc_n_threads_marking, observed>>

\* The object is old and refers to one that is young, as a task is taken to
\* do in any case.
RefersYoung(o) ==
  gc_old(bits[o]) /\ (o \in Tasks \/ (field[o] # NULL /\ ~gc_old(bits[field[o]])))

\* Scans the object in hand.  Each pass over it that meets a young object
\* remembers it; in a wait entry or a cancel source up to `n` passes do.  The
\* metadata of its page is updated unless it is queued as a remembered one.
gc_mark_outrefs(m, n) ==
  /\ hand[m] # NULL
  /\ LET o == hand[m][1]
         c == field[o]
         claim == c # NULL /\ ~gc_marked(bits[c])
     IN  /\ n > 1 => o \in MultiPass /\ RefersYoung(o)
         /\ bits' = IF claim THEN [bits EXCEPT ![c] = SetMark(@)] ELSE bits
         /\ queue' = IF claim THEN [queue EXCEPT ![m] = @ \cup {Claimed(c)}] ELSE queue
         /\ remset' = IF RefersYoung(o) THEN [remset EXCEPT ![o] = @ + n] ELSE remset
         /\ metadata' = IF hand[m] = Claimed(o) THEN metadata \cup {o} ELSE metadata
  /\ hand' = [hand EXCEPT ![m] = NULL]
  /\ UNCHANGED <<heapVars, image_remset, finVars, wb, cycleVars, victims, mpc, gc_n_threads_marking, observed>>

\* mutant: a marker leaves as soon as its own queue is empty.
LeaveWithoutStealing(m) ==
  /\ Stealing(m)
  /\ gc_n_threads_marking' = gc_n_threads_marking - 1
  /\ mpc' = [mpc EXCEPT ![m] = "loop"]
  /\ UNCHANGED <<heapVars, barVars, finVars, wb, cycleVars, queue, hand, metadata, victims, observed>>

\* The end of gc_mark_and_steal: the own queue is empty, and an attempt on
\* every other queue has failed at some time.
LeaveMarkAndSteal(m) ==
  /\ Stealing(m) /\ victims[m] = {}
  /\ gc_n_threads_marking' = gc_n_threads_marking - 1
  /\ mpc' = [mpc EXCEPT ![m] = "loop"]
  /\ UNCHANGED <<heapVars, barVars, finVars, wb, cycleVars, queue, hand, metadata, victims, observed>>

-----------------------------------------------------------------------------
(* gc_mark_loop and gc_should_mark *)
ObserverLockFree == \A m \in Marker : mpc[m] \notin {"observing", "enough"}

\* The work in all queues, each of which is read without a lock.
Work == FoldSet(LAMBDA m, n : n + Cardinality(queue[m]), 0, Marker)
LotsOfWork == Work >= WorkFactor * observed

\* gc_should_mark takes gc_queue_observer_lock, or goes round its loop, and
\* finds threads marking.  A collector thread comes here from gc_mark_loop or
\* when jl_parallel_gc_threadfun has woken it; it is at "loop" in between.
ObserveMarking(m) ==
  /\ \/ mpc[m] = "loop" /\ ObserverLockFree
     \/ mpc[m] = "observing" /\ ~LotsOfWork
  /\ gc_n_threads_marking > 0
  /\ observed' = gc_n_threads_marking
  /\ mpc' = [mpc EXCEPT ![m] = "observing"]
  /\ UNCHANGED <<heapVars, barVars, finVars, wb, cycleVars, queue, hand, metadata, victims, gc_n_threads_marking>>

\* It counts enough work for one more thread ...
CountWork(m) ==
  /\ mpc[m] = "observing" /\ LotsOfWork
  /\ mpc' = [mpc EXCEPT ![m] = "enough"]
  /\ observed' = 0
  /\ UNCHANGED <<heapVars, barVars, finVars, wb, cycleVars, queue, hand, metadata, victims, gc_n_threads_marking>>

\* ... and joins in; meanwhile the work may be done and the counter be zero.
EnterMarkLoop(m) ==
  /\ mpc[m] = "enough"
  /\ gc_n_threads_marking' = gc_n_threads_marking + 1
  /\ mpc' = [mpc EXCEPT ![m] = "mark"]
  /\ victims' = [victims EXCEPT ![m] = Others(m)]
  /\ UNCHANGED <<heapVars, barVars, finVars, wb, cycleVars, queue, hand, metadata, observed>>

\* Or it finds no thread marking: gc_mark_loop is over for it.  The initiator
\* goes on to gc_mark_loop_barrier.
ObserveZero(m) ==
  /\ \/ mpc[m] = "loop" /\ ObserverLockFree
     \/ mpc[m] = "observing" /\ ~LotsOfWork
  /\ gc_n_threads_marking = 0
  /\ observed' = 0
  /\ mpc' = [mpc EXCEPT ![m] = IF m = Initiator THEN "idle" ELSE "loop"]
  /\ phase' = IF m = Initiator THEN "marked" ELSE phase
  /\ UNCHANGED <<heapVars, barVars, finVars, wb, recollect, prev_sweep_full, queue, hand, metadata, victims, gc_n_threads_marking>>

-----------------------------------------------------------------------------
(* After marking *)
Unmarked(S) == {o \in S : ~gc_marked(bits[o])}

\* mutant: weak references are cleared after the finalizers' objects are marked.
WeakAfter(revived) == IF weak # NULL /\ ~gc_marked(bits[weak]) /\ weak \notin revived THEN NULL ELSE weak

\* clear_weak_refs, before the objects of `revived` are marked for finalizers.
ClearedWeak(revived) == IF weak # NULL /\ ~gc_marked(bits[weak]) THEN NULL ELSE weak

\* sweep_finalizer_list: the objects found dead, and those now too old to be
\* looked at by a quick collection.  The list of the old ones is gone through
\* only when the last sweep was full and every mark starts afresh.  Objects of
\* `young` have a finalizer function that is not old yet.
FoundDead == Unmarked(finalizers \cup (IF prev_sweep_full THEN finalizer_list_marked ELSE {}))
FoundOld(young) == {o \in finalizers \ young : bits[o] = GC_OLD_MARKED}

\* What only finalizers can still reach; it is marked as if just allocated
\* (gc_mark_finlist on to_finalize, with mark_reset_age).
Revived == Closure(Unmarked(to_finalize \cup FoundDead), Unmarked(Obj))

\* From gc_mark_loop_barrier to the end of the mark phase: only the initiator
\* is at work.  It ends with gc_sync_all_caches.
FinishMark(young) ==
  /\ phase = "marked"
  /\ weak' = ClearedWeak(Revived)
  /\ finalizers' = finalizers \ (FoundDead \cup FoundOld(young))
  /\ finalizer_list_marked' = (finalizer_list_marked \ FoundDead) \cup FoundOld(young)
  /\ to_finalize' = to_finalize \cup FoundDead
  /\ bits' = [o \in Obj |-> IF o \in Revived THEN GC_MARKED ELSE bits[o]]
  /\ phase' = "sweep"
  /\ metadata' = {}
  /\ UNCHANGED <<heapVars, remset, image_remset, wb, recollect, prev_sweep_full, queue, hand, victims, mpc,
                 gc_n_threads_marking, observed>>

\* The bits of a live cell after the sweep.
Promote(b, full) == IF full \/ b = GC_MARKED THEN GC_OLD ELSE b

\* A quick sweep puts the remembered objects back in the queued state.
SweptBits(o, full) ==
  IF ~full /\ remset[o] > 0 THEN GC_MARKED
  ELSE IF o \in Heap /\ gc_marked(bits[o]) THEN Promote(bits[o], full)
  ELSE bits[o]

\* Dead cells a sweep may leave alone: those on pages without young objects,
\* which a quick sweep passes over.
Skippable(full) ==
  IF full \/ prev_sweep_full THEN {} ELSE {o \in Unmarked(alloc) : bits[o] = GC_OLD}

\* The heuristics may ask for a full sweep at any time.  A collection that is
\* `forced` by jl_gc_collect(JL_GC_FULL) has one and is followed by another
\* collection, unless the last sweep was full already.
Sweep(full, forced, skipped) ==
  /\ phase = "sweep"
  /\ forced => full /\ ~prev_sweep_full /\ ~recollect
  /\ skipped \subseteq Skippable(full)
  /\ LET freed == Unmarked(alloc) \ skipped
     IN  /\ alloc' = alloc \ freed
         /\ bits' = [o \in Obj |-> IF o \in freed THEN GC_CLEAN ELSE SweptBits(o, full)]
         /\ field' = [o \in Obj |-> IF o \in freed THEN NULL ELSE field[o]]
  /\ remset' = IF full THEN [o \in Obj |-> 0] ELSE remset
  /\ prev_sweep_full' = full
  /\ recollect' = forced
  /\ phase' = IF forced THEN "swept" ELSE "none"
  /\ UNCHANGED <<root, image_remset, finVars, wb, markVars>>

-----------------------------------------------------------------------------
Init ==
  /\ alloc = {} /\ root = {}
  /\ bits = [o \in Obj |-> IF o \in Image THEN GC_OLD_MARKED ELSE GC_CLEAN]
  /\ field = [o \in Obj |-> NULL]
  /\ remset = [o \in Obj |-> 0] /\ image_remset = {}
  /\ weak = NULL /\ finalizers = {} /\ finalizer_list_marked = {} /\ to_finalize = {}
  /\ wb = [t \in Thread |-> NULL]
  /\ phase = "none" /\ recollect = FALSE /\ prev_sweep_full = TRUE
  /\ queue = [m \in Marker |-> {}] /\ hand = [m \in Marker |-> NULL] /\ metadata = {}
  /\ mpc = [m \in Marker |-> IF m = Initiator THEN "idle" ELSE "loop"] /\ victims = [m \in Marker |-> {}]
  /\ gc_n_threads_marking = 0 /\ observed = 0

Mutate ==
  \E t \in Thread :
    \/ \E o \in Obj :
         \/ o \in Heap /\ Alloc(t, o)
         \/ Load(t, o)
         \/ Drop(t, o)
         \/ \E c \in Heap \cup {NULL} : Store(t, o, c) \/ StackStore(t, o, c)
         \/ NewWeakRef(t, o)
         \/ jl_gc_add_finalizer(t, o)
         \/ jl_finalize_th(t, o)
    \/ jl_gc_wb(t) \/ jl_gc_queue_root(t)
    \/ LoadWeakRef(t) \/ run_finalizers(t)

MarkStep ==
  \E m \in Marker :
    \/ \E item \in queue[m] : Pop(m, item)
    \/ \E v \in Others(m) :
         \/ \E item \in queue[v], losers \in SUBSET Others(m) : Steal(m, v, item, losers)
         \/ StealNothing(m, v)
    \/ \E n \in 1..MaxPasses : gc_mark_outrefs(m, n)
    \/ LeaveMarkAndSteal(m)
    \/ ObserveMarking(m) \/ CountWork(m) \/ EnterMarkLoop(m) \/ ObserveZero(m)

Next ==
  \/ Mutate
  \/ StartCollect \/ MarkStep
  \/ \E young \in SUBSET Watched : FinishMark(young)
  \/ \E full, forced \in BOOLEAN : \E skipped \in SUBSET Heap : Sweep(full, forced, skipped)

Spec == Init /\ [][Next]_vars

-----------------------------------------------------------------------------
\* A reachable object is never freed: what the stacks, the globals, a weak
\* reference and the finalizer lists lead to is in use, whatever the order in
\* which objects were stored into each other, promoted, remembered and marked
\* (jl_gc_wb, gc_mark_outrefs, gc_sweep_page_cells).
NoDangling ==
  Closure(root \cup Image \cup to_finalize \cup finalizers \cup finalizer_list_marked
          \cup ({weak} \ {NULL}), Obj) \subseteq alloc \cup Image

\* Between collections an object is in the queued state, GC_MARKED, exactly if
\* it is remembered, and one that is scanned in a single pass is remembered once.
\* However often an object is remembered, a collection accounts for it once: the
\* update of the metadata (gc_setmark), which is not idempotent, is never repeated.
InStep ==
  /\ phase = "none" => \A o \in Obj :
       /\ (bits[o] = GC_MARKED) <=> remset[o] > 0
       /\ o \in Heap \ MultiPass => remset[o] <= 1
  /\ \A m \in Marker, o \in metadata : hand[m] # Claimed(o)

\* A barrier remembers, once, an object that was not remembered.
BarrierStep ==
  phase = "none" => \A o \in Obj : remset'[o] > remset[o] => remset[o] = 0 /\ remset'[o] = 1

\* The remembered sets and the headers stay in step, and however many threads
\* race in the barrier of one object it is remembered once (jl_gc_queue_root);
\* only the passes of the mark phase over a wait entry or a cancellation source
\* remember it several times, which leads to no second update of its metadata.
RememberedOnce == []InStep /\ [][BarrierStep]_vars

\* The safety argument above gc_should_mark: once the initiator has seen no
\* thread marking, no queue holds work and nobody is, or is about to be, in
\* the mark loop, so what follows is marked serially.
MarkingIsOver ==
  phase \in {"marked", "sweep"} => \A m \in Marker :
    /\ queue[m] = {} /\ hand[m] = NULL
    /\ mpc[m] \notin {"mark", "observing", "enough"}

\* A collection that hands an object to its finalizer has cleared the weak
\* reference to it (clear_weak_refs precedes sweep_finalizer_list), so nobody
\* gets at the object through it while it waits; an explicit finalize, which
\* needs a strong reference, leaves the weak one set.
WeakBeforeFinalizer ==
  weak \notin to_finalize
====
