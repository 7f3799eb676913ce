------------------------- MODULE WorkStealingQueue --------------------------
(***************************************************************************)
(* The Chase-Lev queue of src/work-stealing-queue.h, as the mark queues    *)
(* use it (gc_ptr_queue_*, gc_chunkqueue_* in src/gc-stock.c): the owner   *)
(* pushes and pops at the bottom, thieves steal at the top.                *)
(*                                                                         *)
(* Memory order.  The owner's stores wait in a buffer, from which they     *)
(* reach memory in any order that keeps the order of stores to one place,  *)
(* puts everything before a release fence in front of everything after it, *)
(* and everything before a release store in front of that store.           *)
(* jl_fence and a compare-and-swap wait for the buffer to drain.  Loads    *)
(* are in program order: each follows an acquire load or a fence.          *)
(***************************************************************************)
EXTENDS Integers, Sequences, FiniteSets

CONSTANTS
  Thieves,     \* threads that steal
  MaxItems,    \* bound: items pushed
  InitCap      \* capacity of the first array, a power of two

ASSUME QueueAssumption == MaxItems \in Nat /\ InitCap \in Nat \ {0}

Items == 1 .. MaxItems

\* A slot that was never written, or one that was overwritten while it was
\* being copied: reading it gives no item.
Garbage == 0

VARIABLES
  top, bottom, array,   \* ws_queue_t in memory; array is an index of arrays
  arrays,               \* the ws_array_ts made so far
  buffered,             \* the owner's stores that have not reached memory
  obottom, oslots,      \* bottom and the newest array as the owner reads them
  opc, ob, ot, odest,   \* the owner: where it is and its locals b, t, dest
  spc, st, sb, sary, sdest,  \* each thief, with the locals t, b, ary, dest
  pushed,               \* number of items pushed
  done                  \* how often an item (or Garbage) was handed out

mem == <<top, bottom, array, arrays, buffered>>
own == <<obottom, oslots>>
owner == <<opc, ob, ot, odest>>
thief == <<spc, st, sb, sary, sdest>>
queueVars == <<mem, own, owner, thief, pushed, done>>

-----------------------------------------------------------------------------
(* Stores of the owner *)

\* index & ary->mask
Masked(i, capacity) == i % capacity

\* A store is fenced if a release fence stands just before it.
StoreBottom(v, fenced) ==
  [to |-> "bottom", arr |-> 0, idx |-> 0, val |-> v, fenced |-> fenced]
StoreArray(a) ==
  [to |-> "array", arr |-> 0, idx |-> 0, val |-> a, fenced |-> FALSE]
StoreSlot(a, i, v) ==
  [to |-> "slot", arr |-> a, idx |-> i, val |-> v, fenced |-> FALSE]

SamePlace(r, s) ==
  /\ r.to = s.to
  /\ r.to = "slot" =>
       /\ r.arr = s.arr
       /\ Masked(r.idx, arrays[r.arr].capacity) = Masked(s.idx, arrays[s.arr].capacity)

\* Store n may reach memory before the ones in front of it: no fence stands
\* between them, it is not the release store, and it is to another place.
MayCommit(n) ==
  /\ \A m \in 2 .. n : ~buffered[m].fenced
  /\ buffered[n].to = "array" => n = 1
  /\ \A m \in 1 .. n - 1 : ~SamePlace(buffered[m], buffered[n])

Without(n) ==
  [i \in 1 .. Len(buffered) - 1 |-> IF i < n THEN buffered[i] ELSE buffered[i + 1]]

\* Array a with item x at index i.
Filled(a, i, x) ==
  [arrays[a] EXCEPT !.buffer = [@ EXCEPT ![Masked(i, arrays[a].capacity)] = x]]

Commit(n) ==
  LET s == buffered[n] IN
  /\ MayCommit(n)
  /\ buffered' = Without(n)
  /\ bottom' = IF s.to = "bottom" THEN s.val ELSE bottom
  /\ array' = IF s.to = "array" THEN s.val ELSE array
  /\ arrays' = IF s.to = "slot"
               THEN [arrays EXCEPT ![s.arr] = Filled(s.arr, s.idx, s.val)] ELSE arrays
  /\ UNCHANGED <<top, own, owner, thief, pushed, done>>

\* The owner reads its own latest stores: the newest array, and its slots.
ocap == arrays[Len(arrays)].capacity
OwnSlot(i) == oslots[Masked(i, ocap)]

\* create_ws_array; malloc leaves the slots uninitialised.
create_ws_array(capacity) ==
  [capacity |-> capacity, buffer |-> [i \in 0 .. capacity - 1 |-> Garbage]]

QueueInit ==
  /\ top = 0 /\ bottom = 0 /\ array = 1
  /\ arrays = <<create_ws_array(InitCap)>>
  /\ buffered = <<>>
  /\ obottom = 0 /\ oslots = create_ws_array(InitCap).buffer
  /\ opc = "idle" /\ ob = 0 /\ ot = 0 /\ odest = Garbage
  /\ spc = [h \in Thieves |-> "idle"]
  /\ st = [h \in Thieves |-> 0]
  /\ sb = [h \in Thieves |-> 0]
  /\ sary = [h \in Thieves |-> 1]
  /\ sdest = [h \in Thieves |-> Garbage]
  /\ pushed = 0
  /\ done = [x \in Items \cup {Garbage} |-> 0]

\* The end of an operation; its locals are gone.
OwnerReturns == opc' = "idle" /\ ob' = 0 /\ ot' = 0 /\ odest' = Garbage

HandOut(x) == done' = [done EXCEPT ![x] = @ + 1]

-----------------------------------------------------------------------------
(* ws_queue_push *)

\* The loads of bottom, top and array.
PushLoad ==
  /\ opc = "idle" /\ pushed < MaxItems
  /\ ob' = obottom
  /\ ot' = top
  /\ opc' = "push"
  /\ UNCHANGED <<mem, own, odest, thief, pushed, done>>

\* Mutant: the copy takes slot i to slot i, whatever the top is.
GrownInPlace ==
  [r \in 0 .. 2 * ocap - 1 |-> IF r < ocap THEN oslots[r] ELSE Garbage]

\* The slots of the array of twice the capacity, with what the old one holds
\* from index t.
Grown ==
  LET from == ot .. ot + ocap - 1
      Here(i, r) == Masked(i, 2 * ocap) = r
  IN  [r \in 0 .. 2 * ocap - 1 |->
         IF \E i \in from : Here(i, r) THEN OwnSlot(CHOOSE i \in from : Here(i, r))
         ELSE Garbage]

\* The owner's stores of the item and of bottom, in an array with these slots.
Stored(slots, capacity) ==
  /\ oslots' = [slots EXCEPT ![Masked(ob, capacity)] = pushed + 1]
  /\ obottom' = ob + 1
  /\ pushed' = pushed + 1
  /\ OwnerReturns
  /\ UNCHANGED <<top, bottom, array, thief, done>>

\* There is room in the newest array.
PushStore ==
  LET a == Len(arrays) IN
  /\ opc = "push" /\ ob - ot <= ocap - 1
  /\ buffered' = buffered \o <<StoreSlot(a, ob, pushed + 1), StoreBottom(ob + 1, TRUE)>>
  /\ Stored(oslots, ocap)
  /\ UNCHANGED arrays

\* The new array is private until its address is stored with release order.
PushGrow ==
  LET a == Len(arrays) + 1 IN
  /\ opc = "push" /\ ob - ot > ocap - 1
  /\ arrays' = Append(arrays, [capacity |-> 2 * ocap, buffer |-> Grown])
  /\ buffered' = buffered \o <<StoreArray(a), StoreSlot(a, ob, pushed + 1),
                               StoreBottom(ob + 1, TRUE)>>
  /\ Stored(Grown, 2 * ocap)

-----------------------------------------------------------------------------
(* ws_queue_pop *)

\* The store of bottom is not fenced.
SetBottom(v) ==
  /\ obottom' = v
  /\ buffered' = Append(buffered, StoreBottom(v, FALSE))

\* b = bottom - 1, stored at once.
PopStore ==
  /\ opc = "idle"
  /\ ob' = obottom - 1
  /\ SetBottom(obottom - 1)
  /\ opc' = "pop"
  /\ UNCHANGED <<top, bottom, array, arrays, oslots, ot, odest, thief, pushed, done>>

\* Mutant: no fence.
Unfenced == TRUE

\* jl_fence: the store of bottom is in memory before top is loaded.
Drained == buffered = <<>>

\* More than one item: the bottom one is the owner's.
PopTake ==
  /\ opc = "pop" /\ Drained
  /\ top < ob
  /\ HandOut(OwnSlot(ob))
  /\ OwnerReturns
  /\ UNCHANGED <<mem, own, thief, pushed>>

\* One item, which a thief may be after.
PopLast ==
  /\ opc = "pop" /\ Drained
  /\ top = ob
  /\ ot' = top
  /\ odest' = OwnSlot(ob)
  /\ opc' = "cas"
  /\ UNCHANGED <<mem, own, ob, thief, pushed, done>>

\* Mutant: the last item counts as none.
PopNoneTooSoon ==
  /\ opc = "pop" /\ Drained
  /\ top >= ob
  /\ SetBottom(ob + 1)
  /\ OwnerReturns
  /\ UNCHANGED <<top, bottom, array, arrays, oslots, thief, pushed, done>>

PopNone ==
  /\ opc = "pop" /\ Drained
  /\ top > ob
  /\ SetBottom(ob + 1)
  /\ OwnerReturns
  /\ UNCHANGED <<top, bottom, array, arrays, oslots, thief, pushed, done>>

PopWon ==
  /\ opc = "cas" /\ top = ot
  /\ top' = top + 1
  /\ HandOut(odest)
  /\ SetBottom(ob + 1)
  /\ OwnerReturns
  /\ UNCHANGED <<bottom, array, arrays, oslots, thief, pushed>>

PopLost ==
  /\ opc = "cas" /\ top # ot
  /\ SetBottom(ob + 1)
  /\ OwnerReturns
  /\ UNCHANGED <<top, bottom, array, arrays, oslots, thief, pushed, done>>

-----------------------------------------------------------------------------
(* ws_queue_steal_from *)

StealGoto(h, from, to) == spc[h] = from /\ spc' = [spc EXCEPT ![h] = to]

StealTop(h) ==
  /\ StealGoto(h, "idle", "top")
  /\ st' = [st EXCEPT ![h] = top]
  /\ UNCHANGED <<mem, own, owner, sb, sary, sdest, pushed, done>>

StealBottom(h) ==
  /\ StealGoto(h, "top", "bottom")
  /\ sb' = [sb EXCEPT ![h] = bottom]
  /\ UNCHANGED <<mem, own, owner, st, sary, sdest, pushed, done>>

ThiefReturns(h) ==
  /\ spc' = [spc EXCEPT ![h] = "idle"]
  /\ st' = [st EXCEPT ![h] = 0]
  /\ sb' = [sb EXCEPT ![h] = 0]
  /\ sary' = [sary EXCEPT ![h] = 1]
  /\ sdest' = [sdest EXCEPT ![h] = Garbage]

\* Nothing there: dest keeps the NULL its caller put in.
StealNone(h) ==
  /\ spc[h] = "bottom" /\ st[h] >= sb[h]
  /\ ThiefReturns(h)
  /\ UNCHANGED <<mem, own, owner, pushed, done>>

StealArray(h) ==
  /\ st[h] < sb[h]
  /\ StealGoto(h, "bottom", "array")
  /\ sary' = [sary EXCEPT ![h] = array]
  /\ UNCHANGED <<mem, own, owner, st, sb, sdest, pushed, done>>

\* What memory holds at index i of array a.
MemSlot(a, i) == arrays[a].buffer[Masked(i, arrays[a].capacity)]
Slot(h) == MemSlot(sary[h], st[h])

\* memcpy of the slot, in two parts: the owner may overwrite it in between.
StealCopy(h) ==
  /\ StealGoto(h, "array", "copy")
  /\ sdest' = [sdest EXCEPT ![h] = Slot(h)]
  /\ UNCHANGED <<mem, own, owner, st, sb, sary, pushed, done>>

StealCopied(h) ==
  /\ StealGoto(h, "copy", "cas")
  /\ sdest' = [sdest EXCEPT ![h] = IF @ = Slot(h) THEN @ ELSE Garbage]
  /\ UNCHANGED <<mem, own, owner, st, sb, sary, pushed, done>>

StealWon(h) ==
  /\ spc[h] = "cas" /\ top = st[h]
  /\ top' = top + 1
  /\ HandOut(sdest[h])
  /\ ThiefReturns(h)
  /\ UNCHANGED <<bottom, array, arrays, buffered, own, owner, pushed>>

StealLost(h) ==
  /\ spc[h] = "cas" /\ top # st[h]
  /\ ThiefReturns(h)
  /\ UNCHANGED <<mem, own, owner, pushed, done>>

-----------------------------------------------------------------------------
QueueOwner ==
  \/ PushLoad \/ PushStore \/ PushGrow
  \/ PopStore \/ PopTake \/ PopLast \/ PopNone \/ PopWon \/ PopLost

Thief(h) ==
  \/ StealTop(h) \/ StealBottom(h) \/ StealNone(h) \/ StealArray(h)
  \/ StealCopy(h) \/ StealCopied(h) \/ StealWon(h) \/ StealLost(h)

QueueNext ==
  \/ QueueOwner
  \/ \E n \in 1 .. Len(buffered) : Commit(n)
  \/ \E h \in Thieves : Thief(h)

QueueSpec == QueueInit /\ [][QueueNext]_queueVars

-----------------------------------------------------------------------------
Taken(x) == done[x] > 0
Untaken == {x \in 1 .. pushed : ~Taken(x)}

(***************************************************************************)
(* The queue is a bag of work: the owner and the thieves together take     *)
(* each item once and never take anything else, although the owner pops    *)
(* the last item while a thief steals it, a thief copies from an array the *)
(* owner has replaced, or from a slot the owner reuses.                    *)
(***************************************************************************)
Bag == INSTANCE WorkBag WITH pool <- Untaken, done <- [x \in Items |-> done[x]]

ImplementsBag == Bag!Spec /\ [](done[Garbage] = 0)

(***************************************************************************)
(* Between operations, with its stores in memory, the queue holds exactly  *)
(* what was pushed and not taken: growing the array, a failed pop and a    *)
(* failed steal lose nothing.                                              *)
(***************************************************************************)
HoldsTheRest ==
  opc = "idle" /\ buffered = <<>> =>
    /\ bottom - top = Cardinality(Untaken)
    /\ {MemSlot(array, i) : i \in top .. bottom - 1} = Untaken

(***************************************************************************)
(* A pop that returns NULL found the queue empty: a marker never goes      *)
(* looking for work elsewhere, or to sleep, while its own queue has some.  *)
(***************************************************************************)
EmptyPopIsTrue ==
  [][opc # "idle" /\ opc' = "idle" /\ pushed' = pushed /\ done' = done
       => \A x \in 1 .. pushed : Taken(x)]_queueVars
=============================================================================
