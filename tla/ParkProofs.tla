----------------------------- MODULE ParkProofs -----------------------------
(***************************************************************************)
(* Proofs about Park, for any set of tasks, sources and cancellers, any    *)
(* kinds of waits and any number of operations.                            *)
(***************************************************************************)
EXTENDS Park, FiniteSetTheorems, TLAPS

\* From the arm to the resume; while the entry may be in c's queue; and the
\* walk of a source's list.
WaitAt == {"enqueue", "register", "recheck", "disarm", "suspend", "parked"}
QueueAt == {"register", "recheck", "disarm", "suspend", "parked", "settle", "cleanup"}
TaskLabel == WaitAt \cup QueueAt \cup
  {"idle", "check", "entry", "arm", "retire", "unlock", "notify"}
ListAt == {"entry", "armed", "claim"}
WalkLabel == ListAt \cup {"raise", "lock", "head", "deliver", "done"}

Severity == 0..5
Aux == [floor : Severity, watcher : BOOLEAN]
WakeRec == [how : {"none", "value", "throw"}, sev : Severity]

TaskType ==
  /\ lck \in Tasks \cup {None}
  /\ pc \in [Tasks -> TaskLabel]
  /\ want \in [Tasks -> Waits]
  /\ ops \in [Tasks -> 0..MaxOps]

ListType ==
  /\ reg \in [Sources -> Seq(Entries)]
  /\ waitq \in Seq(Entries)
  /\ ktodo \in [Cancellers -> Seq(Entries)]

SourceType ==
  /\ state \in [Sources -> Severity]
  /\ walk \in [Sources -> Cancellers \cup {None}]
  /\ dead \in [Sources -> Nat]
  /\ retired \subseteq Entries

WakeType ==
  /\ on \in [Tasks -> Entries \cup {None}]
  /\ wake \in [Tasks -> WakeRec]

FlagType ==
  /\ hidden \in [Tasks -> BOOLEAN]
  /\ aux \in [Entries -> Aux]
  /\ kaux \in [Cancellers -> Aux]
  /\ kclaim \in [Cancellers -> SUBSET (Entries \X BOOLEAN)]

WalkType ==
  /\ kpc \in [Cancellers -> WalkLabel]
  /\ ksev \in [Cancellers -> Severity]

TypeOK == TaskType /\ ListType /\ SourceType /\ WakeType /\ FlagType /\ WalkType

\* No entry is linked twice.
Distinct(q) == \A i, j \in 1..Len(q) : q[i] = q[j] => i = j

-----------------------------------------------------------------------------
\* c's lock is held everywhere but in a park, and a walk lock by its walker.
LockInv == \A t \in Tasks : pc[t] \notin {"idle", "parked"} <=> lck = t

HolderInv ==
  /\ \A k \in Cancellers : kpc[k] \in ListAt \cup {"head"} => walk[SourceOf(k)] = k
  /\ \A k \in Cancellers : kpc[k] \in {"armed", "claim"} => ktodo[k] # <<>>
  /\ \A k \in Cancellers : kpc[k] \in {"raise", "lock"} => kclaim[k] = {}

\* Where a wait of each kind may be.
ModeInv ==
  \A t \in Tasks :
    /\ pc[t] = "entry" => want[t].mode = "throw"
    /\ pc[t] \in {"register", "recheck", "disarm"} => want[t].mode # "shield"
    /\ pc[t] = "retire" => want[t].mode = "value"
    /\ pc[t] # "idle" => ops[t] # 0

\* What an armed task has published.
ArmInv ==
  \A t \in Tasks :
    /\ on[t] # None => on[t] = EntryOf(t)
    /\ hidden[t] => /\ on[t] = None
                    /\ pc[t] \in {"enqueue", "register", "suspend"}
                    /\ pc[t] = "suspend" => want[t].mode = "shield"

\* The parties that may own a wake exclude one another, none owns one outside
\* a wait, and within it somebody does.
HeldBy(k, t) == \E m \in kclaim[k] : TaskOf(m[1]) = t

OwnerInv ==
  \A t \in Tasks :
    /\ Armed(t) => pc[t] \in WaitAt /\ wake[t] = NoWake
    /\ wake[t] # NoWake => pc[t] \in WaitAt
    /\ pc[t] \in WaitAt => Armed(t) \/ wake[t] # NoWake \/ \E k \in Cancellers : HeldBy(k, t)

\* A claim m that the walk k holds is on the wake of a wait that its source
\* governs, nobody else's, and good for it.
ClaimOK(k, m) ==
  LET t == TaskOf(m[1]) IN
  /\ pc[t] \in WaitAt /\ ~Armed(t) /\ wake[t] = NoWake
  /\ m = <<EntryOf(t), want[t].mode = "value">>
  /\ want[t].mode # "shield" /\ want[t].src = SourceOf(k)
  /\ want[t].mode = "value" => FloorOf(want[t]) <= ksev[k]
  /\ \A j \in Cancellers : HeldBy(j, t) => j = k

ClaimInv == \A k \in Cancellers : \A m \in kclaim[k] : ClaimOK(k, m)

\* A fresh entry is registered by the operation it was made for, with what that
\* operation waits for; the plain entry never is.
RegOK(s, e) ==
  LET t == TaskOf(e) IN
  /\ e[2] # Plain
  /\ aux[e].watcher <=> e[2] # Cancellable
  /\ e[2] # Cancellable => e[2] <= Fresh(ops[t])
  /\ e[2] = Fresh(ops[t]) /\ e[2] # Cancellable =>
       /\ want[t].mode = "value" /\ want[t].src = s
       /\ aux[e].floor = FloorOf(want[t])

RegInv ==
  \A s \in Sources :
    /\ Distinct(reg[s])
    /\ \A e \in Entries : Contains(reg[s], e) => RegOK(s, e)

\* A cancellable wait that has its entry has it registered nowhere else, with
\* its floor; and is registered with its source once it may suspend armed.
ListedOnce(t) ==
  want[t].mode = "throw" /\ pc[t] \in WaitAt \cup {"arm"} =>
    /\ \A s \in Sources : Contains(reg[s], EntryOf(t)) => s = want[t].src
    /\ aux[EntryOf(t)].floor = FloorOf(want[t])

ListedArmed(t) ==
  pc[t] \in {"recheck", "disarm", "suspend", "parked"} /\ want[t].mode # "shield" /\ Armed(t)
    => Contains(reg[want[t].src], EntryOf(t))

CachedInv == \A t \in Tasks : ListedOnce(t) /\ ListedArmed(t)

\* A retired entry is of an operation that is over.
RetiredInv ==
  \A e \in retired :
    /\ e[2] \notin {Plain, Cancellable} /\ e[2] <= Fresh(ops[TaskOf(e)])
    /\ e[2] = Fresh(ops[TaskOf(e)]) =>
         pc[TaskOf(e)] \in {"unlock", "idle"} /\ want[TaskOf(e)].mode = "value"

\* What a walk has before it is still registered, or retired; and what it has
\* read of the entry it looks at.
TodoOK(k) ==
  \A e \in Entries : Contains(ktodo[k], e) => Contains(reg[SourceOf(k)], e) \/ e \in retired

ReadOK(k, e) ==
  /\ kaux[k].watcher <=> e[2] # Cancellable
  /\ e[2] = Fresh(ops[TaskOf(e)]) /\ e[2] # Cancellable =>
       kaux[k].floor = FloorOf(want[TaskOf(e)])

WalkInv ==
  \A k \in Cancellers :
    /\ kpc[k] \in ListAt => TodoOK(k)
    /\ kpc[k] \in {"armed", "claim"} => \A e \in Entries : e = Head(ktodo[k]) => ReadOK(k, e)
    /\ kpc[k] = "claim" => kaux[k].floor <= ksev[k]

\* A source keeps the severity it was raised to, and a walk has it.
StateInv ==
  \A k \in Cancellers :
    /\ kpc[k] # "raise" => Cancels[k].sev <= state[SourceOf(k)]
    /\ kpc[k] \notin {"raise", "lock"} => Cancels[k].sev <= ksev[k]

\* A wait that the call k has to wake and that is not claimed.
Target(k, t) ==
  /\ pc[t] \in {"suspend", "parked"} /\ Armed(t)
  /\ want[t].mode # "shield" /\ want[t].src = SourceOf(k)
  /\ Fires(t, Cancels[k].sev)

Reached(k, t) ==
  /\ kpc[k] \notin {"deliver", "done"}
  /\ kpc[k] \in ListAt => Contains(ktodo[k], EntryOf(t))
  /\ kpc[k] \in {"armed", "claim"} /\ Head(ktodo[k]) = EntryOf(t) =>
       kaux[k].floor = FloorOf(want[t])

ReachInv == \A k \in Cancellers : \A t \in Tasks : Target(k, t) => Reached(k, t)

\* c's queue.
QueueInv ==
  /\ Distinct(waitq)
  /\ \A e \in Entries :
       Contains(waitq, e) => e = EntryOf(TaskOf(e)) /\ pc[TaskOf(e)] \in QueueAt
  /\ \A t \in Tasks : pc[t] \in WaitAt \ {"enqueue"} /\ Armed(t) => Contains(waitq, EntryOf(t))

Inv ==
  /\ TypeOK /\ LockInv /\ HolderInv /\ ModeInv /\ ArmInv /\ OwnerInv /\ ClaimInv /\ RegInv
  /\ CachedInv /\ RetiredInv /\ WalkInv /\ StateInv /\ ReachInv /\ QueueInv /\ FloorIsHonoured

-----------------------------------------------------------------------------
(* Lists of entries. *)
LEMMA UnlinkType ==
  ASSUME NEW S, NEW q \in Seq(S), NEW e
  PROVE  Unlink(q, e) \in Seq(S)
<1> DEFINE k == CHOOSE i \in 1..Len(q) : q[i] = e
<1>1. CASE Contains(q, e)
  <2>1. k \in 1..Len(q)
    BY <1>1 DEF Contains
  <2> HIDE DEF k
  <2>2. Unlink(q, e) = [i \in 1..(Len(q) - 1) |-> IF i < k THEN q[i] ELSE q[i + 1]]
    BY <1>1 DEF Unlink, k
  <2>3. QED BY <2>1, <2>2
<1>2. QED BY <1>1 DEF Unlink

LEMMA UnlinkFacts ==
  ASSUME NEW S, NEW q \in Seq(S), NEW e, Distinct(q)
  PROVE  /\ Unlink(q, e) \in Seq(S)
         /\ Distinct(Unlink(q, e))
         /\ \A x : Contains(Unlink(q, e), x) <=> Contains(q, x) /\ x # e
<1> DEFINE r == Unlink(q, e)
<1>1. CASE Contains(q, e)
  <2> DEFINE k == CHOOSE i \in 1..Len(q) : q[i] = e
  <2>1. k \in 1..Len(q) /\ q[k] = e
    BY <1>1 DEF Contains
  <2> HIDE DEF k
  <2>2. r = [i \in 1..(Len(q) - 1) |-> IF i < k THEN q[i] ELSE q[i + 1]]
    BY <1>1 DEF Unlink, k
  <2> HIDE DEF r
  <2>3. r \in Seq(S) /\ Len(r) = Len(q) - 1
    BY <2>1, <2>2
  <2>4. \A i \in 1..Len(r) : r[i] = IF i < k THEN q[i] ELSE q[i + 1]
    BY <2>2, <2>3
  <2>5. Distinct(r)
    BY <2>1, <2>3, <2>4 DEF Distinct
  <2>6. ASSUME NEW x, Contains(r, x) PROVE Contains(q, x) /\ x # e
    BY <2>1, <2>3, <2>4, <2>6 DEF Distinct, Contains
  <2>7. ASSUME NEW x, Contains(q, x), x # e PROVE Contains(r, x)
    <3>1. PICK j \in 1..Len(q) : q[j] = x
      BY <2>7 DEF Contains
    <3>2. CASE j < k
      BY <2>1, <2>3, <2>4, <3>1, <3>2 DEF Contains
    <3>3. CASE j > k
      <4>1. j - 1 \in 1..Len(r) /\ ~(j - 1 < k) /\ (j - 1) + 1 = j
        BY <2>1, <2>3, <3>3
      <4>2. QED BY <2>4, <3>1, <4>1 DEF Contains
    <3>4. QED BY <2>1, <2>7, <3>1, <3>2, <3>3
  <2>8. QED BY <2>3, <2>5, <2>6, <2>7 DEF r
<1>2. CASE ~Contains(q, e)
  BY <1>2 DEF Unlink
<1>3. QED BY <1>1, <1>2

LEMMA KeptType ==
  ASSUME NEW S, NEW q \in Seq(S), NEW K \in SUBSET (1..Len(q)), NEW r \in Kept(q, K)
  PROVE  r \in Seq(S)
<1> DEFINE n == Cardinality(K)
<1>1. PICK f \in [1..n -> K] : r = [i \in 1..n |-> q[f[i]]]
  BY DEF Kept
<1>2. n \in Nat
  <2>1. IsFiniteSet(1..Len(q))
    BY FS_Interval
  <2>2. QED BY <2>1, FS_Subset, FS_CardinalityType
<1> HIDE DEF n
<1>3. \A i \in 1..n : q[f[i]] \in S
  <2>1. \A i \in 1..n : f[i] \in 1..Len(q)
    BY <1>1
  <2>2. QED BY <2>1
<1>4. QED BY <1>1, <1>2, <1>3

LEMMA KeptFacts ==
  ASSUME NEW S, NEW q \in Seq(S), NEW K \in SUBSET (1..Len(q)), NEW r \in Kept(q, K), Distinct(q)
  PROVE  /\ r \in Seq(S) /\ Distinct(r)
         /\ \A x : Contains(r, x) <=> \E i \in K : q[i] = x
<1> DEFINE n == Cardinality(K)
<1>1. PICK f \in [1..n -> K] :
        /\ K \subseteq {f[i] : i \in DOMAIN f}
        /\ \A i, j \in DOMAIN f : i < j => f[i] < f[j]
        /\ r = [i \in 1..n |-> q[f[i]]]
  BY DEF Kept
<1>2. n \in Nat
  <2>1. IsFiniteSet(1..Len(q))
    BY FS_Interval
  <2>2. QED BY <2>1, FS_Subset, FS_CardinalityType
<1> HIDE DEF n
<1>3. \A i \in 1..n : f[i] \in K /\ r[i] = q[f[i]] /\ q[f[i]] \in S
  BY <1>1
<1>4. r \in Seq(S) /\ Len(r) = n
  BY <1>1, <1>2, <1>3
<1>5. Distinct(r)
  <2>1. SUFFICES ASSUME NEW i \in 1..n, NEW j \in 1..n, r[i] = r[j] PROVE i = j
    BY <1>4 DEF Distinct
  <2>2. f[i] \in 1..Len(q) /\ f[j] \in 1..Len(q) /\ q[f[i]] = q[f[j]]
    BY <1>3, <2>1
  <2> HIDE DEF n
  <2>5. f[i] = f[j]
    BY <2>2 DEF Distinct
  <2>3. ~(i < j) /\ ~(j < i)
    BY <1>1, <2>2, <2>5
  <2>4. QED BY <1>2, <2>3
<1>6. ASSUME NEW x PROVE Contains(r, x) <=> \E i \in K : q[i] = x
  <2>1. ASSUME Contains(r, x) PROVE \E i \in K : q[i] = x
    BY <1>3, <1>4, <2>1 DEF Contains
  <2>2. ASSUME NEW i \in K, q[i] = x PROVE Contains(r, x)
    <3>1. PICK j \in 1..n : f[j] = i
      BY <1>1
    <3>2. QED BY <1>3, <1>4, <2>2, <3>1 DEF Contains
  <2>3. QED BY <2>1, <2>2
<1>7. QED BY <1>4, <1>5, <1>6

LEMMA PushFacts ==
  ASSUME NEW S, NEW q \in Seq(S), NEW e \in S
  PROVE  /\ <<e>> \o q \in Seq(S) /\ Append(q, e) \in Seq(S)
         /\ \A x : Contains(<<e>> \o q, x) <=> Contains(q, x) \/ x = e
         /\ \A x : Contains(Append(q, e), x) <=> Contains(q, x) \/ x = e
         /\ Distinct(q) /\ ~Contains(q, e) => Distinct(<<e>> \o q) /\ Distinct(Append(q, e))
<1> DEFINE p == <<e>> \o q
           a == Append(q, e)
<1>1. /\ p \in Seq(S) /\ Len(p) = Len(q) + 1
      /\ p[1] = e /\ \A i \in 1..Len(q) : p[i + 1] = q[i]
  OBVIOUS
<1>2. /\ a \in Seq(S) /\ Len(a) = Len(q) + 1
      /\ a[Len(a)] = e /\ \A i \in 1..Len(q) : a[i] = q[i]
  OBVIOUS
<1> HIDE DEF p, a
<1>3. \A i \in 1..Len(p) : i = 1 \/ (i - 1 \in 1..Len(q) /\ p[i] = q[i - 1])
  BY <1>1
<1>4. ASSUME NEW x PROVE Contains(p, x) <=> Contains(q, x) \/ x = e
  <2>1. ASSUME Contains(p, x) PROVE Contains(q, x) \/ x = e
    BY <1>1, <1>3, <2>1 DEF Contains
  <2>2. ASSUME NEW i \in 1..Len(q), q[i] = x PROVE Contains(p, x)
    <3>1. i + 1 \in 1..Len(p)
      BY <1>1
    <3>2. QED BY <1>1, <2>2, <3>1 DEF Contains
  <2>3. ASSUME x = e PROVE Contains(p, x)
    BY <1>1, <2>3 DEF Contains
  <2>4. QED BY <2>1, <2>2, <2>3 DEF Contains
<1>5. ASSUME NEW x PROVE Contains(a, x) <=> Contains(q, x) \/ x = e
  BY <1>2 DEF Contains
<1>6. ASSUME Distinct(q), ~Contains(q, e) PROVE Distinct(p) /\ Distinct(a)
  <2>1. Distinct(p)
    <3>1. SUFFICES ASSUME NEW i \in 1..Len(p), NEW j \in 1..Len(p), p[i] = p[j] PROVE i = j
      BY DEF Distinct
    <3>2. \A m \in 1..Len(p) : m = 1 <=> p[m] = e
      BY <1>1, <1>3, <1>6 DEF Contains
    <3>3. CASE i # 1 /\ j # 1
      <4>1. i - 1 = j - 1
        BY <1>3, <1>6, <3>1, <3>3 DEF Distinct
      <4>2. QED BY <4>1
    <3>4. QED BY <3>1, <3>2, <3>3
  <2>2. Distinct(a)
    BY <1>2, <1>6 DEF Distinct, Contains
  <2>3. QED BY <2>1, <2>2
<1>7. QED BY <1>1, <1>2, <1>4, <1>5, <1>6 DEF p, a

LEMMA TailFacts ==
  ASSUME NEW S, NEW q \in Seq(S), q # <<>>
  PROVE  /\ Head(q) \in S /\ Tail(q) \in Seq(S) /\ Contains(q, Head(q))
         /\ \A x : Contains(q, x) => Contains(Tail(q), x) \/ x = Head(q)
         /\ \A x : Contains(Tail(q), x) => Contains(q, x)
         /\ Distinct(q) => Distinct(Tail(q)) /\ ~Contains(Tail(q), Head(q))
<1>1. /\ Tail(q) \in Seq(S) /\ Len(Tail(q)) = Len(q) - 1 /\ Len(q) \in Nat \ {0}
      /\ Head(q) = q[1] /\ Head(q) \in S /\ \A i \in 1..Len(Tail(q)) : Tail(q)[i] = q[i + 1]
  OBVIOUS
<1>2. Contains(q, Head(q))
  BY <1>1 DEF Contains
<1>3. ASSUME NEW x, Contains(q, x) PROVE Contains(Tail(q), x) \/ x = Head(q)
  <2>1. PICK i \in 1..Len(q) : q[i] = x
    BY <1>3 DEF Contains
  <2>2. CASE i # 1
    <3>1. i - 1 \in 1..Len(Tail(q)) /\ (i - 1) + 1 = i
      BY <1>1, <2>2
    <3>2. QED BY <1>1, <2>1, <3>1 DEF Contains
  <2>3. QED BY <1>1, <2>1, <2>2
<1>4. ASSUME NEW x, Contains(Tail(q), x) PROVE Contains(q, x)
  BY <1>1, <1>4 DEF Contains
<1>5. ASSUME Distinct(q) PROVE Distinct(Tail(q)) /\ ~Contains(Tail(q), Head(q))
  BY <1>1, <1>5 DEF Distinct, Contains
<1>6. QED BY <1>1, <1>2, <1>3, <1>4, <1>5

LEMMA MaxFacts ==
  ASSUME NEW a \in Nat, NEW b \in Nat
  PROVE  Max({a, b}) = IF a >= b THEN a ELSE b
BY DEF Max

(* The constants, waits and their entries. *)
LEMMA ConstFacts ==
  /\ MaxOps \in Nat \ {0} /\ Threshold \in Nat \ {0}
  /\ None \notin Tasks /\ None \notin Cancellers /\ None \notin Entries
BY ParkAssumption DEF Entries

LEMMA WaitFacts ==
  ASSUME NEW w \in Waits
  PROVE  /\ w.mode \in {"shield", "throw", "value"} /\ w.src \in Sources /\ w.floor \in Severity
         /\ FloorOf(w) \in Severity
         /\ w.mode = "value" => FloorOf(w) # 0
<1>1. w.mode \in {"shield", "throw", "value"} /\ w.src \in Sources /\ w.floor \in Severity
  BY ParkAssumption DEF Severity
<1>2. Max({w.floor, 1}) = IF w.floor >= 1 THEN w.floor ELSE 1
  BY <1>1, MaxFacts DEF Severity
<1>3. QED BY <1>1, <1>2 DEF FloorOf, Severity

LEMMA CallFacts ==
  ASSUME NEW k \in Cancellers
  PROVE  SourceOf(k) \in Sources /\ Cancels[k].sev \in Severity \ {0}
BY ParkAssumption DEF SourceOf, Severity

\* The entry of a task is its own, and says what kind of wait it serves.
LEMMA EntryFacts ==
  ASSUME want \in [Tasks -> Waits], ops \in [Tasks -> 0..MaxOps], NEW t \in Tasks
  PROVE  /\ EntryOf(t) \in Entries /\ TaskOf(EntryOf(t)) = t /\ EntryOf(t) # None
         /\ want[t].mode = "shield" => EntryOf(t)[2] = Plain
         /\ want[t].mode = "throw" => EntryOf(t)[2] = Cancellable
         /\ want[t].mode = "value" => EntryOf(t)[2] = Fresh(ops[t])
         /\ \A e \in Entries : e = EntryOf(t) <=> TaskOf(e) = t /\ e[2] = EntryOf(t)[2]
<1>1. want[t].mode \in {"shield", "throw", "value"} /\ ops[t] \in 0..MaxOps
  BY WaitFacts
<1> DEFINE n == CASE want[t].mode = "shield" -> Plain
                  [] want[t].mode = "throw" -> Cancellable
                  [] want[t].mode = "value" -> Fresh(ops[t])
<1>2. n \in 0..(MaxOps + 1)
  BY <1>1, ParkAssumption DEF Plain, Cancellable, Fresh
<1>3. /\ want[t].mode = "shield" => n = Plain
      /\ want[t].mode = "throw" => n = Cancellable
      /\ want[t].mode = "value" => n = Fresh(ops[t])
  OBVIOUS
<1>4. EntryOf(t) = <<t, n>>
  BY DEF EntryOf
<1> HIDE DEF n
<1>5. EntryOf(t) \in Entries /\ TaskOf(EntryOf(t)) = t /\ EntryOf(t)[2] = n
  BY <1>2, <1>4 DEF Entries, TaskOf
<1>6. \A e \in Entries : e = <<e[1], e[2]>>
  BY DEF Entries
<1>7. QED BY <1>3, <1>4, <1>5, <1>6, ParkAssumption DEF TaskOf, Entries

\* An entry is a task's and one of the three kinds.
LEMMA KindFacts ==
  ASSUME NEW e \in Entries
  PROVE  TaskOf(e) \in Tasks /\ e[2] \in Nat /\ e # None
BY ParkAssumption DEF Entries, TaskOf

LEMMA SameEntry ==
  ASSUME NEW u, want'[u] = want[u], ops'[u] = ops[u]
  PROVE  EntryOf(u)' = EntryOf(u) /\ FloorOf(want[u])' = FloorOf(want[u])
BY DEF EntryOf, FloorOf


(* Types: one lemma per group of variables. *)
LEMMA TaskTypeStep ==
  ASSUME TypeOK, HolderInv, [Next]_vars
  PROVE  TaskType'
<1>0. lck \in Tasks \cup {None} /\ pc \in [Tasks -> TaskLabel] /\ want \in [Tasks -> Waits] /\
      ops \in [Tasks -> 0..MaxOps]
  BY DEF TypeOK, TaskType
<1>1. ASSUME UNCHANGED <<lck, pc, want, ops>> PROVE TaskType'
  BY <1>0, <1>1 DEF TaskType
<1>2. ASSUME NEW t \in Tasks, NEW w \in Waits, LockToWait(t, w) PROVE TaskType'
  <2>1. ops[t] + 1 \in 0..MaxOps
    BY <1>0, <1>2, ConstFacts DEF LockToWait
  <2>2. QED BY <1>0, <1>2, <2>1 DEF LockToWait, Goto, walkerVars, sourceVars, entryVars,
    TaskType, TaskLabel, WaitAt, QueueAt
<1>3. ASSUME NEW t \in Tasks, EntryCheck(t) PROVE TaskType'
  BY <1>0, <1>3, ConstFacts DEF EntryCheck, Goto, walkerVars, sourceVars, entryVars, TaskType,
    TaskLabel, WaitAt, QueueAt
<1>4. ASSUME NEW t \in Tasks, AcquireCancelEntry(t) PROVE TaskType'
  BY <1>0, <1>4, ConstFacts DEF AcquireCancelEntry, Goto, walkerVars, TaskType, TaskLabel,
    WaitAt, QueueAt
<1>5. ASSUME NEW t \in Tasks, Arm(t) PROVE TaskType'
  BY <1>0, <1>5, ConstFacts DEF Arm, Goto, walkerVars, sourceVars, TaskType, TaskLabel,
    WaitAt, QueueAt
<1>6. ASSUME NEW t \in Tasks, Enqueue(t) PROVE TaskType'
  BY <1>0, <1>6, ConstFacts DEF Enqueue, Goto, walkerVars, sourceVars, entryVars, TaskType,
    TaskLabel, WaitAt, QueueAt
<1>7. ASSUME NEW t \in Tasks, Register(t) PROVE TaskType'
  BY <1>0, <1>7, ConstFacts DEF Register, Goto, walkerVars, Publish, TaskType, TaskLabel,
    WaitAt, QueueAt
<1>8. ASSUME NEW t \in Tasks, Recheck(t) PROVE TaskType'
  BY <1>0, <1>8, ConstFacts DEF Recheck, Goto, walkerVars, sourceVars, entryVars, TaskType,
    TaskLabel, WaitAt, QueueAt
<1>9. ASSUME NEW t \in Tasks, Disarm(t) PROVE TaskType'
  BY <1>0, <1>9, ConstFacts DEF Disarm, Goto, walkerVars, sourceVars, TaskType, TaskLabel,
    WaitAt, QueueAt
<1>10. ASSUME NEW t \in Tasks, Suspend(t) PROVE TaskType'
  BY <1>0, <1>10, ConstFacts DEF Suspend, Goto, walkerVars, sourceVars, Publish, TaskType,
    TaskLabel, WaitAt, QueueAt
<1>11. ASSUME NEW t \in Tasks, Resume(t) PROVE TaskType'
  BY <1>0, <1>11, ConstFacts DEF Resume, Goto, walkerVars, sourceVars, entryVars, TaskType,
    TaskLabel, WaitAt, QueueAt
<1>12. ASSUME NEW t \in Tasks, Settle(t) PROVE TaskType'
  BY <1>0, <1>12, ConstFacts DEF Settle, Goto, walkerVars, sourceVars, entryVars, TaskType,
    TaskLabel, WaitAt, QueueAt
<1>13. ASSUME NEW t \in Tasks, Retire(t) PROVE TaskType'
  BY <1>0, <1>13, ConstFacts DEF Retire, Goto, walkerVars, TaskType, TaskLabel, WaitAt, QueueAt
<1>14. ASSUME NEW t \in Tasks, Unlock(t) PROVE TaskType'
  BY <1>0, <1>14, ConstFacts DEF Unlock, Goto, walkerVars, sourceVars, entryVars, TaskType,
    TaskLabel, WaitAt, QueueAt
<1>15. ASSUME NEW t \in Tasks, Interrupted(t) PROVE TaskType'
  BY <1>0, <1>15, ConstFacts DEF Interrupted, Goto, walkerVars, sourceVars, TaskType,
    TaskLabel, WaitAt, QueueAt
<1>16. ASSUME NEW t \in Tasks, Cleanup(t) PROVE TaskType'
  BY <1>0, <1>16, ConstFacts DEF Cleanup, Goto, walkerVars, sourceVars, entryVars, TaskType,
    TaskLabel, WaitAt, QueueAt
<1>17. ASSUME NEW t \in Tasks, LockToNotify(t) PROVE TaskType'
  <2>1. ops[t] + 1 \in 0..MaxOps
    BY <1>0, <1>17, ConstFacts DEF LockToNotify
  <2>2. QED BY <1>0, <1>17, <2>1 DEF LockToNotify, Goto, walkerVars, sourceVars, entryVars,
    TaskType, TaskLabel, WaitAt, QueueAt
<1>18. ASSUME NEW t \in Tasks, Notify(t) PROVE TaskType'
  BY <1>0, <1>18, ConstFacts DEF Notify, walkerVars, sourceVars, TaskType, TaskLabel, WaitAt,
    QueueAt
<1>19. ASSUME NEW t \in Tasks, NotifyEnds(t) PROVE TaskType'
  BY <1>0, <1>19, ConstFacts DEF NotifyEnds, Goto, walkerVars, sourceVars, entryVars,
    TaskType, TaskLabel, WaitAt, QueueAt
<1>20. ASSUME NEW t \in Tasks, Drain(t) PROVE TaskType'
  BY <1>1, <1>20 DEF Drain, taskVars, walkerVars, sourceVars, Publish
<1>21. ASSUME NEW k \in Cancellers, Raise(k) \/ WalkLock(k) \/ WalkHead(k) \/ WalkRetired(k)
           \/ WalkAux(k) \/ WalkArmed(k) \/ WalkClaim(k) \/ WalkUnlock(k) \/ WalkDeliver(k) \/
           WalkEnds(k) PROVE TaskType'
  BY <1>1, <1>21 DEF Raise, WalkLock, WalkHead, WalkRetired, WalkAux, WalkArmed, WalkClaim,
    WalkUnlock, WalkDeliver, WalkEnds, KGoto, taskVars, sourceVars, entryVars, Advance
<1>22. QED BY <1>1, <1>2, <1>3, <1>4, <1>5, <1>6, <1>7, <1>8, <1>9, <1>10, <1>11, <1>12,
    <1>13, <1>14, <1>15, <1>16, <1>17, <1>18, <1>19, <1>20, <1>21 DEF Next, WaitSteps,
    WalkSteps, Quiescent, vars, taskVars, walkerVars, sourceVars, entryVars

LEMMA ListTypeStep ==
  ASSUME TypeOK, HolderInv, [Next]_vars
  PROVE  ListType'
<1>0. reg \in [Sources -> Seq(Entries)] /\ waitq \in Seq(Entries) /\ ktodo \in [Cancellers ->
      Seq(Entries)] /\ want \in [Tasks -> Waits] /\ ops \in [Tasks -> 0..MaxOps] /\ retired
      \subseteq Entries /\ kpc \in [Cancellers -> WalkLabel]
  BY DEF TypeOK, TaskType, ListType, SourceType, WalkType
<1>1. ASSUME UNCHANGED <<reg, waitq, ktodo>> PROVE ListType'
  BY <1>0, <1>1 DEF ListType
<1>2. ASSUME NEW t \in Tasks, AcquireCancelEntry(t) PROVE ListType'
  <2>1. \A o \in Sources : Unlink(reg[o], EntryOf(t)) \in Seq(Entries)
    BY <1>0, UnlinkType
  <2>2. QED BY <1>0, <1>2, <2>1 DEF AcquireCancelEntry, Goto, walkerVars, ListType
<1>3. ASSUME NEW t \in Tasks, Enqueue(t) PROVE ListType'
  <2>1. <<EntryOf(t)>> \o waitq \in Seq(Entries) /\ Append(waitq, EntryOf(t)) \in Seq(Entries)
    BY <1>0, EntryFacts, PushFacts
  <2>2. QED BY <1>0, <1>3, <2>1 DEF Enqueue, Goto, walkerVars, sourceVars, entryVars, ListType
<1>4. ASSUME NEW t \in Tasks, Register(t) PROVE ListType'
  <2>1. <<EntryOf(t)>> \o reg[want[t].src] \in Seq(Entries) /\ want[t].src \in Sources
    BY <1>0, EntryFacts, PushFacts, WaitFacts
  <2>2. reg' \in [Sources -> Seq(Entries)]
    BY <1>0, <1>4, <2>1 DEF Register
  <2>3. QED BY <1>0, <1>4, <2>2 DEF Register, walkerVars, ListType
<1>5. ASSUME NEW t \in Tasks, Disarm(t) PROVE ListType'
  <2>1. Unlink(waitq, EntryOf(t)) \in Seq(Entries)
    BY <1>0, UnlinkType
  <2>2. QED BY <1>0, <1>5, <2>1 DEF Disarm, Goto, walkerVars, sourceVars, ListType
<1>6. ASSUME NEW t \in Tasks, Settle(t) PROVE ListType'
  <2>1. Unlink(waitq, EntryOf(t)) \in Seq(Entries)
    BY <1>0, UnlinkType
  <2>2. QED BY <1>0, <1>6, <2>1 DEF Settle, Goto, walkerVars, sourceVars, entryVars, ListType
<1>7. ASSUME NEW t \in Tasks, Retire(t) PROVE ListType'
  <2>1. reg[want[t].src] \in Seq(Entries) /\ want[t].src \in Sources
    BY <1>0, WaitFacts
  <2>2. \A K \in SUBSET (1..Len(reg[want[t].src])) : \A q \in Kept(reg[want[t].src], K) : q
    \in Seq(Entries)
    BY <2>1, KeptType
  <2>3. reg' \in [Sources -> Seq(Entries)]
    BY <1>0, <1>7, <2>1, <2>2 DEF Retire
  <2>4. QED BY <1>0, <1>7, <2>3 DEF Retire, walkerVars, ListType
<1>8. ASSUME NEW t \in Tasks, Cleanup(t) PROVE ListType'
  <2>1. Unlink(waitq, EntryOf(t)) \in Seq(Entries)
    BY <1>0, UnlinkType
  <2>2. QED BY <1>0, <1>8, <2>1 DEF Cleanup, Goto, walkerVars, sourceVars, entryVars, ListType
<1>9. ASSUME NEW t \in Tasks, Notify(t) PROVE ListType'
  <2>1. Tail(waitq) \in Seq(Entries)
    BY <1>0, <1>9, TailFacts DEF Notify
  <2>2. QED BY <1>0, <1>9, <2>1 DEF Notify, walkerVars, sourceVars, ListType
<1>10. ASSUME NEW k \in Cancellers, WalkHead(k) PROVE ListType'
  <2>1. reg[SourceOf(k)] \in Seq(Entries)
    BY <1>0, CallFacts
  <2>2. QED BY <1>0, <1>10, <2>1 DEF WalkHead, KGoto, taskVars, entryVars, ListType
<1>11. ASSUME NEW k \in Cancellers, WalkRetired(k) PROVE ListType'
  <2>1. Unlink(reg[SourceOf(k)], Head(ktodo[k])) \in Seq(Entries) /\ SourceOf(k) \in Sources
    BY <1>0, UnlinkType, CallFacts
  <2>2. Tail(ktodo[k]) \in Seq(Entries)
    BY <1>0, <1>11, TailFacts DEF WalkRetired
  <2>3. reg' \in [Sources -> Seq(Entries)]
    BY <1>0, <1>11, <2>1 DEF WalkRetired
  <2>4. QED BY <1>0, <1>11, <2>2, <2>3 DEF WalkRetired, Advance, ListType
<1>12. ASSUME NEW k \in Cancellers, WalkArmed(k) PROVE ListType'
  <2>1. ktodo[k] # <<>> /\ ktodo[k] \in Seq(Entries)
    BY <1>0, <1>12 DEF WalkArmed, KGoto, taskVars, sourceVars, entryVars, Advance, HolderInv
  <2>2. Tail(ktodo[k]) \in Seq(Entries)
    BY <2>1, TailFacts
  <2>3. QED BY <1>0, <1>12, <2>2 DEF WalkArmed, KGoto, taskVars, sourceVars, entryVars,
    Advance, ListType
<1>13. ASSUME NEW k \in Cancellers, WalkClaim(k) PROVE ListType'
  <2>1. ktodo[k] # <<>> /\ ktodo[k] \in Seq(Entries)
    BY <1>0, <1>13 DEF WalkClaim, KGoto, taskVars, sourceVars, Advance, HolderInv
  <2>2. Tail(ktodo[k]) \in Seq(Entries)
    BY <2>1, TailFacts
  <2>3. QED BY <1>0, <1>13, <2>2 DEF WalkClaim, KGoto, taskVars, sourceVars, Advance, ListType
<1>14. ASSUME NEW k \in Cancellers, WalkDeliver(k) PROVE ListType'
  <2>1. \A e : Unlink(waitq, e) \in Seq(Entries)
    BY <1>0, UnlinkType
  <2>2. QED BY <1>0, <1>14, <2>1 DEF WalkDeliver, taskVars, sourceVars, entryVars, ListType
<1>15. ASSUME NEW t \in Tasks, NEW w \in Waits, LockToWait(t, w) PROVE ListType'
  BY <1>1, <1>15 DEF LockToWait, Goto, walkerVars, sourceVars, entryVars
<1>16. ASSUME NEW t \in Tasks, EntryCheck(t) \/ Arm(t) \/ Drain(t) \/ Recheck(t) \/ Suspend(t)
           \/ Resume(t) \/ Unlock(t) \/ Interrupted(t) \/ LockToNotify(t) \/ NotifyEnds(t)
           PROVE ListType'
  BY <1>1, <1>16 DEF EntryCheck, Arm, Drain, Recheck, Suspend, Resume, Unlock, Interrupted,
    LockToNotify, NotifyEnds, Goto, taskVars, walkerVars, sourceVars, entryVars, Publish
<1>17. ASSUME NEW k \in Cancellers, Raise(k) \/ WalkLock(k) \/ WalkAux(k) \/ WalkUnlock(k) \/
           WalkEnds(k) PROVE ListType'
  BY <1>1, <1>17 DEF Raise, WalkLock, WalkAux, WalkUnlock, WalkEnds, KGoto, taskVars,
    sourceVars, entryVars
<1>18. QED BY <1>1, <1>2, <1>3, <1>4, <1>5, <1>6, <1>7, <1>8, <1>9, <1>10, <1>11, <1>12,
    <1>13, <1>14, <1>15, <1>16, <1>17 DEF Next, WaitSteps, WalkSteps, Quiescent, vars,
    taskVars, walkerVars, sourceVars, entryVars

LEMMA SourceTypeStep ==
  ASSUME TypeOK, HolderInv, [Next]_vars
  PROVE  SourceType'
<1>0. state \in [Sources -> Severity] /\ walk \in [Sources -> Cancellers \cup {None}] /\ dead
      \in [Sources -> Nat] /\ retired \subseteq Entries /\ want \in [Tasks -> Waits] /\ ops
      \in [Tasks -> 0..MaxOps]
  BY DEF TypeOK, TaskType, SourceType
<1>1. ASSUME UNCHANGED <<state, walk, dead, retired>> PROVE SourceType'
  BY <1>0, <1>1 DEF SourceType
<1>2. ASSUME NEW t \in Tasks, Retire(t) PROVE SourceType'
  <2>1. EntryOf(t) \in Entries /\ want[t].src \in Sources
    BY <1>0, EntryFacts, WaitFacts
  <2>2. QED BY <1>0, <1>2, <2>1 DEF Retire, Goto, walkerVars, SourceType
<1>3. ASSUME NEW k \in Cancellers, Raise(k) PROVE SourceType'
  <2>1. SourceOf(k) \in Sources /\ Cancels[k].sev \in Severity /\ state[SourceOf(k)] \in
    Severity
    BY <1>0, CallFacts
  <2>2. Max({state[SourceOf(k)], Cancels[k].sev}) \in Severity
    BY <2>1, MaxFacts DEF Severity
  <2>3. QED BY <1>0, <1>3, <2>2 DEF Raise, KGoto, taskVars, entryVars, SourceType
<1>4. ASSUME NEW k \in Cancellers, WalkLock(k) PROVE SourceType'
  BY <1>0, <1>4, ConstFacts DEF WalkLock, KGoto, taskVars, entryVars, SourceType, SourceOf
<1>5. ASSUME NEW k \in Cancellers, WalkHead(k) PROVE SourceType'
  BY <1>0, <1>5, ConstFacts DEF WalkHead, KGoto, taskVars, entryVars, SourceType, SourceOf
<1>6. ASSUME NEW k \in Cancellers, WalkUnlock(k) PROVE SourceType'
  BY <1>0, <1>6, ConstFacts DEF WalkUnlock, KGoto, taskVars, entryVars, SourceType, SourceOf
<1>7. ASSUME NEW t \in Tasks, NEW w \in Waits, LockToWait(t, w) PROVE SourceType'
  BY <1>1, <1>7 DEF LockToWait, Goto, walkerVars, sourceVars, entryVars
<1>8. ASSUME NEW t \in Tasks, EntryCheck(t) \/ AcquireCancelEntry(t) \/ Arm(t) \/ Drain(t) \/
           Enqueue(t) \/ Register(t) \/ Recheck(t) \/ Disarm(t) \/ Suspend(t) \/ Resume(t) \/
           Settle(t) \/ Unlock(t) \/ Interrupted(t) \/ Cleanup(t) \/ LockToNotify(t) \/
           Notify(t) \/ NotifyEnds(t) PROVE SourceType'
  BY <1>1, <1>8 DEF EntryCheck, AcquireCancelEntry, Arm, Drain, Enqueue, Register, Recheck,
    Disarm, Suspend, Resume, Settle, Unlock, Interrupted, Cleanup, LockToNotify, Notify,
    NotifyEnds, Goto, taskVars, walkerVars, sourceVars, entryVars, Publish
<1>9. ASSUME NEW k \in Cancellers, WalkRetired(k) \/ WalkAux(k) \/ WalkArmed(k) \/
           WalkClaim(k) \/ WalkDeliver(k) \/ WalkEnds(k) PROVE SourceType'
  BY <1>1, <1>9 DEF WalkRetired, WalkAux, WalkArmed, WalkClaim, WalkDeliver, WalkEnds, KGoto,
    taskVars, sourceVars, entryVars, Advance
<1>10. QED BY <1>1, <1>2, <1>3, <1>4, <1>5, <1>6, <1>7, <1>8, <1>9 DEF Next, WaitSteps,
    WalkSteps, Quiescent, vars, taskVars, walkerVars, sourceVars, entryVars

LEMMA WakeTypeStep ==
  ASSUME TypeOK, HolderInv, [Next]_vars
  PROVE  WakeType'
<1>0. on \in [Tasks -> Entries \cup {None}] /\ wake \in [Tasks -> WakeRec] /\ want \in [Tasks
      -> Waits] /\ ops \in [Tasks -> 0..MaxOps] /\ ksev \in [Cancellers -> Severity]
  BY DEF TypeOK, TaskType, WakeType, WalkType
<1>1. ASSUME UNCHANGED <<on, wake>> PROVE WakeType'
  BY <1>0, <1>1 DEF WakeType
<1>2. ASSUME NEW t \in Tasks, Drain(t) PROVE WakeType'
  <2>1. EntryOf(t) \in Entries
    BY <1>0, EntryFacts
  <2>2. QED BY <1>0, <1>2, <2>1 DEF Drain, taskVars, walkerVars, sourceVars, Publish, WakeType
<1>3. ASSUME NEW t \in Tasks, Register(t) PROVE WakeType'
  <2>1. EntryOf(t) \in Entries
    BY <1>0, EntryFacts
  <2>2. QED BY <1>0, <1>3, <2>1 DEF Register, Goto, walkerVars, Publish, WakeType
<1>4. ASSUME NEW t \in Tasks, Disarm(t) PROVE WakeType'
  BY <1>0, <1>4, ConstFacts DEF Disarm, Goto, walkerVars, sourceVars, WakeType, NoWake
<1>5. ASSUME NEW t \in Tasks, Suspend(t) PROVE WakeType'
  <2>1. EntryOf(t) \in Entries
    BY <1>0, EntryFacts
  <2>2. QED BY <1>0, <1>5, <2>1 DEF Suspend, Goto, walkerVars, sourceVars, Publish, WakeType
<1>6. ASSUME NEW t \in Tasks, Resume(t) PROVE WakeType'
  <2>1. NoWake \in WakeRec
    BY DEF NoWake, WakeRec, Severity
  <2>2. QED BY <1>0, <1>6, <2>1 DEF Resume, Goto, walkerVars, sourceVars, entryVars, WakeType
<1>7. ASSUME NEW t \in Tasks, Interrupted(t) PROVE WakeType'
  <2>1. NoWake \in WakeRec
    BY DEF NoWake, WakeRec, Severity
  <2>2. QED BY <1>0, <1>7, <2>1 DEF Interrupted, Goto, walkerVars, sourceVars, WakeType
<1>8. ASSUME NEW t \in Tasks, Cleanup(t) PROVE WakeType'
  <2>1. NoWake \in WakeRec
    BY DEF NoWake, WakeRec, Severity
  <2>2. QED BY <1>0, <1>8, <2>1 DEF Cleanup, Goto, walkerVars, sourceVars, entryVars, WakeType
<1>9. ASSUME NEW t \in Tasks, Notify(t) PROVE WakeType'
  <2>1. [how |-> "value", sev |-> 0] \in WakeRec
    BY DEF WakeRec, Severity
  <2>2. QED BY <1>0, <1>9, <2>1 DEF Notify, walkerVars, sourceVars, WakeType
<1>10. ASSUME NEW k \in Cancellers, WalkClaim(k) PROVE WakeType'
  BY <1>0, <1>10, ConstFacts DEF WalkClaim, KGoto, taskVars, sourceVars, Advance, WakeType,
    NoWake
<1>11. ASSUME NEW k \in Cancellers, WalkDeliver(k) PROVE WakeType'
  <2>1. ksev[k] \in Severity
    BY <1>0
  <2>2. \A b : [how |-> IF b THEN "value" ELSE "throw", sev |-> ksev[k]] \in WakeRec
    BY <2>1 DEF WakeRec
  <2>3. QED BY <1>0, <1>11, <2>2 DEF WalkDeliver, taskVars, sourceVars, entryVars, WakeType
<1>12. ASSUME NEW t \in Tasks, NEW w \in Waits, LockToWait(t, w) PROVE WakeType'
  BY <1>1, <1>12 DEF LockToWait, Goto, walkerVars, sourceVars, entryVars
<1>13. ASSUME NEW t \in Tasks, EntryCheck(t) \/ AcquireCancelEntry(t) \/ Arm(t) \/ Enqueue(t)
           \/ Recheck(t) \/ Settle(t) \/ Retire(t) \/ Unlock(t) \/ LockToNotify(t) \/
           NotifyEnds(t) PROVE WakeType'
  BY <1>1, <1>13 DEF EntryCheck, AcquireCancelEntry, Arm, Enqueue, Recheck, Settle, Retire,
    Unlock, LockToNotify, NotifyEnds, Goto, walkerVars, sourceVars, entryVars
<1>14. ASSUME NEW k \in Cancellers, Raise(k) \/ WalkLock(k) \/ WalkHead(k) \/ WalkRetired(k)
           \/ WalkAux(k) \/ WalkArmed(k) \/ WalkUnlock(k) \/ WalkEnds(k) PROVE WakeType'
  BY <1>1, <1>14 DEF Raise, WalkLock, WalkHead, WalkRetired, WalkAux, WalkArmed, WalkUnlock,
    WalkEnds, KGoto, taskVars, sourceVars, entryVars, Advance
<1>15. QED BY <1>1, <1>2, <1>3, <1>4, <1>5, <1>6, <1>7, <1>8, <1>9, <1>10, <1>11, <1>12,
    <1>13, <1>14 DEF Next, WaitSteps, WalkSteps, Quiescent, vars, taskVars, walkerVars,
    sourceVars, entryVars

LEMMA FlagTypeStep ==
  ASSUME TypeOK, HolderInv, [Next]_vars
  PROVE  FlagType'
<1>0. hidden \in [Tasks -> BOOLEAN] /\ aux \in [Entries -> Aux] /\ kaux \in [Cancellers ->
      Aux] /\ kclaim \in [Cancellers -> SUBSET (Entries \X BOOLEAN)] /\ want \in [Tasks ->
      Waits] /\ ops \in [Tasks -> 0..MaxOps] /\ ktodo \in [Cancellers -> Seq(Entries)] /\ kpc
      \in [Cancellers -> WalkLabel]
  BY DEF TypeOK, TaskType, ListType, FlagType, WalkType
<1>1. ASSUME UNCHANGED <<hidden, aux, kaux, kclaim>> PROVE FlagType'
  BY <1>0, <1>1 DEF FlagType
<1>2. ASSUME NEW t \in Tasks, AcquireCancelEntry(t) PROVE FlagType'
  <2>1. FloorOf(want[t]) \in Severity
    BY <1>0, WaitFacts
  <2>2. [floor |-> FloorOf(want[t]), watcher |-> FALSE] \in Aux
    BY <2>1 DEF Aux
  <2>3. QED BY <1>0, <1>2, <2>2 DEF AcquireCancelEntry, Goto, walkerVars, FlagType
<1>3. ASSUME NEW t \in Tasks, Arm(t) PROVE FlagType'
  BY <1>0, <1>3, ConstFacts DEF Arm, Goto, walkerVars, sourceVars, FlagType
<1>4. ASSUME NEW t \in Tasks, Drain(t) PROVE FlagType'
  BY <1>0, <1>4, ConstFacts DEF Drain, taskVars, walkerVars, sourceVars, Publish, FlagType
<1>5. ASSUME NEW t \in Tasks, Register(t) PROVE FlagType'
  <2>1. FloorOf(want[t]) \in Severity
    BY <1>0, WaitFacts
  <2>2. [floor |-> FloorOf(want[t]), watcher |-> want[t].mode = "value"] \in Aux
    BY <2>1 DEF Aux
  <2>3. aux' \in [Entries -> Aux]
    BY <1>0, <1>5, <2>2 DEF Register
  <2>4. hidden' \in [Tasks -> BOOLEAN]
    BY <1>0, <1>5 DEF Register, Publish
  <2>5. QED BY <1>0, <1>5, <2>3, <2>4 DEF Register, walkerVars, FlagType
<1>6. ASSUME NEW t \in Tasks, Suspend(t) PROVE FlagType'
  BY <1>0, <1>6, ConstFacts DEF Suspend, Goto, walkerVars, sourceVars, Publish, FlagType
<1>7. ASSUME NEW k \in Cancellers, WalkAux(k) PROVE FlagType'
  <2>1. Head(ktodo[k]) \in Entries
    BY <1>0, <1>7, TailFacts DEF WalkAux
  <2>2. QED BY <1>0, <1>7, <2>1 DEF WalkAux, KGoto, taskVars, sourceVars, entryVars, FlagType
<1>8. ASSUME NEW k \in Cancellers, WalkClaim(k) PROVE FlagType'
  <2>1. ktodo[k] # <<>> /\ ktodo[k] \in Seq(Entries)
    BY <1>0, <1>8 DEF WalkClaim, HolderInv
  <2>2. Head(ktodo[k]) \in Entries
    BY <2>1, TailFacts
  <2>3. kaux[k].watcher \in BOOLEAN
    BY <1>0 DEF Aux
  <2>4. <<Head(ktodo[k]), kaux[k].watcher>> \in Entries \X BOOLEAN
    BY <2>2, <2>3
  <2>5. QED BY <1>0, <1>8, <2>4 DEF WalkClaim, FlagType
<1>9. ASSUME NEW k \in Cancellers, WalkDeliver(k) PROVE FlagType'
  BY <1>0, <1>9, ConstFacts DEF WalkDeliver, taskVars, sourceVars, entryVars, FlagType
<1>10. ASSUME NEW t \in Tasks, NEW w \in Waits, LockToWait(t, w) PROVE FlagType'
  BY <1>1, <1>10 DEF LockToWait, Goto, walkerVars, sourceVars, entryVars
<1>11. ASSUME NEW t \in Tasks, EntryCheck(t) \/ Enqueue(t) \/ Recheck(t) \/ Disarm(t) \/
           Resume(t) \/ Settle(t) \/ Retire(t) \/ Unlock(t) \/ Interrupted(t) \/ Cleanup(t) \/
           LockToNotify(t) \/ Notify(t) \/ NotifyEnds(t) PROVE FlagType'
  BY <1>1, <1>11 DEF EntryCheck, Enqueue, Recheck, Disarm, Resume, Settle, Retire, Unlock,
    Interrupted, Cleanup, LockToNotify, Notify, NotifyEnds, Goto, walkerVars, sourceVars,
    entryVars
<1>12. ASSUME NEW k \in Cancellers, Raise(k) \/ WalkLock(k) \/ WalkHead(k) \/ WalkRetired(k)
           \/ WalkArmed(k) \/ WalkUnlock(k) \/ WalkEnds(k) PROVE FlagType'
  BY <1>1, <1>12 DEF Raise, WalkLock, WalkHead, WalkRetired, WalkArmed, WalkUnlock, WalkEnds,
    KGoto, taskVars, sourceVars, entryVars, Advance
<1>13. QED BY <1>1, <1>2, <1>3, <1>4, <1>5, <1>6, <1>7, <1>8, <1>9, <1>10, <1>11, <1>12 DEF
    Next, WaitSteps, WalkSteps, Quiescent, vars, taskVars, walkerVars, sourceVars, entryVars

LEMMA WalkTypeStep ==
  ASSUME TypeOK, HolderInv, [Next]_vars
  PROVE  WalkType'
<1>0. kpc \in [Cancellers -> WalkLabel] /\ ksev \in [Cancellers -> Severity] /\ state \in
      [Sources -> Severity]
  BY DEF TypeOK, SourceType, WalkType
<1>1. ASSUME UNCHANGED <<kpc, ksev>> PROVE WalkType'
  BY <1>0, <1>1 DEF WalkType
<1>2. ASSUME NEW k \in Cancellers, Raise(k) PROVE WalkType'
  BY <1>0, <1>2, ConstFacts DEF Raise, KGoto, taskVars, entryVars, WalkType, WalkLabel, ListAt
<1>3. ASSUME NEW k \in Cancellers, WalkLock(k) PROVE WalkType'
  <2>1. Cancels[k].sev \in Severity /\ state[SourceOf(k)] \in Severity
    BY <1>0, CallFacts
  <2>2. Max({state[SourceOf(k)], Cancels[k].sev}) \in Severity
    BY <2>1, MaxFacts DEF Severity
  <2>3. QED BY <1>0, <1>3, <2>2 DEF WalkLock, KGoto, taskVars, entryVars, WalkType, WalkLabel
<1>4. ASSUME NEW k \in Cancellers, WalkHead(k) PROVE WalkType'
  BY <1>0, <1>4, ConstFacts DEF WalkHead, KGoto, taskVars, entryVars, WalkType, WalkLabel,
    ListAt
<1>5. ASSUME NEW k \in Cancellers, WalkAux(k) PROVE WalkType'
  BY <1>0, <1>5, ConstFacts DEF WalkAux, KGoto, taskVars, sourceVars, entryVars, WalkType,
    WalkLabel, ListAt
<1>6. ASSUME NEW k \in Cancellers, WalkArmed(k) PROVE WalkType'
  BY <1>0, <1>6, ConstFacts DEF WalkArmed, KGoto, taskVars, sourceVars, entryVars, Advance,
    WalkType, WalkLabel, ListAt
<1>7. ASSUME NEW k \in Cancellers, WalkClaim(k) PROVE WalkType'
  BY <1>0, <1>7, ConstFacts DEF WalkClaim, KGoto, taskVars, sourceVars, Advance, WalkType,
    WalkLabel, ListAt
<1>8. ASSUME NEW k \in Cancellers, WalkUnlock(k) PROVE WalkType'
  BY <1>0, <1>8, ConstFacts DEF WalkUnlock, KGoto, taskVars, entryVars, WalkType, WalkLabel,
    ListAt
<1>9. ASSUME NEW k \in Cancellers, WalkEnds(k) PROVE WalkType'
  BY <1>0, <1>9, ConstFacts DEF WalkEnds, KGoto, taskVars, sourceVars, entryVars, WalkType,
    WalkLabel, ListAt
<1>10. ASSUME NEW t \in Tasks, NEW w \in Waits, LockToWait(t, w) PROVE WalkType'
  BY <1>1, <1>10 DEF LockToWait, Goto, walkerVars, sourceVars, entryVars
<1>11. ASSUME NEW t \in Tasks, EntryCheck(t) \/ AcquireCancelEntry(t) \/ Arm(t) \/ Drain(t) \/
           Enqueue(t) \/ Register(t) \/ Recheck(t) \/ Disarm(t) \/ Suspend(t) \/ Resume(t) \/
           Settle(t) \/ Retire(t) \/ Unlock(t) \/ Interrupted(t) \/ Cleanup(t) \/
           LockToNotify(t) \/ Notify(t) \/ NotifyEnds(t) PROVE WalkType'
  BY <1>1, <1>11 DEF EntryCheck, AcquireCancelEntry, Arm, Drain, Enqueue, Register, Recheck,
    Disarm, Suspend, Resume, Settle, Retire, Unlock, Interrupted, Cleanup, LockToNotify,
    Notify, NotifyEnds, Goto, taskVars, walkerVars, sourceVars, entryVars, Publish
<1>12. ASSUME NEW k \in Cancellers, WalkRetired(k) \/ WalkDeliver(k) PROVE WalkType'
  BY <1>1, <1>12 DEF WalkRetired, WalkDeliver, taskVars, sourceVars, entryVars, Advance
<1>13. QED BY <1>1, <1>2, <1>3, <1>4, <1>5, <1>6, <1>7, <1>8, <1>9, <1>10, <1>11, <1>12 DEF
    Next, WaitSteps, WalkSteps, Quiescent, vars, taskVars, walkerVars, sourceVars, entryVars

(* The locks, and where a wait of each kind may be. *)
LEMMA LockStep ==
  ASSUME TypeOK, LockInv, [Next]_vars
  PROVE  LockInv'
<1>0. pc \in [Tasks -> TaskLabel] /\ lck \in Tasks \cup {None}
  BY DEF TypeOK, TaskType
<1>1. ASSUME UNCHANGED <<pc, lck>> PROVE LockInv'
  BY <1>0, <1>1 DEF LockInv
<1>2. ASSUME NEW t \in Tasks, NEW w \in Waits, LockToWait(t, w) PROVE LockInv'
  BY <1>0, <1>2, ConstFacts DEF LockToWait, Goto, walkerVars, sourceVars, entryVars, LockInv
<1>3. ASSUME NEW t \in Tasks, EntryCheck(t) PROVE LockInv'
  BY <1>0, <1>3, ConstFacts DEF EntryCheck, Goto, walkerVars, sourceVars, entryVars, LockInv
<1>4. ASSUME NEW t \in Tasks, AcquireCancelEntry(t) PROVE LockInv'
  BY <1>0, <1>4, ConstFacts DEF AcquireCancelEntry, Goto, walkerVars, LockInv
<1>5. ASSUME NEW t \in Tasks, Arm(t) PROVE LockInv'
  BY <1>0, <1>5, ConstFacts DEF Arm, Goto, walkerVars, sourceVars, LockInv
<1>6. ASSUME NEW t \in Tasks, Enqueue(t) PROVE LockInv'
  BY <1>0, <1>6, ConstFacts DEF Enqueue, Goto, walkerVars, sourceVars, entryVars, LockInv
<1>7. ASSUME NEW t \in Tasks, Register(t) PROVE LockInv'
  BY <1>0, <1>7, ConstFacts DEF Register, Goto, walkerVars, Publish, LockInv
<1>8. ASSUME NEW t \in Tasks, Recheck(t) PROVE LockInv'
  BY <1>0, <1>8, ConstFacts DEF Recheck, Goto, walkerVars, sourceVars, entryVars, LockInv
<1>9. ASSUME NEW t \in Tasks, Disarm(t) PROVE LockInv'
  BY <1>0, <1>9, ConstFacts DEF Disarm, Goto, walkerVars, sourceVars, LockInv
<1>10. ASSUME NEW t \in Tasks, Suspend(t) PROVE LockInv'
  BY <1>0, <1>10, ConstFacts DEF Suspend, Goto, walkerVars, sourceVars, Publish, LockInv
<1>11. ASSUME NEW t \in Tasks, Resume(t) PROVE LockInv'
  BY <1>0, <1>11, ConstFacts DEF Resume, Goto, walkerVars, sourceVars, entryVars, LockInv
<1>12. ASSUME NEW t \in Tasks, Settle(t) PROVE LockInv'
  BY <1>0, <1>12, ConstFacts DEF Settle, Goto, walkerVars, sourceVars, entryVars, LockInv
<1>13. ASSUME NEW t \in Tasks, Retire(t) PROVE LockInv'
  BY <1>0, <1>13, ConstFacts DEF Retire, Goto, walkerVars, LockInv
<1>14. ASSUME NEW t \in Tasks, Unlock(t) PROVE LockInv'
  BY <1>0, <1>14, ConstFacts DEF Unlock, Goto, walkerVars, sourceVars, entryVars, LockInv
<1>15. ASSUME NEW t \in Tasks, Interrupted(t) PROVE LockInv'
  BY <1>0, <1>15, ConstFacts DEF Interrupted, Goto, walkerVars, sourceVars, LockInv
<1>16. ASSUME NEW t \in Tasks, Cleanup(t) PROVE LockInv'
  BY <1>0, <1>16, ConstFacts DEF Cleanup, Goto, walkerVars, sourceVars, entryVars, LockInv
<1>17. ASSUME NEW t \in Tasks, LockToNotify(t) PROVE LockInv'
  BY <1>0, <1>17, ConstFacts DEF LockToNotify, Goto, walkerVars, sourceVars, entryVars, LockInv
<1>18. ASSUME NEW t \in Tasks, Notify(t) PROVE LockInv'
  BY <1>0, <1>18, ConstFacts DEF Notify, walkerVars, sourceVars, LockInv
<1>19. ASSUME NEW t \in Tasks, NotifyEnds(t) PROVE LockInv'
  BY <1>0, <1>19, ConstFacts DEF NotifyEnds, Goto, walkerVars, sourceVars, entryVars, LockInv
<1>20. ASSUME NEW t \in Tasks, Drain(t) PROVE LockInv'
  BY <1>1, <1>20 DEF Drain, taskVars, walkerVars, sourceVars, Publish
<1>21. ASSUME NEW k \in Cancellers, Raise(k) \/ WalkLock(k) \/ WalkHead(k) \/ WalkRetired(k)
           \/ WalkAux(k) \/ WalkArmed(k) \/ WalkClaim(k) \/ WalkUnlock(k) \/ WalkDeliver(k) \/
           WalkEnds(k) PROVE LockInv'
  BY <1>1, <1>21 DEF Raise, WalkLock, WalkHead, WalkRetired, WalkAux, WalkArmed, WalkClaim,
    WalkUnlock, WalkDeliver, WalkEnds, KGoto, taskVars, sourceVars, entryVars, Advance
<1>22. QED BY <1>1, <1>2, <1>3, <1>4, <1>5, <1>6, <1>7, <1>8, <1>9, <1>10, <1>11, <1>12,
    <1>13, <1>14, <1>15, <1>16, <1>17, <1>18, <1>19, <1>20, <1>21 DEF Next, WaitSteps,
    WalkSteps, Quiescent, vars, taskVars, walkerVars, sourceVars, entryVars

LEMMA HolderStep ==
  ASSUME TypeOK, HolderInv, [Next]_vars
  PROVE  HolderInv'
<1>0. kpc \in [Cancellers -> WalkLabel] /\ walk \in [Sources -> Cancellers \cup {None}] /\
      ktodo \in [Cancellers -> Seq(Entries)] /\ kclaim \in [Cancellers -> SUBSET (Entries \X
      BOOLEAN)]
  BY DEF TypeOK, ListType, SourceType, FlagType, WalkType
<1>1. ASSUME UNCHANGED <<kpc, walk, ktodo, kclaim>> PROVE HolderInv'
  BY <1>0, <1>1 DEF HolderInv
<1>2. ASSUME NEW k \in Cancellers, Raise(k) PROVE HolderInv'
  BY <1>0, <1>2, ConstFacts DEF Raise, KGoto, taskVars, entryVars, HolderInv, SourceOf, ListAt
<1>3. ASSUME NEW k \in Cancellers, WalkLock(k) PROVE HolderInv'
  <2>1. SourceOf(k) \in Sources
    BY CallFacts
  <2>2. ASSUME NEW j \in Cancellers, j # k, kpc[j] \in ListAt \cup {"head"} PROVE SourceOf(j)
    # SourceOf(k)
    BY <1>0, <1>3, <2>2, ConstFacts DEF WalkLock, HolderInv
  <2>3. QED BY <1>0, <1>3, <2>1, <2>2, CallFacts DEF WalkLock, KGoto, taskVars, entryVars,
    HolderInv, ListAt
<1>4. ASSUME NEW k \in Cancellers, WalkHead(k) PROVE HolderInv'
  BY <1>0, <1>4, ConstFacts DEF WalkHead, KGoto, taskVars, entryVars, HolderInv, SourceOf,
    ListAt
<1>5. ASSUME NEW k \in Cancellers, WalkRetired(k) PROVE HolderInv'
  BY <1>0, <1>5, ConstFacts DEF WalkRetired, taskVars, entryVars, Advance, HolderInv,
    SourceOf, ListAt
<1>6. ASSUME NEW k \in Cancellers, WalkAux(k) PROVE HolderInv'
  BY <1>0, <1>6, ConstFacts DEF WalkAux, KGoto, taskVars, sourceVars, entryVars, HolderInv,
    SourceOf, ListAt
<1>7. ASSUME NEW k \in Cancellers, WalkArmed(k) PROVE HolderInv'
  BY <1>0, <1>7, ConstFacts DEF WalkArmed, KGoto, taskVars, sourceVars, entryVars, Advance,
    HolderInv, SourceOf, ListAt
<1>8. ASSUME NEW k \in Cancellers, WalkClaim(k) PROVE HolderInv'
  BY <1>0, <1>8, ConstFacts DEF WalkClaim, KGoto, taskVars, sourceVars, Advance, HolderInv,
    SourceOf, ListAt
<1>9. ASSUME NEW k \in Cancellers, WalkUnlock(k) PROVE HolderInv'
  BY <1>0, <1>9, ConstFacts DEF WalkUnlock, KGoto, taskVars, entryVars, HolderInv, SourceOf,
    ListAt
<1>10. ASSUME NEW k \in Cancellers, WalkDeliver(k) PROVE HolderInv'
  BY <1>0, <1>10, ConstFacts DEF WalkDeliver, taskVars, sourceVars, entryVars, HolderInv,
    SourceOf, ListAt
<1>11. ASSUME NEW k \in Cancellers, WalkEnds(k) PROVE HolderInv'
  BY <1>0, <1>11, ConstFacts DEF WalkEnds, KGoto, taskVars, sourceVars, entryVars, HolderInv,
    SourceOf, ListAt
<1>12. ASSUME NEW t \in Tasks, NEW w \in Waits, LockToWait(t, w) PROVE HolderInv'
  BY <1>1, <1>12 DEF LockToWait, Goto, walkerVars, sourceVars, entryVars
<1>13. ASSUME NEW t \in Tasks, EntryCheck(t) \/ AcquireCancelEntry(t) \/ Arm(t) \/ Drain(t) \/
           Enqueue(t) \/ Register(t) \/ Recheck(t) \/ Disarm(t) \/ Suspend(t) \/ Resume(t) \/
           Settle(t) \/ Retire(t) \/ Unlock(t) \/ Interrupted(t) \/ Cleanup(t) \/
           LockToNotify(t) \/ Notify(t) \/ NotifyEnds(t) PROVE HolderInv'
  BY <1>1, <1>13 DEF EntryCheck, AcquireCancelEntry, Arm, Drain, Enqueue, Register, Recheck,
    Disarm, Suspend, Resume, Settle, Retire, Unlock, Interrupted, Cleanup, LockToNotify,
    Notify, NotifyEnds, Goto, taskVars, walkerVars, sourceVars, entryVars, Publish
<1>14. QED BY <1>1, <1>2, <1>3, <1>4, <1>5, <1>6, <1>7, <1>8, <1>9, <1>10, <1>11, <1>12, <1>13
    DEF Next, WaitSteps, WalkSteps, Quiescent, vars, taskVars, walkerVars, sourceVars,
    entryVars

LEMMA ModeStep ==
  ASSUME TypeOK, ModeInv, [Next]_vars
  PROVE  ModeInv'
<1>0. pc \in [Tasks -> TaskLabel] /\ want \in [Tasks -> Waits] /\ ops \in [Tasks -> 0..MaxOps]
  BY DEF TypeOK, TaskType
<1>1. ASSUME UNCHANGED <<pc, want, ops>> PROVE ModeInv'
  BY <1>0, <1>1 DEF ModeInv
<1>2. ASSUME NEW t \in Tasks, NEW w \in Waits, LockToWait(t, w) PROVE ModeInv'
  BY <1>0, <1>2, ConstFacts DEF LockToWait, Goto, walkerVars, sourceVars, entryVars, ModeInv
<1>3. ASSUME NEW t \in Tasks, EntryCheck(t) PROVE ModeInv'
  BY <1>0, <1>3, ConstFacts DEF EntryCheck, Goto, walkerVars, sourceVars, entryVars, ModeInv
<1>4. ASSUME NEW t \in Tasks, AcquireCancelEntry(t) PROVE ModeInv'
  BY <1>0, <1>4, ConstFacts DEF AcquireCancelEntry, Goto, walkerVars, ModeInv
<1>5. ASSUME NEW t \in Tasks, Arm(t) PROVE ModeInv'
  BY <1>0, <1>5, ConstFacts DEF Arm, Goto, walkerVars, sourceVars, ModeInv
<1>6. ASSUME NEW t \in Tasks, Enqueue(t) PROVE ModeInv'
  BY <1>0, <1>6, ConstFacts DEF Enqueue, Goto, walkerVars, sourceVars, entryVars, ModeInv
<1>7. ASSUME NEW t \in Tasks, Register(t) PROVE ModeInv'
  BY <1>0, <1>7, ConstFacts DEF Register, Goto, walkerVars, Publish, ModeInv
<1>8. ASSUME NEW t \in Tasks, Recheck(t) PROVE ModeInv'
  BY <1>0, <1>8, ConstFacts DEF Recheck, Goto, walkerVars, sourceVars, entryVars, ModeInv
<1>9. ASSUME NEW t \in Tasks, Disarm(t) PROVE ModeInv'
  BY <1>0, <1>9, ConstFacts DEF Disarm, Goto, walkerVars, sourceVars, ModeInv
<1>10. ASSUME NEW t \in Tasks, Suspend(t) PROVE ModeInv'
  BY <1>0, <1>10, ConstFacts DEF Suspend, Goto, walkerVars, sourceVars, Publish, ModeInv
<1>11. ASSUME NEW t \in Tasks, Resume(t) PROVE ModeInv'
  BY <1>0, <1>11, ConstFacts DEF Resume, Goto, walkerVars, sourceVars, entryVars, ModeInv
<1>12. ASSUME NEW t \in Tasks, Settle(t) PROVE ModeInv'
  BY <1>0, <1>12, ConstFacts DEF Settle, Goto, walkerVars, sourceVars, entryVars, ModeInv
<1>13. ASSUME NEW t \in Tasks, Retire(t) PROVE ModeInv'
  BY <1>0, <1>13, ConstFacts DEF Retire, Goto, walkerVars, ModeInv
<1>14. ASSUME NEW t \in Tasks, Unlock(t) PROVE ModeInv'
  BY <1>0, <1>14, ConstFacts DEF Unlock, Goto, walkerVars, sourceVars, entryVars, ModeInv
<1>15. ASSUME NEW t \in Tasks, Interrupted(t) PROVE ModeInv'
  BY <1>0, <1>15, ConstFacts DEF Interrupted, Goto, walkerVars, sourceVars, ModeInv
<1>16. ASSUME NEW t \in Tasks, Cleanup(t) PROVE ModeInv'
  BY <1>0, <1>16, ConstFacts DEF Cleanup, Goto, walkerVars, sourceVars, entryVars, ModeInv
<1>17. ASSUME NEW t \in Tasks, LockToNotify(t) PROVE ModeInv'
  BY <1>0, <1>17, ConstFacts DEF LockToNotify, Goto, walkerVars, sourceVars, entryVars, ModeInv
<1>18. ASSUME NEW t \in Tasks, Notify(t) PROVE ModeInv'
  BY <1>0, <1>18, ConstFacts DEF Notify, walkerVars, sourceVars, ModeInv
<1>19. ASSUME NEW t \in Tasks, NotifyEnds(t) PROVE ModeInv'
  BY <1>0, <1>19, ConstFacts DEF NotifyEnds, Goto, walkerVars, sourceVars, entryVars, ModeInv
<1>20. ASSUME NEW t \in Tasks, Drain(t) PROVE ModeInv'
  BY <1>1, <1>20 DEF Drain, taskVars, walkerVars, sourceVars, Publish
<1>21. ASSUME NEW k \in Cancellers, Raise(k) \/ WalkLock(k) \/ WalkHead(k) \/ WalkRetired(k)
           \/ WalkAux(k) \/ WalkArmed(k) \/ WalkClaim(k) \/ WalkUnlock(k) \/ WalkDeliver(k) \/
           WalkEnds(k) PROVE ModeInv'
  BY <1>1, <1>21 DEF Raise, WalkLock, WalkHead, WalkRetired, WalkAux, WalkArmed, WalkClaim,
    WalkUnlock, WalkDeliver, WalkEnds, KGoto, taskVars, sourceVars, entryVars, Advance
<1>22. QED BY <1>1, <1>2, <1>3, <1>4, <1>5, <1>6, <1>7, <1>8, <1>9, <1>10, <1>11, <1>12,
    <1>13, <1>14, <1>15, <1>16, <1>17, <1>18, <1>19, <1>20, <1>21 DEF Next, WaitSteps,
    WalkSteps, Quiescent, vars, taskVars, walkerVars, sourceVars, entryVars

(* Arms and the owners of a wake. *)
LEMMA ArmStep ==
  ASSUME TypeOK, ArmInv, OwnerInv, [Next]_vars
  PROVE  ArmInv'
<1>0. pc \in [Tasks -> TaskLabel] /\ on \in [Tasks -> Entries \cup {None}] /\ hidden \in
      [Tasks -> BOOLEAN] /\ want \in [Tasks -> Waits] /\ ops \in [Tasks -> 0..MaxOps]
  BY DEF TypeOK, TaskType, WakeType, FlagType
<1>1. ASSUME UNCHANGED <<on, hidden, pc, want, ops>> PROVE ArmInv'
  BY <1>0, <1>1 DEF ArmInv, EntryOf
<1>2. ASSUME NEW t \in Tasks, NEW w \in Waits, LockToWait(t, w) PROVE ArmInv'
  <2>e. \A u \in Tasks : u # t => EntryOf(u)' = EntryOf(u) /\ FloorOf(want[u])' =
    FloorOf(want[u])
    BY <1>0, <1>2, SameEntry DEF LockToWait
  <2> QED BY <1>0, <1>2, <2>e, ConstFacts DEF LockToWait, Goto, walkerVars, sourceVars,
    entryVars, ArmInv, OwnerInv, Armed, WaitAt
<1>3. ASSUME NEW t \in Tasks, EntryCheck(t) PROVE ArmInv'
  <2>e. \A u \in Tasks : EntryOf(u)' = EntryOf(u) /\ FloorOf(want[u])' = FloorOf(want[u])
    BY <1>0, <1>3, SameEntry DEF EntryCheck
  <2> QED BY <1>0, <1>3, <2>e, ConstFacts DEF EntryCheck, Goto, walkerVars, sourceVars,
    entryVars, ArmInv, OwnerInv, Armed, WaitAt
<1>4. ASSUME NEW t \in Tasks, AcquireCancelEntry(t) PROVE ArmInv'
  <2>e. \A u \in Tasks : EntryOf(u)' = EntryOf(u) /\ FloorOf(want[u])' = FloorOf(want[u])
    BY <1>0, <1>4, SameEntry DEF AcquireCancelEntry
  <2> QED BY <1>0, <1>4, <2>e, ConstFacts DEF AcquireCancelEntry, Goto, walkerVars, ArmInv,
    OwnerInv, Armed, WaitAt
<1>5. ASSUME NEW t \in Tasks, Arm(t) PROVE ArmInv'
  <2>e. \A u \in Tasks : EntryOf(u)' = EntryOf(u) /\ FloorOf(want[u])' = FloorOf(want[u])
    BY <1>0, <1>5, SameEntry DEF Arm
  <2> QED BY <1>0, <1>5, <2>e, ConstFacts DEF Arm, Goto, walkerVars, sourceVars, ArmInv,
    OwnerInv, Armed, WaitAt
<1>6. ASSUME NEW t \in Tasks, Drain(t) PROVE ArmInv'
  <2>e. \A u \in Tasks : EntryOf(u)' = EntryOf(u) /\ FloorOf(want[u])' = FloorOf(want[u])
    BY <1>0, <1>6, SameEntry DEF Drain, taskVars
  <2> QED BY <1>0, <1>6, <2>e, ConstFacts DEF Drain, taskVars, walkerVars, sourceVars,
    Publish, ArmInv, OwnerInv, Armed, WaitAt
<1>7. ASSUME NEW t \in Tasks, Enqueue(t) PROVE ArmInv'
  <2>e. \A u \in Tasks : EntryOf(u)' = EntryOf(u) /\ FloorOf(want[u])' = FloorOf(want[u])
    BY <1>0, <1>7, SameEntry DEF Enqueue
  <2> QED BY <1>0, <1>7, <2>e, ConstFacts DEF Enqueue, Goto, walkerVars, sourceVars,
    entryVars, ArmInv, OwnerInv, Armed, WaitAt
<1>8. ASSUME NEW t \in Tasks, Register(t) PROVE ArmInv'
  <2>e. \A u \in Tasks : EntryOf(u)' = EntryOf(u) /\ FloorOf(want[u])' = FloorOf(want[u])
    BY <1>0, <1>8, SameEntry DEF Register
  <2> QED BY <1>0, <1>8, <2>e, ConstFacts DEF Register, Goto, walkerVars, Publish, ArmInv,
    OwnerInv, Armed, WaitAt
<1>9. ASSUME NEW t \in Tasks, Recheck(t) PROVE ArmInv'
  <2>e. \A u \in Tasks : EntryOf(u)' = EntryOf(u) /\ FloorOf(want[u])' = FloorOf(want[u])
    BY <1>0, <1>9, SameEntry DEF Recheck
  <2> QED BY <1>0, <1>9, <2>e, ConstFacts DEF Recheck, Goto, walkerVars, sourceVars,
    entryVars, ArmInv, OwnerInv, Armed, WaitAt
<1>10. ASSUME NEW t \in Tasks, Disarm(t) PROVE ArmInv'
  <2>e. \A u \in Tasks : EntryOf(u)' = EntryOf(u) /\ FloorOf(want[u])' = FloorOf(want[u])
    BY <1>0, <1>10, SameEntry DEF Disarm
  <2> QED BY <1>0, <1>10, <2>e, ConstFacts DEF Disarm, Goto, walkerVars, sourceVars, ArmInv,
    OwnerInv, Armed, WaitAt
<1>11. ASSUME NEW t \in Tasks, Suspend(t) PROVE ArmInv'
  <2>e. \A u \in Tasks : EntryOf(u)' = EntryOf(u) /\ FloorOf(want[u])' = FloorOf(want[u])
    BY <1>0, <1>11, SameEntry DEF Suspend
  <2> QED BY <1>0, <1>11, <2>e, ConstFacts DEF Suspend, Goto, walkerVars, sourceVars, Publish,
    ArmInv, OwnerInv, Armed, WaitAt
<1>12. ASSUME NEW t \in Tasks, Resume(t) PROVE ArmInv'
  <2>e. \A u \in Tasks : EntryOf(u)' = EntryOf(u) /\ FloorOf(want[u])' = FloorOf(want[u])
    BY <1>0, <1>12, SameEntry DEF Resume
  <2> QED BY <1>0, <1>12, <2>e, ConstFacts DEF Resume, Goto, walkerVars, sourceVars,
    entryVars, ArmInv, OwnerInv, Armed, WaitAt
<1>13. ASSUME NEW t \in Tasks, Settle(t) PROVE ArmInv'
  <2>e. \A u \in Tasks : EntryOf(u)' = EntryOf(u) /\ FloorOf(want[u])' = FloorOf(want[u])
    BY <1>0, <1>13, SameEntry DEF Settle
  <2> QED BY <1>0, <1>13, <2>e, ConstFacts DEF Settle, Goto, walkerVars, sourceVars,
    entryVars, ArmInv, OwnerInv, Armed, WaitAt
<1>14. ASSUME NEW t \in Tasks, Retire(t) PROVE ArmInv'
  <2>e. \A u \in Tasks : EntryOf(u)' = EntryOf(u) /\ FloorOf(want[u])' = FloorOf(want[u])
    BY <1>0, <1>14, SameEntry DEF Retire
  <2> QED BY <1>0, <1>14, <2>e, ConstFacts DEF Retire, Goto, walkerVars, ArmInv, OwnerInv,
    Armed, WaitAt
<1>15. ASSUME NEW t \in Tasks, Unlock(t) PROVE ArmInv'
  <2>e. \A u \in Tasks : EntryOf(u)' = EntryOf(u) /\ FloorOf(want[u])' = FloorOf(want[u])
    BY <1>0, <1>15, SameEntry DEF Unlock
  <2> QED BY <1>0, <1>15, <2>e, ConstFacts DEF Unlock, Goto, walkerVars, sourceVars,
    entryVars, ArmInv, OwnerInv, Armed, WaitAt
<1>16. ASSUME NEW t \in Tasks, Interrupted(t) PROVE ArmInv'
  <2>e. \A u \in Tasks : EntryOf(u)' = EntryOf(u) /\ FloorOf(want[u])' = FloorOf(want[u])
    BY <1>0, <1>16, SameEntry DEF Interrupted
  <2> QED BY <1>0, <1>16, <2>e, ConstFacts DEF Interrupted, Goto, walkerVars, sourceVars,
    ArmInv, OwnerInv, Armed, WaitAt
<1>17. ASSUME NEW t \in Tasks, Cleanup(t) PROVE ArmInv'
  <2>e. \A u \in Tasks : EntryOf(u)' = EntryOf(u) /\ FloorOf(want[u])' = FloorOf(want[u])
    BY <1>0, <1>17, SameEntry DEF Cleanup
  <2> QED BY <1>0, <1>17, <2>e, ConstFacts DEF Cleanup, Goto, walkerVars, sourceVars,
    entryVars, ArmInv, OwnerInv, Armed, WaitAt
<1>18. ASSUME NEW t \in Tasks, LockToNotify(t) PROVE ArmInv'
  <2>e. \A u \in Tasks : u # t => EntryOf(u)' = EntryOf(u) /\ FloorOf(want[u])' =
    FloorOf(want[u])
    BY <1>0, <1>18, SameEntry DEF LockToNotify
  <2> QED BY <1>0, <1>18, <2>e, ConstFacts DEF LockToNotify, Goto, walkerVars, sourceVars,
    entryVars, ArmInv, OwnerInv, Armed, WaitAt
<1>19. ASSUME NEW t \in Tasks, Notify(t) PROVE ArmInv'
  <2>e. \A u \in Tasks : EntryOf(u)' = EntryOf(u) /\ FloorOf(want[u])' = FloorOf(want[u])
    BY <1>0, <1>19, SameEntry DEF Notify
  <2> QED BY <1>0, <1>19, <2>e, ConstFacts DEF Notify, walkerVars, sourceVars, ArmInv,
    OwnerInv, Armed, WaitAt
<1>20. ASSUME NEW t \in Tasks, NotifyEnds(t) PROVE ArmInv'
  <2>e. \A u \in Tasks : EntryOf(u)' = EntryOf(u) /\ FloorOf(want[u])' = FloorOf(want[u])
    BY <1>0, <1>20, SameEntry DEF NotifyEnds
  <2> QED BY <1>0, <1>20, <2>e, ConstFacts DEF NotifyEnds, Goto, walkerVars, sourceVars,
    entryVars, ArmInv, OwnerInv, Armed, WaitAt
<1>21. ASSUME NEW k \in Cancellers, WalkClaim(k) PROVE ArmInv'
  <2>e. \A u \in Tasks : EntryOf(u)' = EntryOf(u) /\ FloorOf(want[u])' = FloorOf(want[u])
    BY <1>0, <1>21, SameEntry DEF WalkClaim, taskVars
  <2> QED BY <1>0, <1>21, <2>e, ConstFacts DEF WalkClaim, KGoto, taskVars, sourceVars,
    Advance, ArmInv, OwnerInv, Armed, WaitAt
<1>22. ASSUME NEW k \in Cancellers, Raise(k) \/ WalkLock(k) \/ WalkHead(k) \/ WalkRetired(k)
           \/ WalkAux(k) \/ WalkArmed(k) \/ WalkUnlock(k) \/ WalkDeliver(k) \/ WalkEnds(k)
           PROVE ArmInv'
  BY <1>1, <1>22 DEF Raise, WalkLock, WalkHead, WalkRetired, WalkAux, WalkArmed, WalkUnlock,
    WalkDeliver, WalkEnds, KGoto, taskVars, sourceVars, entryVars, Advance
<1>23. QED BY <1>1, <1>2, <1>3, <1>4, <1>5, <1>6, <1>7, <1>8, <1>9, <1>10, <1>11, <1>12,
    <1>13, <1>14, <1>15, <1>16, <1>17, <1>18, <1>19, <1>20, <1>21, <1>22 DEF Next, WaitSteps,
    WalkSteps, Quiescent, vars, taskVars, walkerVars, sourceVars, entryVars

LEMMA OwnerStep ==
  ASSUME TypeOK, HolderInv, ArmInv, OwnerInv, ClaimInv, [Next]_vars
  PROVE  OwnerInv'
<1>0. pc \in [Tasks -> TaskLabel] /\ on \in [Tasks -> Entries \cup {None}] /\ hidden \in
      [Tasks -> BOOLEAN] /\ wake \in [Tasks -> WakeRec] /\ kclaim \in [Cancellers -> SUBSET
      (Entries \X BOOLEAN)] /\ ktodo \in [Cancellers -> Seq(Entries)] /\ kpc \in [Cancellers
      -> WalkLabel] /\ want \in [Tasks -> Waits] /\ ops \in [Tasks -> 0..MaxOps] /\ waitq \in
      Seq(Entries)
  BY DEF TypeOK, TaskType, ListType, WakeType, FlagType, WalkType
<1>1. ASSUME UNCHANGED <<on, hidden, wake, pc, kclaim>> PROVE OwnerInv'
  BY <1>0, <1>1 DEF OwnerInv, Armed, HeldBy
<1>2. ASSUME NEW t \in Tasks, NEW w \in Waits, LockToWait(t, w) PROVE OwnerInv'
  <2>h. \A j \in Cancellers : \A u \in Tasks : HeldBy(j, u)' <=> HeldBy(j, u)
    BY <1>2 DEF HeldBy, LockToWait, walkerVars
  <2> QED BY <1>0, <1>2, <2>h, ConstFacts DEF LockToWait, Goto, walkerVars, sourceVars,
    entryVars, OwnerInv, ArmInv, Armed, WaitAt, NoWake
<1>3. ASSUME NEW t \in Tasks, EntryCheck(t) PROVE OwnerInv'
  <2>h. \A j \in Cancellers : \A u \in Tasks : HeldBy(j, u)' <=> HeldBy(j, u)
    BY <1>3 DEF HeldBy, EntryCheck, walkerVars
  <2>1. /\ pc[t] = "check" /\ UNCHANGED <<on, hidden, wake>>
        /\ \E l \in {"idle", "entry", "arm"} : pc' = [pc EXCEPT ![t] = l]
    BY <1>3 DEF EntryCheck, Goto, entryVars
  <2>2. \A u \in Tasks : pc'[u] \in WaitAt <=> pc[u] \in WaitAt
    BY <1>0, <2>1 DEF WaitAt
  <2>3. \A u \in Tasks : (Armed(u)' <=> Armed(u)) /\ wake'[u] = wake[u]
    BY <2>1 DEF Armed
  <2> QED BY <2>h, <2>2, <2>3 DEF OwnerInv, NoWake
<1>4. ASSUME NEW t \in Tasks, AcquireCancelEntry(t) PROVE OwnerInv'
  <2>h. \A j \in Cancellers : \A u \in Tasks : HeldBy(j, u)' <=> HeldBy(j, u)
    BY <1>4 DEF HeldBy, AcquireCancelEntry, walkerVars
  <2> QED BY <1>0, <1>4, <2>h, ConstFacts DEF AcquireCancelEntry, Goto, walkerVars, OwnerInv,
    ArmInv, Armed, WaitAt, NoWake
<1>5. ASSUME NEW t \in Tasks, Arm(t) PROVE OwnerInv'
  <2>h. \A j \in Cancellers : \A u \in Tasks : HeldBy(j, u)' <=> HeldBy(j, u)
    BY <1>5 DEF HeldBy, Arm, walkerVars
  <2> QED BY <1>0, <1>5, <2>h, ConstFacts DEF Arm, Goto, walkerVars, sourceVars, OwnerInv,
    ArmInv, Armed, WaitAt, NoWake
<1>6. ASSUME NEW t \in Tasks, Drain(t) PROVE OwnerInv'
  <2>h. \A j \in Cancellers : \A u \in Tasks : HeldBy(j, u)' <=> HeldBy(j, u)
    BY <1>6 DEF HeldBy, Drain, walkerVars
  <2>1. \A u \in Tasks : Armed(u)' <=> Armed(u)
    BY <1>0, <1>6, EntryFacts, ConstFacts DEF Drain, Publish, Armed
  <2>2. QED BY <1>0, <1>6, <2>h, <2>1 DEF Drain, taskVars, walkerVars, sourceVars, Publish,
    OwnerInv, WaitAt
<1>7. ASSUME NEW t \in Tasks, Enqueue(t) PROVE OwnerInv'
  <2>h. \A j \in Cancellers : \A u \in Tasks : HeldBy(j, u)' <=> HeldBy(j, u)
    BY <1>7 DEF HeldBy, Enqueue, walkerVars
  <2> QED BY <1>0, <1>7, <2>h, ConstFacts DEF Enqueue, Goto, walkerVars, sourceVars,
    entryVars, OwnerInv, ArmInv, Armed, WaitAt, NoWake
<1>8. ASSUME NEW t \in Tasks, Register(t) PROVE OwnerInv'
  <2>h. \A j \in Cancellers : \A u \in Tasks : HeldBy(j, u)' <=> HeldBy(j, u)
    BY <1>8 DEF HeldBy, Register, walkerVars
  <2>1. \A u \in Tasks : Armed(u)' <=> Armed(u)
    BY <1>0, <1>8, EntryFacts, ConstFacts DEF Register, Publish, Armed
  <2>2. QED BY <1>0, <1>8, <2>h, <2>1 DEF Register, Goto, walkerVars, Publish, OwnerInv, WaitAt
<1>9. ASSUME NEW t \in Tasks, Recheck(t) PROVE OwnerInv'
  <2>h. \A j \in Cancellers : \A u \in Tasks : HeldBy(j, u)' <=> HeldBy(j, u)
    BY <1>9 DEF HeldBy, Recheck, walkerVars
  <2> QED BY <1>0, <1>9, <2>h, ConstFacts DEF Recheck, Goto, walkerVars, sourceVars,
    entryVars, OwnerInv, ArmInv, Armed, WaitAt, NoWake
<1>10. ASSUME NEW t \in Tasks, Disarm(t) PROVE OwnerInv'
  <2>h. \A j \in Cancellers : \A u \in Tasks : HeldBy(j, u)' <=> HeldBy(j, u)
    BY <1>10 DEF HeldBy, Disarm, walkerVars
  <2>1. \A u \in Tasks : Armed(u)' => Armed(u)
    BY <1>0, <1>10, ConstFacts DEF Disarm, Armed
  <2>2. \A u \in Tasks : u # t => (Armed(u)' <=> Armed(u))
    BY <1>0, <1>10 DEF Disarm, Armed
  <2>3. CASE on[t] = EntryOf(t)
    <3>1. wake[t] = NoWake /\ ~Armed(t)' /\ pc'[t] \notin WaitAt
      BY <1>0, <1>10, <2>3, EntryFacts, ConstFacts DEF Disarm, Goto, walkerVars, sourceVars,
        Armed, OwnerInv, ArmInv, WaitAt
    <3>2. QED BY <1>0, <1>10, <2>h, <2>2, <3>1 DEF Disarm, Goto, walkerVars, sourceVars,
      OwnerInv
  <2>4. CASE on[t] # EntryOf(t)
    <3>1. \A u \in Tasks : Armed(u)' <=> Armed(u)
      BY <1>0, <1>10, <2>4 DEF Disarm, Armed
    <3>2. QED BY <1>0, <1>10, <2>h, <2>4, <3>1 DEF Disarm, Goto, walkerVars, sourceVars,
      OwnerInv, WaitAt
  <2>5. QED BY <2>3, <2>4
<1>11. ASSUME NEW t \in Tasks, Suspend(t) PROVE OwnerInv'
  <2>h. \A j \in Cancellers : \A u \in Tasks : HeldBy(j, u)' <=> HeldBy(j, u)
    BY <1>11 DEF HeldBy, Suspend, walkerVars
  <2>1. \A u \in Tasks : Armed(u)' <=> Armed(u)
    BY <1>0, <1>11, EntryFacts, ConstFacts DEF Suspend, Publish, Armed
  <2>2. QED BY <1>0, <1>11, <2>h, <2>1 DEF Suspend, Goto, walkerVars, sourceVars, Publish,
    OwnerInv, WaitAt
<1>12. ASSUME NEW t \in Tasks, Resume(t) PROVE OwnerInv'
  <2>h. \A j \in Cancellers : \A u \in Tasks : HeldBy(j, u)' <=> HeldBy(j, u)
    BY <1>12 DEF HeldBy, Resume, walkerVars
  <2> QED BY <1>0, <1>12, <2>h, ConstFacts DEF Resume, Goto, walkerVars, sourceVars,
    entryVars, OwnerInv, ArmInv, Armed, WaitAt, NoWake
<1>13. ASSUME NEW t \in Tasks, Settle(t) PROVE OwnerInv'
  <2>h. \A j \in Cancellers : \A u \in Tasks : HeldBy(j, u)' <=> HeldBy(j, u)
    BY <1>13 DEF HeldBy, Settle, walkerVars
  <2> QED BY <1>0, <1>13, <2>h, ConstFacts DEF Settle, Goto, walkerVars, sourceVars,
    entryVars, OwnerInv, ArmInv, Armed, WaitAt, NoWake
<1>14. ASSUME NEW t \in Tasks, Retire(t) PROVE OwnerInv'
  <2>h. \A j \in Cancellers : \A u \in Tasks : HeldBy(j, u)' <=> HeldBy(j, u)
    BY <1>14 DEF HeldBy, Retire, walkerVars
  <2> QED BY <1>0, <1>14, <2>h, ConstFacts DEF Retire, Goto, walkerVars, OwnerInv, ArmInv,
    Armed, WaitAt, NoWake
<1>15. ASSUME NEW t \in Tasks, Unlock(t) PROVE OwnerInv'
  <2>h. \A j \in Cancellers : \A u \in Tasks : HeldBy(j, u)' <=> HeldBy(j, u)
    BY <1>15 DEF HeldBy, Unlock, walkerVars
  <2> QED BY <1>0, <1>15, <2>h, ConstFacts DEF Unlock, Goto, walkerVars, sourceVars,
    entryVars, OwnerInv, ArmInv, Armed, WaitAt, NoWake
<1>16. ASSUME NEW t \in Tasks, Interrupted(t) PROVE OwnerInv'
  <2>h. \A j \in Cancellers : \A u \in Tasks : HeldBy(j, u)' <=> HeldBy(j, u)
    BY <1>16 DEF HeldBy, Interrupted, walkerVars
  <2> QED BY <1>0, <1>16, <2>h, ConstFacts DEF Interrupted, Goto, walkerVars, sourceVars,
    OwnerInv, ArmInv, Armed, WaitAt, NoWake
<1>17. ASSUME NEW t \in Tasks, Cleanup(t) PROVE OwnerInv'
  <2>h. \A j \in Cancellers : \A u \in Tasks : HeldBy(j, u)' <=> HeldBy(j, u)
    BY <1>17 DEF HeldBy, Cleanup, walkerVars
  <2> QED BY <1>0, <1>17, <2>h, ConstFacts DEF Cleanup, Goto, walkerVars, sourceVars,
    entryVars, OwnerInv, ArmInv, Armed, WaitAt, NoWake
<1>18. ASSUME NEW t \in Tasks, LockToNotify(t) PROVE OwnerInv'
  <2>h. \A j \in Cancellers : \A u \in Tasks : HeldBy(j, u)' <=> HeldBy(j, u)
    BY <1>18 DEF HeldBy, LockToNotify, walkerVars
  <2> QED BY <1>0, <1>18, <2>h, ConstFacts DEF LockToNotify, Goto, walkerVars, sourceVars,
    entryVars, OwnerInv, ArmInv, Armed, WaitAt, NoWake
<1>19. ASSUME NEW t \in Tasks, Notify(t) PROVE OwnerInv'
  <2>h. \A j \in Cancellers : \A u \in Tasks : HeldBy(j, u)' <=> HeldBy(j, u)
    BY <1>19 DEF HeldBy, Notify, walkerVars
  <2>0. PICK e \in Entries : e = Head(waitq)
    BY <1>0, <1>19, TailFacts DEF Notify
  <2> DEFINE v == TaskOf(e)
  <2>1. v \in Tasks /\ e # None
    BY KindFacts
  <2>2. \A u \in Tasks : pc'[u] \in WaitAt <=> pc[u] \in WaitAt
    BY <1>0, <1>19 DEF Notify, WaitAt
  <2>3. CASE e \notin retired /\ on[v] = e
    <3>1. on' = [on EXCEPT ![v] = None] /\ hidden' = hidden
          /\ wake' = [wake EXCEPT ![v] = [how |-> "value", sev |-> 0]]
      BY <1>19, <2>0, <2>3 DEF Notify
    <3>2. Armed(v) /\ ~Armed(v)' /\ wake'[v] # NoWake
      BY <1>0, <2>1, <2>3, <3>1 DEF Armed, ArmInv, NoWake
    <3>3. \A u \in Tasks : u # v => (Armed(u)' <=> Armed(u)) /\ wake'[u] = wake[u]
      BY <1>0, <2>1, <3>1 DEF Armed
    <3> HIDE DEF v
    <3>4. QED BY <2>h, <2>2, <3>2, <3>3 DEF OwnerInv
  <2>4. CASE ~(e \notin retired /\ on[v] = e)
    <3>1. on' = on /\ hidden' = hidden /\ wake' = wake
      BY <1>19, <2>0, <2>4 DEF Notify
    <3>2. QED BY <2>h, <2>2, <3>1 DEF OwnerInv, Armed
  <2>5. QED BY <2>3, <2>4
<1>20. ASSUME NEW t \in Tasks, NotifyEnds(t) PROVE OwnerInv'
  <2>h. \A j \in Cancellers : \A u \in Tasks : HeldBy(j, u)' <=> HeldBy(j, u)
    BY <1>20 DEF HeldBy, NotifyEnds, walkerVars
  <2> QED BY <1>0, <1>20, <2>h, ConstFacts DEF NotifyEnds, Goto, walkerVars, sourceVars,
    entryVars, OwnerInv, ArmInv, Armed, WaitAt, NoWake
<1>21. ASSUME NEW k \in Cancellers, WalkClaim(k) PROVE OwnerInv'
  <2>1. ktodo[k] # <<>> /\ ktodo[k] \in Seq(Entries)
    BY <1>0, <1>21 DEF WalkClaim, HolderInv
  <2>0. PICK e \in Entries : e = Head(ktodo[k])
    BY <2>1, TailFacts
  <2> DEFINE v == TaskOf(e)
  <2>2. v \in Tasks /\ e # None
    BY KindFacts
  <2>3. pc' = pc /\ wake' = wake /\ hidden' = hidden
    BY <1>21 DEF WalkClaim, taskVars
  <2>4. CASE on[v] = e
    <3>1. on' = [on EXCEPT ![v] = None]
          /\ kclaim' = [kclaim EXCEPT ![k] = @ \cup {<<e, kaux[k].watcher>>}]
      BY <1>21, <2>0, <2>4 DEF WalkClaim
    <3>2. Armed(v) /\ ~Armed(v)'
      BY <1>0, <2>2, <2>3, <2>4, <3>1 DEF Armed, ArmInv
    <3>3. \A u \in Tasks : u # v => (Armed(u)' <=> Armed(u))
      BY <1>0, <2>2, <2>3, <3>1 DEF Armed
    <3>4. \A j \in Cancellers : \A u \in Tasks : HeldBy(j, u) => HeldBy(j, u)'
      BY <1>0, <3>1 DEF HeldBy
    <3>5. HeldBy(k, v)'
      <4>1. <<e, kaux[k].watcher>> \in kclaim'[k] /\ <<e, kaux[k].watcher>>[1] = e
        BY <1>0, <3>1
      <4>2. QED BY <4>1 DEF HeldBy
    <3> HIDE DEF v
    <3>6. QED BY <2>3, <3>2, <3>3, <3>4, <3>5 DEF OwnerInv
  <2>5. CASE on[v] # e
    <3>1. on' = on /\ kclaim' = kclaim
      BY <1>0, <1>21, <2>0, <2>2, <2>5 DEF WalkClaim
    <3>2. QED BY <2>3, <3>1 DEF OwnerInv, Armed, HeldBy
  <2>6. QED BY <2>4, <2>5
<1>22. ASSUME NEW k \in Cancellers, WalkDeliver(k) PROVE OwnerInv'
  <2>1. PICK m \in kclaim[k] :
           /\ kclaim' = [kclaim EXCEPT ![k] = @ \ {m}]
           /\ wake' = IF on[TaskOf(m[1])] = None
                      THEN [wake EXCEPT ![TaskOf(m[1])] =
                              [how |-> IF m[2] THEN "value" ELSE "throw", sev |-> ksev[k]]]
                      ELSE wake
    BY <1>22 DEF WalkDeliver
  <2> DEFINE v == TaskOf(m[1])
  <2>2. v \in Tasks
    BY <1>0, KindFacts
  <2>3. pc[v] \in WaitAt /\ ~Armed(v) /\ on[v] = None
    BY <2>1 DEF ClaimInv, ClaimOK, Armed
  <2>4. pc' = pc /\ on' = on /\ hidden' = hidden
    BY <1>22 DEF WalkDeliver, taskVars, entryVars
  <2>5. \A u \in Tasks : Armed(u)' <=> Armed(u)
    BY <2>4 DEF Armed
  <2>6. wake'[v] # NoWake /\ \A u \in Tasks : u # v => wake'[u] = wake[u]
    BY <1>0, <2>1, <2>2, <2>3 DEF NoWake
  <2>7. \A j \in Cancellers : \A u \in Tasks : u # v /\ HeldBy(j, u) => HeldBy(j, u)'
    BY <1>0, <2>1 DEF HeldBy
  <2> HIDE DEF v
  <2>8. QED BY <2>2, <2>3, <2>4, <2>5, <2>6, <2>7 DEF OwnerInv
<1>23. ASSUME NEW k \in Cancellers, Raise(k) \/ WalkLock(k) \/ WalkHead(k) \/ WalkRetired(k)
           \/ WalkAux(k) \/ WalkArmed(k) \/ WalkUnlock(k) \/ WalkEnds(k) PROVE OwnerInv'
  BY <1>1, <1>23 DEF Raise, WalkLock, WalkHead, WalkRetired, WalkAux, WalkArmed, WalkUnlock,
    WalkEnds, KGoto, taskVars, sourceVars, entryVars, Advance
<1>24. QED BY <1>1, <1>2, <1>3, <1>4, <1>5, <1>6, <1>7, <1>8, <1>9, <1>10, <1>11, <1>12,
    <1>13, <1>14, <1>15, <1>16, <1>17, <1>18, <1>19, <1>20, <1>21, <1>22, <1>23 DEF Next,
    WaitSteps, WalkSteps, Quiescent, vars, taskVars, walkerVars, sourceVars, entryVars

(* Retired entries, and the severity of a source. *)
LEMMA RetiredStep ==
  ASSUME TypeOK, ModeInv, RetiredInv, [Next]_vars
  PROVE  RetiredInv'
<1>0. pc \in [Tasks -> TaskLabel] /\ want \in [Tasks -> Waits] /\ ops \in [Tasks -> 0..MaxOps]
      /\ retired \subseteq Entries
  BY DEF TypeOK, TaskType, SourceType
<1>1. ASSUME UNCHANGED <<retired, pc, want, ops>> PROVE RetiredInv'
  BY <1>0, <1>1 DEF RetiredInv
<1>2. ASSUME NEW t \in Tasks, NEW w \in Waits, LockToWait(t, w) PROVE RetiredInv'
  BY <1>0, <1>2, ConstFacts, KindFacts, EntryFacts DEF LockToWait, Goto, walkerVars,
    sourceVars, entryVars, RetiredInv, ModeInv, Fresh, Plain, Cancellable
<1>3. ASSUME NEW t \in Tasks, EntryCheck(t) PROVE RetiredInv'
  BY <1>0, <1>3, ConstFacts, KindFacts, EntryFacts DEF EntryCheck, Goto, walkerVars,
    sourceVars, entryVars, RetiredInv, ModeInv, Fresh, Plain, Cancellable
<1>4. ASSUME NEW t \in Tasks, AcquireCancelEntry(t) PROVE RetiredInv'
  BY <1>0, <1>4, ConstFacts, KindFacts, EntryFacts DEF AcquireCancelEntry, Goto, walkerVars,
    RetiredInv, ModeInv, Fresh, Plain, Cancellable
<1>5. ASSUME NEW t \in Tasks, Arm(t) PROVE RetiredInv'
  BY <1>0, <1>5, ConstFacts, KindFacts, EntryFacts DEF Arm, Goto, walkerVars, sourceVars,
    RetiredInv, ModeInv, Fresh, Plain, Cancellable
<1>6. ASSUME NEW t \in Tasks, Enqueue(t) PROVE RetiredInv'
  BY <1>0, <1>6, ConstFacts, KindFacts, EntryFacts DEF Enqueue, Goto, walkerVars, sourceVars,
    entryVars, RetiredInv, ModeInv, Fresh, Plain, Cancellable
<1>7. ASSUME NEW t \in Tasks, Register(t) PROVE RetiredInv'
  BY <1>0, <1>7, ConstFacts, KindFacts, EntryFacts DEF Register, Goto, walkerVars, Publish,
    RetiredInv, ModeInv, Fresh, Plain, Cancellable
<1>8. ASSUME NEW t \in Tasks, Recheck(t) PROVE RetiredInv'
  BY <1>0, <1>8, ConstFacts, KindFacts, EntryFacts DEF Recheck, Goto, walkerVars, sourceVars,
    entryVars, RetiredInv, ModeInv, Fresh, Plain, Cancellable
<1>9. ASSUME NEW t \in Tasks, Disarm(t) PROVE RetiredInv'
  BY <1>0, <1>9, ConstFacts, KindFacts, EntryFacts DEF Disarm, Goto, walkerVars, sourceVars,
    RetiredInv, ModeInv, Fresh, Plain, Cancellable
<1>10. ASSUME NEW t \in Tasks, Suspend(t) PROVE RetiredInv'
  BY <1>0, <1>10, ConstFacts, KindFacts, EntryFacts DEF Suspend, Goto, walkerVars, sourceVars,
    Publish, RetiredInv, ModeInv, Fresh, Plain, Cancellable
<1>11. ASSUME NEW t \in Tasks, Resume(t) PROVE RetiredInv'
  BY <1>0, <1>11, ConstFacts, KindFacts, EntryFacts DEF Resume, Goto, walkerVars, sourceVars,
    entryVars, RetiredInv, ModeInv, Fresh, Plain, Cancellable
<1>12. ASSUME NEW t \in Tasks, Settle(t) PROVE RetiredInv'
  BY <1>0, <1>12, ConstFacts, KindFacts, EntryFacts DEF Settle, Goto, walkerVars, sourceVars,
    entryVars, RetiredInv, ModeInv, Fresh, Plain, Cancellable
<1>13. ASSUME NEW t \in Tasks, Retire(t) PROVE RetiredInv'
  BY <1>0, <1>13, ConstFacts, KindFacts, EntryFacts DEF Retire, Goto, walkerVars, RetiredInv,
    ModeInv, Fresh, Plain, Cancellable
<1>14. ASSUME NEW t \in Tasks, Unlock(t) PROVE RetiredInv'
  BY <1>0, <1>14, ConstFacts, KindFacts, EntryFacts DEF Unlock, Goto, walkerVars, sourceVars,
    entryVars, RetiredInv, ModeInv, Fresh, Plain, Cancellable
<1>15. ASSUME NEW t \in Tasks, Interrupted(t) PROVE RetiredInv'
  BY <1>0, <1>15, ConstFacts, KindFacts, EntryFacts DEF Interrupted, Goto, walkerVars,
    sourceVars, RetiredInv, ModeInv, Fresh, Plain, Cancellable
<1>16. ASSUME NEW t \in Tasks, Cleanup(t) PROVE RetiredInv'
  BY <1>0, <1>16, ConstFacts, KindFacts, EntryFacts DEF Cleanup, Goto, walkerVars, sourceVars,
    entryVars, RetiredInv, ModeInv, Fresh, Plain, Cancellable
<1>17. ASSUME NEW t \in Tasks, LockToNotify(t) PROVE RetiredInv'
  BY <1>0, <1>17, ConstFacts, KindFacts, EntryFacts DEF LockToNotify, Goto, walkerVars,
    sourceVars, entryVars, RetiredInv, ModeInv, Fresh, Plain, Cancellable
<1>18. ASSUME NEW t \in Tasks, Notify(t) PROVE RetiredInv'
  BY <1>0, <1>18, ConstFacts, KindFacts, EntryFacts DEF Notify, walkerVars, sourceVars,
    RetiredInv, ModeInv, Fresh, Plain, Cancellable
<1>19. ASSUME NEW t \in Tasks, NotifyEnds(t) PROVE RetiredInv'
  BY <1>0, <1>19, ConstFacts, KindFacts, EntryFacts DEF NotifyEnds, Goto, walkerVars,
    sourceVars, entryVars, RetiredInv, ModeInv, Fresh, Plain, Cancellable
<1>20. ASSUME NEW t \in Tasks, Drain(t) PROVE RetiredInv'
  BY <1>1, <1>20 DEF Drain, taskVars, walkerVars, sourceVars, Publish
<1>21. ASSUME NEW k \in Cancellers, Raise(k) \/ WalkLock(k) \/ WalkHead(k) \/ WalkRetired(k)
           \/ WalkAux(k) \/ WalkArmed(k) \/ WalkClaim(k) \/ WalkUnlock(k) \/ WalkDeliver(k) \/
           WalkEnds(k) PROVE RetiredInv'
  BY <1>1, <1>21 DEF Raise, WalkLock, WalkHead, WalkRetired, WalkAux, WalkArmed, WalkClaim,
    WalkUnlock, WalkDeliver, WalkEnds, KGoto, taskVars, sourceVars, entryVars, Advance
<1>22. QED BY <1>1, <1>2, <1>3, <1>4, <1>5, <1>6, <1>7, <1>8, <1>9, <1>10, <1>11, <1>12,
    <1>13, <1>14, <1>15, <1>16, <1>17, <1>18, <1>19, <1>20, <1>21 DEF Next, WaitSteps,
    WalkSteps, Quiescent, vars, taskVars, walkerVars, sourceVars, entryVars

LEMMA StateStep ==
  ASSUME TypeOK, StateInv, [Next]_vars
  PROVE  StateInv'
<1>0. kpc \in [Cancellers -> WalkLabel] /\ state \in [Sources -> Severity] /\ ksev \in
      [Cancellers -> Severity]
  BY DEF TypeOK, SourceType, WalkType
<1>1. ASSUME UNCHANGED <<kpc, state, ksev>> PROVE StateInv'
  BY <1>0, <1>1 DEF StateInv
<1>2. ASSUME NEW k \in Cancellers, Raise(k) PROVE StateInv'
  BY <1>0, <1>2, ConstFacts, CallFacts, MaxFacts, SMTT(30) DEF Raise, KGoto, taskVars, entryVars,
    StateInv, Severity
<1>3. ASSUME NEW k \in Cancellers, WalkLock(k) PROVE StateInv'
  BY <1>0, <1>3, ConstFacts, CallFacts, MaxFacts DEF WalkLock, KGoto, taskVars, entryVars,
    StateInv, Severity
<1>4. ASSUME NEW k \in Cancellers, WalkHead(k) PROVE StateInv'
  BY <1>0, <1>4, ConstFacts, CallFacts, MaxFacts DEF WalkHead, KGoto, taskVars, entryVars,
    StateInv, Severity
<1>5. ASSUME NEW k \in Cancellers, WalkAux(k) PROVE StateInv'
  BY <1>0, <1>5, ConstFacts, CallFacts, MaxFacts DEF WalkAux, KGoto, taskVars, sourceVars,
    entryVars, StateInv, Severity
<1>6. ASSUME NEW k \in Cancellers, WalkArmed(k) PROVE StateInv'
  BY <1>0, <1>6, ConstFacts, CallFacts, MaxFacts DEF WalkArmed, KGoto, taskVars, sourceVars,
    entryVars, Advance, StateInv, Severity
<1>7. ASSUME NEW k \in Cancellers, WalkClaim(k) PROVE StateInv'
  BY <1>0, <1>7, ConstFacts, CallFacts, MaxFacts DEF WalkClaim, KGoto, taskVars, sourceVars,
    Advance, StateInv, Severity
<1>8. ASSUME NEW k \in Cancellers, WalkUnlock(k) PROVE StateInv'
  BY <1>0, <1>8, ConstFacts, CallFacts, MaxFacts DEF WalkUnlock, KGoto, taskVars, entryVars,
    StateInv, Severity
<1>9. ASSUME NEW k \in Cancellers, WalkEnds(k) PROVE StateInv'
  BY <1>0, <1>9, ConstFacts, CallFacts, MaxFacts DEF WalkEnds, KGoto, taskVars, sourceVars,
    entryVars, StateInv, Severity
<1>10. ASSUME NEW t \in Tasks, NEW w \in Waits, LockToWait(t, w) PROVE StateInv'
  BY <1>1, <1>10 DEF LockToWait, Goto, walkerVars, sourceVars, entryVars
<1>11. ASSUME NEW t \in Tasks, EntryCheck(t) \/ AcquireCancelEntry(t) \/ Arm(t) \/ Drain(t) \/
           Enqueue(t) \/ Register(t) \/ Recheck(t) \/ Disarm(t) \/ Suspend(t) \/ Resume(t) \/
           Settle(t) \/ Retire(t) \/ Unlock(t) \/ Interrupted(t) \/ Cleanup(t) \/
           LockToNotify(t) \/ Notify(t) \/ NotifyEnds(t) PROVE StateInv'
  BY <1>1, <1>11 DEF EntryCheck, AcquireCancelEntry, Arm, Drain, Enqueue, Register, Recheck,
    Disarm, Suspend, Resume, Settle, Retire, Unlock, Interrupted, Cleanup, LockToNotify,
    Notify, NotifyEnds, Goto, taskVars, walkerVars, sourceVars, entryVars, Publish
<1>12. ASSUME NEW k \in Cancellers, WalkRetired(k) \/ WalkDeliver(k) PROVE StateInv'
  BY <1>1, <1>12 DEF WalkRetired, WalkDeliver, taskVars, sourceVars, entryVars, Advance
<1>13. QED BY <1>1, <1>2, <1>3, <1>4, <1>5, <1>6, <1>7, <1>8, <1>9, <1>10, <1>11, <1>12 DEF
    Next, WaitSteps, WalkSteps, Quiescent, vars, taskVars, walkerVars, sourceVars, entryVars

(* The claims that walks hold. *)
LEMMA ClaimKeeps ==
  ASSUME NEW j \in Cancellers, NEW m, ClaimOK(j, m), NEW v, v = TaskOf(m[1]),
         pc'[v] \in WaitAt, ~Armed(v)', wake'[v] = NoWake,
         want'[v] = want[v], ops'[v] = ops[v], ksev'[j] = ksev[j],
         \A i \in Cancellers : HeldBy(i, v)' => HeldBy(i, v)
  PROVE  ClaimOK(j, m)'
<1>1. EntryOf(v)' = EntryOf(v) /\ FloorOf(want[v])' = FloorOf(want[v])
  BY SameEntry
<1>2. QED BY <1>1 DEF ClaimOK

LEMMA ClaimFrame ==
  ASSUME TypeOK, ClaimInv, kclaim' = kclaim, ksev' = ksev,
         \A v \in Tasks : pc[v] \in WaitAt /\ ~Armed(v) /\ wake[v] = NoWake =>
           /\ pc'[v] \in WaitAt /\ ~Armed(v)' /\ wake'[v] = NoWake
           /\ want'[v] = want[v] /\ ops'[v] = ops[v]
  PROVE  ClaimInv'
<1>1. SUFFICES ASSUME NEW j \in Cancellers, NEW m \in kclaim[j] PROVE ClaimOK(j, m)'
  BY DEF ClaimInv
<1>2. PICK v \in Tasks : v = TaskOf(m[1])
  <2>1. m[1] \in Entries
    BY DEF TypeOK, FlagType
  <2>2. QED BY <2>1, KindFacts
<1>3. ClaimOK(j, m) /\ pc[v] \in WaitAt /\ ~Armed(v) /\ wake[v] = NoWake
  BY <1>2 DEF ClaimInv, ClaimOK
<1>4. \A i \in Cancellers : HeldBy(i, v)' => HeldBy(i, v)
  BY DEF HeldBy
<1>5. QED BY <1>2, <1>3, <1>4, ClaimKeeps

\* An entry before a walk that a task has published is registered, and the wait
\* is one that the walk's source governs.
LEMMA ClaimedIsGoverned ==
  ASSUME Inv, NEW k \in Cancellers, kpc[k] \in ListAt, NEW e \in Entries, Contains(ktodo[k], e),
         NEW v \in Tasks, v = TaskOf(e), EntryOf(v) = e, pc[v] \in WaitAt
  PROVE  /\ e \notin retired /\ Contains(reg[SourceOf(k)], e) /\ RegOK(SourceOf(k), e)
         /\ want[v].mode # "shield" /\ want[v].src = SourceOf(k)
         /\ e[2] # Cancellable <=> want[v].mode = "value"
         /\ want[v].mode = "value" => e[2] = Fresh(ops[v])
<1>0. want \in [Tasks -> Waits] /\ ops \in [Tasks -> 0..MaxOps]
  BY DEF Inv, TypeOK, TaskType
<1>1. want[v].mode \in {"shield", "throw", "value"} /\ ops[v] \in Nat \ {0}
  BY <1>0, WaitFacts, ConstFacts DEF Inv, ModeInv, WaitAt
<1>2. /\ want[v].mode = "shield" => e[2] = Plain
      /\ want[v].mode = "throw" => e[2] = Cancellable
      /\ want[v].mode = "value" => e[2] = Fresh(ops[v]) /\ e[2] # Cancellable
  BY <1>0, <1>1, EntryFacts DEF Fresh, Cancellable
<1>3. e \notin retired
  BY <1>1, <1>2 DEF Inv, RetiredInv, WaitAt
<1>4. Contains(reg[SourceOf(k)], e)
  BY <1>3 DEF Inv, WalkInv, TodoOK
<1>5. RegOK(SourceOf(k), e)
  BY <1>4, CallFacts DEF Inv, RegInv
<1>6. want[v].mode # "shield"
  BY <1>2, <1>5 DEF RegOK
<1>7. want[v].src = SourceOf(k)
  <2>1. CASE want[v].mode = "value"
    BY <1>2, <1>5, <2>1 DEF RegOK
  <2>2. CASE want[v].mode = "throw"
    BY <1>4, <2>2, CallFacts DEF Inv, CachedInv, ListedOnce
  <2>3. QED BY <1>1, <1>6, <2>1, <2>2
<1>8. QED BY <1>1, <1>2, <1>3, <1>4, <1>5, <1>6, <1>7

LEMMA ClaimStep ==
  ASSUME Inv, [Next]_vars
  PROVE  ClaimInv'
<1>0. pc \in [Tasks -> TaskLabel] /\ on \in [Tasks -> Entries \cup {None}] /\ hidden \in
      [Tasks -> BOOLEAN] /\ wake \in [Tasks -> WakeRec] /\ kclaim \in [Cancellers -> SUBSET
      (Entries \X BOOLEAN)] /\ ktodo \in [Cancellers -> Seq(Entries)] /\ kpc \in [Cancellers
      -> WalkLabel] /\ want \in [Tasks -> Waits] /\ ops \in [Tasks -> 0..MaxOps] /\ waitq \in
      Seq(Entries) /\ kaux \in [Cancellers -> Aux] /\ ksev \in [Cancellers -> Severity]
  BY DEF Inv, TypeOK, TaskType, ListType, WakeType, FlagType, WalkType
<1>1. ASSUME UNCHANGED <<kclaim, pc, on, hidden, wake, want, ops, ksev>> PROVE ClaimInv'
  <2>1. \A k \in Cancellers : \A m \in kclaim[k] : ClaimOK(k, m)
    BY DEF Inv, ClaimInv
  <2>2. \A j, t : HeldBy(j, t)' <=> HeldBy(j, t)
    BY <1>1 DEF HeldBy
  <2>3. \A t : Armed(t)' = Armed(t) /\ EntryOf(t)' = EntryOf(t)
    BY <1>1 DEF Armed, EntryOf
  <2>4. ASSUME NEW k, NEW m PROVE ClaimOK(k, m)' <=> ClaimOK(k, m)
    BY <1>1, <2>2, <2>3 DEF ClaimOK, FloorOf
  <2>5. QED BY <1>1, <2>1, <2>4 DEF ClaimInv
<1>2. ASSUME NEW t \in Tasks, NEW w \in Waits, LockToWait(t, w) PROVE ClaimInv'
  <2>1. kclaim' = kclaim /\ ksev' = ksev
    BY <1>2 DEF LockToWait, Goto, walkerVars, sourceVars, entryVars
  <2>2. ASSUME NEW v \in Tasks, pc[v] \in WaitAt, ~Armed(v), wake[v] = NoWake
        PROVE  /\ pc'[v] \in WaitAt /\ ~Armed(v)' /\ wake'[v] = NoWake
               /\ want'[v] = want[v] /\ ops'[v] = ops[v]
    BY <1>0, <1>2, <2>2, EntryFacts, ConstFacts DEF LockToWait, Goto, walkerVars, sourceVars,
      entryVars, Armed, Inv, ArmInv, OwnerInv, WaitAt, NoWake
  <2>3. QED BY <2>1, <2>2, ClaimFrame DEF Inv
<1>3. ASSUME NEW t \in Tasks, EntryCheck(t) PROVE ClaimInv'
  <2>1. kclaim' = kclaim /\ ksev' = ksev
    BY <1>3 DEF EntryCheck, Goto, walkerVars, sourceVars, entryVars
  <2>2. ASSUME NEW v \in Tasks, pc[v] \in WaitAt, ~Armed(v), wake[v] = NoWake
        PROVE  /\ pc'[v] \in WaitAt /\ ~Armed(v)' /\ wake'[v] = NoWake
               /\ want'[v] = want[v] /\ ops'[v] = ops[v]
    BY <1>0, <1>3, <2>2, EntryFacts, ConstFacts DEF EntryCheck, Goto, walkerVars, sourceVars,
      entryVars, Armed, Inv, ArmInv, OwnerInv, WaitAt, NoWake
  <2>3. QED BY <2>1, <2>2, ClaimFrame DEF Inv
<1>4. ASSUME NEW t \in Tasks, AcquireCancelEntry(t) PROVE ClaimInv'
  <2>1. kclaim' = kclaim /\ ksev' = ksev
    BY <1>4 DEF AcquireCancelEntry, Goto, walkerVars
  <2>2. ASSUME NEW v \in Tasks, pc[v] \in WaitAt, ~Armed(v), wake[v] = NoWake
        PROVE  /\ pc'[v] \in WaitAt /\ ~Armed(v)' /\ wake'[v] = NoWake
               /\ want'[v] = want[v] /\ ops'[v] = ops[v]
    BY <1>0, <1>4, <2>2, EntryFacts, ConstFacts DEF AcquireCancelEntry, Goto, walkerVars,
      Armed, Inv, ArmInv, OwnerInv, WaitAt, NoWake
  <2>3. QED BY <2>1, <2>2, ClaimFrame DEF Inv
<1>5. ASSUME NEW t \in Tasks, Arm(t) PROVE ClaimInv'
  <2>1. kclaim' = kclaim /\ ksev' = ksev
    BY <1>5 DEF Arm, Goto, walkerVars, sourceVars
  <2>2. ASSUME NEW v \in Tasks, pc[v] \in WaitAt, ~Armed(v), wake[v] = NoWake
        PROVE  /\ pc'[v] \in WaitAt /\ ~Armed(v)' /\ wake'[v] = NoWake
               /\ want'[v] = want[v] /\ ops'[v] = ops[v]
    BY <1>0, <1>5, <2>2, EntryFacts, ConstFacts DEF Arm, Goto, walkerVars, sourceVars, Armed,
      Inv, ArmInv, OwnerInv, WaitAt, NoWake
  <2>3. QED BY <2>1, <2>2, ClaimFrame DEF Inv
<1>6. ASSUME NEW t \in Tasks, Drain(t) PROVE ClaimInv'
  <2>1. kclaim' = kclaim /\ ksev' = ksev
    BY <1>6 DEF Drain, taskVars, walkerVars, sourceVars, Publish
  <2>2. ASSUME NEW v \in Tasks, pc[v] \in WaitAt, ~Armed(v), wake[v] = NoWake
        PROVE  /\ pc'[v] \in WaitAt /\ ~Armed(v)' /\ wake'[v] = NoWake
               /\ want'[v] = want[v] /\ ops'[v] = ops[v]
    BY <1>0, <1>6, <2>2, EntryFacts, ConstFacts DEF Drain, taskVars, walkerVars, sourceVars,
      Publish, Armed, Inv, ArmInv, OwnerInv, WaitAt, NoWake
  <2>3. QED BY <2>1, <2>2, ClaimFrame DEF Inv
<1>7. ASSUME NEW t \in Tasks, Enqueue(t) PROVE ClaimInv'
  <2>1. kclaim' = kclaim /\ ksev' = ksev
    BY <1>7 DEF Enqueue, Goto, walkerVars, sourceVars, entryVars
  <2>2. ASSUME NEW v \in Tasks, pc[v] \in WaitAt, ~Armed(v), wake[v] = NoWake
        PROVE  /\ pc'[v] \in WaitAt /\ ~Armed(v)' /\ wake'[v] = NoWake
               /\ want'[v] = want[v] /\ ops'[v] = ops[v]
    BY <1>0, <1>7, <2>2, EntryFacts, ConstFacts DEF Enqueue, Goto, walkerVars, sourceVars,
      entryVars, Armed, Inv, ArmInv, OwnerInv, WaitAt, NoWake
  <2>3. QED BY <2>1, <2>2, ClaimFrame DEF Inv
<1>8. ASSUME NEW t \in Tasks, Register(t) PROVE ClaimInv'
  <2>1. kclaim' = kclaim /\ ksev' = ksev
    BY <1>8 DEF Register, Goto, walkerVars, Publish
  <2>2. ASSUME NEW v \in Tasks, pc[v] \in WaitAt, ~Armed(v), wake[v] = NoWake
        PROVE  /\ pc'[v] \in WaitAt /\ ~Armed(v)' /\ wake'[v] = NoWake
               /\ want'[v] = want[v] /\ ops'[v] = ops[v]
    BY <1>0, <1>8, <2>2, EntryFacts, ConstFacts DEF Register, Goto, walkerVars, Publish,
      Armed, Inv, ArmInv, OwnerInv, WaitAt, NoWake
  <2>3. QED BY <2>1, <2>2, ClaimFrame DEF Inv
<1>9. ASSUME NEW t \in Tasks, Recheck(t) PROVE ClaimInv'
  <2>1. kclaim' = kclaim /\ ksev' = ksev
    BY <1>9 DEF Recheck, Goto, walkerVars, sourceVars, entryVars
  <2>2. ASSUME NEW v \in Tasks, pc[v] \in WaitAt, ~Armed(v), wake[v] = NoWake
        PROVE  /\ pc'[v] \in WaitAt /\ ~Armed(v)' /\ wake'[v] = NoWake
               /\ want'[v] = want[v] /\ ops'[v] = ops[v]
    BY <1>0, <1>9, <2>2, EntryFacts, ConstFacts DEF Recheck, Goto, walkerVars, sourceVars,
      entryVars, Armed, Inv, ArmInv, OwnerInv, WaitAt, NoWake
  <2>3. QED BY <2>1, <2>2, ClaimFrame DEF Inv
<1>10. ASSUME NEW t \in Tasks, Disarm(t) PROVE ClaimInv'
  <2>1. kclaim' = kclaim /\ ksev' = ksev
    BY <1>10 DEF Disarm, Goto, walkerVars, sourceVars
  <2>2. ASSUME NEW v \in Tasks, pc[v] \in WaitAt, ~Armed(v), wake[v] = NoWake
        PROVE  /\ pc'[v] \in WaitAt /\ ~Armed(v)' /\ wake'[v] = NoWake
               /\ want'[v] = want[v] /\ ops'[v] = ops[v]
    BY <1>0, <1>10, <2>2, EntryFacts, ConstFacts DEF Disarm, Goto, walkerVars, sourceVars,
      Armed, Inv, ArmInv, OwnerInv, WaitAt, NoWake
  <2>3. QED BY <2>1, <2>2, ClaimFrame DEF Inv
<1>11. ASSUME NEW t \in Tasks, Suspend(t) PROVE ClaimInv'
  <2>1. kclaim' = kclaim /\ ksev' = ksev
    BY <1>11 DEF Suspend, Goto, walkerVars, sourceVars, Publish
  <2>2. ASSUME NEW v \in Tasks, pc[v] \in WaitAt, ~Armed(v), wake[v] = NoWake
        PROVE  /\ pc'[v] \in WaitAt /\ ~Armed(v)' /\ wake'[v] = NoWake
               /\ want'[v] = want[v] /\ ops'[v] = ops[v]
    BY <1>0, <1>11, <2>2, EntryFacts, ConstFacts DEF Suspend, Goto, walkerVars, sourceVars,
      Publish, Armed, Inv, ArmInv, OwnerInv, WaitAt, NoWake
  <2>3. QED BY <2>1, <2>2, ClaimFrame DEF Inv
<1>12. ASSUME NEW t \in Tasks, Resume(t) PROVE ClaimInv'
  <2>1. kclaim' = kclaim /\ ksev' = ksev
    BY <1>12 DEF Resume, Goto, walkerVars, sourceVars, entryVars
  <2>2. ASSUME NEW v \in Tasks, pc[v] \in WaitAt, ~Armed(v), wake[v] = NoWake
        PROVE  /\ pc'[v] \in WaitAt /\ ~Armed(v)' /\ wake'[v] = NoWake
               /\ want'[v] = want[v] /\ ops'[v] = ops[v]
    BY <1>0, <1>12, <2>2, EntryFacts, ConstFacts DEF Resume, Goto, walkerVars, sourceVars,
      entryVars, Armed, Inv, ArmInv, OwnerInv, WaitAt, NoWake
  <2>3. QED BY <2>1, <2>2, ClaimFrame DEF Inv
<1>13. ASSUME NEW t \in Tasks, Settle(t) PROVE ClaimInv'
  <2>1. kclaim' = kclaim /\ ksev' = ksev
    BY <1>13 DEF Settle, Goto, walkerVars, sourceVars, entryVars
  <2>2. ASSUME NEW v \in Tasks, pc[v] \in WaitAt, ~Armed(v), wake[v] = NoWake
        PROVE  /\ pc'[v] \in WaitAt /\ ~Armed(v)' /\ wake'[v] = NoWake
               /\ want'[v] = want[v] /\ ops'[v] = ops[v]
    BY <1>0, <1>13, <2>2, EntryFacts, ConstFacts DEF Settle, Goto, walkerVars, sourceVars,
      entryVars, Armed, Inv, ArmInv, OwnerInv, WaitAt, NoWake
  <2>3. QED BY <2>1, <2>2, ClaimFrame DEF Inv
<1>14. ASSUME NEW t \in Tasks, Retire(t) PROVE ClaimInv'
  <2>1. kclaim' = kclaim /\ ksev' = ksev
    BY <1>14 DEF Retire, Goto, walkerVars
  <2>2. ASSUME NEW v \in Tasks, pc[v] \in WaitAt, ~Armed(v), wake[v] = NoWake
        PROVE  /\ pc'[v] \in WaitAt /\ ~Armed(v)' /\ wake'[v] = NoWake
               /\ want'[v] = want[v] /\ ops'[v] = ops[v]
    BY <1>0, <1>14, <2>2, EntryFacts, ConstFacts DEF Retire, Goto, walkerVars, Armed, Inv,
      ArmInv, OwnerInv, WaitAt, NoWake
  <2>3. QED BY <2>1, <2>2, ClaimFrame DEF Inv
<1>15. ASSUME NEW t \in Tasks, Unlock(t) PROVE ClaimInv'
  <2>1. kclaim' = kclaim /\ ksev' = ksev
    BY <1>15 DEF Unlock, Goto, walkerVars, sourceVars, entryVars
  <2>2. ASSUME NEW v \in Tasks, pc[v] \in WaitAt, ~Armed(v), wake[v] = NoWake
        PROVE  /\ pc'[v] \in WaitAt /\ ~Armed(v)' /\ wake'[v] = NoWake
               /\ want'[v] = want[v] /\ ops'[v] = ops[v]
    BY <1>0, <1>15, <2>2, EntryFacts, ConstFacts DEF Unlock, Goto, walkerVars, sourceVars,
      entryVars, Armed, Inv, ArmInv, OwnerInv, WaitAt, NoWake
  <2>3. QED BY <2>1, <2>2, ClaimFrame DEF Inv
<1>16. ASSUME NEW t \in Tasks, Interrupted(t) PROVE ClaimInv'
  <2>1. kclaim' = kclaim /\ ksev' = ksev
    BY <1>16 DEF Interrupted, Goto, walkerVars, sourceVars
  <2>2. ASSUME NEW v \in Tasks, pc[v] \in WaitAt, ~Armed(v), wake[v] = NoWake
        PROVE  /\ pc'[v] \in WaitAt /\ ~Armed(v)' /\ wake'[v] = NoWake
               /\ want'[v] = want[v] /\ ops'[v] = ops[v]
    BY <1>0, <1>16, <2>2, EntryFacts, ConstFacts DEF Interrupted, Goto, walkerVars,
      sourceVars, Armed, Inv, ArmInv, OwnerInv, WaitAt, NoWake
  <2>3. QED BY <2>1, <2>2, ClaimFrame DEF Inv
<1>17. ASSUME NEW t \in Tasks, Cleanup(t) PROVE ClaimInv'
  <2>1. kclaim' = kclaim /\ ksev' = ksev
    BY <1>17 DEF Cleanup, Goto, walkerVars, sourceVars, entryVars
  <2>2. ASSUME NEW v \in Tasks, pc[v] \in WaitAt, ~Armed(v), wake[v] = NoWake
        PROVE  /\ pc'[v] \in WaitAt /\ ~Armed(v)' /\ wake'[v] = NoWake
               /\ want'[v] = want[v] /\ ops'[v] = ops[v]
    BY <1>0, <1>17, <2>2, EntryFacts, ConstFacts DEF Cleanup, Goto, walkerVars, sourceVars,
      entryVars, Armed, Inv, ArmInv, OwnerInv, WaitAt, NoWake
  <2>3. QED BY <2>1, <2>2, ClaimFrame DEF Inv
<1>18. ASSUME NEW t \in Tasks, LockToNotify(t) PROVE ClaimInv'
  <2>1. kclaim' = kclaim /\ ksev' = ksev
    BY <1>18 DEF LockToNotify, Goto, walkerVars, sourceVars, entryVars
  <2>2. ASSUME NEW v \in Tasks, pc[v] \in WaitAt, ~Armed(v), wake[v] = NoWake
        PROVE  /\ pc'[v] \in WaitAt /\ ~Armed(v)' /\ wake'[v] = NoWake
               /\ want'[v] = want[v] /\ ops'[v] = ops[v]
    BY <1>0, <1>18, <2>2, EntryFacts, ConstFacts DEF LockToNotify, Goto, walkerVars,
      sourceVars, entryVars, Armed, Inv, ArmInv, OwnerInv, WaitAt, NoWake
  <2>3. QED BY <2>1, <2>2, ClaimFrame DEF Inv
<1>19. ASSUME NEW t \in Tasks, Notify(t) PROVE ClaimInv'
  <2>1. kclaim' = kclaim /\ ksev' = ksev /\ hidden' = hidden /\ want' = want /\ ops' = ops
    BY <1>19 DEF Notify, walkerVars, sourceVars
  <2>2. ASSUME NEW v \in Tasks, pc[v] \in WaitAt, ~Armed(v), wake[v] = NoWake
        PROVE  pc'[v] \in WaitAt /\ ~Armed(v)' /\ wake'[v] = NoWake
    <3>0. PICK e \in Entries : e = Head(waitq)
      BY <1>0, <1>19, TailFacts DEF Notify
    <3>1. on[v] # e
      BY <2>2, KindFacts DEF Armed
    <3>2. on'[v] = on[v] /\ wake'[v] = wake[v]
      BY <1>0, <1>19, <2>2, <3>0, <3>1, KindFacts DEF Notify
    <3>3. pc'[v] \in WaitAt
      BY <1>0, <1>19, <2>2 DEF Notify, WaitAt
    <3>4. QED BY <2>1, <2>2, <3>2, <3>3 DEF Armed
  <2>3. QED BY <2>1, <2>2, ClaimFrame DEF Inv
<1>20. ASSUME NEW t \in Tasks, NotifyEnds(t) PROVE ClaimInv'
  <2>1. kclaim' = kclaim /\ ksev' = ksev
    BY <1>20 DEF NotifyEnds, Goto, walkerVars, sourceVars, entryVars
  <2>2. ASSUME NEW v \in Tasks, pc[v] \in WaitAt, ~Armed(v), wake[v] = NoWake
        PROVE  /\ pc'[v] \in WaitAt /\ ~Armed(v)' /\ wake'[v] = NoWake
               /\ want'[v] = want[v] /\ ops'[v] = ops[v]
    BY <1>0, <1>20, <2>2, EntryFacts, ConstFacts DEF NotifyEnds, Goto, walkerVars, sourceVars,
      entryVars, Armed, Inv, ArmInv, OwnerInv, WaitAt, NoWake
  <2>3. QED BY <2>1, <2>2, ClaimFrame DEF Inv
<1>21. ASSUME NEW k \in Cancellers, WalkLock(k) PROVE ClaimInv'
  <2>1. kclaim[k] = {} /\ kclaim' = kclaim
    BY <1>21 DEF WalkLock, Inv, HolderInv
  <2>2. UNCHANGED <<pc, on, hidden, wake, want, ops>> /\ \A j \in Cancellers : j # k =>
    ksev'[j] = ksev[j]
    BY <1>0, <1>21 DEF WalkLock, KGoto, taskVars, entryVars
  <2>3. SUFFICES ASSUME NEW j \in Cancellers, NEW m \in kclaim[j] PROVE ClaimOK(j, m)'
    BY <2>1 DEF ClaimInv
  <2>4. j # k /\ ClaimOK(j, m)
    BY <2>1 DEF Inv, ClaimInv
  <2>5. PICK v : v = TaskOf(m[1])
    OBVIOUS
  <2>6. (\A i \in Cancellers : HeldBy(i, v)' => HeldBy(i, v)) /\ ~Armed(v)'
    BY <2>1, <2>2, <2>4, <2>5 DEF HeldBy, Armed, ClaimOK
  <2>7. pc'[v] \in WaitAt /\ wake'[v] = NoWake
    BY <2>2, <2>4, <2>5 DEF ClaimOK
  <2>8. QED BY <2>2, <2>4, <2>5, <2>6, <2>7, ClaimKeeps
<1>22. ASSUME NEW k \in Cancellers, WalkClaim(k) PROVE ClaimInv'
  <2>1. kpc[k] \in ListAt /\ ktodo[k] # <<>> /\ ktodo[k] \in Seq(Entries)
    BY <1>0, <1>22 DEF Inv, WalkClaim, HolderInv, ListAt
  <2>0. PICK e \in Entries : e = Head(ktodo[k]) /\ Contains(ktodo[k], e)
    BY <2>1, TailFacts
  <2>2. PICK v \in Tasks : v = TaskOf(e)
    BY KindFacts
  <2>3. UNCHANGED <<pc, hidden, wake, want, ops, ksev>>
    BY <1>22 DEF WalkClaim, KGoto, taskVars, sourceVars, Advance
  <2>4. CASE on[v] = e
    <3>0. PICK x : x = kaux[k].watcher
      OBVIOUS
    <3> DEFINE c == <<e, x>>
    <3>1. on' = [on EXCEPT ![v] = None] /\ kclaim' = [kclaim EXCEPT ![k] = @ \cup {c}]
      BY <1>22, <2>0, <2>2, <2>4, <3>0 DEF WalkClaim
    <3>2. /\ Armed(v) /\ EntryOf(v) = e /\ pc[v] \in WaitAt /\ wake[v] = NoWake
          /\ ~hidden[v] /\ e # None
      BY <2>2, <2>4, KindFacts DEF Inv, Armed, ArmInv, OwnerInv
    <3>3. ~Armed(v)' /\ \A u \in Tasks : Armed(u)' => Armed(u)
      BY <1>0, <2>3, <3>1, <3>2 DEF Armed
    <3>4. \A j \in Cancellers : ~HeldBy(j, v)
      BY <2>2, <3>2 DEF Inv, ClaimInv, ClaimOK, HeldBy
    <3>5. \A j \in Cancellers : \A u \in Tasks : HeldBy(j, u)' => HeldBy(j, u) \/ (j = k /\ u
      = v)
      BY <1>0, <2>2, <3>1 DEF HeldBy
    <3>6. ASSUME NEW j \in Cancellers, NEW m \in kclaim[j] PROVE ClaimOK(j, m)'
      <4>1. PICK u \in Tasks : u = TaskOf(m[1])
        BY <1>0, KindFacts
      <4>2. ClaimOK(j, m) /\ HeldBy(j, u)
        BY <4>1 DEF Inv, ClaimInv, HeldBy
      <4>3. u # v
        BY <3>4, <4>2
      <4>4. \A i \in Cancellers : HeldBy(i, u)' => HeldBy(i, u)
        BY <3>5, <4>3
      <4>5. pc'[u] \in WaitAt /\ ~Armed(u)' /\ wake'[u] = NoWake
        BY <2>3, <3>3, <4>1, <4>2 DEF ClaimOK
      <4>6. QED BY <2>3, <4>1, <4>2, <4>4, <4>5, ClaimKeeps
    <3>7. ClaimOK(k, c)'
      <4>1. /\ want[v].mode # "shield" /\ want[v].src = SourceOf(k)
            /\ e[2] # Cancellable <=> want[v].mode = "value"
            /\ want[v].mode = "value" => e[2] = Fresh(ops[v])
        BY <2>0, <2>1, <2>2, <3>2, ClaimedIsGoverned
      <4>2. /\ kaux[k].watcher <=> e[2] # Cancellable
            /\ e[2] = Fresh(ops[v]) /\ e[2] # Cancellable => kaux[k].floor = FloorOf(want[v])
            /\ kaux[k].floor <= ksev[k]
        BY <1>22, <2>0, <2>1, <2>2 DEF Inv, WalkInv, ReadOK, WalkClaim
      <4>3. want[v].mode = "value" => FloorOf(want[v]) <= ksev[k]
        BY <4>1, <4>2
      <4>5. x = (want[v].mode = "value")
        <5>1. x \in BOOLEAN
          BY <1>0, <3>0 DEF Aux
        <5>2. QED BY <4>1, <4>2, <3>0, <5>1
      <4>6. EntryOf(v)' = EntryOf(v) /\ FloorOf(want[v])' = FloorOf(want[v])
        BY <2>3, SameEntry
      <4>7. \A j \in Cancellers : HeldBy(j, v)' => j = k
        BY <3>4, <3>5
      <4>8. QED
        BY <2>2, <2>3, <3>2, <3>3, <4>1, <4>3, <4>5, <4>6, <4>7 DEF ClaimOK
    <3>8. QED BY <1>0, <3>1, <3>6, <3>7 DEF ClaimInv
  <2>5. CASE on[v] # e
    <3>1. on' = on /\ kclaim' = kclaim
      BY <1>0, <1>22, <2>0, <2>2, <2>5 DEF WalkClaim
    <3>2. QED BY <2>3, <3>1, ClaimFrame DEF Inv, Armed
  <2>6. QED BY <2>4, <2>5
<1>23. ASSUME NEW k \in Cancellers, WalkDeliver(k) PROVE ClaimInv'
  <2>1. PICK c \in kclaim[k] :
           /\ kclaim' = [kclaim EXCEPT ![k] = @ \ {c}]
           /\ wake' = IF on[TaskOf(c[1])] = None
                      THEN [wake EXCEPT ![TaskOf(c[1])] =
                              [how |-> IF c[2] THEN "value" ELSE "throw", sev |-> ksev[k]]]
                      ELSE wake
    BY <1>23 DEF WalkDeliver
  <2>2. UNCHANGED <<pc, on, hidden, want, ops, ksev>>
    BY <1>23 DEF WalkDeliver, taskVars, sourceVars, entryVars
  <2>3. SUFFICES ASSUME NEW j \in Cancellers, NEW m \in kclaim'[j] PROVE ClaimOK(j, m)'
    BY DEF ClaimInv
  <2>4. m \in kclaim[j] /\ (j = k => m # c)
    BY <1>0, <2>1, <2>3
  <2>5. ClaimOK(j, m) /\ ClaimOK(k, c)
    BY <2>1, <2>4 DEF Inv, ClaimInv
  <2>6. PICK v \in Tasks, u \in Tasks : v = TaskOf(m[1]) /\ u = TaskOf(c[1])
    BY <1>0, <2>1, <2>4, KindFacts
  <2>7. v # u
    <3>1. SUFFICES ASSUME v = u PROVE FALSE
      OBVIOUS
    <3>2. m = c
      BY <2>5, <2>6, <3>1 DEF ClaimOK
    <3>3. HeldBy(j, u)
      BY <2>4, <2>6, <3>1 DEF HeldBy
    <3>4. j = k
      BY <2>5, <2>6, <3>3 DEF ClaimOK
    <3>5. QED BY <2>4, <3>2, <3>4
  <2>8. \A i \in Cancellers : HeldBy(i, v)' => HeldBy(i, v)
    BY <1>0, <2>1 DEF HeldBy
  <2>9. wake'[v] = wake[v] /\ (Armed(v)' <=> Armed(v))
    BY <1>0, <2>1, <2>2, <2>6, <2>7 DEF Armed
  <2>10. pc'[v] \in WaitAt /\ ~Armed(v)' /\ wake'[v] = NoWake
    BY <2>2, <2>5, <2>6, <2>9 DEF ClaimOK
  <2>11. QED BY <2>2, <2>5, <2>6, <2>8, <2>10, ClaimKeeps
<1>24. ASSUME NEW k \in Cancellers, Raise(k) \/ WalkHead(k) \/ WalkRetired(k) \/ WalkAux(k) \/
           WalkArmed(k) \/ WalkUnlock(k) \/ WalkEnds(k) PROVE ClaimInv'
  BY <1>1, <1>24 DEF Raise, WalkHead, WalkRetired, WalkAux, WalkArmed, WalkUnlock, WalkEnds,
    KGoto, taskVars, sourceVars, entryVars, Advance
<1>25. QED BY <1>1, <1>2, <1>3, <1>4, <1>5, <1>6, <1>7, <1>8, <1>9, <1>10, <1>11, <1>12,
    <1>13, <1>14, <1>15, <1>16, <1>17, <1>18, <1>19, <1>20, <1>21, <1>22, <1>23, <1>24 DEF
    Next, WaitSteps, WalkSteps, Quiescent, vars, taskVars, walkerVars, sourceVars, entryVars

(* The lists of the sources. *)
LEMMA RegKeeps ==
  ASSUME NEW s, NEW e, RegOK(s, e), aux'[e] = aux[e],
         want'[TaskOf(e)] = want[TaskOf(e)], ops'[TaskOf(e)] = ops[TaskOf(e)]
  PROVE  RegOK(s, e)'
<1>1. FloorOf(want[TaskOf(e)])' = FloorOf(want[TaskOf(e)])
  BY SameEntry
<1>2. QED BY <1>1 DEF RegOK

LEMMA RegStep ==
  ASSUME Inv, [Next]_vars
  PROVE  RegInv'
<1>0. reg \in [Sources -> Seq(Entries)] /\ aux \in [Entries -> Aux] /\ ops \in [Tasks ->
      0..MaxOps] /\ want \in [Tasks -> Waits] /\ ktodo \in [Cancellers -> Seq(Entries)] /\
      retired \subseteq Entries
  BY DEF Inv, TypeOK, TaskType, ListType, SourceType, FlagType
<1>1. ASSUME UNCHANGED <<reg, aux, ops, want>> PROVE RegInv'
  BY <1>0, <1>1 DEF Inv, RegInv, RegOK, FloorOf
<1>2. ASSUME NEW t \in Tasks, NEW w \in Waits, LockToWait(t, w) PROVE RegInv'
  <2>1. SUFFICES ASSUME NEW s \in Sources, NEW e \in Entries, Contains(reg[s], e) PROVE
    RegOK(s, e)'
    BY <1>2 DEF LockToWait, Goto, walkerVars, sourceVars, entryVars, Inv, RegInv
  <2>2. RegOK(s, e) /\ aux' = aux
    BY <1>2, <2>1 DEF LockToWait, Goto, walkerVars, sourceVars, entryVars, Inv, RegInv
  <2>3. PICK v \in Tasks : v = TaskOf(e)
    BY KindFacts
  <2>4. CASE v = t
    <3>1. ops'[v] = ops[v] + 1 /\ ops[v] \in Nat /\ e[2] \in Nat
      BY <1>0, <1>2, <2>4, ConstFacts, KindFacts DEF LockToWait
    <3>2. QED BY <2>2, <2>3, <3>1 DEF RegOK, Fresh
  <2>5. CASE v # t
    BY <1>0, <1>2, <2>2, <2>3, <2>5, RegKeeps DEF LockToWait
  <2>6. QED BY <2>4, <2>5
<1>3. ASSUME NEW t \in Tasks, AcquireCancelEntry(t) PROVE RegInv'
  <2>1. PICK f \in Entries : f = EntryOf(t) /\ f[2] = Cancellable /\ TaskOf(f) = t
    BY <1>0, <1>3, EntryFacts DEF AcquireCancelEntry, Inv, ModeInv
  <2>2. \A s \in Sources : reg'[s] = reg[s] \/ reg'[s] = Unlink(reg[s], f)
    BY <1>0, <1>3, <2>1 DEF AcquireCancelEntry
  <2>3. \A s \in Sources : Distinct(reg'[s]) /\ \A e \in Entries : Contains(reg'[s], e) =>
    Contains(reg[s], e)
    <3>1. \A s \in Sources : reg[s] \in Seq(Entries) /\ Distinct(reg[s])
      BY <1>0 DEF Inv, RegInv
    <3>2. QED BY <2>2, <3>1, UnlinkFacts
  <2>4. SUFFICES ASSUME NEW s \in Sources, NEW e \in Entries, Contains(reg'[s], e) PROVE
    RegOK(s, e)'
    BY <2>3 DEF RegInv
  <2>5. RegOK(s, e) /\ want' = want /\ ops' = ops
    BY <1>3, <2>3, <2>4 DEF Inv, RegInv, AcquireCancelEntry
  <2>6. CASE e = f
    <3>1. aux'[e] = [floor |-> FloorOf(want[t]), watcher |-> FALSE] /\ e[2] = Cancellable
      BY <1>0, <1>3, <2>1, <2>6 DEF AcquireCancelEntry
    <3>2. ~aux'[e].watcher
      BY <3>1
    <3>3. QED BY <2>5, <3>1, <3>2 DEF RegOK, Cancellable, Plain
  <2>7. CASE e # f
    BY <1>0, <1>3, <2>1, <2>5, <2>7, RegKeeps DEF AcquireCancelEntry
  <2>8. QED BY <2>6, <2>7
<1>4. ASSUME NEW t \in Tasks, Register(t) PROVE RegInv'
  <2>1. PICK f \in Entries, o \in Sources : f = EntryOf(t) /\ TaskOf(f) = t /\ o = want[t].src
    BY <1>0, EntryFacts, WaitFacts
  <2>2. want' = want /\ ops' = ops
    BY <1>4 DEF Register
  <2>3. CASE Contains(reg[o], f)
    <3>1. reg' = reg /\ aux' = aux
      BY <1>4, <2>1, <2>3 DEF Register
    <3>2. QED BY <2>2, <3>1, RegKeeps DEF Inv, RegInv
  <2>4. CASE ~Contains(reg[o], f)
    <3>1. /\ reg' = [reg EXCEPT ![o] = <<f>> \o @]
          /\ aux' = [aux EXCEPT ![f] = [floor |-> FloorOf(want[t]), watcher |-> want[t].mode =
            "value"]]
      BY <1>4, <2>1, <2>4 DEF Register
    <3>2. /\ Distinct(<<f>> \o reg[o])
          /\ \A e \in Entries : Contains(<<f>> \o reg[o], e) <=> Contains(reg[o], e) \/ e = f
      BY <1>0, <2>1, <2>4, PushFacts DEF Inv, RegInv
    <3>3. \A s \in Sources : Distinct(reg'[s]) /\ \A e \in Entries : Contains(reg'[s], e) =>
      Contains(reg[s], e) \/ (s = o /\ e = f)
      BY <1>0, <3>1, <3>2 DEF Inv, RegInv
    <3>4. SUFFICES ASSUME NEW s \in Sources, NEW e \in Entries, Contains(reg'[s], e) PROVE
      RegOK(s, e)'
      BY <3>3 DEF RegInv
    <3>5. CASE e # f
      <4>1. RegOK(s, e) /\ aux'[e] = aux[e]
        BY <1>0, <3>1, <3>3, <3>4, <3>5 DEF Inv, RegInv
      <4>2. QED BY <2>2, <4>1, RegKeeps
    <3>6. CASE e = f
      <4>1. /\ want[t].mode \in {"throw", "value"} /\ ops[t] \in Nat \ {0}
        BY <1>0, <1>4, WaitFacts, ConstFacts DEF Register, Inv, ModeInv
      <4>2. f[2] # Plain /\ (f[2] # Cancellable <=> want[t].mode = "value")
            /\ (want[t].mode = "value" => f[2] = Fresh(ops[t]))
        BY <1>0, <2>1, <4>1, EntryFacts DEF Plain, Cancellable, Fresh
      <4>3. s = o \/ want[t].mode = "throw"
        <5>1. SUFFICES ASSUME s # o, want[t].mode = "value" PROVE FALSE
          BY <4>1
        <5>2. RegOK(s, f)
          BY <3>3, <3>4, <3>6, <5>1 DEF Inv, RegInv
        <5>3. QED BY <2>1, <4>2, <5>1, <5>2 DEF RegOK
      <4>4. aux'[f].floor = FloorOf(want[t]) /\ (aux'[f].watcher <=> want[t].mode = "value")
        BY <1>0, <3>1
      <4>5. FloorOf(want[t])' = FloorOf(want[t])
        BY <2>2, SameEntry
      <4>6. f[2] # Cancellable => f[2] <= Fresh(ops[t])
        BY <4>1, <4>2 DEF Fresh
      <4>7. QED BY <2>1, <2>2, <3>6, <4>2, <4>3, <4>4, <4>5, <4>6 DEF RegOK
    <3>7. QED BY <3>5, <3>6
  <2>5. QED BY <2>3, <2>4
<1>5. ASSUME NEW t \in Tasks, Retire(t) PROVE RegInv'
  <2>1. PICK o \in Sources : o = want[t].src
    BY <1>0, WaitFacts
  <2>2. \A s \in Sources : s # o => reg'[s] = reg[s]
    BY <1>0, <1>5, <2>1 DEF Retire
  <2>3. reg'[o] = reg[o] \/ \E K \in SUBSET (1..Len(reg[o])) : reg'[o] \in Kept(reg[o], K)
    BY <1>0, <1>5, <2>1 DEF Retire
  <2>4. Distinct(reg'[o]) /\ \A e \in Entries : Contains(reg'[o], e) => Contains(reg[o], e)
    <3>1. CASE reg'[o] = reg[o]
      BY <3>1 DEF Inv, RegInv
    <3>2. ASSUME NEW K \in SUBSET (1..Len(reg[o])), reg'[o] \in Kept(reg[o], K)
          PROVE  Distinct(reg'[o]) /\ \A e \in Entries : Contains(reg'[o], e) =>
            Contains(reg[o], e)
      <4>1. reg[o] \in Seq(Entries) /\ Distinct(reg[o])
        BY <1>0 DEF Inv, RegInv
      <4>2. Distinct(reg'[o]) /\ \A e : Contains(reg'[o], e) <=> \E i \in K : reg[o][i] = e
        BY <3>2, <4>1, KeptFacts
      <4>3. QED BY <4>2 DEF Contains
    <3>3. QED BY <2>3, <3>1, <3>2
  <2>8. \A s \in Sources : Distinct(reg'[s]) /\ \A e \in Entries : Contains(reg'[s], e) =>
    Contains(reg[s], e)
    BY <2>2, <2>4 DEF Inv, RegInv
  <2>9. QED
    <3>1. SUFFICES ASSUME NEW s \in Sources, NEW e \in Entries, Contains(reg'[s], e) PROVE
      RegOK(s, e)'
      BY <2>8 DEF RegInv
    <3>2. RegOK(s, e)
      BY <2>8, <3>1 DEF Inv, RegInv
    <3>3. QED BY <1>5, <3>2, RegKeeps DEF Retire, Goto, walkerVars
<1>6. ASSUME NEW t \in Tasks, LockToNotify(t) PROVE RegInv'
  <2>1. SUFFICES ASSUME NEW s \in Sources, NEW e \in Entries, Contains(reg[s], e) PROVE
    RegOK(s, e)'
    BY <1>6 DEF LockToNotify, Goto, walkerVars, sourceVars, entryVars, Inv, RegInv
  <2>2. RegOK(s, e) /\ aux' = aux
    BY <1>6, <2>1 DEF LockToNotify, Goto, walkerVars, sourceVars, entryVars, Inv, RegInv
  <2>3. PICK v \in Tasks : v = TaskOf(e)
    BY KindFacts
  <2>4. CASE v = t
    <3>1. ops'[v] = ops[v] + 1 /\ ops[v] \in Nat /\ e[2] \in Nat
      BY <1>0, <1>6, <2>4, ConstFacts, KindFacts DEF LockToNotify
    <3>2. QED BY <2>2, <2>3, <3>1 DEF RegOK, Fresh
  <2>5. CASE v # t
    BY <1>0, <1>6, <2>2, <2>3, <2>5, RegKeeps DEF LockToNotify
  <2>6. QED BY <2>4, <2>5
<1>7. ASSUME NEW k \in Cancellers, WalkRetired(k) PROVE RegInv'
  <2>2. \A s \in Sources : reg'[s] = reg[s] \/ reg'[s] = Unlink(reg[s], Head(ktodo[k]))
    BY <1>0, <1>7 DEF WalkRetired
  <2>8. \A s \in Sources : Distinct(reg'[s]) /\ \A e \in Entries : Contains(reg'[s], e) =>
    Contains(reg[s], e)
    <3>1. \A s \in Sources : reg[s] \in Seq(Entries) /\ Distinct(reg[s])
      BY <1>0 DEF Inv, RegInv
    <3>2. QED BY <2>2, <3>1, UnlinkFacts
  <2>9. QED
    <3>1. SUFFICES ASSUME NEW s \in Sources, NEW e \in Entries, Contains(reg'[s], e) PROVE
      RegOK(s, e)'
      BY <2>8 DEF RegInv
    <3>2. RegOK(s, e)
      BY <2>8, <3>1 DEF Inv, RegInv
    <3>3. QED BY <1>7, <3>2, RegKeeps DEF WalkRetired, taskVars, entryVars, Advance
<1>8. ASSUME NEW t \in Tasks, EntryCheck(t) \/ Arm(t) \/ Drain(t) \/ Enqueue(t) \/ Recheck(t)
           \/ Disarm(t) \/ Suspend(t) \/ Resume(t) \/ Settle(t) \/ Unlock(t) \/ Interrupted(t)
           \/ Cleanup(t) \/ Notify(t) \/ NotifyEnds(t) PROVE RegInv'
  BY <1>1, <1>8 DEF EntryCheck, Arm, Drain, Enqueue, Recheck, Disarm, Suspend, Resume, Settle,
    Unlock, Interrupted, Cleanup, Notify, NotifyEnds, Goto, taskVars, walkerVars, sourceVars,
    entryVars, Publish
<1>9. ASSUME NEW k \in Cancellers, Raise(k) \/ WalkLock(k) \/ WalkHead(k) \/ WalkAux(k) \/
           WalkArmed(k) \/ WalkClaim(k) \/ WalkUnlock(k) \/ WalkDeliver(k) \/ WalkEnds(k)
           PROVE RegInv'
  BY <1>1, <1>9 DEF Raise, WalkLock, WalkHead, WalkAux, WalkArmed, WalkClaim, WalkUnlock,
    WalkDeliver, WalkEnds, KGoto, taskVars, sourceVars, entryVars, Advance
<1>10. QED BY <1>1, <1>2, <1>3, <1>4, <1>5, <1>6, <1>7, <1>8, <1>9 DEF Next, WaitSteps,
    WalkSteps, Quiescent, vars, taskVars, walkerVars, sourceVars, entryVars

(* The severity a value wait is woken at. *)
LEMMA FloorStep ==
  ASSUME Inv, [Next]_vars
  PROVE  FloorIsHonoured'
<1>0. wake \in [Tasks -> WakeRec] /\ want \in [Tasks -> Waits] /\ ops \in [Tasks -> 0..MaxOps]
      /\ kclaim \in [Cancellers -> SUBSET (Entries \X BOOLEAN)] /\ ksev \in [Cancellers ->
      Severity] /\ pc \in [Tasks -> TaskLabel]
  BY DEF Inv, TypeOK, TaskType, WakeType, FlagType, WalkType
<1>1. ASSUME UNCHANGED <<want, wake>> PROVE FloorIsHonoured'
  BY <1>0, <1>1 DEF Inv, FloorIsHonoured, Fires, FloorOf
<1>2. ASSUME NEW t \in Tasks, NEW w \in Waits, LockToWait(t, w) PROVE FloorIsHonoured'
  <2>1. wake' = wake /\ \A u \in Tasks : u # t => want'[u] = want[u]
    BY <1>0, <1>2 DEF LockToWait
  <2>2. wake[t].sev = 0
    BY <1>0, <1>2 DEF LockToWait, Inv, OwnerInv, NoWake, WaitAt
  <2>3. \A u \in Tasks : u # t => FloorOf(want[u])' = FloorOf(want[u])
    BY <2>1 DEF FloorOf
  <2>4. QED BY <2>1, <2>2, <2>3 DEF Inv, FloorIsHonoured, Fires
<1>3. ASSUME NEW t \in Tasks, Resume(t) PROVE FloorIsHonoured'
  <2>1. want' = want /\ \A u \in Tasks : wake'[u] = wake[u] \/ wake'[u].sev = 0
    BY <1>0, <1>3 DEF Resume, Goto, walkerVars, sourceVars, entryVars, NoWake
  <2>2. \A u \in Tasks : FloorOf(want[u])' = FloorOf(want[u])
    BY <2>1 DEF FloorOf
  <2>3. QED BY <2>1, <2>2 DEF Inv, FloorIsHonoured, Fires
<1>4. ASSUME NEW t \in Tasks, Interrupted(t) PROVE FloorIsHonoured'
  <2>1. want' = want /\ \A u \in Tasks : wake'[u] = wake[u] \/ wake'[u].sev = 0
    BY <1>0, <1>4 DEF Interrupted, Goto, walkerVars, sourceVars, NoWake
  <2>2. \A u \in Tasks : FloorOf(want[u])' = FloorOf(want[u])
    BY <2>1 DEF FloorOf
  <2>3. QED BY <2>1, <2>2 DEF Inv, FloorIsHonoured, Fires
<1>5. ASSUME NEW t \in Tasks, Cleanup(t) PROVE FloorIsHonoured'
  <2>1. want' = want /\ \A u \in Tasks : wake'[u] = wake[u] \/ wake'[u].sev = 0
    BY <1>0, <1>5 DEF Cleanup, Goto, walkerVars, sourceVars, entryVars, NoWake
  <2>2. \A u \in Tasks : FloorOf(want[u])' = FloorOf(want[u])
    BY <2>1 DEF FloorOf
  <2>3. QED BY <2>1, <2>2 DEF Inv, FloorIsHonoured, Fires
<1>6. ASSUME NEW t \in Tasks, Notify(t) PROVE FloorIsHonoured'
  <2>1. want' = want /\ \A u \in Tasks : wake'[u] = wake[u] \/ wake'[u].sev = 0
    BY <1>0, <1>6 DEF Notify, walkerVars, sourceVars, NoWake
  <2>2. \A u \in Tasks : FloorOf(want[u])' = FloorOf(want[u])
    BY <2>1 DEF FloorOf
  <2>3. QED BY <2>1, <2>2 DEF Inv, FloorIsHonoured, Fires
<1>7. ASSUME NEW k \in Cancellers, WalkDeliver(k) PROVE FloorIsHonoured'
  <2>1. PICK m \in kclaim[k] :
           wake' = IF on[TaskOf(m[1])] = None
                   THEN [wake EXCEPT ![TaskOf(m[1])] =
                           [how |-> IF m[2] THEN "value" ELSE "throw", sev |-> ksev[k]]]
                   ELSE wake
    BY <1>7 DEF WalkDeliver
  <2>2. PICK v \in Tasks : v = TaskOf(m[1])
    BY <1>0, <2>1, KindFacts
  <2>3. want' = want /\ \A u \in Tasks : wake'[u] = wake[u] \/ (u = v /\ wake'[u].sev =
    ksev[k])
    BY <1>0, <1>7, <2>1, <2>2 DEF WalkDeliver, taskVars, sourceVars, entryVars
  <2>4. want[v].mode = "value" => FloorOf(want[v]) <= ksev[k]
    BY <2>1, <2>2 DEF Inv, ClaimInv, ClaimOK
  <2>5. \A u \in Tasks : FloorOf(want[u])' = FloorOf(want[u])
    BY <2>3 DEF FloorOf
  <2>6. ksev[k] \in Severity /\ FloorOf(want[v]) \in Severity
    BY <1>0, WaitFacts
  <2>7. QED BY <2>2, <2>3, <2>4, <2>5, <2>6 DEF Inv, FloorIsHonoured, Fires, Severity
<1>8. ASSUME NEW t \in Tasks, EntryCheck(t) \/ AcquireCancelEntry(t) \/ Arm(t) \/ Drain(t) \/
           Enqueue(t) \/ Register(t) \/ Recheck(t) \/ Disarm(t) \/ Suspend(t) \/ Settle(t) \/
           Retire(t) \/ Unlock(t) \/ LockToNotify(t) \/ NotifyEnds(t) PROVE FloorIsHonoured'
  BY <1>1, <1>8 DEF EntryCheck, AcquireCancelEntry, Arm, Drain, Enqueue, Register, Recheck,
    Disarm, Suspend, Settle, Retire, Unlock, LockToNotify, NotifyEnds, Goto, taskVars,
    walkerVars, sourceVars, entryVars, Publish
<1>9. ASSUME NEW k \in Cancellers, Raise(k) \/ WalkLock(k) \/ WalkHead(k) \/ WalkRetired(k) \/
           WalkAux(k) \/ WalkArmed(k) \/ WalkClaim(k) \/ WalkUnlock(k) \/ WalkEnds(k) PROVE
           FloorIsHonoured'
  BY <1>1, <1>9 DEF Raise, WalkLock, WalkHead, WalkRetired, WalkAux, WalkArmed, WalkClaim,
    WalkUnlock, WalkEnds, KGoto, taskVars, sourceVars, entryVars, Advance
<1>10. QED BY <1>1, <1>2, <1>3, <1>4, <1>5, <1>6, <1>7, <1>8, <1>9 DEF Next, WaitSteps,
    WalkSteps, Quiescent, vars, taskVars, walkerVars, sourceVars, entryVars

(* What each operation does to the lists of the sources. *)
LEMMA AcquireLists ==
  ASSUME Inv, NEW t \in Tasks, AcquireCancelEntry(t), NEW s \in Sources, NEW e \in Entries
  PROVE  /\ Contains(reg'[s], e) <=> Contains(reg[s], e) /\ (e # EntryOf(t) \/ s = want[t].src)
         /\ walk[s] # None => reg'[s] = reg[s]
<1>1. reg[s] \in Seq(Entries) /\ Distinct(reg[s])
  BY DEF Inv, TypeOK, ListType, RegInv
<1>2. reg'[s] = IF Contains(reg[s], EntryOf(t)) /\ s # want[t].src
                THEN Unlink(reg[s], EntryOf(t)) ELSE reg[s]
  BY DEF AcquireCancelEntry, Registered
<1>3. walk[s] # None => reg'[s] = reg[s]
  BY <1>2 DEF AcquireCancelEntry, Registered
<1>4. QED BY <1>1, <1>2, <1>3, UnlinkFacts

LEMMA RegisterLists ==
  ASSUME Inv, NEW t \in Tasks, Register(t), NEW s \in Sources, NEW e \in Entries
  PROVE  Contains(reg'[s], e) <=> Contains(reg[s], e) \/ (e = EntryOf(t) /\ s = want[t].src)
<1>1. /\ reg \in [Sources -> Seq(Entries)] /\ EntryOf(t) \in Entries /\ want[t].src \in Sources
  BY EntryFacts, WaitFacts DEF Inv, TypeOK, ListType, TaskType
<1>2. CASE Contains(reg[want[t].src], EntryOf(t))
  BY <1>2 DEF Register
<1>3. CASE ~Contains(reg[want[t].src], EntryOf(t))
  <2>1. reg' = [reg EXCEPT ![want[t].src] = <<EntryOf(t)>> \o @]
    BY <1>3 DEF Register
  <2>2. CASE s # want[t].src
    BY <1>1, <2>1, <2>2
  <2>3. CASE s = want[t].src
    <3>1. reg'[s] = <<EntryOf(t)>> \o reg[s]
      BY <1>1, <2>1, <2>3
    <3>2. QED BY <1>1, <2>3, <3>1, PushFacts
  <2>4. QED BY <2>2, <2>3
<1>4. QED BY <1>2, <1>3

LEMMA RetireLists ==
  ASSUME Inv, NEW t \in Tasks, Retire(t), NEW s \in Sources, NEW e \in Entries
  PROVE  /\ Contains(reg'[s], e) => Contains(reg[s], e)
         /\ Contains(reg[s], e) /\ e \notin retired' => Contains(reg'[s], e)
         /\ walk[s] # None => reg'[s] = reg[s]
<1>1. reg \in [Sources -> Seq(Entries)] /\ want[t].src \in Sources /\ Distinct(reg[s])
  BY WaitFacts DEF Inv, TypeOK, ListType, TaskType, RegInv
<1>2. CASE s = want[t].src /\ dead[s] + 1 >= Threshold /\ walk[s] = None
  <2> DEFINE K == {i \in 1..Len(reg[s]) : reg[s][i] \notin retired'}
  <2>1. reg'[s] \in Kept(reg[s], K)
    BY <1>1, <1>2 DEF Retire
  <2>2. reg[s] \in Seq(Entries) /\ K \in SUBSET (1..Len(reg[s]))
    BY <1>1
  <2>3. Contains(reg'[s], e) <=> \E i \in K : reg[s][i] = e
    <3> HIDE DEF K
    <3>1. QED BY <1>1, <2>1, <2>2, KeptFacts
  <2>4. QED BY <1>2, <2>3 DEF Contains
<1>3. CASE ~(s = want[t].src /\ dead[s] + 1 >= Threshold /\ walk[s] = None)
  <2>1. reg'[s] = reg[s]
    BY <1>1, <1>3 DEF Retire
  <2>2. QED BY <2>1
<1>4. QED BY <1>2, <1>3

LEMMA WalkRetiredLists ==
  ASSUME Inv, NEW k \in Cancellers, WalkRetired(k), NEW s \in Sources, NEW e \in Entries
  PROVE  /\ Contains(reg'[s], e) => Contains(reg[s], e)
         /\ Contains(reg[s], e) /\ e \notin retired => Contains(reg'[s], e)
<1>1. reg \in [Sources -> Seq(Entries)] /\ reg[s] \in Seq(Entries) /\ Distinct(reg[s])
  BY DEF Inv, TypeOK, ListType, RegInv
<1>2. reg'[s] = reg[s] \/ reg'[s] = Unlink(reg[s], Head(ktodo[k]))
  BY <1>1 DEF WalkRetired
<1>3. Head(ktodo[k]) \in retired
  BY DEF WalkRetired
<1>4. QED BY <1>1, <1>2, <1>3, UnlinkFacts

\* The entry of a wait that is under way is not retired, and differs from the
\* entries of other tasks.
LEMMA LiveEntry ==
  ASSUME Inv, NEW u \in Tasks, pc[u] \notin {"idle", "unlock"}
  PROVE  EntryOf(u) \in Entries /\ EntryOf(u) \notin retired /\ TaskOf(EntryOf(u)) = u
<1>1. want \in [Tasks -> Waits] /\ ops \in [Tasks -> 0..MaxOps]
  BY DEF Inv, TypeOK, TaskType
<1>2. want[u].mode \in {"shield", "throw", "value"}
  BY <1>1, WaitFacts
<1>3. QED BY <1>1, <1>2, EntryFacts DEF Inv, RetiredInv

(* Where the entry of a wait is registered. *)
\* A step that keeps the lists and the slots keeps what they say of the waits.
LEMMA CachedFrame ==
  ASSUME CachedInv, reg' = reg, aux' = aux,
         \A u \in Tasks : pc'[u] \in WaitAt \cup {"arm"} /\ want'[u].mode = "throw" =>
           pc[u] \in WaitAt \cup {"arm"} /\ want'[u] = want[u] /\ ops'[u] = ops[u],
         \A u \in Tasks :
           pc'[u] \in {"recheck", "disarm", "suspend", "parked"} /\ want'[u].mode # "shield" /\ Armed(u)'
           => /\ pc[u] \in {"recheck", "disarm", "suspend", "parked"} /\ Armed(u)
              /\ want'[u] = want[u] /\ ops'[u] = ops[u]
  PROVE  CachedInv'
<1>1. SUFFICES ASSUME NEW u \in Tasks PROVE ListedOnce(u)' /\ ListedArmed(u)'
  BY DEF CachedInv
<1>2. ListedOnce(u) /\ ListedArmed(u)
  BY DEF CachedInv
<1>3. ListedOnce(u)'
  <2>1. SUFFICES ASSUME want'[u].mode = "throw", pc'[u] \in WaitAt \cup {"arm"} PROVE ListedOnce(u)'
    BY DEF ListedOnce
  <2>2. EntryOf(u)' = EntryOf(u) /\ FloorOf(want[u])' = FloorOf(want[u])
    BY <2>1, SameEntry
  <2>3. QED BY <1>2, <2>1, <2>2 DEF ListedOnce
<1>4. ListedArmed(u)'
  <2>1. SUFFICES ASSUME pc'[u] \in {"recheck", "disarm", "suspend", "parked"},
                        want'[u].mode # "shield", Armed(u)'
                 PROVE  ListedArmed(u)'
    BY DEF ListedArmed
  <2>2. EntryOf(u)' = EntryOf(u)
    BY <2>1, SameEntry
  <2>3. QED BY <1>2, <2>1, <2>2 DEF ListedArmed
<1>5. QED BY <1>3, <1>4

LEMMA CachedStep ==
  ASSUME Inv, [Next]_vars
  PROVE  CachedInv'
<1>0. pc \in [Tasks -> TaskLabel] /\ want \in [Tasks -> Waits] /\ ops \in [Tasks -> 0..MaxOps]
      /\ reg \in [Sources -> Seq(Entries)] /\ aux \in [Entries -> Aux] /\ on \in [Tasks ->
      Entries \cup {None}] /\ hidden \in [Tasks -> BOOLEAN]
  BY DEF Inv, TypeOK, TaskType, ListType, WakeType, FlagType
<1>1. ASSUME UNCHANGED <<pc, want, ops, reg, aux, on, hidden>> PROVE CachedInv'
  BY <1>0, <1>1 DEF Inv, CachedInv, ListedOnce, ListedArmed, EntryOf, FloorOf, Armed
<1>2. ASSUME NEW t \in Tasks, NEW w \in Waits, LockToWait(t, w) PROVE CachedInv'
  <2>1. reg' = reg /\ aux' = aux
    BY <1>2 DEF LockToWait, Goto, walkerVars, sourceVars, entryVars
  <2>2. ASSUME NEW u \in Tasks, pc'[u] \in WaitAt \cup {"arm"}, want'[u].mode = "throw"
        PROVE  pc[u] \in WaitAt \cup {"arm"} /\ want'[u] = want[u] /\ ops'[u] = ops[u]
    BY <1>0, <1>2, <2>2 DEF LockToWait, Goto, walkerVars, sourceVars, entryVars, WaitAt
  <2>3. ASSUME NEW u \in Tasks, pc'[u] \in {"recheck", "disarm", "suspend", "parked"},
               want'[u].mode # "shield", Armed(u)'
        PROVE  /\ pc[u] \in {"recheck", "disarm", "suspend", "parked"} /\ Armed(u)
               /\ want'[u] = want[u] /\ ops'[u] = ops[u]
    BY <1>0, <1>2, <2>3, ConstFacts DEF LockToWait, Goto, walkerVars, sourceVars, entryVars,
      Armed
  <2>4. QED BY <2>1, <2>2, <2>3, CachedFrame DEF Inv
<1>3. ASSUME NEW t \in Tasks, EntryCheck(t) PROVE CachedInv'
  <2>1. reg' = reg /\ aux' = aux
    BY <1>3 DEF EntryCheck, Goto, walkerVars, sourceVars, entryVars
  <2>2. ASSUME NEW u \in Tasks, pc'[u] \in WaitAt \cup {"arm"}, want'[u].mode = "throw"
        PROVE  pc[u] \in WaitAt \cup {"arm"} /\ want'[u] = want[u] /\ ops'[u] = ops[u]
    BY <1>0, <1>3, <2>2 DEF EntryCheck, Goto, walkerVars, sourceVars, entryVars, WaitAt
  <2>3. ASSUME NEW u \in Tasks, pc'[u] \in {"recheck", "disarm", "suspend", "parked"},
               want'[u].mode # "shield", Armed(u)'
        PROVE  /\ pc[u] \in {"recheck", "disarm", "suspend", "parked"} /\ Armed(u)
               /\ want'[u] = want[u] /\ ops'[u] = ops[u]
    BY <1>0, <1>3, <2>3, ConstFacts DEF EntryCheck, Goto, walkerVars, sourceVars, entryVars,
      Armed
  <2>4. QED BY <2>1, <2>2, <2>3, CachedFrame DEF Inv
<1>4. ASSUME NEW t \in Tasks, AcquireCancelEntry(t) PROVE CachedInv'
  <2>1. PICK f \in Entries : f = EntryOf(t) /\ TaskOf(f) = t
    BY <1>0, EntryFacts
  <2>2. UNCHANGED <<want, ops, on, hidden>> /\ pc'[t] = "arm" /\ want[t].mode = "throw"
    BY <1>0, <1>4 DEF AcquireCancelEntry, Goto, Inv, ModeInv
  <2>3. SUFFICES ASSUME NEW u \in Tasks PROVE ListedOnce(u)' /\ ListedArmed(u)'
    BY DEF CachedInv
  <2>4. PICK e \in Entries : e = EntryOf(u) /\ TaskOf(e) = u
    BY <1>0, EntryFacts
  <2>5. EntryOf(u)' = EntryOf(u) /\ FloorOf(want[u])' = FloorOf(want[u])
    BY <2>2, SameEntry
  <2>6. CASE u = t
    <3>1. \A s \in Sources : Contains(reg'[s], e) => s = want[t].src
      BY <1>4, <2>4, <2>6, AcquireLists
    <3>2. aux'[e].floor = FloorOf(want[t])
      BY <1>0, <1>4, <2>4, <2>6 DEF AcquireCancelEntry
    <3>3. QED BY <2>2, <2>4, <2>5, <2>6, <3>1, <3>2 DEF ListedOnce, ListedArmed
  <2>7. CASE u # t
    <3>1. e # f /\ pc'[u] = pc[u] /\ aux'[e] = aux[e]
      BY <1>0, <1>4, <2>1, <2>4, <2>7 DEF AcquireCancelEntry, Goto
    <3>2. \A s \in Sources : Contains(reg'[s], e) <=> Contains(reg[s], e)
      BY <1>4, <2>1, <3>1, AcquireLists
    <3>3. want[u].src \in Sources
      BY <1>0, WaitFacts
    <3>4. ListedOnce(u) /\ ListedArmed(u)
      BY DEF Inv, CachedInv
    <3>5. QED BY <2>2, <2>4, <2>5, <3>1, <3>2, <3>3, <3>4 DEF ListedOnce, ListedArmed, Armed
  <2>8. QED BY <2>6, <2>7
<1>5. ASSUME NEW t \in Tasks, Arm(t) PROVE CachedInv'
  <2>1. reg' = reg /\ aux' = aux
    BY <1>5 DEF Arm, Goto, walkerVars, sourceVars
  <2>2. ASSUME NEW u \in Tasks, pc'[u] \in WaitAt \cup {"arm"}, want'[u].mode = "throw"
        PROVE  pc[u] \in WaitAt \cup {"arm"} /\ want'[u] = want[u] /\ ops'[u] = ops[u]
    BY <1>0, <1>5, <2>2 DEF Arm, Goto, walkerVars, sourceVars, WaitAt
  <2>3. ASSUME NEW u \in Tasks, pc'[u] \in {"recheck", "disarm", "suspend", "parked"},
               want'[u].mode # "shield", Armed(u)'
        PROVE  /\ pc[u] \in {"recheck", "disarm", "suspend", "parked"} /\ Armed(u)
               /\ want'[u] = want[u] /\ ops'[u] = ops[u]
    BY <1>0, <1>5, <2>3, ConstFacts DEF Arm, Goto, walkerVars, sourceVars, Armed
  <2>4. QED BY <2>1, <2>2, <2>3, CachedFrame DEF Inv
<1>6. ASSUME NEW t \in Tasks, Drain(t) PROVE CachedInv'
  <2>1. reg' = reg /\ aux' = aux
    BY <1>6 DEF Drain, taskVars, walkerVars, sourceVars, Publish
  <2>2. ASSUME NEW u \in Tasks, pc'[u] \in WaitAt \cup {"arm"}, want'[u].mode = "throw"
        PROVE  pc[u] \in WaitAt \cup {"arm"} /\ want'[u] = want[u] /\ ops'[u] = ops[u]
    BY <1>0, <1>6, <2>2 DEF Drain, taskVars, walkerVars, sourceVars, Publish, WaitAt
  <2>3. ASSUME NEW u \in Tasks, pc'[u] \in {"recheck", "disarm", "suspend", "parked"},
               want'[u].mode # "shield", Armed(u)'
        PROVE  /\ pc[u] \in {"recheck", "disarm", "suspend", "parked"} /\ Armed(u)
               /\ want'[u] = want[u] /\ ops'[u] = ops[u]
    BY <1>0, <1>6, <2>3, ConstFacts DEF Drain, taskVars, walkerVars, sourceVars, Publish, Armed
  <2>4. QED BY <2>1, <2>2, <2>3, CachedFrame DEF Inv
<1>7. ASSUME NEW t \in Tasks, Enqueue(t) PROVE CachedInv'
  <2>1. reg' = reg /\ aux' = aux
    BY <1>7 DEF Enqueue, Goto, walkerVars, sourceVars, entryVars
  <2>2. ASSUME NEW u \in Tasks, pc'[u] \in WaitAt \cup {"arm"}, want'[u].mode = "throw"
        PROVE  pc[u] \in WaitAt \cup {"arm"} /\ want'[u] = want[u] /\ ops'[u] = ops[u]
    BY <1>0, <1>7, <2>2 DEF Enqueue, Goto, walkerVars, sourceVars, entryVars, WaitAt
  <2>3. ASSUME NEW u \in Tasks, pc'[u] \in {"recheck", "disarm", "suspend", "parked"},
               want'[u].mode # "shield", Armed(u)'
        PROVE  /\ pc[u] \in {"recheck", "disarm", "suspend", "parked"} /\ Armed(u)
               /\ want'[u] = want[u] /\ ops'[u] = ops[u]
    BY <1>0, <1>7, <2>3, ConstFacts DEF Enqueue, Goto, walkerVars, sourceVars, entryVars, Armed
  <2>4. QED BY <2>1, <2>2, <2>3, CachedFrame DEF Inv
<1>8. ASSUME NEW t \in Tasks, Register(t) PROVE CachedInv'
  <2>1. PICK f \in Entries : f = EntryOf(t) /\ TaskOf(f) = t
    BY <1>0, EntryFacts
  <2>2. UNCHANGED <<want, ops>> /\ pc[t] = "register" /\ pc'[t] = "recheck"
    BY <1>0, <1>8 DEF Register, Goto
  <2>3. SUFFICES ASSUME NEW u \in Tasks PROVE ListedOnce(u)' /\ ListedArmed(u)'
    BY DEF CachedInv
  <2>4. PICK e \in Entries, o \in Sources : e = EntryOf(u) /\ TaskOf(e) = u /\ o = want[u].src
    BY <1>0, EntryFacts, WaitFacts
  <2>5. EntryOf(u)' = EntryOf(u) /\ FloorOf(want[u])' = FloorOf(want[u])
    BY <2>2, SameEntry
  <2>6. \A s \in Sources : Contains(reg'[s], e) <=> Contains(reg[s], e) \/ (e = f /\ s =
    want[t].src)
    BY <1>8, <2>1, RegisterLists
  <2>7. ListedOnce(u) /\ ListedArmed(u)
    BY DEF Inv, CachedInv
  <2>8. CASE u = t
    <3>1. want[t].mode = "throw" => aux'[e].floor = FloorOf(want[t])
      <4>1. CASE Contains(reg[o], e)
        BY <1>8, <2>2, <2>4, <2>7, <2>8, <4>1 DEF Register, ListedOnce, WaitAt
      <4>2. CASE ~Contains(reg[o], e)
        BY <1>0, <1>8, <2>4, <2>8, <4>2 DEF Register
      <4>3. QED BY <4>1, <4>2
    <3>2. Contains(reg'[o], e)
      BY <2>1, <2>4, <2>6, <2>8
    <3>3. want[t].mode = "throw" => \A s \in Sources : Contains(reg'[s], e) => s = o
      BY <2>2, <2>4, <2>6, <2>7, <2>8 DEF ListedOnce, WaitAt
    <3>4. QED BY <2>2, <2>4, <2>5, <2>8, <3>1, <3>2, <3>3 DEF ListedOnce, ListedArmed
  <2>9. CASE u # t
    <3>1. e # f /\ pc'[u] = pc[u] /\ on'[u] = on[u] /\ hidden'[u] = hidden[u]
      BY <1>0, <1>8, <2>1, <2>4, <2>9 DEF Register, Goto, Publish
    <3>2. aux'[e] = aux[e]
      BY <1>0, <1>8, <2>1, <3>1 DEF Register
    <3>3. \A s \in Sources : Contains(reg'[s], e) <=> Contains(reg[s], e)
      BY <2>6, <3>1
    <3>4. QED BY <2>2, <2>4, <2>5, <2>7, <3>1, <3>2, <3>3 DEF ListedOnce, ListedArmed, Armed
  <2>10. QED BY <2>8, <2>9
<1>9. ASSUME NEW t \in Tasks, Recheck(t) PROVE CachedInv'
  <2>1. reg' = reg /\ aux' = aux
    BY <1>9 DEF Recheck, Goto, walkerVars, sourceVars, entryVars
  <2>2. ASSUME NEW u \in Tasks, pc'[u] \in WaitAt \cup {"arm"}, want'[u].mode = "throw"
        PROVE  pc[u] \in WaitAt \cup {"arm"} /\ want'[u] = want[u] /\ ops'[u] = ops[u]
    BY <1>0, <1>9, <2>2 DEF Recheck, Goto, walkerVars, sourceVars, entryVars, WaitAt
  <2>3. ASSUME NEW u \in Tasks, pc'[u] \in {"recheck", "disarm", "suspend", "parked"},
               want'[u].mode # "shield", Armed(u)'
        PROVE  /\ pc[u] \in {"recheck", "disarm", "suspend", "parked"} /\ Armed(u)
               /\ want'[u] = want[u] /\ ops'[u] = ops[u]
    BY <1>0, <1>9, <2>3, ConstFacts DEF Recheck, Goto, walkerVars, sourceVars, entryVars, Armed
  <2>4. QED BY <2>1, <2>2, <2>3, CachedFrame DEF Inv
<1>10. ASSUME NEW t \in Tasks, Disarm(t) PROVE CachedInv'
  <2>1. reg' = reg /\ aux' = aux
    BY <1>10 DEF Disarm, Goto, walkerVars, sourceVars
  <2>2. ASSUME NEW u \in Tasks, pc'[u] \in WaitAt \cup {"arm"}, want'[u].mode = "throw"
        PROVE  pc[u] \in WaitAt \cup {"arm"} /\ want'[u] = want[u] /\ ops'[u] = ops[u]
    BY <1>0, <1>10, <2>2 DEF Disarm, Goto, walkerVars, sourceVars, WaitAt
  <2>3. ASSUME NEW u \in Tasks, pc'[u] \in {"recheck", "disarm", "suspend", "parked"},
               want'[u].mode # "shield", Armed(u)'
        PROVE  /\ pc[u] \in {"recheck", "disarm", "suspend", "parked"} /\ Armed(u)
               /\ want'[u] = want[u] /\ ops'[u] = ops[u]
    BY <1>0, <1>10, <2>3, ConstFacts DEF Disarm, Goto, walkerVars, sourceVars, Armed
  <2>4. QED BY <2>1, <2>2, <2>3, CachedFrame DEF Inv
<1>11. ASSUME NEW t \in Tasks, Suspend(t) PROVE CachedInv'
  <2>1. reg' = reg /\ aux' = aux
    BY <1>11 DEF Suspend, Goto, walkerVars, sourceVars, Publish
  <2>2. ASSUME NEW u \in Tasks, pc'[u] \in WaitAt \cup {"arm"}, want'[u].mode = "throw"
        PROVE  pc[u] \in WaitAt \cup {"arm"} /\ want'[u] = want[u] /\ ops'[u] = ops[u]
    BY <1>0, <1>11, <2>2 DEF Suspend, Goto, walkerVars, sourceVars, Publish, WaitAt
  <2>3. ASSUME NEW u \in Tasks, pc'[u] \in {"recheck", "disarm", "suspend", "parked"},
               want'[u].mode # "shield", Armed(u)'
        PROVE  /\ pc[u] \in {"recheck", "disarm", "suspend", "parked"} /\ Armed(u)
               /\ want'[u] = want[u] /\ ops'[u] = ops[u]
    BY <1>0, <1>11, <2>3, ConstFacts DEF Suspend, Goto, walkerVars, sourceVars, Publish, Armed
  <2>4. QED BY <2>1, <2>2, <2>3, CachedFrame DEF Inv
<1>12. ASSUME NEW t \in Tasks, Resume(t) PROVE CachedInv'
  <2>1. reg' = reg /\ aux' = aux
    BY <1>12 DEF Resume, Goto, walkerVars, sourceVars, entryVars
  <2>2. ASSUME NEW u \in Tasks, pc'[u] \in WaitAt \cup {"arm"}, want'[u].mode = "throw"
        PROVE  pc[u] \in WaitAt \cup {"arm"} /\ want'[u] = want[u] /\ ops'[u] = ops[u]
    BY <1>0, <1>12, <2>2 DEF Resume, Goto, walkerVars, sourceVars, entryVars, WaitAt
  <2>3. ASSUME NEW u \in Tasks, pc'[u] \in {"recheck", "disarm", "suspend", "parked"},
               want'[u].mode # "shield", Armed(u)'
        PROVE  /\ pc[u] \in {"recheck", "disarm", "suspend", "parked"} /\ Armed(u)
               /\ want'[u] = want[u] /\ ops'[u] = ops[u]
    BY <1>0, <1>12, <2>3, ConstFacts DEF Resume, Goto, walkerVars, sourceVars, entryVars, Armed
  <2>4. QED BY <2>1, <2>2, <2>3, CachedFrame DEF Inv
<1>13. ASSUME NEW t \in Tasks, Settle(t) PROVE CachedInv'
  <2>1. reg' = reg /\ aux' = aux
    BY <1>13 DEF Settle, Goto, walkerVars, sourceVars, entryVars
  <2>2. ASSUME NEW u \in Tasks, pc'[u] \in WaitAt \cup {"arm"}, want'[u].mode = "throw"
        PROVE  pc[u] \in WaitAt \cup {"arm"} /\ want'[u] = want[u] /\ ops'[u] = ops[u]
    BY <1>0, <1>13, <2>2 DEF Settle, Goto, walkerVars, sourceVars, entryVars, WaitAt
  <2>3. ASSUME NEW u \in Tasks, pc'[u] \in {"recheck", "disarm", "suspend", "parked"},
               want'[u].mode # "shield", Armed(u)'
        PROVE  /\ pc[u] \in {"recheck", "disarm", "suspend", "parked"} /\ Armed(u)
               /\ want'[u] = want[u] /\ ops'[u] = ops[u]
    BY <1>0, <1>13, <2>3, ConstFacts DEF Settle, Goto, walkerVars, sourceVars, entryVars, Armed
  <2>4. QED BY <2>1, <2>2, <2>3, CachedFrame DEF Inv
<1>14. ASSUME NEW t \in Tasks, Retire(t) PROVE CachedInv'
  <2>1. UNCHANGED <<want, ops, on, hidden, aux>>
    BY <1>14 DEF Retire, Goto, walkerVars
  <2>2. SUFFICES ASSUME NEW u \in Tasks PROVE ListedOnce(u)' /\ ListedArmed(u)'
    BY DEF CachedInv
  <2>3. CASE pc'[u] \in WaitAt \cup {"arm"}
    <3>1. pc'[u] = pc[u] /\ u # t /\ pc[u] \notin {"idle", "unlock"}
      BY <1>0, <1>14, <2>3 DEF Retire, Goto, walkerVars, WaitAt
    <3>2. PICK e \in Entries, o \in Sources :
             e = EntryOf(u) /\ TaskOf(e) = u /\ o = want[u].src /\ e \notin retired
      BY <1>0, <3>1, LiveEntry, WaitFacts
    <3>3. e \notin retired'
      BY <1>0, <1>14, <3>1, <3>2, EntryFacts DEF Retire
    <3>4. EntryOf(u)' = EntryOf(u) /\ FloorOf(want[u])' = FloorOf(want[u])
      BY <2>1, SameEntry
    <3>5. \A s \in Sources : Contains(reg'[s], e) <=> Contains(reg[s], e)
      BY <1>14, <3>2, <3>3, RetireLists
    <3>6. ListedOnce(u) /\ ListedArmed(u)
      BY DEF Inv, CachedInv
    <3>7. QED BY <2>1, <3>1, <3>2, <3>4, <3>5, <3>6 DEF ListedOnce, ListedArmed, Armed
  <2>4. CASE pc'[u] \notin WaitAt \cup {"arm"}
    BY <2>4 DEF ListedOnce, ListedArmed, WaitAt
  <2>5. QED BY <2>3, <2>4
<1>15. ASSUME NEW t \in Tasks, Unlock(t) PROVE CachedInv'
  <2>1. reg' = reg /\ aux' = aux
    BY <1>15 DEF Unlock, Goto, walkerVars, sourceVars, entryVars
  <2>2. ASSUME NEW u \in Tasks, pc'[u] \in WaitAt \cup {"arm"}, want'[u].mode = "throw"
        PROVE  pc[u] \in WaitAt \cup {"arm"} /\ want'[u] = want[u] /\ ops'[u] = ops[u]
    BY <1>0, <1>15, <2>2 DEF Unlock, Goto, walkerVars, sourceVars, entryVars, WaitAt
  <2>3. ASSUME NEW u \in Tasks, pc'[u] \in {"recheck", "disarm", "suspend", "parked"},
               want'[u].mode # "shield", Armed(u)'
        PROVE  /\ pc[u] \in {"recheck", "disarm", "suspend", "parked"} /\ Armed(u)
               /\ want'[u] = want[u] /\ ops'[u] = ops[u]
    BY <1>0, <1>15, <2>3, ConstFacts DEF Unlock, Goto, walkerVars, sourceVars, entryVars, Armed
  <2>4. QED BY <2>1, <2>2, <2>3, CachedFrame DEF Inv
<1>16. ASSUME NEW t \in Tasks, Interrupted(t) PROVE CachedInv'
  <2>1. reg' = reg /\ aux' = aux
    BY <1>16 DEF Interrupted, Goto, walkerVars, sourceVars
  <2>2. ASSUME NEW u \in Tasks, pc'[u] \in WaitAt \cup {"arm"}, want'[u].mode = "throw"
        PROVE  pc[u] \in WaitAt \cup {"arm"} /\ want'[u] = want[u] /\ ops'[u] = ops[u]
    BY <1>0, <1>16, <2>2 DEF Interrupted, Goto, walkerVars, sourceVars, WaitAt
  <2>3. ASSUME NEW u \in Tasks, pc'[u] \in {"recheck", "disarm", "suspend", "parked"},
               want'[u].mode # "shield", Armed(u)'
        PROVE  /\ pc[u] \in {"recheck", "disarm", "suspend", "parked"} /\ Armed(u)
               /\ want'[u] = want[u] /\ ops'[u] = ops[u]
    BY <1>0, <1>16, <2>3, ConstFacts DEF Interrupted, Goto, walkerVars, sourceVars, Armed
  <2>4. QED BY <2>1, <2>2, <2>3, CachedFrame DEF Inv
<1>17. ASSUME NEW t \in Tasks, Cleanup(t) PROVE CachedInv'
  <2>1. reg' = reg /\ aux' = aux
    BY <1>17 DEF Cleanup, Goto, walkerVars, sourceVars, entryVars
  <2>2. ASSUME NEW u \in Tasks, pc'[u] \in WaitAt \cup {"arm"}, want'[u].mode = "throw"
        PROVE  pc[u] \in WaitAt \cup {"arm"} /\ want'[u] = want[u] /\ ops'[u] = ops[u]
    BY <1>0, <1>17, <2>2 DEF Cleanup, Goto, walkerVars, sourceVars, entryVars, WaitAt
  <2>3. ASSUME NEW u \in Tasks, pc'[u] \in {"recheck", "disarm", "suspend", "parked"},
               want'[u].mode # "shield", Armed(u)'
        PROVE  /\ pc[u] \in {"recheck", "disarm", "suspend", "parked"} /\ Armed(u)
               /\ want'[u] = want[u] /\ ops'[u] = ops[u]
    BY <1>0, <1>17, <2>3, ConstFacts DEF Cleanup, Goto, walkerVars, sourceVars, entryVars,
      Armed
  <2>4. QED BY <2>1, <2>2, <2>3, CachedFrame DEF Inv
<1>18. ASSUME NEW t \in Tasks, LockToNotify(t) PROVE CachedInv'
  <2>1. reg' = reg /\ aux' = aux
    BY <1>18 DEF LockToNotify, Goto, walkerVars, sourceVars, entryVars
  <2>2. ASSUME NEW u \in Tasks, pc'[u] \in WaitAt \cup {"arm"}, want'[u].mode = "throw"
        PROVE  pc[u] \in WaitAt \cup {"arm"} /\ want'[u] = want[u] /\ ops'[u] = ops[u]
    BY <1>0, <1>18, <2>2 DEF LockToNotify, Goto, walkerVars, sourceVars, entryVars, WaitAt
  <2>3. ASSUME NEW u \in Tasks, pc'[u] \in {"recheck", "disarm", "suspend", "parked"},
               want'[u].mode # "shield", Armed(u)'
        PROVE  /\ pc[u] \in {"recheck", "disarm", "suspend", "parked"} /\ Armed(u)
               /\ want'[u] = want[u] /\ ops'[u] = ops[u]
    BY <1>0, <1>18, <2>3, ConstFacts DEF LockToNotify, Goto, walkerVars, sourceVars,
      entryVars, Armed
  <2>4. QED BY <2>1, <2>2, <2>3, CachedFrame DEF Inv
<1>19. ASSUME NEW t \in Tasks, Notify(t) PROVE CachedInv'
  <2>1. reg' = reg /\ aux' = aux
    BY <1>19 DEF Notify, walkerVars, sourceVars
  <2>2. ASSUME NEW u \in Tasks, pc'[u] \in WaitAt \cup {"arm"}, want'[u].mode = "throw"
        PROVE  pc[u] \in WaitAt \cup {"arm"} /\ want'[u] = want[u] /\ ops'[u] = ops[u]
    BY <1>0, <1>19, <2>2 DEF Notify, walkerVars, sourceVars, WaitAt
  <2>3. ASSUME NEW u \in Tasks, pc'[u] \in {"recheck", "disarm", "suspend", "parked"},
               want'[u].mode # "shield", Armed(u)'
        PROVE  /\ pc[u] \in {"recheck", "disarm", "suspend", "parked"} /\ Armed(u)
               /\ want'[u] = want[u] /\ ops'[u] = ops[u]
    BY <1>0, <1>19, <2>3, ConstFacts DEF Notify, walkerVars, sourceVars, Armed
  <2>4. QED BY <2>1, <2>2, <2>3, CachedFrame DEF Inv
<1>20. ASSUME NEW t \in Tasks, NotifyEnds(t) PROVE CachedInv'
  <2>1. reg' = reg /\ aux' = aux
    BY <1>20 DEF NotifyEnds, Goto, walkerVars, sourceVars, entryVars
  <2>2. ASSUME NEW u \in Tasks, pc'[u] \in WaitAt \cup {"arm"}, want'[u].mode = "throw"
        PROVE  pc[u] \in WaitAt \cup {"arm"} /\ want'[u] = want[u] /\ ops'[u] = ops[u]
    BY <1>0, <1>20, <2>2 DEF NotifyEnds, Goto, walkerVars, sourceVars, entryVars, WaitAt
  <2>3. ASSUME NEW u \in Tasks, pc'[u] \in {"recheck", "disarm", "suspend", "parked"},
               want'[u].mode # "shield", Armed(u)'
        PROVE  /\ pc[u] \in {"recheck", "disarm", "suspend", "parked"} /\ Armed(u)
               /\ want'[u] = want[u] /\ ops'[u] = ops[u]
    BY <1>0, <1>20, <2>3, ConstFacts DEF NotifyEnds, Goto, walkerVars, sourceVars, entryVars,
      Armed
  <2>4. QED BY <2>1, <2>2, <2>3, CachedFrame DEF Inv
<1>21. ASSUME NEW k \in Cancellers, WalkRetired(k) PROVE CachedInv'
  <2>1. UNCHANGED <<want, ops, on, hidden, aux>>
    BY <1>21 DEF WalkRetired, taskVars, entryVars, Advance
  <2>2. SUFFICES ASSUME NEW u \in Tasks PROVE ListedOnce(u)' /\ ListedArmed(u)'
    BY DEF CachedInv
  <2>3. CASE pc'[u] \in WaitAt \cup {"arm"}
    <3>1. pc'[u] = pc[u] /\ pc[u] \notin {"idle", "unlock"}
      BY <1>0, <1>21, <2>3 DEF WalkRetired, taskVars, entryVars, Advance, WaitAt
    <3>2. PICK e \in Entries, o \in Sources :
             e = EntryOf(u) /\ TaskOf(e) = u /\ o = want[u].src /\ e \notin retired
      BY <1>0, <3>1, LiveEntry, WaitFacts
    <3>3. e \notin retired'
      BY <1>21, <3>2 DEF WalkRetired, entryVars
    <3>4. EntryOf(u)' = EntryOf(u) /\ FloorOf(want[u])' = FloorOf(want[u])
      BY <2>1, SameEntry
    <3>5. \A s \in Sources : Contains(reg'[s], e) <=> Contains(reg[s], e)
      BY <1>21, <3>2, <3>3, WalkRetiredLists
    <3>6. ListedOnce(u) /\ ListedArmed(u)
      BY DEF Inv, CachedInv
    <3>7. QED BY <2>1, <3>1, <3>2, <3>4, <3>5, <3>6 DEF ListedOnce, ListedArmed, Armed
  <2>4. CASE pc'[u] \notin WaitAt \cup {"arm"}
    BY <2>4 DEF ListedOnce, ListedArmed, WaitAt
  <2>5. QED BY <2>3, <2>4
<1>22. ASSUME NEW k \in Cancellers, WalkClaim(k) PROVE CachedInv'
  <2>1. reg' = reg /\ aux' = aux
    BY <1>22 DEF WalkClaim, KGoto, taskVars, sourceVars, Advance
  <2>2. ASSUME NEW u \in Tasks, pc'[u] \in WaitAt \cup {"arm"}, want'[u].mode = "throw"
        PROVE  pc[u] \in WaitAt \cup {"arm"} /\ want'[u] = want[u] /\ ops'[u] = ops[u]
    BY <1>0, <1>22, <2>2 DEF WalkClaim, KGoto, taskVars, sourceVars, Advance, WaitAt
  <2>3. ASSUME NEW u \in Tasks, pc'[u] \in {"recheck", "disarm", "suspend", "parked"},
               want'[u].mode # "shield", Armed(u)'
        PROVE  /\ pc[u] \in {"recheck", "disarm", "suspend", "parked"} /\ Armed(u)
               /\ want'[u] = want[u] /\ ops'[u] = ops[u]
    BY <1>0, <1>22, <2>3, ConstFacts DEF WalkClaim, KGoto, taskVars, sourceVars, Advance, Armed
  <2>4. QED BY <2>1, <2>2, <2>3, CachedFrame DEF Inv
<1>23. ASSUME NEW k \in Cancellers, Raise(k) \/ WalkLock(k) \/ WalkHead(k) \/ WalkAux(k) \/
           WalkArmed(k) \/ WalkUnlock(k) \/ WalkDeliver(k) \/ WalkEnds(k) PROVE CachedInv'
  BY <1>1, <1>23 DEF Raise, WalkLock, WalkHead, WalkAux, WalkArmed, WalkUnlock, WalkDeliver,
    WalkEnds, KGoto, taskVars, sourceVars, entryVars, Advance
<1>24. QED BY <1>1, <1>2, <1>3, <1>4, <1>5, <1>6, <1>7, <1>8, <1>9, <1>10, <1>11, <1>12,
    <1>13, <1>14, <1>15, <1>16, <1>17, <1>18, <1>19, <1>20, <1>21, <1>22, <1>23 DEF Next,
    WaitSteps, WalkSteps, Quiescent, vars, taskVars, walkerVars, sourceVars, entryVars

(* Walks. *)
\* What a walk has before it belongs to an operation that has begun.
LEMMA TodoBegun ==
  ASSUME Inv, NEW j \in Cancellers, kpc[j] \in ListAt, NEW e \in Entries, Contains(ktodo[j], e)
  PROVE  e[2] # Cancellable => e[2] <= Fresh(ops[TaskOf(e)])
<1>1. Contains(reg[SourceOf(j)], e) \/ e \in retired
  BY DEF Inv, WalkInv, TodoOK
<1>2. Contains(reg[SourceOf(j)], e) => RegOK(SourceOf(j), e)
  BY CallFacts DEF Inv, RegInv
<1>3. QED BY <1>1, <1>2 DEF RegOK, Inv, RetiredInv

\* A step that takes nothing off a list under a walk keeps the walk.
LEMMA WalkFrame ==
  ASSUME Inv, UNCHANGED <<kpc, ktodo, kaux, ksev, want, ops>>,
         \A j \in Cancellers : kpc[j] \in ListAt => TodoOK(j)'
  PROVE  WalkInv'
<1>1. \A j \in Cancellers, e \in Entries : ReadOK(j, e) => ReadOK(j, e)'
  BY DEF ReadOK, FloorOf
<1>2. QED BY <1>1 DEF Inv, WalkInv

LEMMA WalkStep ==
  ASSUME Inv, [Next]_vars
  PROVE  WalkInv'
<1>0. kpc \in [Cancellers -> WalkLabel] /\ ktodo \in [Cancellers -> Seq(Entries)] /\ reg \in
      [Sources -> Seq(Entries)] /\ retired \subseteq Entries /\ kaux \in [Cancellers -> Aux]
      /\ ops \in [Tasks -> 0..MaxOps] /\ want \in [Tasks -> Waits] /\ ksev \in [Cancellers ->
      Severity]
  BY DEF Inv, TypeOK, TaskType, ListType, SourceType, FlagType, WalkType
<1>1. ASSUME UNCHANGED <<kpc, ktodo, reg, retired, kaux, ops, want, ksev>> PROVE WalkInv'
  BY <1>0, <1>1 DEF Inv, WalkInv, TodoOK, ReadOK, FloorOf
<1>2. ASSUME NEW t \in Tasks, NEW w \in Waits, LockToWait(t, w) PROVE WalkInv'
  <2>1. UNCHANGED <<kpc, ktodo, kaux, ksev, reg, retired>>
    BY <1>2 DEF LockToWait, Goto, walkerVars, sourceVars, entryVars
  <2>2. \A j \in Cancellers : TodoOK(j)' <=> TodoOK(j)
    BY <2>1 DEF TodoOK
  <2>3. ASSUME NEW j \in Cancellers, kpc[j] \in {"armed", "claim"}, NEW e \in Entries, e =
    Head(ktodo[j]) PROVE ReadOK(j, e)'
    <3>1. kpc[j] \in ListAt /\ ktodo[j] # <<>> /\ ktodo[j] \in Seq(Entries)
      BY <1>0, <2>3 DEF Inv, HolderInv, ListAt
    <3>2. Contains(ktodo[j], e)
      BY <2>3, <3>1, TailFacts
    <3>3. e[2] # Cancellable => e[2] <= Fresh(ops[TaskOf(e)])
      BY <3>1, <3>2, TodoBegun
    <3>4. ReadOK(j, e)
      BY <2>3 DEF Inv, WalkInv
    <3>5. PICK v \in Tasks : v = TaskOf(e)
      BY KindFacts
    <3>6. CASE v = t
      <4>1. ops'[v] = ops[v] + 1 /\ ops[v] \in Nat /\ e[2] \in Nat
        BY <1>0, <1>2, <3>6, ConstFacts, KindFacts DEF LockToWait
      <4>2. QED BY <2>1, <3>3, <3>4, <3>5, <4>1 DEF ReadOK, Fresh
    <3>7. CASE v # t
      <4>1. want'[v] = want[v] /\ ops'[v] = ops[v]
        BY <1>0, <1>2, <3>7 DEF LockToWait
      <4>2. FloorOf(want[v])' = FloorOf(want[v])
        BY <4>1, SameEntry
      <4>3. QED BY <2>1, <3>4, <3>5, <4>1, <4>2 DEF ReadOK
    <3>8. QED BY <3>6, <3>7
  <2>4. QED BY <2>1, <2>2, <2>3 DEF Inv, WalkInv
<1>3. ASSUME NEW t \in Tasks, AcquireCancelEntry(t) PROVE WalkInv'
  <2>1. UNCHANGED <<kpc, ktodo, kaux, ksev, want, ops>>
    BY <1>3 DEF AcquireCancelEntry, Goto, walkerVars
  <2>2. SUFFICES ASSUME NEW j \in Cancellers, kpc[j] \in ListAt, NEW e \in Entries,
    Contains(ktodo[j], e) PROVE Contains(reg'[SourceOf(j)], e) \/ e \in retired'
    BY <2>1, WalkFrame DEF TodoOK
  <2>3. Contains(reg[SourceOf(j)], e) \/ e \in retired
    BY <2>2 DEF Inv, WalkInv, TodoOK
  <2>4. SourceOf(j) \in Sources /\ walk[SourceOf(j)] # None
    BY <2>2, CallFacts, ConstFacts DEF Inv, HolderInv
  <2>5. reg'[SourceOf(j)] = reg[SourceOf(j)] /\ retired' = retired
    BY <1>3, <2>2, <2>4, AcquireLists DEF AcquireCancelEntry
  <2>6. QED BY <2>3, <2>5
<1>4. ASSUME NEW t \in Tasks, Register(t) PROVE WalkInv'
  <2>1. UNCHANGED <<kpc, ktodo, kaux, ksev, want, ops>>
    BY <1>4 DEF Register, Goto, walkerVars, Publish
  <2>2. SUFFICES ASSUME NEW j \in Cancellers, kpc[j] \in ListAt, NEW e \in Entries,
    Contains(ktodo[j], e) PROVE Contains(reg'[SourceOf(j)], e) \/ e \in retired'
    BY <2>1, WalkFrame DEF TodoOK
  <2>3. Contains(reg[SourceOf(j)], e) \/ e \in retired
    BY <2>2 DEF Inv, WalkInv, TodoOK
  <2>4. SourceOf(j) \in Sources /\ walk[SourceOf(j)] # None
    BY <2>2, CallFacts, ConstFacts DEF Inv, HolderInv
  <2>5. QED BY <1>4, <2>3, <2>4, RegisterLists DEF Register
<1>5. ASSUME NEW t \in Tasks, Retire(t) PROVE WalkInv'
  <2>1. UNCHANGED <<kpc, ktodo, kaux, ksev, want, ops>>
    BY <1>5 DEF Retire, Goto, walkerVars
  <2>2. SUFFICES ASSUME NEW j \in Cancellers, kpc[j] \in ListAt, NEW e \in Entries,
    Contains(ktodo[j], e) PROVE Contains(reg'[SourceOf(j)], e) \/ e \in retired'
    BY <2>1, WalkFrame DEF TodoOK
  <2>3. Contains(reg[SourceOf(j)], e) \/ e \in retired
    BY <2>2 DEF Inv, WalkInv, TodoOK
  <2>4. SourceOf(j) \in Sources /\ walk[SourceOf(j)] # None
    BY <2>2, CallFacts, ConstFacts DEF Inv, HolderInv
  <2>5. reg'[SourceOf(j)] = reg[SourceOf(j)] /\ retired \subseteq retired'
    BY <1>5, <2>2, <2>4, RetireLists DEF Retire
  <2>6. QED BY <2>3, <2>5
<1>6. ASSUME NEW t \in Tasks, LockToNotify(t) PROVE WalkInv'
  <2>1. UNCHANGED <<kpc, ktodo, kaux, ksev, reg, retired>>
    BY <1>6 DEF LockToNotify, Goto, walkerVars, sourceVars, entryVars
  <2>2. \A j \in Cancellers : TodoOK(j)' <=> TodoOK(j)
    BY <2>1 DEF TodoOK
  <2>3. ASSUME NEW j \in Cancellers, kpc[j] \in {"armed", "claim"}, NEW e \in Entries, e =
    Head(ktodo[j]) PROVE ReadOK(j, e)'
    <3>1. kpc[j] \in ListAt /\ ktodo[j] # <<>> /\ ktodo[j] \in Seq(Entries)
      BY <1>0, <2>3 DEF Inv, HolderInv, ListAt
    <3>2. Contains(ktodo[j], e)
      BY <2>3, <3>1, TailFacts
    <3>3. e[2] # Cancellable => e[2] <= Fresh(ops[TaskOf(e)])
      BY <3>1, <3>2, TodoBegun
    <3>4. ReadOK(j, e)
      BY <2>3 DEF Inv, WalkInv
    <3>5. PICK v \in Tasks : v = TaskOf(e)
      BY KindFacts
    <3>6. CASE v = t
      <4>1. ops'[v] = ops[v] + 1 /\ ops[v] \in Nat /\ e[2] \in Nat
        BY <1>0, <1>6, <3>6, ConstFacts, KindFacts DEF LockToNotify
      <4>2. QED BY <2>1, <3>3, <3>4, <3>5, <4>1 DEF ReadOK, Fresh
    <3>7. CASE v # t
      <4>1. want'[v] = want[v] /\ ops'[v] = ops[v]
        BY <1>0, <1>6, <3>7 DEF LockToNotify
      <4>2. FloorOf(want[v])' = FloorOf(want[v])
        BY <4>1, SameEntry
      <4>3. QED BY <2>1, <3>4, <3>5, <4>1, <4>2 DEF ReadOK
    <3>8. QED BY <3>6, <3>7
  <2>4. QED BY <2>1, <2>2, <2>3 DEF Inv, WalkInv
<1>7. ASSUME NEW k \in Cancellers, Raise(k) PROVE WalkInv'
  <2>7. /\ kpc'[k] \in ListAt => TodoOK(k)'
        /\ kpc'[k] \in {"armed", "claim"} => \A e \in Entries : e = Head(ktodo'[k]) =>
          ReadOK(k, e)'
        /\ kpc'[k] = "claim" => kaux'[k].floor <= ksev'[k]
    BY <1>0, <1>7 DEF Raise, KGoto, taskVars, entryVars, ListAt
  <2>8. \A j \in Cancellers : j # k => ktodo'[j] = ktodo[j] /\ kpc'[j] = kpc[j] /\ kaux'[j] =
    kaux[j] /\ ksev'[j] = ksev[j]
    BY <1>0, <1>7 DEF Raise, KGoto, taskVars, entryVars
  <2>9. \A j \in Cancellers : j # k => /\ TodoOK(j) => TodoOK(j)'
                                       /\ \A e \in Entries : ReadOK(j, e) => ReadOK(j, e)'
    BY <1>7, <2>8 DEF Raise, KGoto, taskVars, entryVars, TodoOK, ReadOK, FloorOf
  <2>10. QED
    <3>1. ASSUME NEW j \in Cancellers, j # k
          PROVE  /\ kpc'[j] \in ListAt => TodoOK(j)'
                 /\ kpc'[j] \in {"armed", "claim"} => \A e \in Entries : e = Head(ktodo'[j])
                   => ReadOK(j, e)'
                 /\ kpc'[j] = "claim" => kaux'[j].floor <= ksev'[j]
      BY <2>8, <2>9, <3>1 DEF Inv, WalkInv
    <3>2. QED BY <2>7, <3>1 DEF WalkInv
<1>8. ASSUME NEW k \in Cancellers, WalkLock(k) PROVE WalkInv'
  <2>7. /\ kpc'[k] \in ListAt => TodoOK(k)'
        /\ kpc'[k] \in {"armed", "claim"} => \A e \in Entries : e = Head(ktodo'[k]) =>
          ReadOK(k, e)'
        /\ kpc'[k] = "claim" => kaux'[k].floor <= ksev'[k]
    BY <1>0, <1>8 DEF WalkLock, KGoto, taskVars, entryVars, ListAt
  <2>8. \A j \in Cancellers : j # k => ktodo'[j] = ktodo[j] /\ kpc'[j] = kpc[j] /\ kaux'[j] =
    kaux[j] /\ ksev'[j] = ksev[j]
    BY <1>0, <1>8 DEF WalkLock, KGoto, taskVars, entryVars
  <2>9. \A j \in Cancellers : j # k => /\ TodoOK(j) => TodoOK(j)'
                                       /\ \A e \in Entries : ReadOK(j, e) => ReadOK(j, e)'
    BY <1>8, <2>8 DEF WalkLock, KGoto, taskVars, entryVars, TodoOK, ReadOK, FloorOf
  <2>10. QED
    <3>1. ASSUME NEW j \in Cancellers, j # k
          PROVE  /\ kpc'[j] \in ListAt => TodoOK(j)'
                 /\ kpc'[j] \in {"armed", "claim"} => \A e \in Entries : e = Head(ktodo'[j])
                   => ReadOK(j, e)'
                 /\ kpc'[j] = "claim" => kaux'[j].floor <= ksev'[j]
      BY <2>8, <2>9, <3>1 DEF Inv, WalkInv
    <3>2. QED BY <2>7, <3>1 DEF WalkInv
<1>9. ASSUME NEW k \in Cancellers, WalkHead(k) PROVE WalkInv'
  <2>7. /\ kpc'[k] \in ListAt => TodoOK(k)'
        /\ kpc'[k] \in {"armed", "claim"} => \A e \in Entries : e = Head(ktodo'[k]) =>
          ReadOK(k, e)'
        /\ kpc'[k] = "claim" => kaux'[k].floor <= ksev'[k]
    <3>1. kpc'[k] = "entry" /\ ktodo'[k] = reg[SourceOf(k)] /\ reg' = reg
      BY <1>0, <1>9 DEF WalkHead, KGoto, taskVars, entryVars
    <3>2. QED BY <3>1 DEF TodoOK
  <2>8. \A j \in Cancellers : j # k => ktodo'[j] = ktodo[j] /\ kpc'[j] = kpc[j] /\ kaux'[j] =
    kaux[j] /\ ksev'[j] = ksev[j]
    BY <1>0, <1>9 DEF WalkHead, KGoto, taskVars, entryVars
  <2>9. \A j \in Cancellers : j # k => /\ TodoOK(j) => TodoOK(j)'
                                       /\ \A e \in Entries : ReadOK(j, e) => ReadOK(j, e)'
    BY <1>9, <2>8 DEF WalkHead, KGoto, taskVars, entryVars, TodoOK, ReadOK, FloorOf
  <2>10. QED
    <3>1. ASSUME NEW j \in Cancellers, j # k
          PROVE  /\ kpc'[j] \in ListAt => TodoOK(j)'
                 /\ kpc'[j] \in {"armed", "claim"} => \A e \in Entries : e = Head(ktodo'[j])
                   => ReadOK(j, e)'
                 /\ kpc'[j] = "claim" => kaux'[j].floor <= ksev'[j]
      BY <2>8, <2>9, <3>1 DEF Inv, WalkInv
    <3>2. QED BY <2>7, <3>1 DEF WalkInv
<1>10. ASSUME NEW k \in Cancellers, WalkRetired(k) PROVE WalkInv'
  <2>1. UNCHANGED <<kpc, kaux, ksev, want, ops, retired>> /\ kpc[k] = "entry"
    BY <1>10 DEF WalkRetired, taskVars, entryVars, Advance
  <2>2. ktodo[k] # <<>> /\ ktodo[k] \in Seq(Entries) /\ ktodo' = [ktodo EXCEPT ![k] = Tail(@)]
    BY <1>0, <1>10 DEF WalkRetired, Advance
  <2>3. \A j \in Cancellers : \A e \in Entries : Contains(ktodo'[j], e) => Contains(ktodo[j],
    e)
    BY <1>0, <2>2, TailFacts
  <2>4. ASSUME NEW j \in Cancellers, kpc[j] \in ListAt PROVE TodoOK(j)'
    <3>1. SUFFICES ASSUME NEW e \in Entries, Contains(ktodo'[j], e) PROVE
      Contains(reg'[SourceOf(j)], e) \/ e \in retired
      BY <2>1 DEF TodoOK
    <3>2. Contains(reg[SourceOf(j)], e) \/ e \in retired
      BY <2>3, <2>4, <3>1 DEF Inv, WalkInv, TodoOK
    <3>3. QED BY <1>10, <3>2, WalkRetiredLists, CallFacts
  <2>5. \A j \in Cancellers, e \in Entries : ReadOK(j, e) => ReadOK(j, e)'
    BY <2>1 DEF ReadOK, FloorOf
  <2>6. \A j \in Cancellers : j # k => ktodo'[j] = ktodo[j]
    BY <1>0, <2>2
  <2>7. QED BY <2>1, <2>4, <2>5, <2>6 DEF Inv, WalkInv
<1>11. ASSUME NEW k \in Cancellers, WalkAux(k) PROVE WalkInv'
  <2>1. kpc'[k] = "armed" /\ ktodo'[k] = ktodo[k] /\ UNCHANGED <<want, ops, reg, retired>>
    BY <1>0, <1>11 DEF WalkAux, KGoto, taskVars, sourceVars, entryVars
  <2>2. kpc[k] \in ListAt /\ ktodo[k] # <<>> /\ ktodo[k] \in Seq(Entries)
    BY <1>0, <1>11 DEF WalkAux, ListAt
  <2>3. PICK f \in Entries : f = Head(ktodo[k]) /\ Contains(ktodo[k], f)
    BY <2>2, TailFacts
  <2>4. RegOK(SourceOf(k), f)
    <3>1. Contains(reg[SourceOf(k)], f)
      BY <1>11, <2>2, <2>3 DEF WalkAux, Inv, WalkInv, TodoOK
    <3>2. QED BY <3>1, CallFacts DEF Inv, RegInv
  <2>5. kaux'[k] = aux[f]
    BY <1>0, <1>11, <2>3 DEF WalkAux
  <2>6. ReadOK(k, f)'
    <3>1. PICK v \in Tasks : v = TaskOf(f)
      BY KindFacts
    <3>2. FloorOf(want[v])' = FloorOf(want[v])
      BY <2>1, SameEntry
    <3>3. QED BY <2>1, <2>4, <2>5, <3>1, <3>2 DEF ReadOK, RegOK
  <2>7. /\ kpc'[k] \in ListAt => TodoOK(k)'
        /\ kpc'[k] \in {"armed", "claim"} => \A e \in Entries : e = Head(ktodo'[k]) =>
          ReadOK(k, e)'
        /\ kpc'[k] = "claim" => kaux'[k].floor <= ksev'[k]
    <3>1. TodoOK(k)'
      BY <2>1, <2>2 DEF Inv, WalkInv, TodoOK
    <3>2. QED BY <2>1, <2>3, <2>6, <3>1
  <2>8. \A j \in Cancellers : j # k => ktodo'[j] = ktodo[j] /\ kpc'[j] = kpc[j] /\ kaux'[j] =
    kaux[j] /\ ksev'[j] = ksev[j]
    BY <1>0, <1>11 DEF WalkAux, KGoto, taskVars, sourceVars, entryVars
  <2>9. \A j \in Cancellers : j # k => /\ TodoOK(j) => TodoOK(j)'
                                       /\ \A e \in Entries : ReadOK(j, e) => ReadOK(j, e)'
    BY <1>11, <2>8 DEF WalkAux, KGoto, taskVars, sourceVars, entryVars, TodoOK, ReadOK, FloorOf
  <2>10. QED
    <3>1. ASSUME NEW j \in Cancellers, j # k
          PROVE  /\ kpc'[j] \in ListAt => TodoOK(j)'
                 /\ kpc'[j] \in {"armed", "claim"} => \A e \in Entries : e = Head(ktodo'[j])
                   => ReadOK(j, e)'
                 /\ kpc'[j] = "claim" => kaux'[j].floor <= ksev'[j]
      BY <2>8, <2>9, <3>1 DEF Inv, WalkInv
    <3>2. QED BY <2>7, <3>1 DEF WalkInv
<1>12. ASSUME NEW k \in Cancellers, WalkArmed(k) PROVE WalkInv'
  <2>1. kpc[k] \in ListAt /\ ktodo[k] # <<>> /\ ktodo[k] \in Seq(Entries)
    BY <1>0, <1>12 DEF WalkArmed, Inv, HolderInv, ListAt
  <2>2. \A e \in Entries : Contains(Tail(ktodo[k]), e) => Contains(ktodo[k], e)
    BY <2>1, TailFacts
  <2>3. UNCHANGED <<want, ops, reg, retired, kaux, ksev>> /\ (ktodo'[k] = ktodo[k] \/
    ktodo'[k] = Tail(ktodo[k]))
    BY <1>0, <1>12 DEF WalkArmed, KGoto, taskVars, sourceVars, entryVars, Advance
  <2>4. TodoOK(k)'
    BY <2>1, <2>2, <2>3 DEF Inv, WalkInv, TodoOK
  <2>5. \A e \in Entries : ReadOK(k, e) => ReadOK(k, e)'
    BY <2>3 DEF ReadOK, FloorOf
  <2>7. /\ kpc'[k] \in ListAt => TodoOK(k)'
        /\ kpc'[k] \in {"armed", "claim"} => \A e \in Entries : e = Head(ktodo'[k]) =>
          ReadOK(k, e)'
        /\ kpc'[k] = "claim" => kaux'[k].floor <= ksev'[k]
    <3>1. CASE kpc'[k] = "claim"
      <4>1. ktodo'[k] = ktodo[k] /\ kaux[k].floor <= ksev[k] /\ kpc[k] = "armed"
        BY <1>0, <1>12, <3>1 DEF WalkArmed, KGoto
      <4>2. QED BY <2>3, <2>4, <2>5, <3>1, <4>1 DEF Inv, WalkInv
    <3>2. CASE kpc'[k] # "claim"
      <4>1. kpc'[k] = "entry"
        BY <1>0, <1>12, <3>2 DEF WalkArmed, KGoto
      <4>2. QED BY <2>4, <4>1
    <3>3. QED BY <3>1, <3>2
  <2>8. \A j \in Cancellers : j # k => ktodo'[j] = ktodo[j] /\ kpc'[j] = kpc[j] /\ kaux'[j] =
    kaux[j] /\ ksev'[j] = ksev[j]
    BY <1>0, <1>12 DEF WalkArmed, KGoto, taskVars, sourceVars, entryVars, Advance
  <2>9. \A j \in Cancellers : j # k => /\ TodoOK(j) => TodoOK(j)'
                                       /\ \A e \in Entries : ReadOK(j, e) => ReadOK(j, e)'
    BY <1>12, <2>8 DEF WalkArmed, KGoto, taskVars, sourceVars, entryVars, Advance, TodoOK,
      ReadOK, FloorOf
  <2>10. QED
    <3>1. ASSUME NEW j \in Cancellers, j # k
          PROVE  /\ kpc'[j] \in ListAt => TodoOK(j)'
                 /\ kpc'[j] \in {"armed", "claim"} => \A e \in Entries : e = Head(ktodo'[j])
                   => ReadOK(j, e)'
                 /\ kpc'[j] = "claim" => kaux'[j].floor <= ksev'[j]
      BY <2>8, <2>9, <3>1 DEF Inv, WalkInv
    <3>2. QED BY <2>7, <3>1 DEF WalkInv
<1>13. ASSUME NEW k \in Cancellers, WalkClaim(k) PROVE WalkInv'
  <2>1. kpc[k] \in ListAt /\ ktodo[k] # <<>> /\ ktodo[k] \in Seq(Entries)
    BY <1>0, <1>13 DEF WalkClaim, Inv, HolderInv, ListAt
  <2>2. \A e \in Entries : Contains(Tail(ktodo[k]), e) => Contains(ktodo[k], e)
    BY <2>1, TailFacts
  <2>3. UNCHANGED <<want, ops, reg, retired, kaux, ksev>> /\ (ktodo'[k] = ktodo[k] \/
    ktodo'[k] = Tail(ktodo[k]))
    BY <1>0, <1>13 DEF WalkClaim, KGoto, taskVars, sourceVars, Advance
  <2>4. TodoOK(k)'
    BY <2>1, <2>2, <2>3 DEF Inv, WalkInv, TodoOK
  <2>7. /\ kpc'[k] \in ListAt => TodoOK(k)'
        /\ kpc'[k] \in {"armed", "claim"} => \A e \in Entries : e = Head(ktodo'[k]) =>
          ReadOK(k, e)'
        /\ kpc'[k] = "claim" => kaux'[k].floor <= ksev'[k]
    <3>1. kpc'[k] = "entry"
      BY <1>0, <1>13 DEF WalkClaim, KGoto
    <3>2. QED BY <2>4, <3>1
  <2>8. \A j \in Cancellers : j # k => ktodo'[j] = ktodo[j] /\ kpc'[j] = kpc[j] /\ kaux'[j] =
    kaux[j] /\ ksev'[j] = ksev[j]
    BY <1>0, <1>13 DEF WalkClaim, KGoto, taskVars, sourceVars, Advance
  <2>9. \A j \in Cancellers : j # k => /\ TodoOK(j) => TodoOK(j)'
                                       /\ \A e \in Entries : ReadOK(j, e) => ReadOK(j, e)'
    BY <1>13, <2>8 DEF WalkClaim, KGoto, taskVars, sourceVars, Advance, TodoOK, ReadOK, FloorOf
  <2>10. QED
    <3>1. ASSUME NEW j \in Cancellers, j # k
          PROVE  /\ kpc'[j] \in ListAt => TodoOK(j)'
                 /\ kpc'[j] \in {"armed", "claim"} => \A e \in Entries : e = Head(ktodo'[j])
                   => ReadOK(j, e)'
                 /\ kpc'[j] = "claim" => kaux'[j].floor <= ksev'[j]
      BY <2>8, <2>9, <3>1 DEF Inv, WalkInv
    <3>2. QED BY <2>7, <3>1 DEF WalkInv
<1>14. ASSUME NEW k \in Cancellers, WalkUnlock(k) PROVE WalkInv'
  <2>7. /\ kpc'[k] \in ListAt => TodoOK(k)'
        /\ kpc'[k] \in {"armed", "claim"} => \A e \in Entries : e = Head(ktodo'[k]) =>
          ReadOK(k, e)'
        /\ kpc'[k] = "claim" => kaux'[k].floor <= ksev'[k]
    BY <1>0, <1>14 DEF WalkUnlock, KGoto, taskVars, entryVars, ListAt
  <2>8. \A j \in Cancellers : j # k => ktodo'[j] = ktodo[j] /\ kpc'[j] = kpc[j] /\ kaux'[j] =
    kaux[j] /\ ksev'[j] = ksev[j]
    BY <1>0, <1>14 DEF WalkUnlock, KGoto, taskVars, entryVars
  <2>9. \A j \in Cancellers : j # k => /\ TodoOK(j) => TodoOK(j)'
                                       /\ \A e \in Entries : ReadOK(j, e) => ReadOK(j, e)'
    BY <1>14, <2>8 DEF WalkUnlock, KGoto, taskVars, entryVars, TodoOK, ReadOK, FloorOf
  <2>10. QED
    <3>1. ASSUME NEW j \in Cancellers, j # k
          PROVE  /\ kpc'[j] \in ListAt => TodoOK(j)'
                 /\ kpc'[j] \in {"armed", "claim"} => \A e \in Entries : e = Head(ktodo'[j])
                   => ReadOK(j, e)'
                 /\ kpc'[j] = "claim" => kaux'[j].floor <= ksev'[j]
      BY <2>8, <2>9, <3>1 DEF Inv, WalkInv
    <3>2. QED BY <2>7, <3>1 DEF WalkInv
<1>15. ASSUME NEW k \in Cancellers, WalkEnds(k) PROVE WalkInv'
  <2>7. /\ kpc'[k] \in ListAt => TodoOK(k)'
        /\ kpc'[k] \in {"armed", "claim"} => \A e \in Entries : e = Head(ktodo'[k]) =>
          ReadOK(k, e)'
        /\ kpc'[k] = "claim" => kaux'[k].floor <= ksev'[k]
    BY <1>0, <1>15 DEF WalkEnds, KGoto, taskVars, sourceVars, entryVars, ListAt
  <2>8. \A j \in Cancellers : j # k => ktodo'[j] = ktodo[j] /\ kpc'[j] = kpc[j] /\ kaux'[j] =
    kaux[j] /\ ksev'[j] = ksev[j]
    BY <1>0, <1>15 DEF WalkEnds, KGoto, taskVars, sourceVars, entryVars
  <2>9. \A j \in Cancellers : j # k => /\ TodoOK(j) => TodoOK(j)'
                                       /\ \A e \in Entries : ReadOK(j, e) => ReadOK(j, e)'
    BY <1>15, <2>8 DEF WalkEnds, KGoto, taskVars, sourceVars, entryVars, TodoOK, ReadOK,
      FloorOf
  <2>10. QED
    <3>1. ASSUME NEW j \in Cancellers, j # k
          PROVE  /\ kpc'[j] \in ListAt => TodoOK(j)'
                 /\ kpc'[j] \in {"armed", "claim"} => \A e \in Entries : e = Head(ktodo'[j])
                   => ReadOK(j, e)'
                 /\ kpc'[j] = "claim" => kaux'[j].floor <= ksev'[j]
      BY <2>8, <2>9, <3>1 DEF Inv, WalkInv
    <3>2. QED BY <2>7, <3>1 DEF WalkInv
<1>16. ASSUME NEW t \in Tasks, EntryCheck(t) \/ Arm(t) \/ Drain(t) \/ Enqueue(t) \/ Recheck(t)
           \/ Disarm(t) \/ Suspend(t) \/ Resume(t) \/ Settle(t) \/ Unlock(t) \/ Interrupted(t)
           \/ Cleanup(t) \/ Notify(t) \/ NotifyEnds(t) PROVE WalkInv'
  BY <1>1, <1>16 DEF EntryCheck, Arm, Drain, Enqueue, Recheck, Disarm, Suspend, Resume,
    Settle, Unlock, Interrupted, Cleanup, Notify, NotifyEnds, Goto, taskVars, walkerVars,
    sourceVars, entryVars, Publish
<1>17. ASSUME NEW k \in Cancellers, WalkDeliver(k) PROVE WalkInv'
  BY <1>1, <1>17 DEF WalkDeliver, taskVars, sourceVars, entryVars
<1>18. QED BY <1>1, <1>2, <1>3, <1>4, <1>5, <1>6, <1>7, <1>8, <1>9, <1>10, <1>11, <1>12,
    <1>13, <1>14, <1>15, <1>16, <1>17 DEF Next, WaitSteps, WalkSteps, Quiescent, vars,
    taskVars, walkerVars, sourceVars, entryVars

(* Whom a walk has still to reach. *)
\* A wait that is now to be woken was already; or the walks ahead of it keep it
\* before them.
LEMMA TargetFrame ==
  ASSUME NEW j \in Cancellers, NEW u \in Tasks, Target(j, u)',
         pc[u] \in {"suspend", "parked"}, Armed(u), want'[u] = want[u]
  PROVE  Target(j, u)
BY DEF Target, Fires, FloorOf

LEMMA ReachFrame ==
  ASSUME Inv, UNCHANGED <<kpc, ktodo, kaux>>,
         \A u \in Tasks : pc'[u] \in {"suspend", "parked"} /\ want'[u].mode # "shield" /\ Armed(u)' =>
           /\ pc[u] \in {"suspend", "parked"} /\ Armed(u)
           /\ want'[u] = want[u] /\ ops'[u] = ops[u]
  PROVE  ReachInv'
<1>1. SUFFICES ASSUME NEW j \in Cancellers, NEW u \in Tasks, Target(j, u)' PROVE Reached(j, u)'
  BY DEF ReachInv
<1>2. pc[u] \in {"suspend", "parked"} /\ Armed(u) /\ want'[u] = want[u] /\ ops'[u] = ops[u]
  BY <1>1 DEF Target
<1>3. Reached(j, u)
  BY <1>1, <1>2, TargetFrame DEF Inv, ReachInv
<1>4. EntryOf(u)' = EntryOf(u) /\ FloorOf(want[u])' = FloorOf(want[u])
  BY <1>2, SameEntry
<1>5. QED BY <1>3, <1>4 DEF Reached

\* What is known of a wait that the call k has to wake.
LEMMA TargetFacts ==
  ASSUME Inv, NEW k \in Cancellers, NEW u \in Tasks, Target(k, u), NEW e, e = EntryOf(u)
  PROVE  /\ on[u] = e /\ ~hidden[u] /\ e \in Entries /\ TaskOf(e) = u /\ e \notin retired
         /\ Contains(reg[SourceOf(k)], e) /\ aux[e].floor = FloorOf(want[u])
         /\ Reached(k, u)
         /\ kpc[k] \notin {"raise", "lock"} => FloorOf(want[u]) <= ksev[k]
<1>0. /\ want \in [Tasks -> Waits] /\ ops \in [Tasks -> 0..MaxOps]
      /\ ksev \in [Cancellers -> Severity]
  BY DEF Inv, TypeOK, TaskType, WalkType
<1>1. /\ pc[u] \in {"suspend", "parked"} /\ Armed(u) /\ want[u].mode # "shield"
      /\ want[u].src = SourceOf(k) /\ Cancels[k].sev >= FloorOf(want[u])
  BY DEF Target, Fires
<1>2. on[u] = e /\ ~hidden[u]
  BY <1>1 DEF Inv, ArmInv, Armed
<1>3. e \in Entries /\ TaskOf(e) = u /\ e \notin retired
  BY <1>1, LiveEntry
<1>4. Contains(reg[SourceOf(k)], e)
  BY <1>1 DEF Inv, CachedInv, ListedArmed
<1>5. aux[e].floor = FloorOf(want[u])
  <2>1. CASE want[u].mode = "throw"
    BY <1>1, <2>1 DEF Inv, CachedInv, ListedOnce, WaitAt
  <2>2. CASE want[u].mode = "value"
    <3>1. RegOK(SourceOf(k), e)
      BY <1>3, <1>4, CallFacts DEF Inv, RegInv
    <3>2. e[2] = Fresh(ops[u]) /\ ops[u] \in Nat \ {0}
      BY <1>0, <1>1, <2>2, EntryFacts, ConstFacts DEF Inv, ModeInv
    <3>3. QED BY <1>3, <3>1, <3>2 DEF RegOK, Fresh, Cancellable
  <2>3. QED BY <1>0, <1>1, <2>1, <2>2, WaitFacts
<1>6. kpc[k] \notin {"raise", "lock"} => FloorOf(want[u]) <= ksev[k]
  <2>1. Cancels[k].sev \in Severity /\ FloorOf(want[u]) \in Severity /\ ksev[k] \in Severity
    BY <1>0, CallFacts, WaitFacts
  <2>2. QED BY <1>1, <2>1 DEF Inv, StateInv, Severity
<1>7. QED BY <1>2, <1>3, <1>4, <1>5, <1>6 DEF Inv, ReachInv

LEMMA ReachStep ==
  ASSUME Inv, [Next]_vars
  PROVE  ReachInv'
<1>0. pc \in [Tasks -> TaskLabel] /\ on \in [Tasks -> Entries \cup {None}] /\ hidden \in
      [Tasks -> BOOLEAN] /\ want \in [Tasks -> Waits] /\ ops \in [Tasks -> 0..MaxOps] /\ kpc
      \in [Cancellers -> WalkLabel] /\ ktodo \in [Cancellers -> Seq(Entries)] /\ kaux \in
      [Cancellers -> Aux] /\ state \in [Sources -> Severity] /\ waitq \in Seq(Entries)
  BY DEF Inv, TypeOK, TaskType, ListType, SourceType, WakeType, FlagType, WalkType
<1>1. ASSUME UNCHANGED <<pc, on, hidden, want, ops, kpc, ktodo, kaux>> PROVE ReachInv'
  <2>1. \A k \in Cancellers : \A t \in Tasks : Target(k, t) => Reached(k, t)
    BY DEF Inv, ReachInv
  <2>2. \A k, t : Target(k, t)' <=> Target(k, t)
    BY <1>1 DEF Target, FloorOf, Armed, Fires
  <2>3. \A k, t : Reached(k, t)' <=> Reached(k, t)
    BY <1>1 DEF Reached, EntryOf, FloorOf
  <2>4. QED BY <2>1, <2>2, <2>3 DEF ReachInv
<1>2. ASSUME NEW t \in Tasks, NEW w \in Waits, LockToWait(t, w) PROVE ReachInv'
  <2>1. UNCHANGED <<kpc, ktodo, kaux>>
    BY <1>2 DEF LockToWait, Goto, walkerVars, sourceVars, entryVars
  <2>2. ASSUME NEW u \in Tasks, pc'[u] \in {"suspend", "parked"}, want'[u].mode # "shield",
    Armed(u)'
        PROVE  /\ pc[u] \in {"suspend", "parked"} /\ Armed(u)
               /\ want'[u] = want[u] /\ ops'[u] = ops[u]
    BY <1>0, <1>2, <2>2, ConstFacts DEF LockToWait, Goto, walkerVars, sourceVars, entryVars,
      Armed, Inv, ArmInv
  <2>3. QED BY <2>1, <2>2, ReachFrame
<1>3. ASSUME NEW t \in Tasks, EntryCheck(t) PROVE ReachInv'
  <2>1. UNCHANGED <<kpc, ktodo, kaux>>
    BY <1>3 DEF EntryCheck, Goto, walkerVars, sourceVars, entryVars
  <2>2. ASSUME NEW u \in Tasks, pc'[u] \in {"suspend", "parked"}, want'[u].mode # "shield",
    Armed(u)'
        PROVE  /\ pc[u] \in {"suspend", "parked"} /\ Armed(u)
               /\ want'[u] = want[u] /\ ops'[u] = ops[u]
    BY <1>0, <1>3, <2>2, ConstFacts DEF EntryCheck, Goto, walkerVars, sourceVars, entryVars,
      Armed, Inv, ArmInv
  <2>3. QED BY <2>1, <2>2, ReachFrame
<1>4. ASSUME NEW t \in Tasks, AcquireCancelEntry(t) PROVE ReachInv'
  <2>1. UNCHANGED <<kpc, ktodo, kaux>>
    BY <1>4 DEF AcquireCancelEntry, Goto, walkerVars
  <2>2. ASSUME NEW u \in Tasks, pc'[u] \in {"suspend", "parked"}, want'[u].mode # "shield",
    Armed(u)'
        PROVE  /\ pc[u] \in {"suspend", "parked"} /\ Armed(u)
               /\ want'[u] = want[u] /\ ops'[u] = ops[u]
    BY <1>0, <1>4, <2>2, ConstFacts DEF AcquireCancelEntry, Goto, walkerVars, Armed, Inv,
      ArmInv
  <2>3. QED BY <2>1, <2>2, ReachFrame
<1>5. ASSUME NEW t \in Tasks, Arm(t) PROVE ReachInv'
  <2>1. UNCHANGED <<kpc, ktodo, kaux>>
    BY <1>5 DEF Arm, Goto, walkerVars, sourceVars
  <2>2. ASSUME NEW u \in Tasks, pc'[u] \in {"suspend", "parked"}, want'[u].mode # "shield",
    Armed(u)'
        PROVE  /\ pc[u] \in {"suspend", "parked"} /\ Armed(u)
               /\ want'[u] = want[u] /\ ops'[u] = ops[u]
    BY <1>0, <1>5, <2>2, ConstFacts DEF Arm, Goto, walkerVars, sourceVars, Armed, Inv, ArmInv
  <2>3. QED BY <2>1, <2>2, ReachFrame
<1>6. ASSUME NEW t \in Tasks, Drain(t) PROVE ReachInv'
  <2>1. UNCHANGED <<kpc, ktodo, kaux>>
    BY <1>6 DEF Drain, taskVars, walkerVars, sourceVars, Publish
  <2>2. ASSUME NEW u \in Tasks, pc'[u] \in {"suspend", "parked"}, want'[u].mode # "shield",
    Armed(u)'
        PROVE  /\ pc[u] \in {"suspend", "parked"} /\ Armed(u)
               /\ want'[u] = want[u] /\ ops'[u] = ops[u]
    BY <1>0, <1>6, <2>2, ConstFacts DEF Drain, taskVars, walkerVars, sourceVars, Publish,
      Armed, Inv, ArmInv
  <2>3. QED BY <2>1, <2>2, ReachFrame
<1>7. ASSUME NEW t \in Tasks, Enqueue(t) PROVE ReachInv'
  <2>1. UNCHANGED <<kpc, ktodo, kaux>>
    BY <1>7 DEF Enqueue, Goto, walkerVars, sourceVars, entryVars
  <2>2. ASSUME NEW u \in Tasks, pc'[u] \in {"suspend", "parked"}, want'[u].mode # "shield",
    Armed(u)'
        PROVE  /\ pc[u] \in {"suspend", "parked"} /\ Armed(u)
               /\ want'[u] = want[u] /\ ops'[u] = ops[u]
    BY <1>0, <1>7, <2>2, ConstFacts DEF Enqueue, Goto, walkerVars, sourceVars, entryVars,
      Armed, Inv, ArmInv
  <2>3. QED BY <2>1, <2>2, ReachFrame
<1>8. ASSUME NEW t \in Tasks, Register(t) PROVE ReachInv'
  <2>1. UNCHANGED <<kpc, ktodo, kaux>>
    BY <1>8 DEF Register, Goto, walkerVars, Publish
  <2>2. ASSUME NEW u \in Tasks, pc'[u] \in {"suspend", "parked"}, want'[u].mode # "shield",
    Armed(u)'
        PROVE  /\ pc[u] \in {"suspend", "parked"} /\ Armed(u)
               /\ want'[u] = want[u] /\ ops'[u] = ops[u]
    BY <1>0, <1>8, <2>2, ConstFacts DEF Register, Goto, walkerVars, Publish, Armed, Inv, ArmInv
  <2>3. QED BY <2>1, <2>2, ReachFrame
<1>9. ASSUME NEW t \in Tasks, Recheck(t) PROVE ReachInv'
  <2>1. UNCHANGED <<kpc, ktodo, kaux, on, hidden, want, ops>>
    BY <1>9 DEF Recheck, Goto, walkerVars, sourceVars, entryVars
  <2>2. SUFFICES ASSUME NEW j \in Cancellers, NEW u \in Tasks, Target(j, u)' PROVE Reached(j,
    u)'
    BY DEF ReachInv
  <2>3. EntryOf(u)' = EntryOf(u) /\ FloorOf(want[u])' = FloorOf(want[u])
    BY <2>1, SameEntry
  <2>4. CASE u # t
    <3>1. pc[u] \in {"suspend", "parked"} /\ Armed(u) /\ want'[u] = want[u]
      BY <1>0, <1>9, <2>1, <2>2, <2>4 DEF Recheck, Goto, Target, Armed
    <3>2. Reached(j, u)
      BY <2>2, <3>1, TargetFrame DEF Inv, ReachInv
    <3>3. QED BY <2>1, <2>3, <3>2 DEF Reached
  <2>5. CASE u = t
    <3>1. /\ ~Fires(u, state[SourceOf(j)]) /\ Cancels[j].sev >= FloorOf(want[u])
          /\ Cancels[j].sev # 0
      BY <1>0, <1>9, <2>1, <2>2, <2>3, <2>5 DEF Recheck, Goto, Target, Fires
    <3>2. /\ state[SourceOf(j)] \in Severity /\ Cancels[j].sev \in Severity
          /\ FloorOf(want[u]) \in Severity
      BY <1>0, CallFacts, WaitFacts
    <3>3. ~(Cancels[j].sev <= state[SourceOf(j)])
      BY <3>1, <3>2 DEF Fires, Severity
    <3>4. kpc[j] = "raise"
      BY <3>3 DEF Inv, StateInv
    <3>5. QED BY <2>1, <3>4 DEF Reached, ListAt
  <2>6. QED BY <2>4, <2>5
<1>10. ASSUME NEW t \in Tasks, Disarm(t) PROVE ReachInv'
  <2>1. UNCHANGED <<kpc, ktodo, kaux>>
    BY <1>10 DEF Disarm, Goto, walkerVars, sourceVars
  <2>2. ASSUME NEW u \in Tasks, pc'[u] \in {"suspend", "parked"}, want'[u].mode # "shield",
    Armed(u)'
        PROVE  /\ pc[u] \in {"suspend", "parked"} /\ Armed(u)
               /\ want'[u] = want[u] /\ ops'[u] = ops[u]
    BY <1>0, <1>10, <2>2, ConstFacts DEF Disarm, Goto, walkerVars, sourceVars, Armed, Inv,
      ArmInv
  <2>3. QED BY <2>1, <2>2, ReachFrame
<1>11. ASSUME NEW t \in Tasks, Suspend(t) PROVE ReachInv'
  <2>1. UNCHANGED <<kpc, ktodo, kaux>>
    BY <1>11 DEF Suspend, Goto, walkerVars, sourceVars, Publish
  <2>2. ASSUME NEW u \in Tasks, pc'[u] \in {"suspend", "parked"}, want'[u].mode # "shield",
    Armed(u)'
        PROVE  /\ pc[u] \in {"suspend", "parked"} /\ Armed(u)
               /\ want'[u] = want[u] /\ ops'[u] = ops[u]
    BY <1>0, <1>11, <2>2, ConstFacts DEF Suspend, Goto, walkerVars, sourceVars, Publish,
      Armed, Inv, ArmInv
  <2>3. QED BY <2>1, <2>2, ReachFrame
<1>12. ASSUME NEW t \in Tasks, Resume(t) PROVE ReachInv'
  <2>1. UNCHANGED <<kpc, ktodo, kaux>>
    BY <1>12 DEF Resume, Goto, walkerVars, sourceVars, entryVars
  <2>2. ASSUME NEW u \in Tasks, pc'[u] \in {"suspend", "parked"}, want'[u].mode # "shield",
    Armed(u)'
        PROVE  /\ pc[u] \in {"suspend", "parked"} /\ Armed(u)
               /\ want'[u] = want[u] /\ ops'[u] = ops[u]
    BY <1>0, <1>12, <2>2, ConstFacts DEF Resume, Goto, walkerVars, sourceVars, entryVars,
      Armed, Inv, ArmInv
  <2>3. QED BY <2>1, <2>2, ReachFrame
<1>13. ASSUME NEW t \in Tasks, Settle(t) PROVE ReachInv'
  <2>1. UNCHANGED <<kpc, ktodo, kaux>>
    BY <1>13 DEF Settle, Goto, walkerVars, sourceVars, entryVars
  <2>2. ASSUME NEW u \in Tasks, pc'[u] \in {"suspend", "parked"}, want'[u].mode # "shield",
    Armed(u)'
        PROVE  /\ pc[u] \in {"suspend", "parked"} /\ Armed(u)
               /\ want'[u] = want[u] /\ ops'[u] = ops[u]
    BY <1>0, <1>13, <2>2, ConstFacts DEF Settle, Goto, walkerVars, sourceVars, entryVars,
      Armed, Inv, ArmInv
  <2>3. QED BY <2>1, <2>2, ReachFrame
<1>14. ASSUME NEW t \in Tasks, Retire(t) PROVE ReachInv'
  <2>1. UNCHANGED <<kpc, ktodo, kaux>>
    BY <1>14 DEF Retire, Goto, walkerVars
  <2>2. ASSUME NEW u \in Tasks, pc'[u] \in {"suspend", "parked"}, want'[u].mode # "shield",
    Armed(u)'
        PROVE  /\ pc[u] \in {"suspend", "parked"} /\ Armed(u)
               /\ want'[u] = want[u] /\ ops'[u] = ops[u]
    BY <1>0, <1>14, <2>2, ConstFacts DEF Retire, Goto, walkerVars, Armed, Inv, ArmInv
  <2>3. QED BY <2>1, <2>2, ReachFrame
<1>15. ASSUME NEW t \in Tasks, Unlock(t) PROVE ReachInv'
  <2>1. UNCHANGED <<kpc, ktodo, kaux>>
    BY <1>15 DEF Unlock, Goto, walkerVars, sourceVars, entryVars
  <2>2. ASSUME NEW u \in Tasks, pc'[u] \in {"suspend", "parked"}, want'[u].mode # "shield",
    Armed(u)'
        PROVE  /\ pc[u] \in {"suspend", "parked"} /\ Armed(u)
               /\ want'[u] = want[u] /\ ops'[u] = ops[u]
    BY <1>0, <1>15, <2>2, ConstFacts DEF Unlock, Goto, walkerVars, sourceVars, entryVars,
      Armed, Inv, ArmInv
  <2>3. QED BY <2>1, <2>2, ReachFrame
<1>16. ASSUME NEW t \in Tasks, Interrupted(t) PROVE ReachInv'
  <2>1. UNCHANGED <<kpc, ktodo, kaux>>
    BY <1>16 DEF Interrupted, Goto, walkerVars, sourceVars
  <2>2. ASSUME NEW u \in Tasks, pc'[u] \in {"suspend", "parked"}, want'[u].mode # "shield",
    Armed(u)'
        PROVE  /\ pc[u] \in {"suspend", "parked"} /\ Armed(u)
               /\ want'[u] = want[u] /\ ops'[u] = ops[u]
    BY <1>0, <1>16, <2>2, ConstFacts DEF Interrupted, Goto, walkerVars, sourceVars, Armed,
      Inv, ArmInv
  <2>3. QED BY <2>1, <2>2, ReachFrame
<1>17. ASSUME NEW t \in Tasks, Cleanup(t) PROVE ReachInv'
  <2>1. UNCHANGED <<kpc, ktodo, kaux>>
    BY <1>17 DEF Cleanup, Goto, walkerVars, sourceVars, entryVars
  <2>2. ASSUME NEW u \in Tasks, pc'[u] \in {"suspend", "parked"}, want'[u].mode # "shield",
    Armed(u)'
        PROVE  /\ pc[u] \in {"suspend", "parked"} /\ Armed(u)
               /\ want'[u] = want[u] /\ ops'[u] = ops[u]
    BY <1>0, <1>17, <2>2, ConstFacts DEF Cleanup, Goto, walkerVars, sourceVars, entryVars,
      Armed, Inv, ArmInv
  <2>3. QED BY <2>1, <2>2, ReachFrame
<1>18. ASSUME NEW t \in Tasks, LockToNotify(t) PROVE ReachInv'
  <2>1. UNCHANGED <<kpc, ktodo, kaux>>
    BY <1>18 DEF LockToNotify, Goto, walkerVars, sourceVars, entryVars
  <2>2. ASSUME NEW u \in Tasks, pc'[u] \in {"suspend", "parked"}, want'[u].mode # "shield",
    Armed(u)'
        PROVE  /\ pc[u] \in {"suspend", "parked"} /\ Armed(u)
               /\ want'[u] = want[u] /\ ops'[u] = ops[u]
    BY <1>0, <1>18, <2>2, ConstFacts DEF LockToNotify, Goto, walkerVars, sourceVars,
      entryVars, Armed, Inv, ArmInv
  <2>3. QED BY <2>1, <2>2, ReachFrame
<1>19. ASSUME NEW t \in Tasks, Notify(t) PROVE ReachInv'
  <2>1. UNCHANGED <<kpc, ktodo, kaux, hidden, want, ops>>
    BY <1>19 DEF Notify, walkerVars, sourceVars
  <2>2. ASSUME NEW u \in Tasks, pc'[u] \in {"suspend", "parked"}, Armed(u)'
        PROVE  pc[u] \in {"suspend", "parked"} /\ Armed(u)
    BY <1>0, <1>19, <2>1, <2>2, ConstFacts DEF Notify, Armed
  <2>3. QED BY <2>1, <2>2, ReachFrame
<1>20. ASSUME NEW t \in Tasks, NotifyEnds(t) PROVE ReachInv'
  <2>1. UNCHANGED <<kpc, ktodo, kaux>>
    BY <1>20 DEF NotifyEnds, Goto, walkerVars, sourceVars, entryVars
  <2>2. ASSUME NEW u \in Tasks, pc'[u] \in {"suspend", "parked"}, want'[u].mode # "shield",
    Armed(u)'
        PROVE  /\ pc[u] \in {"suspend", "parked"} /\ Armed(u)
               /\ want'[u] = want[u] /\ ops'[u] = ops[u]
    BY <1>0, <1>20, <2>2, ConstFacts DEF NotifyEnds, Goto, walkerVars, sourceVars, entryVars,
      Armed, Inv, ArmInv
  <2>3. QED BY <2>1, <2>2, ReachFrame
<1>21. ASSUME NEW k \in Cancellers, Raise(k) PROVE ReachInv'
  <2>1. UNCHANGED <<pc, hidden, want, ops>> /\ \A u \in Tasks : Armed(u)' => Armed(u)
    BY <1>0, <1>21, ConstFacts DEF Raise, KGoto, taskVars, entryVars, Armed
  <2>2. SUFFICES ASSUME NEW j \in Cancellers, NEW u \in Tasks, Target(j, u)' PROVE Reached(j,
    u)'
    BY DEF ReachInv
  <2>3. EntryOf(u)' = EntryOf(u) /\ FloorOf(want[u])' = FloorOf(want[u])
    BY <2>1, SameEntry
  <2>4. Target(j, u)
    BY <2>1, <2>2, TargetFrame DEF Target
  <2>5. PICK e : e = EntryOf(u)
    OBVIOUS
  <2>6. /\ on[u] = e /\ ~hidden[u] /\ e \in Entries /\ TaskOf(e) = u /\ e \notin retired
        /\ Contains(reg[SourceOf(j)], e) /\ aux[e].floor = FloorOf(want[u])
        /\ Reached(j, u)
        /\ kpc[j] \notin {"raise", "lock"} => FloorOf(want[u]) <= ksev[j]
    BY <2>4, <2>5, TargetFacts
  <2>7. CASE j # k
    <3>1. kpc'[j] = kpc[j] /\ ktodo'[j] = ktodo[j] /\ kaux'[j] = kaux[j]
      BY <1>0, <1>21, <2>7 DEF Raise, KGoto, taskVars, entryVars
    <3>2. QED BY <2>3, <2>6, <3>1 DEF Reached
  <2>8. CASE j = k
    BY <1>0, <1>21, <2>8 DEF Raise, KGoto, Reached, ListAt
  <2>9. QED BY <2>7, <2>8
<1>22. ASSUME NEW k \in Cancellers, WalkLock(k) PROVE ReachInv'
  <2>1. UNCHANGED <<pc, hidden, want, ops>> /\ \A u \in Tasks : Armed(u)' => Armed(u)
    BY <1>0, <1>22, ConstFacts DEF WalkLock, KGoto, taskVars, entryVars, Armed
  <2>2. SUFFICES ASSUME NEW j \in Cancellers, NEW u \in Tasks, Target(j, u)' PROVE Reached(j,
    u)'
    BY DEF ReachInv
  <2>3. EntryOf(u)' = EntryOf(u) /\ FloorOf(want[u])' = FloorOf(want[u])
    BY <2>1, SameEntry
  <2>4. Target(j, u)
    BY <2>1, <2>2, TargetFrame DEF Target
  <2>5. PICK e : e = EntryOf(u)
    OBVIOUS
  <2>6. /\ on[u] = e /\ ~hidden[u] /\ e \in Entries /\ TaskOf(e) = u /\ e \notin retired
        /\ Contains(reg[SourceOf(j)], e) /\ aux[e].floor = FloorOf(want[u])
        /\ Reached(j, u)
        /\ kpc[j] \notin {"raise", "lock"} => FloorOf(want[u]) <= ksev[j]
    BY <2>4, <2>5, TargetFacts
  <2>7. CASE j # k
    <3>1. kpc'[j] = kpc[j] /\ ktodo'[j] = ktodo[j] /\ kaux'[j] = kaux[j]
      BY <1>0, <1>22, <2>7 DEF WalkLock, KGoto, taskVars, entryVars
    <3>2. QED BY <2>3, <2>6, <3>1 DEF Reached
  <2>8. CASE j = k
    BY <1>0, <1>22, <2>8 DEF WalkLock, KGoto, Reached, ListAt
  <2>9. QED BY <2>7, <2>8
<1>23. ASSUME NEW k \in Cancellers, WalkHead(k) PROVE ReachInv'
  <2>1. UNCHANGED <<pc, hidden, want, ops>> /\ \A u \in Tasks : Armed(u)' => Armed(u)
    BY <1>0, <1>23, ConstFacts DEF WalkHead, KGoto, taskVars, entryVars, Armed
  <2>2. SUFFICES ASSUME NEW j \in Cancellers, NEW u \in Tasks, Target(j, u)' PROVE Reached(j,
    u)'
    BY DEF ReachInv
  <2>3. EntryOf(u)' = EntryOf(u) /\ FloorOf(want[u])' = FloorOf(want[u])
    BY <2>1, SameEntry
  <2>4. Target(j, u)
    BY <2>1, <2>2, TargetFrame DEF Target
  <2>5. PICK e : e = EntryOf(u)
    OBVIOUS
  <2>6. /\ on[u] = e /\ ~hidden[u] /\ e \in Entries /\ TaskOf(e) = u /\ e \notin retired
        /\ Contains(reg[SourceOf(j)], e) /\ aux[e].floor = FloorOf(want[u])
        /\ Reached(j, u)
        /\ kpc[j] \notin {"raise", "lock"} => FloorOf(want[u]) <= ksev[j]
    BY <2>4, <2>5, TargetFacts
  <2>7. CASE j # k
    <3>1. kpc'[j] = kpc[j] /\ ktodo'[j] = ktodo[j] /\ kaux'[j] = kaux[j]
      BY <1>0, <1>23, <2>7 DEF WalkHead, KGoto, taskVars, entryVars
    <3>2. QED BY <2>3, <2>6, <3>1 DEF Reached
  <2>8. CASE j = k
    <3>1. kpc'[k] = "entry" /\ ktodo'[k] = reg[SourceOf(k)]
      BY <1>0, <1>23 DEF WalkHead, KGoto
    <3>2. QED BY <2>3, <2>5, <2>6, <2>8, <3>1 DEF Reached
  <2>9. QED BY <2>7, <2>8
<1>24. ASSUME NEW k \in Cancellers, WalkRetired(k) PROVE ReachInv'
  <2>1. UNCHANGED <<pc, hidden, want, ops>> /\ \A u \in Tasks : Armed(u)' => Armed(u)
    BY <1>0, <1>24, ConstFacts DEF WalkRetired, taskVars, entryVars, Advance, Armed
  <2>2. SUFFICES ASSUME NEW j \in Cancellers, NEW u \in Tasks, Target(j, u)' PROVE Reached(j,
    u)'
    BY DEF ReachInv
  <2>3. EntryOf(u)' = EntryOf(u) /\ FloorOf(want[u])' = FloorOf(want[u])
    BY <2>1, SameEntry
  <2>4. Target(j, u)
    BY <2>1, <2>2, TargetFrame DEF Target
  <2>5. PICK e : e = EntryOf(u)
    OBVIOUS
  <2>6. /\ on[u] = e /\ ~hidden[u] /\ e \in Entries /\ TaskOf(e) = u /\ e \notin retired
        /\ Contains(reg[SourceOf(j)], e) /\ aux[e].floor = FloorOf(want[u])
        /\ Reached(j, u)
        /\ kpc[j] \notin {"raise", "lock"} => FloorOf(want[u]) <= ksev[j]
    BY <2>4, <2>5, TargetFacts
  <2>7. CASE j # k
    <3>1. kpc'[j] = kpc[j] /\ ktodo'[j] = ktodo[j] /\ kaux'[j] = kaux[j]
      BY <1>0, <1>24, <2>7 DEF WalkRetired, taskVars, entryVars, Advance
    <3>2. QED BY <2>3, <2>6, <3>1 DEF Reached
  <2>8. CASE j = k
    <3>1. ktodo[k] # <<>> /\ ktodo[k] \in Seq(Entries) /\ kpc[k] \in ListAt
      BY <1>0, <1>24 DEF WalkRetired, Inv, HolderInv, ListAt
    <3>2. Contains(ktodo[k], e)
      BY <2>5, <2>6, <2>8, <3>1 DEF Reached
    <3>3. e # Head(ktodo[k]) => Contains(Tail(ktodo[k]), e)
      BY <3>1, <3>2, TailFacts
    <3>4. kpc'[k] = "entry" /\ ktodo'[k] = Tail(ktodo[k]) /\ Head(ktodo[k]) \in retired
      BY <1>0, <1>24 DEF WalkRetired, Advance
    <3>5. QED BY <2>3, <2>5, <2>6, <2>8, <3>3, <3>4 DEF Reached
  <2>9. QED BY <2>7, <2>8
<1>25. ASSUME NEW k \in Cancellers, WalkAux(k) PROVE ReachInv'
  <2>1. UNCHANGED <<pc, hidden, want, ops>> /\ \A u \in Tasks : Armed(u)' => Armed(u)
    BY <1>0, <1>25, ConstFacts DEF WalkAux, KGoto, taskVars, sourceVars, entryVars, Armed
  <2>2. SUFFICES ASSUME NEW j \in Cancellers, NEW u \in Tasks, Target(j, u)' PROVE Reached(j,
    u)'
    BY DEF ReachInv
  <2>3. EntryOf(u)' = EntryOf(u) /\ FloorOf(want[u])' = FloorOf(want[u])
    BY <2>1, SameEntry
  <2>4. Target(j, u)
    BY <2>1, <2>2, TargetFrame DEF Target
  <2>5. PICK e : e = EntryOf(u)
    OBVIOUS
  <2>6. /\ on[u] = e /\ ~hidden[u] /\ e \in Entries /\ TaskOf(e) = u /\ e \notin retired
        /\ Contains(reg[SourceOf(j)], e) /\ aux[e].floor = FloorOf(want[u])
        /\ Reached(j, u)
        /\ kpc[j] \notin {"raise", "lock"} => FloorOf(want[u]) <= ksev[j]
    BY <2>4, <2>5, TargetFacts
  <2>7. CASE j # k
    <3>1. kpc'[j] = kpc[j] /\ ktodo'[j] = ktodo[j] /\ kaux'[j] = kaux[j]
      BY <1>0, <1>25, <2>7 DEF WalkAux, KGoto, taskVars, sourceVars, entryVars
    <3>2. QED BY <2>3, <2>6, <3>1 DEF Reached
  <2>8. CASE j = k
    <3>1. ktodo[k] # <<>> /\ ktodo[k] \in Seq(Entries) /\ kpc[k] \in ListAt
      BY <1>0, <1>25 DEF WalkAux, Inv, HolderInv, ListAt
    <3>2. Contains(ktodo[k], e)
      BY <2>5, <2>6, <2>8, <3>1 DEF Reached
    <3>3. e # Head(ktodo[k]) => Contains(Tail(ktodo[k]), e)
      BY <3>1, <3>2, TailFacts
    <3>4. kpc'[k] = "armed" /\ ktodo'[k] = ktodo[k] /\ kaux'[k] = aux[Head(ktodo[k])]
      BY <1>0, <1>25 DEF WalkAux, KGoto
    <3>5. QED BY <2>3, <2>5, <2>6, <2>8, <3>2, <3>4 DEF Reached
  <2>9. QED BY <2>7, <2>8
<1>26. ASSUME NEW k \in Cancellers, WalkArmed(k) PROVE ReachInv'
  <2>1. UNCHANGED <<pc, hidden, want, ops>> /\ \A u \in Tasks : Armed(u)' => Armed(u)
    BY <1>0, <1>26, ConstFacts DEF WalkArmed, KGoto, taskVars, sourceVars, entryVars, Advance,
      Armed
  <2>2. SUFFICES ASSUME NEW j \in Cancellers, NEW u \in Tasks, Target(j, u)' PROVE Reached(j,
    u)'
    BY DEF ReachInv
  <2>3. EntryOf(u)' = EntryOf(u) /\ FloorOf(want[u])' = FloorOf(want[u])
    BY <2>1, SameEntry
  <2>4. Target(j, u)
    BY <2>1, <2>2, TargetFrame DEF Target
  <2>5. PICK e : e = EntryOf(u)
    OBVIOUS
  <2>6. /\ on[u] = e /\ ~hidden[u] /\ e \in Entries /\ TaskOf(e) = u /\ e \notin retired
        /\ Contains(reg[SourceOf(j)], e) /\ aux[e].floor = FloorOf(want[u])
        /\ Reached(j, u)
        /\ kpc[j] \notin {"raise", "lock"} => FloorOf(want[u]) <= ksev[j]
    BY <2>4, <2>5, TargetFacts
  <2>7. CASE j # k
    <3>1. kpc'[j] = kpc[j] /\ ktodo'[j] = ktodo[j] /\ kaux'[j] = kaux[j]
      BY <1>0, <1>26, <2>7 DEF WalkArmed, KGoto, taskVars, sourceVars, entryVars, Advance
    <3>2. QED BY <2>3, <2>6, <3>1 DEF Reached
  <2>8. CASE j = k
    <3>1. ktodo[k] # <<>> /\ ktodo[k] \in Seq(Entries) /\ kpc[k] \in ListAt
      BY <1>0, <1>26 DEF WalkArmed, Inv, HolderInv, ListAt
    <3>2. Contains(ktodo[k], e)
      BY <2>5, <2>6, <2>8, <3>1 DEF Reached
    <3>3. e # Head(ktodo[k]) => Contains(Tail(ktodo[k]), e)
      BY <3>1, <3>2, TailFacts
    <3>4. kaux'[k] = kaux[k]
      BY <1>26 DEF WalkArmed
    <3>5. CASE Head(ktodo[k]) = e
      <4>1. kaux[k].floor = FloorOf(want[u]) /\ FloorOf(want[u]) <= ksev[k]
        BY <1>26, <2>5, <2>6, <2>8, <3>5 DEF WalkArmed, Reached
      <4>2. kpc'[k] = "claim" /\ ktodo'[k] = ktodo[k]
        BY <1>0, <1>26, <2>6, <3>5, <4>1 DEF WalkArmed, KGoto
      <4>3. QED BY <2>3, <2>5, <2>8, <3>2, <3>4, <4>1, <4>2 DEF Reached
    <3>6. CASE Head(ktodo[k]) # e
      <4>1. \/ kpc'[k] = "claim" /\ ktodo'[k] = ktodo[k]
            \/ kpc'[k] = "entry" /\ ktodo'[k] = Tail(ktodo[k])
        BY <1>0, <1>26 DEF WalkArmed, KGoto, Advance
      <4>2. QED BY <2>3, <2>5, <2>8, <3>2, <3>3, <3>6, <4>1 DEF Reached
    <3>7. QED BY <3>5, <3>6
  <2>9. QED BY <2>7, <2>8
<1>27. ASSUME NEW k \in Cancellers, WalkClaim(k) PROVE ReachInv'
  <2>1. UNCHANGED <<pc, hidden, want, ops>> /\ \A u \in Tasks : Armed(u)' => Armed(u)
    BY <1>0, <1>27, ConstFacts DEF WalkClaim, KGoto, taskVars, sourceVars, Advance, Armed
  <2>2. SUFFICES ASSUME NEW j \in Cancellers, NEW u \in Tasks, Target(j, u)' PROVE Reached(j,
    u)'
    BY DEF ReachInv
  <2>3. EntryOf(u)' = EntryOf(u) /\ FloorOf(want[u])' = FloorOf(want[u])
    BY <2>1, SameEntry
  <2>4. Target(j, u)
    BY <2>1, <2>2, TargetFrame DEF Target
  <2>5. PICK e : e = EntryOf(u)
    OBVIOUS
  <2>6. /\ on[u] = e /\ ~hidden[u] /\ e \in Entries /\ TaskOf(e) = u /\ e \notin retired
        /\ Contains(reg[SourceOf(j)], e) /\ aux[e].floor = FloorOf(want[u])
        /\ Reached(j, u)
        /\ kpc[j] \notin {"raise", "lock"} => FloorOf(want[u]) <= ksev[j]
    BY <2>4, <2>5, TargetFacts
  <2>7. CASE j # k
    <3>1. kpc'[j] = kpc[j] /\ ktodo'[j] = ktodo[j] /\ kaux'[j] = kaux[j]
      BY <1>0, <1>27, <2>7 DEF WalkClaim, KGoto, taskVars, sourceVars, Advance
    <3>2. QED BY <2>3, <2>6, <3>1 DEF Reached
  <2>8. CASE j = k
    <3>1. ktodo[k] # <<>> /\ ktodo[k] \in Seq(Entries) /\ kpc[k] \in ListAt
      BY <1>0, <1>27 DEF WalkClaim, Inv, HolderInv, ListAt
    <3>2. Contains(ktodo[k], e)
      BY <2>5, <2>6, <2>8, <3>1 DEF Reached
    <3>3. e # Head(ktodo[k]) => Contains(Tail(ktodo[k]), e)
      BY <3>1, <3>2, TailFacts
    <3>4. kpc'[k] = "entry" /\ ktodo'[k] = Tail(ktodo[k])
      BY <1>0, <1>27 DEF WalkClaim, KGoto, Advance
    <3>5. Head(ktodo[k]) # e
      <4>1. SUFFICES ASSUME Head(ktodo[k]) = e PROVE FALSE
        OBVIOUS
      <4>2. on'[u] = None /\ ~hidden'[u]
        BY <1>0, <1>27, <2>1, <2>6, <4>1 DEF WalkClaim
      <4>3. QED BY <2>2, <4>2 DEF Target, Armed
    <3>6. QED BY <2>3, <2>5, <2>8, <3>3, <3>4, <3>5 DEF Reached
  <2>9. QED BY <2>7, <2>8
<1>28. ASSUME NEW k \in Cancellers, WalkUnlock(k) PROVE ReachInv'
  <2>1. UNCHANGED <<pc, hidden, want, ops>> /\ \A u \in Tasks : Armed(u)' => Armed(u)
    BY <1>0, <1>28, ConstFacts DEF WalkUnlock, KGoto, taskVars, entryVars, Armed
  <2>2. SUFFICES ASSUME NEW j \in Cancellers, NEW u \in Tasks, Target(j, u)' PROVE Reached(j,
    u)'
    BY DEF ReachInv
  <2>3. EntryOf(u)' = EntryOf(u) /\ FloorOf(want[u])' = FloorOf(want[u])
    BY <2>1, SameEntry
  <2>4. Target(j, u)
    BY <2>1, <2>2, TargetFrame DEF Target
  <2>5. PICK e : e = EntryOf(u)
    OBVIOUS
  <2>6. /\ on[u] = e /\ ~hidden[u] /\ e \in Entries /\ TaskOf(e) = u /\ e \notin retired
        /\ Contains(reg[SourceOf(j)], e) /\ aux[e].floor = FloorOf(want[u])
        /\ Reached(j, u)
        /\ kpc[j] \notin {"raise", "lock"} => FloorOf(want[u]) <= ksev[j]
    BY <2>4, <2>5, TargetFacts
  <2>7. CASE j # k
    <3>1. kpc'[j] = kpc[j] /\ ktodo'[j] = ktodo[j] /\ kaux'[j] = kaux[j]
      BY <1>0, <1>28, <2>7 DEF WalkUnlock, KGoto, taskVars, entryVars
    <3>2. QED BY <2>3, <2>6, <3>1 DEF Reached
  <2>8. CASE j = k
    <3>1. ktodo[k] = <<>> /\ kpc[k] \in ListAt
      BY <1>28 DEF WalkUnlock, ListAt
    <3>2. ~Contains(<<>>, e)
      BY DEF Contains
    <3>3. QED BY <2>5, <2>6, <2>8, <3>1, <3>2 DEF Reached
  <2>9. QED BY <2>7, <2>8
<1>29. ASSUME NEW k \in Cancellers, WalkEnds(k) PROVE ReachInv'
  <2>1. UNCHANGED <<pc, hidden, want, ops>> /\ \A u \in Tasks : Armed(u)' => Armed(u)
    BY <1>0, <1>29, ConstFacts DEF WalkEnds, KGoto, taskVars, sourceVars, entryVars, Armed
  <2>2. SUFFICES ASSUME NEW j \in Cancellers, NEW u \in Tasks, Target(j, u)' PROVE Reached(j,
    u)'
    BY DEF ReachInv
  <2>3. EntryOf(u)' = EntryOf(u) /\ FloorOf(want[u])' = FloorOf(want[u])
    BY <2>1, SameEntry
  <2>4. Target(j, u)
    BY <2>1, <2>2, TargetFrame DEF Target
  <2>5. PICK e : e = EntryOf(u)
    OBVIOUS
  <2>6. /\ on[u] = e /\ ~hidden[u] /\ e \in Entries /\ TaskOf(e) = u /\ e \notin retired
        /\ Contains(reg[SourceOf(j)], e) /\ aux[e].floor = FloorOf(want[u])
        /\ Reached(j, u)
        /\ kpc[j] \notin {"raise", "lock"} => FloorOf(want[u]) <= ksev[j]
    BY <2>4, <2>5, TargetFacts
  <2>7. CASE j # k
    <3>1. kpc'[j] = kpc[j] /\ ktodo'[j] = ktodo[j] /\ kaux'[j] = kaux[j]
      BY <1>0, <1>29, <2>7 DEF WalkEnds, KGoto, taskVars, sourceVars, entryVars
    <3>2. QED BY <2>3, <2>6, <3>1 DEF Reached
  <2>8. CASE j = k
    BY <1>29, <2>6, <2>8 DEF WalkEnds, Reached
  <2>9. QED BY <2>7, <2>8
<1>30. ASSUME NEW k \in Cancellers, WalkDeliver(k) PROVE ReachInv'
  BY <1>1, <1>30 DEF WalkDeliver, taskVars, sourceVars, entryVars
<1>31. QED BY <1>1, <1>2, <1>3, <1>4, <1>5, <1>6, <1>7, <1>8, <1>9, <1>10, <1>11, <1>12,
    <1>13, <1>14, <1>15, <1>16, <1>17, <1>18, <1>19, <1>20, <1>21, <1>22, <1>23, <1>24, <1>25,
    <1>26, <1>27, <1>28, <1>29, <1>30 DEF Next, WaitSteps, WalkSteps, Quiescent, vars,
    taskVars, walkerVars, sourceVars, entryVars

(* c's queue. *)
\* A step that keeps the queue: a task with an entry in it goes on with its
\* wait, and an armed one was armed before.
LEMMA QueueFrame ==
  ASSUME Inv, waitq' = waitq,
         \A u \in Tasks : pc[u] \in QueueAt /\ Contains(waitq, EntryOf(u)) =>
           pc'[u] \in QueueAt /\ want'[u] = want[u] /\ ops'[u] = ops[u],
         \A u \in Tasks : pc'[u] \in WaitAt \ {"enqueue"} /\ Armed(u)' =>
           /\ pc[u] \in WaitAt \ {"enqueue"} /\ Armed(u)
           /\ want'[u] = want[u] /\ ops'[u] = ops[u]
  PROVE  QueueInv'
<1>1. ASSUME NEW e \in Entries, Contains(waitq, e), NEW v, v = TaskOf(e)
      PROVE  e = EntryOf(v)' /\ pc'[v] \in QueueAt
  <2>1. v \in Tasks /\ e = EntryOf(v) /\ pc[v] \in QueueAt
    BY <1>1, KindFacts DEF Inv, QueueInv
  <2>2. pc'[v] \in QueueAt /\ want'[v] = want[v] /\ ops'[v] = ops[v]
    BY <1>1, <2>1
  <2>3. QED BY <2>1, <2>2, SameEntry
<1>2. ASSUME NEW u \in Tasks, pc'[u] \in WaitAt \ {"enqueue"}, Armed(u)' PROVE Contains(waitq, EntryOf(u)')
  <2>1. /\ pc[u] \in WaitAt \ {"enqueue"} /\ Armed(u)
        /\ want'[u] = want[u] /\ ops'[u] = ops[u]
    BY <1>2
  <2>2. EntryOf(u)' = EntryOf(u)
    BY <2>1, SameEntry
  <2>3. QED BY <2>1, <2>2 DEF Inv, QueueInv
<1>3. QED BY <1>1, <1>2 DEF Inv, QueueInv

\* A step that takes the entry of a wait off the queue: either the wait leaves
\* the places where it may be queued, or nothing else about it changes.
LEMMA UnlinkFrame ==
  ASSUME Inv, NEW v \in Tasks, waitq' = Unlink(waitq, EntryOf(v)), ~Armed(v)',
         UNCHANGED <<want, ops>>,
         \A u \in Tasks : u # v => pc'[u] = pc[u] /\ (Armed(u)' => Armed(u))
  PROVE  QueueInv'
<1>1. waitq \in Seq(Entries) /\ Distinct(waitq)
  BY DEF Inv, TypeOK, ListType, QueueInv
<1>2. Distinct(waitq') /\ \A x : Contains(waitq', x) <=> Contains(waitq, x) /\ x # EntryOf(v)
  BY <1>1, UnlinkFacts
<1>3. \A u \in Tasks : EntryOf(u)' = EntryOf(u) /\ EntryOf(u) \in Entries /\ TaskOf(EntryOf(u)) = u
  BY SameEntry, EntryFacts DEF Inv, TypeOK, TaskType
<1>4. ASSUME NEW e \in Entries, Contains(waitq', e), NEW u, u = TaskOf(e)
      PROVE  e = EntryOf(u)' /\ pc'[u] \in QueueAt
  <2>1. u \in Tasks /\ e = EntryOf(u) /\ pc[u] \in QueueAt /\ e # EntryOf(v)
    BY <1>2, <1>4, KindFacts DEF Inv, QueueInv
  <2>2. u # v
    BY <2>1
  <2>3. QED BY <1>3, <2>1, <2>2
<1>5. ASSUME NEW u \in Tasks, pc'[u] \in WaitAt \ {"enqueue"}, Armed(u)' PROVE Contains(waitq', EntryOf(u)')
  <2>1. u # v /\ pc'[u] = pc[u] /\ Armed(u)
    BY <1>5
  <2>2. Contains(waitq, EntryOf(u))
    BY <1>5, <2>1 DEF Inv, QueueInv
  <2>3. EntryOf(u) # EntryOf(v)
    BY <1>3, <2>1
  <2>4. QED BY <1>2, <1>3, <2>2, <2>3
<1>6. QED BY <1>2, <1>4, <1>5 DEF QueueInv

LEMMA QueueStep ==
  ASSUME Inv, [Next]_vars
  PROVE  QueueInv'
<1>0. pc \in [Tasks -> TaskLabel] /\ on \in [Tasks -> Entries \cup {None}] /\ hidden \in
      [Tasks -> BOOLEAN] /\ want \in [Tasks -> Waits] /\ ops \in [Tasks -> 0..MaxOps] /\ waitq
      \in Seq(Entries) /\ kclaim \in [Cancellers -> SUBSET (Entries \X BOOLEAN)] /\ lck \in
      Tasks \cup {None}
  BY DEF Inv, TypeOK, TaskType, ListType, WakeType, FlagType
<1>1. ASSUME UNCHANGED <<waitq, pc, on, hidden, want, ops>> PROVE QueueInv'
  BY <1>0, <1>1 DEF Inv, QueueInv, EntryOf, Armed
<1>2. ASSUME NEW t \in Tasks, NEW w \in Waits, LockToWait(t, w) PROVE QueueInv'
  <2>1. waitq' = waitq
    BY <1>2 DEF LockToWait, Goto, walkerVars, sourceVars, entryVars
  <2>2. ASSUME NEW u \in Tasks, pc[u] \in QueueAt
        PROVE  pc'[u] \in QueueAt /\ want'[u] = want[u] /\ ops'[u] = ops[u]
    BY <1>0, <1>2, <2>2 DEF LockToWait, Goto, walkerVars, sourceVars, entryVars, QueueAt
  <2>3. ASSUME NEW u \in Tasks, pc'[u] \in WaitAt \ {"enqueue"}, Armed(u)'
        PROVE  /\ pc[u] \in WaitAt \ {"enqueue"} /\ Armed(u)
               /\ want'[u] = want[u] /\ ops'[u] = ops[u]
    BY <1>0, <1>2, <2>3, ConstFacts DEF LockToWait, Goto, walkerVars, sourceVars, entryVars,
      Armed, WaitAt
  <2>4. QED BY <2>1, <2>2, <2>3, QueueFrame
<1>3. ASSUME NEW t \in Tasks, EntryCheck(t) PROVE QueueInv'
  <2>1. waitq' = waitq
    BY <1>3 DEF EntryCheck, Goto, walkerVars, sourceVars, entryVars
  <2>2. ASSUME NEW u \in Tasks, pc[u] \in QueueAt
        PROVE  pc'[u] \in QueueAt /\ want'[u] = want[u] /\ ops'[u] = ops[u]
    BY <1>0, <1>3, <2>2 DEF EntryCheck, Goto, walkerVars, sourceVars, entryVars, QueueAt
  <2>3. ASSUME NEW u \in Tasks, pc'[u] \in WaitAt \ {"enqueue"}, Armed(u)'
        PROVE  /\ pc[u] \in WaitAt \ {"enqueue"} /\ Armed(u)
               /\ want'[u] = want[u] /\ ops'[u] = ops[u]
    BY <1>0, <1>3, <2>3, ConstFacts DEF EntryCheck, Goto, walkerVars, sourceVars, entryVars,
      Armed, WaitAt
  <2>4. QED BY <2>1, <2>2, <2>3, QueueFrame
<1>4. ASSUME NEW t \in Tasks, AcquireCancelEntry(t) PROVE QueueInv'
  <2>1. waitq' = waitq
    BY <1>4 DEF AcquireCancelEntry, Goto, walkerVars
  <2>2. ASSUME NEW u \in Tasks, pc[u] \in QueueAt
        PROVE  pc'[u] \in QueueAt /\ want'[u] = want[u] /\ ops'[u] = ops[u]
    BY <1>0, <1>4, <2>2 DEF AcquireCancelEntry, Goto, walkerVars, QueueAt
  <2>3. ASSUME NEW u \in Tasks, pc'[u] \in WaitAt \ {"enqueue"}, Armed(u)'
        PROVE  /\ pc[u] \in WaitAt \ {"enqueue"} /\ Armed(u)
               /\ want'[u] = want[u] /\ ops'[u] = ops[u]
    BY <1>0, <1>4, <2>3, ConstFacts DEF AcquireCancelEntry, Goto, walkerVars, Armed, WaitAt
  <2>4. QED BY <2>1, <2>2, <2>3, QueueFrame
<1>5. ASSUME NEW t \in Tasks, Arm(t) PROVE QueueInv'
  <2>1. waitq' = waitq
    BY <1>5 DEF Arm, Goto, walkerVars, sourceVars
  <2>2. ASSUME NEW u \in Tasks, pc[u] \in QueueAt
        PROVE  pc'[u] \in QueueAt /\ want'[u] = want[u] /\ ops'[u] = ops[u]
    BY <1>0, <1>5, <2>2 DEF Arm, Goto, walkerVars, sourceVars, QueueAt
  <2>3. ASSUME NEW u \in Tasks, pc'[u] \in WaitAt \ {"enqueue"}, Armed(u)'
        PROVE  /\ pc[u] \in WaitAt \ {"enqueue"} /\ Armed(u)
               /\ want'[u] = want[u] /\ ops'[u] = ops[u]
    BY <1>0, <1>5, <2>3, ConstFacts DEF Arm, Goto, walkerVars, sourceVars, Armed, WaitAt
  <2>4. QED BY <2>1, <2>2, <2>3, QueueFrame
<1>6. ASSUME NEW t \in Tasks, Drain(t) PROVE QueueInv'
  <2>1. waitq' = waitq
    BY <1>6 DEF Drain, taskVars, walkerVars, sourceVars, Publish
  <2>2. ASSUME NEW u \in Tasks, pc[u] \in QueueAt
        PROVE  pc'[u] \in QueueAt /\ want'[u] = want[u] /\ ops'[u] = ops[u]
    BY <1>0, <1>6, <2>2 DEF Drain, taskVars, walkerVars, sourceVars, Publish, QueueAt
  <2>3. ASSUME NEW u \in Tasks, pc'[u] \in WaitAt \ {"enqueue"}, Armed(u)'
        PROVE  /\ pc[u] \in WaitAt \ {"enqueue"} /\ Armed(u)
               /\ want'[u] = want[u] /\ ops'[u] = ops[u]
    BY <1>0, <1>6, <2>3, ConstFacts DEF Drain, taskVars, walkerVars, sourceVars, Publish,
      Armed, WaitAt
  <2>4. QED BY <2>1, <2>2, <2>3, QueueFrame
<1>7. ASSUME NEW t \in Tasks, Enqueue(t) PROVE QueueInv'
  <2>0. UNCHANGED <<want, ops, on, hidden>>
    BY <1>7 DEF Enqueue, Goto, walkerVars, sourceVars, entryVars
  <2>1. PICK f \in Entries : f = EntryOf(t) /\ TaskOf(f) = t
    BY <1>0, EntryFacts
  <2>2. ~Contains(waitq, f)
    BY <1>7, <2>1 DEF Enqueue, Inv, QueueInv, QueueAt
  <2>3. Distinct(waitq') /\ \A x : Contains(waitq', x) <=> Contains(waitq, x) \/ x = f
    <3>1. waitq \in Seq(Entries) /\ Distinct(waitq)
      BY <1>0 DEF Inv, QueueInv
    <3>2. waitq' = <<f>> \o waitq \/ waitq' = Append(waitq, f)
      BY <1>7, <2>1 DEF Enqueue
    <3>3. /\ Distinct(<<f>> \o waitq) /\ Distinct(Append(waitq, f))
          /\ \A x : Contains(<<f>> \o waitq, x) <=> Contains(waitq, x) \/ x = f
          /\ \A x : Contains(Append(waitq, f), x) <=> Contains(waitq, x) \/ x = f
      BY <2>2, <3>1, PushFacts
    <3>4. CASE waitq' = <<f>> \o waitq
      BY <3>3, <3>4
    <3>5. CASE waitq' = Append(waitq, f)
      BY <3>3, <3>5
    <3>6. QED BY <3>2, <3>4, <3>5
  <2>4. pc'[t] \in QueueAt /\ \A u \in Tasks : u # t => pc'[u] = pc[u]
    BY <1>0, <1>7 DEF Enqueue, Goto, QueueAt
  <2>5. \A u \in Tasks : EntryOf(u)' = EntryOf(u) /\ (Armed(u)' <=> Armed(u))
    BY <2>0, SameEntry DEF Armed
  <2>6. ASSUME NEW e \in Entries, Contains(waitq', e), NEW u, u = TaskOf(e)
        PROVE  e = EntryOf(u)' /\ pc'[u] \in QueueAt
    <3>1. u \in Tasks
      BY <2>6, KindFacts
    <3>2. CASE e = f
      BY <2>1, <2>4, <2>5, <2>6, <3>2
    <3>3. CASE e # f
      <4>1. e = EntryOf(u) /\ pc[u] \in QueueAt
        BY <2>3, <2>6, <3>3 DEF Inv, QueueInv
      <4>2. u # t
        BY <2>1, <3>3, <4>1
      <4>3. QED BY <2>4, <2>5, <3>1, <4>1, <4>2
    <3>4. QED BY <3>2, <3>3
  <2>7. ASSUME NEW u \in Tasks, pc'[u] \in WaitAt \ {"enqueue"}, Armed(u)' PROVE
    Contains(waitq', EntryOf(u)')
    <3>1. CASE u = t
      BY <2>1, <2>3, <2>5, <3>1
    <3>2. CASE u # t
      <4>1. Contains(waitq, EntryOf(u))
        BY <2>4, <2>5, <2>7, <3>2 DEF Inv, QueueInv
      <4>2. QED BY <2>3, <2>5, <4>1
    <3>3. QED BY <3>1, <3>2
  <2>8. QED BY <2>3, <2>6, <2>7 DEF QueueInv
<1>8. ASSUME NEW t \in Tasks, Register(t) PROVE QueueInv'
  <2>1. waitq' = waitq
    BY <1>8 DEF Register, Goto, walkerVars, Publish
  <2>2. ASSUME NEW u \in Tasks, pc[u] \in QueueAt
        PROVE  pc'[u] \in QueueAt /\ want'[u] = want[u] /\ ops'[u] = ops[u]
    BY <1>0, <1>8, <2>2 DEF Register, Goto, walkerVars, Publish, QueueAt
  <2>3. ASSUME NEW u \in Tasks, pc'[u] \in WaitAt \ {"enqueue"}, Armed(u)'
        PROVE  /\ pc[u] \in WaitAt \ {"enqueue"} /\ Armed(u)
               /\ want'[u] = want[u] /\ ops'[u] = ops[u]
    BY <1>0, <1>8, <2>3, ConstFacts DEF Register, Goto, walkerVars, Publish, Armed, WaitAt
  <2>4. QED BY <2>1, <2>2, <2>3, QueueFrame
<1>9. ASSUME NEW t \in Tasks, Recheck(t) PROVE QueueInv'
  <2>1. waitq' = waitq
    BY <1>9 DEF Recheck, Goto, walkerVars, sourceVars, entryVars
  <2>2. ASSUME NEW u \in Tasks, pc[u] \in QueueAt
        PROVE  pc'[u] \in QueueAt /\ want'[u] = want[u] /\ ops'[u] = ops[u]
    BY <1>0, <1>9, <2>2 DEF Recheck, Goto, walkerVars, sourceVars, entryVars, QueueAt
  <2>3. ASSUME NEW u \in Tasks, pc'[u] \in WaitAt \ {"enqueue"}, Armed(u)'
        PROVE  /\ pc[u] \in WaitAt \ {"enqueue"} /\ Armed(u)
               /\ want'[u] = want[u] /\ ops'[u] = ops[u]
    BY <1>0, <1>9, <2>3, ConstFacts DEF Recheck, Goto, walkerVars, sourceVars, entryVars,
      Armed, WaitAt
  <2>4. QED BY <2>1, <2>2, <2>3, QueueFrame
<1>10. ASSUME NEW t \in Tasks, Disarm(t) PROVE QueueInv'
  <2>1. CASE on[t] = EntryOf(t)
    <3>1. waitq' = Unlink(waitq, EntryOf(t)) /\ UNCHANGED <<want, ops>>
      BY <1>10, <2>1 DEF Disarm, Goto, walkerVars, sourceVars
    <3>2. ~Armed(t)'
      BY <1>0, <1>10, <2>1 DEF Disarm, Goto, walkerVars, sourceVars, Armed, Inv, ArmInv
    <3>3. \A u \in Tasks : u # t => pc'[u] = pc[u] /\ (Armed(u)' => Armed(u))
      BY <1>0, <1>10 DEF Disarm, Goto, walkerVars, sourceVars, Armed
    <3>4. QED BY <3>1, <3>2, <3>3, UnlinkFrame
  <2>2. CASE on[t] # EntryOf(t)
    <3>1. UNCHANGED <<waitq, want, ops, on, hidden>>
      BY <1>10, <2>2 DEF Disarm, Goto, walkerVars, sourceVars
    <3>2. pc[t] = "disarm" /\ pc' = [pc EXCEPT ![t] = "suspend"]
      BY <1>10, <2>2 DEF Disarm, Goto, walkerVars, sourceVars
    <3>3. \A u \in Tasks : /\ pc[u] \in QueueAt => pc'[u] \in QueueAt
                           /\ pc'[u] \in WaitAt \ {"enqueue"} => pc[u] \in WaitAt \ {"enqueue"}
      BY <1>0, <3>2 DEF QueueAt, WaitAt
    <3>4. QED BY <3>1, <3>3, QueueFrame DEF Armed
  <2>3. QED BY <2>1, <2>2
<1>11. ASSUME NEW t \in Tasks, Suspend(t) PROVE QueueInv'
  <2>1. waitq' = waitq
    BY <1>11 DEF Suspend, Goto, walkerVars, sourceVars, Publish
  <2>2. ASSUME NEW u \in Tasks, pc[u] \in QueueAt
        PROVE  pc'[u] \in QueueAt /\ want'[u] = want[u] /\ ops'[u] = ops[u]
    BY <1>0, <1>11, <2>2 DEF Suspend, Goto, walkerVars, sourceVars, Publish, QueueAt
  <2>3. ASSUME NEW u \in Tasks, pc'[u] \in WaitAt \ {"enqueue"}, Armed(u)'
        PROVE  /\ pc[u] \in WaitAt \ {"enqueue"} /\ Armed(u)
               /\ want'[u] = want[u] /\ ops'[u] = ops[u]
    BY <1>0, <1>11, <2>3, ConstFacts DEF Suspend, Goto, walkerVars, sourceVars, Publish,
      Armed, WaitAt
  <2>4. QED BY <2>1, <2>2, <2>3, QueueFrame
<1>12. ASSUME NEW t \in Tasks, Resume(t) PROVE QueueInv'
  <2>1. waitq' = waitq
    BY <1>12 DEF Resume, Goto, walkerVars, sourceVars, entryVars
  <2>2. ASSUME NEW u \in Tasks, pc[u] \in QueueAt
        PROVE  pc'[u] \in QueueAt /\ want'[u] = want[u] /\ ops'[u] = ops[u]
    BY <1>0, <1>12, <2>2 DEF Resume, Goto, walkerVars, sourceVars, entryVars, QueueAt
  <2>3. ASSUME NEW u \in Tasks, pc'[u] \in WaitAt \ {"enqueue"}, Armed(u)'
        PROVE  /\ pc[u] \in WaitAt \ {"enqueue"} /\ Armed(u)
               /\ want'[u] = want[u] /\ ops'[u] = ops[u]
    BY <1>0, <1>12, <2>3, ConstFacts DEF Resume, Goto, walkerVars, sourceVars, entryVars,
      Armed, WaitAt
  <2>4. QED BY <2>1, <2>2, <2>3, QueueFrame
<1>13. ASSUME NEW t \in Tasks, Settle(t) PROVE QueueInv'
  <2>1. waitq' = Unlink(waitq, EntryOf(t)) /\ UNCHANGED <<want, ops>>
    BY <1>13 DEF Settle, Goto, walkerVars, sourceVars, entryVars
  <2>2. ~Armed(t)'
    BY <1>0, <1>13 DEF Settle, Goto, walkerVars, sourceVars, entryVars, Armed, Inv, OwnerInv,
      WaitAt
  <2>3. \A u \in Tasks : u # t => pc'[u] = pc[u] /\ (Armed(u)' => Armed(u))
    BY <1>0, <1>13 DEF Settle, Goto, walkerVars, sourceVars, entryVars, Armed
  <2>4. QED BY <2>1, <2>2, <2>3, UnlinkFrame
<1>14. ASSUME NEW t \in Tasks, Retire(t) PROVE QueueInv'
  <2>1. UNCHANGED <<waitq, want, ops, on, hidden>> /\ pc[t] = "retire" /\ pc' = [pc EXCEPT
    ![t] = "unlock"]
    BY <1>14 DEF Retire, Goto, walkerVars
  <2>2. \A u \in Tasks : /\ pc[u] \in QueueAt => pc'[u] \in QueueAt
                         /\ pc'[u] \in WaitAt \ {"enqueue"} => pc[u] \in WaitAt \ {"enqueue"}
    BY <1>0, <2>1 DEF QueueAt, WaitAt
  <2>3. QED BY <2>1, <2>2, QueueFrame DEF Armed
<1>15. ASSUME NEW t \in Tasks, Unlock(t) PROVE QueueInv'
  <2>1. waitq' = waitq
    BY <1>15 DEF Unlock, Goto, walkerVars, sourceVars, entryVars
  <2>2. ASSUME NEW u \in Tasks, pc[u] \in QueueAt
        PROVE  pc'[u] \in QueueAt /\ want'[u] = want[u] /\ ops'[u] = ops[u]
    BY <1>0, <1>15, <2>2 DEF Unlock, Goto, walkerVars, sourceVars, entryVars, QueueAt
  <2>3. ASSUME NEW u \in Tasks, pc'[u] \in WaitAt \ {"enqueue"}, Armed(u)'
        PROVE  /\ pc[u] \in WaitAt \ {"enqueue"} /\ Armed(u)
               /\ want'[u] = want[u] /\ ops'[u] = ops[u]
    BY <1>0, <1>15, <2>3, ConstFacts DEF Unlock, Goto, walkerVars, sourceVars, entryVars,
      Armed, WaitAt
  <2>4. QED BY <2>1, <2>2, <2>3, QueueFrame
<1>16. ASSUME NEW t \in Tasks, Interrupted(t) PROVE QueueInv'
  <2>1. waitq' = waitq
    BY <1>16 DEF Interrupted, Goto, walkerVars, sourceVars
  <2>2. ASSUME NEW u \in Tasks, pc[u] \in QueueAt
        PROVE  pc'[u] \in QueueAt /\ want'[u] = want[u] /\ ops'[u] = ops[u]
    BY <1>0, <1>16, <2>2 DEF Interrupted, Goto, walkerVars, sourceVars, QueueAt
  <2>3. ASSUME NEW u \in Tasks, pc'[u] \in WaitAt \ {"enqueue"}, Armed(u)'
        PROVE  /\ pc[u] \in WaitAt \ {"enqueue"} /\ Armed(u)
               /\ want'[u] = want[u] /\ ops'[u] = ops[u]
    BY <1>0, <1>16, <2>3, ConstFacts DEF Interrupted, Goto, walkerVars, sourceVars, Armed,
      WaitAt
  <2>4. QED BY <2>1, <2>2, <2>3, QueueFrame
<1>17. ASSUME NEW t \in Tasks, Cleanup(t) PROVE QueueInv'
  <2>1. waitq' = Unlink(waitq, EntryOf(t)) /\ UNCHANGED <<want, ops>>
    BY <1>17 DEF Cleanup, Goto, walkerVars, sourceVars, entryVars
  <2>2. ~Armed(t)'
    BY <1>0, <1>17 DEF Cleanup, Goto, walkerVars, sourceVars, entryVars, Armed, Inv, OwnerInv,
      WaitAt
  <2>3. \A u \in Tasks : u # t => pc'[u] = pc[u] /\ (Armed(u)' => Armed(u))
    BY <1>0, <1>17 DEF Cleanup, Goto, walkerVars, sourceVars, entryVars, Armed
  <2>4. QED BY <2>1, <2>2, <2>3, UnlinkFrame
<1>18. ASSUME NEW t \in Tasks, LockToNotify(t) PROVE QueueInv'
  <2>1. waitq' = waitq
    BY <1>18 DEF LockToNotify, Goto, walkerVars, sourceVars, entryVars
  <2>2. ASSUME NEW u \in Tasks, pc[u] \in QueueAt
        PROVE  pc'[u] \in QueueAt /\ want'[u] = want[u] /\ ops'[u] = ops[u]
    BY <1>0, <1>18, <2>2 DEF LockToNotify, Goto, walkerVars, sourceVars, entryVars, QueueAt
  <2>3. ASSUME NEW u \in Tasks, pc'[u] \in WaitAt \ {"enqueue"}, Armed(u)'
        PROVE  /\ pc[u] \in WaitAt \ {"enqueue"} /\ Armed(u)
               /\ want'[u] = want[u] /\ ops'[u] = ops[u]
    BY <1>0, <1>18, <2>3, ConstFacts DEF LockToNotify, Goto, walkerVars, sourceVars,
      entryVars, Armed, WaitAt
  <2>4. QED BY <2>1, <2>2, <2>3, QueueFrame
<1>19. ASSUME NEW t \in Tasks, Notify(t) PROVE QueueInv'
  <2>0. UNCHANGED <<want, ops, hidden, lck, retired>> /\ waitq # <<>> /\ waitq' = Tail(waitq)
    /\ pc[t] = "notify"
    BY <1>19 DEF Notify, walkerVars, sourceVars
  <2>1. waitq \in Seq(Entries) /\ Distinct(waitq)
    BY <1>0 DEF Inv, QueueInv
  <2>2. PICK f \in Entries : f = Head(waitq) /\ Contains(waitq, f)
    BY <2>0, <2>1, TailFacts
  <2>3. PICK v \in Tasks : v = TaskOf(f)
    BY KindFacts
  <2>4. f = EntryOf(v) /\ pc[v] \in QueueAt
    BY <2>2, <2>3 DEF Inv, QueueInv
  <2>5. Distinct(waitq') /\ \A x : (Contains(waitq', x) => Contains(waitq, x)) /\
    (Contains(waitq, x) => Contains(waitq', x) \/ x = f)
    BY <2>0, <2>1, <2>2, TailFacts
  <2>6. \A u \in Tasks : EntryOf(u)' = EntryOf(u) /\ (Armed(u)' => Armed(u))
    BY <1>0, <1>19, <2>0, SameEntry, ConstFacts DEF Notify, Armed
  <2>7. \A u \in Tasks : pc'[u] = pc[u] \/ (pc[u] = "notify" /\ pc'[u] = "unlock")
    BY <1>0, <1>19 DEF Notify
  <2>8. v # t /\ pc'[v] = pc[v]
    BY <2>0, <2>4, <2>7 DEF QueueAt
  <2>9. ~Armed(v)'
    <3>1. SUFFICES ASSUME Armed(v)' PROVE FALSE
      OBVIOUS
    <3>2. Armed(v) /\ pc[v] \in WaitAt
      BY <2>6, <3>1 DEF Inv, OwnerInv
    <3>3. v \in Tasks /\ ~hidden[v]
      BY <1>0, <1>19, <2>0, <2>8 DEF Inv, ArmInv, LockInv
    <3>4. on[v] = f /\ f \notin retired
      BY <2>4, <3>2, <3>3, LiveEntry DEF Inv, ArmInv, Armed, WaitAt
    <3>5. on'[v] = None
      BY <1>0, <1>19, <2>2, <2>3, <3>4 DEF Notify
    <3>6. QED BY <2>0, <3>1, <3>3, <3>5 DEF Armed
  <2>10. ASSUME NEW e \in Entries, Contains(waitq', e), NEW u, u = TaskOf(e)
         PROVE  e = EntryOf(u)' /\ pc'[u] \in QueueAt
    <3>1. u \in Tasks /\ e = EntryOf(u) /\ pc[u] \in QueueAt
      BY <2>5, <2>10, KindFacts DEF Inv, QueueInv
    <3>2. QED BY <2>6, <2>7, <3>1 DEF QueueAt
  <2>11. ASSUME NEW u \in Tasks, pc'[u] \in WaitAt \ {"enqueue"}, Armed(u)' PROVE
    Contains(waitq', EntryOf(u)')
    <3>1. u # v
      BY <2>9, <2>11
    <3>2. pc'[u] = pc[u] /\ Contains(waitq, EntryOf(u))
      BY <2>6, <2>7, <2>11 DEF Inv, QueueInv, WaitAt
    <3>3. EntryOf(u) # f
      BY <1>0, <2>3, <3>1, EntryFacts
    <3>4. QED BY <2>5, <2>6, <3>2, <3>3
  <2>12. QED BY <2>5, <2>10, <2>11 DEF QueueInv
<1>20. ASSUME NEW t \in Tasks, NotifyEnds(t) PROVE QueueInv'
  <2>1. waitq' = waitq
    BY <1>20 DEF NotifyEnds, Goto, walkerVars, sourceVars, entryVars
  <2>2. ASSUME NEW u \in Tasks, pc[u] \in QueueAt
        PROVE  pc'[u] \in QueueAt /\ want'[u] = want[u] /\ ops'[u] = ops[u]
    BY <1>0, <1>20, <2>2 DEF NotifyEnds, Goto, walkerVars, sourceVars, entryVars, QueueAt
  <2>3. ASSUME NEW u \in Tasks, pc'[u] \in WaitAt \ {"enqueue"}, Armed(u)'
        PROVE  /\ pc[u] \in WaitAt \ {"enqueue"} /\ Armed(u)
               /\ want'[u] = want[u] /\ ops'[u] = ops[u]
    BY <1>0, <1>20, <2>3, ConstFacts DEF NotifyEnds, Goto, walkerVars, sourceVars, entryVars,
      Armed, WaitAt
  <2>4. QED BY <2>1, <2>2, <2>3, QueueFrame
<1>21. ASSUME NEW k \in Cancellers, WalkClaim(k) PROVE QueueInv'
  <2>1. waitq' = waitq
    BY <1>21 DEF WalkClaim, KGoto, taskVars, sourceVars, Advance
  <2>2. ASSUME NEW u \in Tasks, pc[u] \in QueueAt
        PROVE  pc'[u] \in QueueAt /\ want'[u] = want[u] /\ ops'[u] = ops[u]
    BY <1>0, <1>21, <2>2 DEF WalkClaim, KGoto, taskVars, sourceVars, Advance, QueueAt
  <2>3. ASSUME NEW u \in Tasks, pc'[u] \in WaitAt \ {"enqueue"}, Armed(u)'
        PROVE  /\ pc[u] \in WaitAt \ {"enqueue"} /\ Armed(u)
               /\ want'[u] = want[u] /\ ops'[u] = ops[u]
    BY <1>0, <1>21, <2>3, ConstFacts DEF WalkClaim, KGoto, taskVars, sourceVars, Advance,
      Armed, WaitAt
  <2>4. QED BY <2>1, <2>2, <2>3, QueueFrame
<1>22. ASSUME NEW k \in Cancellers, WalkDeliver(k) PROVE QueueInv'
  <2>1. UNCHANGED <<pc, on, hidden, want, ops>>
    BY <1>22 DEF WalkDeliver, taskVars, sourceVars, entryVars
  <2>2. PICK m \in kclaim[k] : waitq' = waitq \/ waitq' = Unlink(waitq, m[1])
    BY <1>22 DEF WalkDeliver
  <2>3. PICK v \in Tasks : v = TaskOf(m[1])
    BY <1>0, <2>2, KindFacts
  <2>4. ~Armed(v) /\ m[1] = EntryOf(v)
    BY <2>2, <2>3 DEF Inv, ClaimInv, ClaimOK
  <2>5. \A u \in Tasks : Armed(u)' <=> Armed(u)
    BY <2>1 DEF Armed
  <2>6. CASE waitq' = waitq
    BY <2>1, <2>5, <2>6, QueueFrame
  <2>7. CASE waitq' = Unlink(waitq, m[1])
    BY <2>1, <2>4, <2>5, <2>7, UnlinkFrame
  <2>8. QED BY <2>2, <2>6, <2>7
<1>23. ASSUME NEW k \in Cancellers, Raise(k) \/ WalkLock(k) \/ WalkHead(k) \/ WalkRetired(k)
           \/ WalkAux(k) \/ WalkArmed(k) \/ WalkUnlock(k) \/ WalkEnds(k) PROVE QueueInv'
  BY <1>1, <1>23 DEF Raise, WalkLock, WalkHead, WalkRetired, WalkAux, WalkArmed, WalkUnlock,
    WalkEnds, KGoto, taskVars, sourceVars, entryVars, Advance
<1>24. QED BY <1>1, <1>2, <1>3, <1>4, <1>5, <1>6, <1>7, <1>8, <1>9, <1>10, <1>11, <1>12,
    <1>13, <1>14, <1>15, <1>16, <1>17, <1>18, <1>19, <1>20, <1>21, <1>22, <1>23 DEF Next,
    WaitSteps, WalkSteps, Quiescent, vars, taskVars, walkerVars, sourceVars, entryVars

-----------------------------------------------------------------------------
(* The theorems. *)
LEMMA InitInv == Init => Inv
<1> SUFFICES ASSUME Init PROVE Inv
  OBVIOUS
<1>1. (CHOOSE w \in Waits : TRUE) \in Waits
  BY ParkAssumption
<1>2. NoAux \in Aux /\ NoWake \in WakeRec
  <2>1. NoAux \in Aux
    BY DEF NoAux, Aux, Severity
  <2>2. NoWake \in WakeRec
    BY DEF NoWake, WakeRec, Severity
  <2>3. QED BY <2>1, <2>2
<1>3. TaskType /\ ListType
  BY <1>1, ConstFacts DEF Init, TaskType, ListType, TaskLabel, WaitAt, QueueAt
<1>4. SourceType
  BY DEF Init, SourceType, Severity
<1>5. WakeType
  BY <1>2 DEF Init, WakeType
<1>6. FlagType
  BY <1>2 DEF Init, FlagType
<1>7. WalkType
  BY DEF Init, WalkType, WalkLabel, ListAt, Severity
<1>8. \A x : ~Contains(<<>>, x)
  BY DEF Contains
<1>9. \A t \in Tasks : pc[t] = "idle" /\ on[t] = None /\ ~hidden[t] /\ wake[t] = NoWake
  BY DEF Init
<1>10. \A k \in Cancellers : kpc[k] = "raise" /\ kclaim[k] = {}
  BY DEF Init
<1>11. LockInv /\ ModeInv /\ ArmInv /\ RetiredInv
  BY <1>9, ConstFacts DEF Init, LockInv, ModeInv, ArmInv, RetiredInv
<1>12. HolderInv /\ ClaimInv /\ StateInv /\ WalkInv
  BY <1>10 DEF HolderInv, ClaimInv, StateInv, WalkInv, ListAt
<1>13. OwnerInv
  BY <1>9 DEF OwnerInv, Armed, WaitAt
<1>14. RegInv
  BY <1>8 DEF Init, RegInv, Distinct
<1>15. CachedInv
  BY <1>9 DEF CachedInv, ListedOnce, ListedArmed, WaitAt
<1>16. ReachInv
  BY <1>9 DEF ReachInv, Target
<1>17. QueueInv
  BY <1>8, <1>9 DEF Init, QueueInv, Distinct, WaitAt
<1>18. FloorIsHonoured
  BY <1>9 DEF FloorIsHonoured, NoWake
<1>19. QED
  BY <1>3, <1>4, <1>5, <1>6, <1>7, <1>11, <1>12, <1>13, <1>14, <1>15, <1>16, <1>17, <1>18
  DEF Inv, TypeOK

LEMMA NextInv ==
  ASSUME Inv, [Next]_vars
  PROVE  Inv'
<1>1. /\ TypeOK /\ LockInv /\ HolderInv /\ ModeInv /\ ArmInv /\ OwnerInv /\ ClaimInv
      /\ RetiredInv /\ StateInv
  BY DEF Inv
<1>2. TypeOK'
  BY <1>1, TaskTypeStep, ListTypeStep, SourceTypeStep, WakeTypeStep, FlagTypeStep, WalkTypeStep
  DEF TypeOK
<1>3. LockInv' /\ HolderInv' /\ ModeInv'
  BY <1>1, LockStep, HolderStep, ModeStep
<1>4. ArmInv' /\ OwnerInv' /\ RetiredInv' /\ StateInv'
  BY <1>1, ArmStep, OwnerStep, RetiredStep, StateStep
<1>5. ClaimInv' /\ RegInv' /\ CachedInv' /\ WalkInv' /\ ReachInv' /\ QueueInv' /\ FloorIsHonoured'
  BY ClaimStep, RegStep, CachedStep, WalkStep, ReachStep, QueueStep, FloorStep
<1>6. QED BY <1>2, <1>3, <1>4, <1>5 DEF Inv

\* The inductive invariant holds throughout: types, locks, the state of every
\* wait, registration and walk, and their relation.
THEOREM InvHolds == Spec => []Inv
BY InitInv, NextInv, PTL DEF Spec

\* Every variable keeps its type, whatever tasks and cancellers do.
THEOREM TypeCorrect == Spec => []TypeOK
<1>1. Inv => TypeOK
  BY DEF Inv
<1>2. QED BY <1>1, InvHolds, PTL

\* From the arm to the resume exactly one party owns a task's wake, and outside
\* that time nobody does: the claim on waiting_on is exact.
THEOREM WakeHasOneOwner == Spec => []OneOwnerOfWake
<1>1. ASSUME Inv PROVE OneOwnerOfWake
  <2>1. SUFFICES ASSUME NEW t \in Tasks
                 PROVE  (IF Armed(t) THEN 1 ELSE 0) + (IF wake[t] # NoWake THEN 1 ELSE 0)
                          + Cardinality(Undelivered(t))
                        = IF pc[t] \in WaitAt THEN 1 ELSE 0
    BY DEF OneOwnerOfWake, WaitAt
  <2>2. /\ Armed(t) => pc[t] \in WaitAt /\ wake[t] = NoWake
        /\ wake[t] # NoWake => pc[t] \in WaitAt
        /\ pc[t] \in WaitAt => Armed(t) \/ wake[t] # NoWake \/ \E k \in Cancellers : HeldBy(k, t)
    BY <1>1 DEF Inv, OwnerInv
  <2>3. \A k \in Cancellers : HeldBy(k, t) => /\ pc[t] \in WaitAt /\ ~Armed(t) /\ wake[t] = NoWake
                                              /\ \A j \in Cancellers : HeldBy(j, t) => j = k
    BY <1>1 DEF Inv, ClaimInv, ClaimOK, HeldBy
  <2>4. Undelivered(t) = {k \in Cancellers : HeldBy(k, t)}
    BY DEF Undelivered, HeldBy
  <2>5. CASE \E k \in Cancellers : HeldBy(k, t)
    <3>1. PICK k \in Cancellers : HeldBy(k, t)
      BY <2>5
    <3>2. Undelivered(t) = {k}
      BY <2>3, <2>4, <3>1
    <3>3. Cardinality(Undelivered(t)) = 1
      BY <3>2, FS_Singleton
    <3>4. QED BY <2>3, <3>1, <3>3
  <2>6. CASE ~\E k \in Cancellers : HeldBy(k, t)
    <3>1. Undelivered(t) = {}
      BY <2>4, <2>6
    <3>2. Cardinality(Undelivered(t)) = 0
      BY <3>1, FS_EmptySet
    <3>3. QED BY <2>2, <2>6, <3>2
  <2>7. QED BY <2>5, <2>6
<1>2. QED BY <1>1, InvHolds, PTL

\* A walk claims only waits that its source governs, and delivers in the form
\* that the wait asked for.
THEOREM ClaimsAreGoverned == Spec => []ClaimIsGoverned
<1>1. ASSUME Inv PROVE ClaimIsGoverned
  <2>1. SUFFICES ASSUME NEW k \in Cancellers, NEW m \in kclaim[k]
                 PROVE  LET w == want[TaskOf(m[1])] IN
                        /\ w.mode # "shield" /\ w.src = SourceOf(k)
                        /\ m[2] <=> w.mode = "value"
    BY DEF ClaimIsGoverned
  <2>2. PICK v : v = TaskOf(m[1])
    OBVIOUS
  <2>3. /\ m = <<EntryOf(v), want[v].mode = "value">>
        /\ want[v].mode # "shield" /\ want[v].src = SourceOf(k)
    BY <1>1, <2>2 DEF Inv, ClaimInv, ClaimOK
  <2>4. m[2] = (want[v].mode = "value")
    BY <2>3
  <2>5. QED BY <2>2, <2>3, <2>4
<1>2. QED BY <1>1, InvHolds, PTL

\* When a cancel! has made its walk, nobody is parked unclaimed whom its
\* severity entitles to be woken: the arm, registration and recheck of a park
\* meet the raise and walk of a cancel! in every order.
THEOREM CancelReaches == Spec => []CancelReachesParked
<1>1. Inv => CancelReachesParked
  BY DEF Inv, CancelReachesParked, ReachInv, Target, Reached
<1>2. QED BY <1>1, InvHolds, PTL

\* The queue of the condition holds the entries of the waits under way, and the
\* entry of every unclaimed one.
THEOREM QueueIsExact == Spec => []QueueMatchesWaits
<1>1. ASSUME Inv PROVE QueueMatchesWaits
  <2>1. \A t \in Tasks : pc[t] = "parked" /\ Armed(t) => Contains(waitq, EntryOf(t))
    BY <1>1 DEF Inv, QueueInv, WaitAt
  <2>2. ASSUME NEW t \in Tasks, NEW i \in 1..Len(waitq), TaskOf(waitq[i]) = t
        PROVE  /\ waitq[i] = EntryOf(t)
               /\ pc[t] \notin {"idle", "check", "entry", "arm", "enqueue", "retire"}
    <3>1. waitq[i] \in Entries /\ Contains(waitq, waitq[i])
      BY <1>1 DEF Inv, TypeOK, ListType, Contains
    <3>2. QED BY <1>1, <2>2, <3>1 DEF Inv, QueueInv, QueueAt
  <2>3. QED BY <2>1, <2>2 DEF QueueMatchesWaits
<1>2. QED BY <1>1, InvHolds, PTL

\* A value wait is never completed by a severity below its floor.
THEOREM FloorHolds == Spec => []FloorIsHonoured
<1>1. Inv => FloorIsHonoured
  BY DEF Inv
<1>2. QED BY <1>1, InvHolds, PTL
=============================================================================
