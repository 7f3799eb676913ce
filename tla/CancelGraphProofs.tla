------------------------- MODULE CancelGraphProofs -------------------------
(***************************************************************************)
(* Proofs about CancelGraph, for every graph and every set of calls: when  *)
(* cancel! returns all sources below its source have its severity and no   *)
(* wait it reaches is parked there; and when nothing is under way no       *)
(* source is behind its parents.                                           *)
(***************************************************************************)
EXTENDS CancelGraph, TLAPS

In(q, s) == \E i \in 1..Len(q) : q[i] = s

\* The constructor of s has published its link to parent i.
Linked(s, i) == i < idx[s] \/ (pc[s] = "read" /\ i = idx[s])

\* Parents are constructed first.
ParentsLive ==
  \A s \in Sources : pc[s] # "none" => \A i \in 1..Len(Parents[s]) : Live(Parents[s][i])

\* A constructor begins with the first parent and ends after the last.
FromFirst == \A s \in Sources : pc[s] = "none" => idx[s] = 1 /\ csev[s] = 0
AllRead ==
  \A s \in Sources : pc[s] \in {"raise", "live"} => \A i \in 1..Len(Parents[s]) : i < idx[s]

\* A published link is on the parent's list.
Listed ==
  \A s \in Sources : \A i \in 1..Len(Parents[s]) :
    Linked(s, i) => In(children[Parents[s][i]], s)

\* A source has the severity it was born with, which is no less than the one
\* its parents were born with, and no wait that it reaches parks there.
Inherited == \A s \in Sources : Live(s) => state[s] >= csev[s]
BornOrder ==
  \A s \in Sources : \A i \in 1..Len(Parents[s]) :
    i < idx[s] => csev[s] >= csev[Parents[s][i]]
ParkedAbove == \A s \in Sources : \A f \in parked[s] : Live(s) /\ f > csev[s]

\* What the constructors keep.
Built ==
  ParentsLive /\ FromFirst /\ AllRead /\ Listed /\ Inherited /\ BornOrder /\ ParkedAbove

\* The call is past its raise and propagates a severity.
Walking(k) == Call[k].op # "mark" /\ ksev[k] # 0

\* Sources whose waits, or whose children, the walk has yet to see to.
ToDeliver(k, p) == In(pending[k], p) \/ (kpc[k] = "deliver" /\ node[k] = p)
ToDescend(k, p) == In(pending[k], p) \/ (kpc[k] \in {"deliver", "head"} /\ node[k] = p)

\* The locals of a call.
CallShape(k) ==
  /\ kpc[k] = "call" => ksev[k] = 0 /\ pending[k] = <<>>
  /\ kpc[k] \in {"mark", "markhead"} => Call[k].op = "mark"
  /\ kpc[k] \in {"walk", "deliver", "head", "child"} => Walking(k)
  /\ kpc[k] = "done" => pending[k] = <<>>
  /\ kpc[k] = "done" /\ Call[k].op = "cancel" => ksev[k] = Call[k].sev
  /\ ksev[k] # 0 /\ Call[k].op = "cancel" => ksev[k] = Call[k].sev
  /\ kpc[k] \in {"deliver", "head", "child"} => nsev[k] >= ksev[k] /\ node[k] \in visited[k]

\* Each child of p is visited by the walk k, about to be, born with its
\* severity, or going to read it from p.
Descended(k, p) ==
  \A s \in Sources : \A i \in 1..Len(Parents[s]) : Parents[s][i] = p =>
    \/ s \in visited[k]
    \/ kpc[k] = "child" /\ In(todo[k], s)
    \/ i >= idx[s]
    \/ csev[s] >= ksev[k]

\* What a walk has visited has its severity; where it has delivered nobody it
\* reaches is parked; and where it has descended no child is missed.
WalkCovers(k) ==
  Walking(k) =>
    /\ Call[k].src \in visited[k]
    /\ \A p \in Sources : In(pending[k], p) => p \in visited[k]
    /\ \A p \in visited[k] : state[p] >= ksev[k]
    /\ \A p \in visited[k] : ~ToDeliver(k, p) => \A f \in parked[p] : f > ksev[k]
    /\ \A p \in visited[k] : ~ToDescend(k, p) => Descended(k, p)

\* The inductive invariant.
IInv == TypeOK /\ Built /\ (\A k \in Calls : CallShape(k) /\ WalkCovers(k))
-----------------------------------------------------------------------------
(* Membership in sequences *)

\* An appended element is a member, with the ones before it.
LEMMA AppendIn ==
  ASSUME NEW S, NEW q \in Seq(S), NEW x \in S
  PROVE  /\ Append(q, x) \in Seq(S)
         /\ \A y : In(Append(q, x), y) <=> In(q, y) \/ y = x
<1>1. /\ Append(q, x) \in Seq(S)
      /\ Len(Append(q, x)) = Len(q) + 1
      /\ Append(q, x)[Len(q) + 1] = x
      /\ \A i \in 1..Len(q) : Append(q, x)[i] = q[i]
  OBVIOUS
<1>2. ASSUME NEW y, In(Append(q, x), y), y # x PROVE In(q, y)
  <2>1. PICK i \in 1..(Len(q) + 1) : Append(q, x)[i] = y
    BY <1>1, <1>2 DEF In
  <2>2. i \in 1..Len(q)
    BY <1>1, <1>2, <2>1
  <2> QED BY <1>1, <2>1, <2>2 DEF In
<1>3. ASSUME NEW y, In(q, y) PROVE In(Append(q, x), y)
  <2>1. PICK i \in 1..Len(q) : q[i] = y
    BY <1>3 DEF In
  <2>2. i \in 1..(Len(q) + 1)
    BY <2>1
  <2> QED BY <1>1, <2>1, <2>2 DEF In
<1>4. In(Append(q, x), x)
  <2>1. Len(q) + 1 \in 1..(Len(q) + 1)
    BY <1>1
  <2> QED BY <1>1, <2>1 DEF In
<1> QED BY <1>1, <1>2, <1>3, <1>4

\* A prepended element is a member, with the ones after it.
LEMMA PrependIn ==
  ASSUME NEW S, NEW q \in Seq(S), NEW x \in S
  PROVE  /\ <<x>> \o q \in Seq(S)
         /\ \A y : In(<<x>> \o q, y) <=> In(q, y) \/ y = x
<1>1. /\ <<x>> \o q \in Seq(S)
      /\ Len(<<x>> \o q) = Len(q) + 1
      /\ (<<x>> \o q)[1] = x
      /\ \A i \in 1..Len(q) : (<<x>> \o q)[i + 1] = q[i]
  OBVIOUS
<1>2. ASSUME NEW y, In(<<x>> \o q, y), y # x PROVE In(q, y)
  <2>1. PICK i \in 1..(Len(q) + 1) : (<<x>> \o q)[i] = y
    BY <1>1, <1>2 DEF In
  <2>2. i - 1 \in 1..Len(q) /\ i = (i - 1) + 1
    BY <1>1, <1>2, <2>1
  <2>3. q[i - 1] = y
    BY <1>1, <2>1, <2>2
  <2> QED BY <2>2, <2>3 DEF In
<1>3. ASSUME NEW y, In(q, y) PROVE In(<<x>> \o q, y)
  <2>1. PICK i \in 1..Len(q) : q[i] = y
    BY <1>3 DEF In
  <2>2. i + 1 \in 1..Len(<<x>> \o q) /\ (<<x>> \o q)[i + 1] = y
    BY <1>1, <2>1
  <2> QED BY <2>2 DEF In
<1>4. In(<<x>> \o q, x)
  BY <1>1 DEF In
<1> QED BY <1>1, <1>2, <1>3, <1>4

\* The last element and the ones before it are the members.
LEMMA FrontIn ==
  ASSUME NEW S, NEW q \in Seq(S), q # <<>>
  PROVE  /\ SubSeq(q, 1, Len(q) - 1) \in Seq(S)
         /\ q[Len(q)] \in S
         /\ \A y : In(q, y) <=> In(SubSeq(q, 1, Len(q) - 1), y) \/ y = q[Len(q)]
  BY DEF In

\* The head and the members of the tail are the members.
LEMMA TailIn ==
  ASSUME NEW S, NEW q \in Seq(S), q # <<>>
  PROVE  /\ Tail(q) \in Seq(S)
         /\ Head(q) \in S
         /\ \A y : In(q, y) <=> In(Tail(q), y) \/ y = Head(q)
<1>1. Len(q) \in Nat \ {0} /\ Len(Tail(q)) = Len(q) - 1
      /\ Head(q) = q[1] /\ \A i \in 1..(Len(q) - 1) : Tail(q)[i] = q[i + 1]
  OBVIOUS
<1>2. ASSUME NEW y, In(q, y), y # Head(q) PROVE In(Tail(q), y)
  <2>1. PICK i \in 1..Len(q) : q[i] = y
    BY <1>2 DEF In
  <2>2. i - 1 \in 1..(Len(q) - 1) /\ (i - 1) + 1 = i
    BY <1>1, <1>2, <2>1
  <2>3. Tail(q)[i - 1] = y
    BY <1>1, <2>1, <2>2
  <2> QED BY <1>1, <2>2, <2>3 DEF In
<1>3. ASSUME NEW y, In(Tail(q), y) PROVE In(q, y)
  <2>1. PICK i \in 1..(Len(q) - 1) : Tail(q)[i] = y
    BY <1>1, <1>3 DEF In
  <2>2. i + 1 \in 1..Len(q) /\ q[i + 1] = y
    BY <1>1, <2>1
  <2> QED BY <2>2 DEF In
<1>4. In(q, Head(q))
  BY <1>1 DEF In
<1> QED BY <1>1, <1>2, <1>3, <1>4

\* The empty sequence has no member.
LEMMA EmptyIn == ASSUME NEW y PROVE ~In(<<>>, y)
  BY DEF In

-----------------------------------------------------------------------------
(* What a step of a call leaves alone *)

\* A call leaves the constructors and the lists alone, lowers no state, parks
\* nobody and touches no other call.
LEMMA CallFrame ==
  ASSUME TypeOK, NEW k \in Calls, Begin(k) \/ Walk(k)
  PROVE  /\ UNCHANGED <<children, pc, idx, csev>>
         /\ \A s \in Sources : state'[s] >= state[s]
         /\ \A s \in Sources : parked'[s] \subseteq parked[s]
         /\ \A j \in Calls \ {k} :
              /\ kpc'[j] = kpc[j] /\ ksev'[j] = ksev[j] /\ pending'[j] = pending[j]
              /\ visited'[j] = visited[j] /\ node'[j] = node[j] /\ nsev'[j] = nsev[j]
              /\ todo'[j] = todo[j]
<1>0. /\ state \in [Sources -> {0, 1, 3, 4}]
      /\ parked \in [Sources -> SUBSET Floors]
      /\ kpc \in [Calls -> {"call", "walk", "deliver", "head", "child", "mark", "markhead", "done"}]
      /\ ksev \in [Calls -> {0, 1, 3, 4}] /\ nsev \in [Calls -> {0, 1, 3, 4}]
      /\ pending \in [Calls -> Seq(Sources)] /\ todo \in [Calls -> Seq(Sources)]
      /\ visited \in [Calls -> SUBSET Sources] /\ node \in [Calls -> Sources]
  BY DEF TypeOK, Severities
<1>1. UNCHANGED <<children, pc, idx, csev>>
  BY DEF Begin, Cancel, Redeliver, RedeliverNothing, Mark, StartWalk, Walk, WalkNode, Deliver,
         WalkHead, RaiseChild, NodeEnds, WalkEnds, MarkNode, MarkHead, MarkEnds, newVars
<1>2. /\ Call[k].src \in Sources /\ Call[k].sev \in {1, 3, 4}
      /\ kpc[k] = "child" /\ todo[k] # <<>> => Head(todo[k]) \in Sources
      /\ pending[k] # <<>> => pending[k][Len(pending[k])] \in Sources
  <2>1. Call[k].src \in Sources /\ Call[k].sev \in {1, 3, 4}
    BY GraphAssumption DEF Severities
  <2>2. todo[k] \in Seq(Sources) /\ pending[k] \in Seq(Sources)
    BY <1>0
  <2> QED BY <2>1, <2>2
<1>3. \A s \in Sources : state'[s] >= state[s]
  <2>0. state \in [Sources -> Nat]
    <3>1. {0, 1, 3, 4} \subseteq Nat
      OBVIOUS
    <3> QED BY <1>0, <3>1
  <2>1. UNCHANGED state => \A s \in Sources : state'[s] >= state[s]
    BY <2>0
  <2>2. ASSUME NEW c \in Sources, NEW v \in {0, 1, 3, 4}, Raise(c, v)
        PROVE  \A s \in Sources : state'[s] >= state[s]
    <3>1. v \in Nat /\ Larger(state[c], v) >= state[c]
      BY <2>0 DEF Larger
    <3>2. \A s \in Sources : state'[s] = IF s = c THEN Larger(state[c], v) ELSE state[s]
      BY <2>0, <2>2 DEF Raise
    <3>3. ASSUME NEW s \in Sources PROVE state'[s] >= state[s]
      <4>1. state[s] \in Nat
        BY <2>0
      <4>2. CASE s = c
        BY <3>1, <3>2, <4>2
      <4>3. CASE s # c
        BY <3>2, <4>1, <4>3
      <4> QED BY <4>2, <4>3
    <3> QED BY <3>3
  <2>3. CASE Begin(k)
    BY <1>0, <2>1, <2>2, <2>3, <1>2 DEF Begin, Cancel, Redeliver, RedeliverNothing, Mark
  <2>4. CASE RaiseChild(k)
    BY <1>0, <2>2, <2>4, <1>2 DEF RaiseChild
  <2>5. CASE MarkNode(k)
    BY <1>0, <2>2, <2>5, <1>2 DEF MarkNode
  <2>6. CASE Walk(k) /\ ~RaiseChild(k) /\ ~MarkNode(k)
    BY <2>1, <2>6 DEF Walk, WalkNode, Deliver, WalkHead, NodeEnds, WalkEnds, MarkHead, MarkEnds
  <2> QED BY <2>3, <2>4, <2>5, <2>6
<1>4. \A s \in Sources : parked'[s] \subseteq parked[s]
  <2>1. CASE Deliver(k)
    BY <1>0, <2>1 DEF Deliver
  <2>2. CASE ~Deliver(k)
    BY <1>0, <2>2 DEF Begin, Cancel, Redeliver, RedeliverNothing, Mark, StartWalk, Walk, WalkNode,
         WalkHead, RaiseChild, NodeEnds, WalkEnds, MarkNode, MarkHead, MarkEnds
  <2> QED BY <2>1, <2>2
<1>5. ASSUME NEW j \in Calls \ {k}
      PROVE  /\ kpc'[j] = kpc[j] /\ ksev'[j] = ksev[j] /\ pending'[j] = pending[j]
             /\ visited'[j] = visited[j] /\ node'[j] = node[j] /\ nsev'[j] = nsev[j]
             /\ todo'[j] = todo[j]
  <2>1. CASE Begin(k)
    BY <1>0, <2>1 DEF Begin, Cancel, Redeliver, RedeliverNothing, Mark, StartWalk, KGoto
  <2>2. CASE Walk(k)
    BY <1>0, <2>2 DEF Walk, WalkNode, Deliver, WalkHead, RaiseChild, NodeEnds, WalkEnds, MarkNode,
         MarkHead, MarkEnds, KGoto
  <2> QED BY <2>1, <2>2
<1> QED BY <1>1, <1>3, <1>4, <1>5

\* A constructor, or a wait that parks, touches no call.
LEMMA NewFrame ==
  ASSUME NEW s \in Sources, Construct(s) \/ \E f \in Floors : Park(s, f)
  PROVE  UNCHANGED callVars
  BY DEF Construct, Create, Link, ReadParent, Inherit, Park

-----------------------------------------------------------------------------
(* Types *)

\* Each step keeps the types.
LEMMA TypeStep ==
  ASSUME TypeOK, Built, [Next]_vars
  PROVE  TypeOK'
<1>0. /\ Parents \in [Sources -> Seq(Sources)]
      /\ \A k \in Calls : Call[k].src \in Sources /\ Call[k].sev \in Severities
      /\ Floors \subseteq Nat \ {0}
  BY GraphAssumption
<1> USE <1>0 DEF TypeOK
<1>1. ASSUME NEW s \in Sources, Create(s) PROVE TypeOK'
  <2>1. pc[s] = "none" /\ idx[s] = 1
    BY <1>1 DEF Create, Built, FromFirst
  <2>2. Parents[s] # <<>> => 1 <= Len(Parents[s])
    OBVIOUS
  <2> QED BY <1>1, <2>1, <2>2 DEF Create, callVars
<1>2. ASSUME NEW s \in Sources, Link(s) PROVE TypeOK'
  <2>1. pc[s] = "link" /\ idx[s] \in 1..Len(Parents[s])
    BY <1>2 DEF Link
  <2>2. Parents[s][idx[s]] \in Sources
    BY <2>1
  <2>3. <<s>> \o children[Parents[s][idx[s]]] \in Seq(Sources)
    BY <2>2
  <2> QED BY <1>2, <2>1, <2>2, <2>3 DEF Link, callVars
<1>3. ASSUME NEW s \in Sources, ReadParent(s) PROVE TypeOK'
  <2>0. pc[s] = "read" /\ idx[s] \in 1..Len(Parents[s])
    BY <1>3, SMTT(30) DEF ReadParent
  <2>1. pc[s] = "read" /\ idx[s] \in 1..Len(Parents[s]) /\ Parents[s][idx[s]] \in Sources
    BY <2>0
  <2>2. Larger(csev[s], state[Parents[s][idx[s]]]) \in {0} \cup Severities
    BY <2>1 DEF Larger
  <2>3. idx[s] # Len(Parents[s]) => idx[s] + 1 <= Len(Parents[s])
    BY <2>1
  <2>4. csev' \in [Sources -> {0} \cup Severities]
    BY <1>3, <2>2 DEF ReadParent
  <2>5. idx' \in [Sources -> Nat \ {0}] /\ pc' \in [Sources -> {"none", "link", "read", "raise", "live"}]
    <3>1. idx[s] + 1 \in Nat \ {0}
      BY <2>1
    <3> QED BY <1>3, <3>1 DEF ReadParent
  <2>6. ASSUME NEW t \in Sources, pc'[t] \in {"link", "read"} PROVE idx'[t] <= Len(Parents[t])
    <3>1. CASE t = s
      BY <1>3, <2>3, <2>6, <3>1 DEF ReadParent
    <3>2. CASE t # s
      BY <1>3, <2>6, <3>2 DEF ReadParent
    <3> QED BY <3>1, <3>2
  <2> QED BY <1>3, <2>4, <2>5, <2>6 DEF ReadParent, callVars
<1>4. ASSUME NEW s \in Sources, Inherit(s) PROVE TypeOK'
  BY <1>4 DEF Inherit, Raise, Larger, callVars
<1>5. ASSUME NEW s \in Sources, NEW f \in Floors, Park(s, f) PROVE TypeOK'
  BY <1>5 DEF Park, callVars, newVars
<1>6. ASSUME NEW k \in Calls, Begin(k) PROVE TypeOK'
  <2>1. <<Call[k].src>> \in Seq(Sources)
    OBVIOUS
  <2>2. state' \in [Sources -> {0} \cup Severities]
    BY <1>6 DEF Begin, Cancel, Redeliver, RedeliverNothing, Mark, Raise, Larger
  <2>3. ASSUME NEW l \in {"walk", "mark"}, NEW v \in {0} \cup Severities, StartWalk(k, l, v)
        PROVE  TypeOK'
    BY <2>1, <2>2, <2>3 DEF StartWalk, KGoto, newVars
  <2>4. CASE RedeliverNothing(k)
    BY <2>4 DEF RedeliverNothing, KGoto, newVars
  <2> QED BY <1>6, <2>3, <2>4 DEF Begin, Cancel, Redeliver, Mark
<1>7. ASSUME NEW k \in Calls, Walk(k) PROVE TypeOK'
  <2>1. pending[k] # <<>> => /\ SubSeq(pending[k], 1, Len(pending[k]) - 1) \in Seq(Sources)
                             /\ pending[k][Len(pending[k])] \in Sources
    BY FrontIn
  <2>2. todo[k] # <<>> => Tail(todo[k]) \in Seq(Sources) /\ Head(todo[k]) \in Sources
    BY TailIn
  <2>3. pending[k] \o children[node[k]] \in Seq(Sources)
    OBVIOUS
  <2>4. CASE WalkNode(k)
    BY <2>1, <2>4 DEF WalkNode, KGoto, Larger, newVars
  <2>5. CASE Deliver(k)
    BY <2>5 DEF Deliver, KGoto, newVars
  <2>6. CASE WalkHead(k)
    BY <2>6 DEF WalkHead, KGoto, newVars
  <2>7. CASE RaiseChild(k)
    <3>1. Append(pending[k], Head(todo[k])) \in Seq(Sources)
      BY <2>2, <2>7 DEF RaiseChild
    <3> QED BY <2>2, <2>7, <3>1 DEF RaiseChild, Raise, Larger, newVars
  <2>8. CASE NodeEnds(k) \/ WalkEnds(k) \/ MarkEnds(k)
    BY <2>8 DEF NodeEnds, WalkEnds, MarkEnds, KGoto, newVars
  <2>9. CASE MarkNode(k)
    BY <2>1, <2>9 DEF MarkNode, KGoto, Raise, Larger, newVars
  <2>10. CASE MarkHead(k)
    BY <2>3, <2>10 DEF MarkHead, KGoto, newVars
  <2> QED BY <1>7, <2>4, <2>5, <2>6, <2>7, <2>8, <2>9, <2>10 DEF Walk
<1>8. CASE UNCHANGED vars
  BY <1>8 DEF vars, newVars, callVars
<1> QED BY <1>1, <1>2, <1>3, <1>4, <1>5, <1>6, <1>7, <1>8 DEF Next, Construct, Finished

-----------------------------------------------------------------------------
(* Construction *)

\* The types in the form the proofs below use them.
LEMMA Types ==
  ASSUME TypeOK
  PROVE  /\ \A s \in Sources : state[s] \in Nat /\ csev[s] \in Nat /\ idx[s] \in Nat \ {0}
         /\ \A s \in Sources : children[s] \in Seq(Sources)
         /\ \A s \in Sources : parked[s] \subseteq Nat
         /\ \A k \in Calls : ksev[k] \in Nat /\ nsev[k] \in Nat /\ node[k] \in Sources
         /\ \A k \in Calls : pending[k] \in Seq(Sources) /\ todo[k] \in Seq(Sources)
         /\ \A k \in Calls : visited[k] \subseteq Sources
<1>1. {0} \cup Severities \subseteq Nat /\ Floors \subseteq Nat
  BY GraphAssumption DEF Severities
<1> QED BY <1>1 DEF TypeOK

\* Parents are sources.
LEMMA ParentsAre ==
  /\ \A s \in Sources : Parents[s] \in Seq(Sources) /\ Len(Parents[s]) \in Nat
  /\ \A s \in Sources : \A i \in 1..Len(Parents[s]) : Parents[s][i] \in Sources
<1>1. \A s \in Sources : Parents[s] \in Seq(Sources)
  BY GraphAssumption
<1> QED BY <1>1

\* A step that leaves constructors and lists alone, lowers no state and parks
\* nobody keeps Built.
LEMMA BuiltFrame ==
  ASSUME TypeOK, TypeOK', Built, UNCHANGED <<children, pc, idx, csev>>,
         \A s \in Sources : state'[s] >= state[s],
         \A s \in Sources : parked'[s] \subseteq parked[s]
  PROVE  Built'
<1>1. ParentsLive' /\ FromFirst' /\ AllRead' /\ Listed' /\ BornOrder'
  BY DEF Built, ParentsLive, FromFirst, AllRead, Listed, BornOrder, Live, Linked
<1>2. Inherited'
  <2>1. ASSUME NEW s \in Sources, Live(s)' PROVE state'[s] >= csev'[s]
    <3>1. state[s] >= csev[s] /\ state[s] \in Nat /\ csev[s] \in Nat
      BY <2>1, Types DEF Built, Inherited, Live
    <3>2. state'[s] \in Nat
      <4>1. state' \in [Sources -> {0} \cup Severities]
        BY DEF TypeOK
      <4> QED BY <4>1 DEF Severities
    <3> QED BY <3>1, <3>2
  <2> QED BY <2>1 DEF Inherited
<1>3. ParkedAbove'
  BY DEF Built, ParkedAbove, Live
<1> QED BY <1>1, <1>2, <1>3 DEF Built

\* Each step keeps Built.
LEMMA BuiltStep ==
  ASSUME TypeOK, TypeOK', Built, [Next]_vars
  PROVE  Built'
<1> USE ParentsAre, Types
<1>1. ASSUME NEW s \in Sources, Create(s) PROVE Built'
  <2>1. /\ pc[s] = "none" /\ pc' = [pc EXCEPT ![s] = IF Parents[s] = <<>> THEN "live" ELSE "link"]
        /\ pc \in [Sources -> {"none", "link", "read", "raise", "live"}]
        /\ \A i \in 1..Len(Parents[s]) : Live(Parents[s][i])
        /\ UNCHANGED <<state, children, parked, idx, csev>>
    BY <1>1 DEF Create, TypeOK
  <2>2. \A t \in Sources : Live(t) => Live(t)'
    BY <2>1 DEF Live
  <2>3. \A t \in Sources : t # s => pc'[t] = pc[t]
    BY <2>1
  <2>4. pc'[s] \in {"link", "live"} /\ (pc'[s] = "live" => Len(Parents[s]) = 0)
    BY <2>1
  <2>5. ParentsLive'
    BY <2>1, <2>2, <2>3 DEF Built, ParentsLive
  <2>6. FromFirst' /\ AllRead'
    BY <2>1, <2>3, <2>4 DEF Built, FromFirst, AllRead
  <2>7. Listed' /\ BornOrder'
    BY <2>1, <2>3, <2>4 DEF Built, Listed, BornOrder, Linked
  <2>8. state[s] >= csev[s]
    BY <2>1 DEF Built, FromFirst
  <2>9. Inherited' /\ ParkedAbove'
    BY <2>1, <2>2, <2>3, <2>8 DEF Built, Inherited, ParkedAbove, Live
  <2> QED BY <2>5, <2>6, <2>7, <2>9 DEF Built
<1>2. ASSUME NEW s \in Sources, Link(s) PROVE Built'
  <2>1. PICK p \in Sources : p = Parents[s][idx[s]]
    BY <1>2 DEF Link, TypeOK
  <2>2. /\ pc[s] = "link" /\ pc' = [pc EXCEPT ![s] = "read"]
        /\ pc \in [Sources -> {"none", "link", "read", "raise", "live"}]
        /\ children' = [children EXCEPT ![p] = <<s>> \o @]
        /\ children \in [Sources -> Seq(Sources)]
        /\ UNCHANGED <<state, parked, idx, csev>>
    BY <1>2, <2>1 DEF Link, TypeOK
  <2>3. \A t \in Sources : (t # s => pc'[t] = pc[t]) /\ (Live(t)' <=> Live(t))
    BY <2>2 DEF Live
  <2>4. pc'[s] = "read"
    BY <2>2
  <2>5. \A y : In(children[p], y) => In(children'[p], y)
    <3>1. children'[p] = <<s>> \o children[p]
      BY <2>2
    <3> QED BY <3>1, PrependIn
  <2>6. In(children'[p], s)
    <3>1. children'[p] = <<s>> \o children[p]
      BY <2>2
    <3> QED BY <3>1, PrependIn
  <2>7. \A q \in Sources : q # p => children'[q] = children[q]
    BY <2>2
  <2>8. ASSUME NEW t \in Sources, NEW i \in 1..Len(Parents[t]), Linked(t, i)'
        PROVE  In(children'[Parents[t][i]], t)
    <3>1. CASE Linked(t, i)
      BY <2>5, <2>7, <3>1 DEF Built, Listed
    <3>2. CASE ~Linked(t, i)
      <4>1. t = s /\ i = idx[s]
        BY <2>2, <2>3, <2>8, <3>2 DEF Linked
      <4> QED BY <2>1, <2>6, <4>1
    <3> QED BY <3>1, <3>2
  <2>9. Listed'
    BY <2>8 DEF Listed
  <2>12. ParentsLive'
    <3>1. ASSUME NEW t \in Sources, pc'[t] # "none", NEW i \in 1..Len(Parents[t])
          PROVE  Live(Parents[t][i])'
      <4>1. pc[t] # "none"
        BY <2>2, <2>3, <3>1
      <4>2. Live(Parents[t][i]) /\ Parents[t][i] \in Sources
        BY <4>1 DEF Built, ParentsLive
      <4> QED BY <2>3, <4>2
    <3> QED BY <3>1 DEF ParentsLive
  <2>13. FromFirst'
    BY <2>2, <2>3, <2>4 DEF Built, FromFirst
  <2>14. AllRead'
    BY <2>2, <2>3, <2>4 DEF Built, AllRead
  <2>10. ParentsLive' /\ FromFirst' /\ AllRead'
    BY <2>12, <2>13, <2>14
  <2>11. Inherited' /\ BornOrder' /\ ParkedAbove'
    BY <2>2, <2>3 DEF Built, Inherited, BornOrder, ParkedAbove
  <2> QED BY <2>9, <2>10, <2>11 DEF Built
<1>3. ASSUME NEW s \in Sources, ReadParent(s) PROVE Built'
  <2>1. PICK p \in Sources : p = Parents[s][idx[s]]
    BY <1>3 DEF ReadParent, TypeOK
  <2>0. idx[s] \in 1..Len(Parents[s])
    BY <1>3 DEF ReadParent, TypeOK
  <2>2. /\ pc[s] = "read" /\ idx[s] \in 1..Len(Parents[s])
        /\ idx' = [idx EXCEPT ![s] = @ + 1] /\ csev' = [csev EXCEPT ![s] = Larger(@, state[p])]
        /\ pc' = [pc EXCEPT ![s] = IF idx[s] = Len(Parents[s]) THEN "raise" ELSE "link"]
        /\ pc \in [Sources -> {"none", "link", "read", "raise", "live"}]
        /\ idx \in [Sources -> Nat \ {0}] /\ csev \in [Sources -> {0} \cup Severities]
        /\ UNCHANGED <<state, children, parked>>
    BY <1>3, <2>0, <2>1 DEF ReadParent, TypeOK
  <2>3. \A t \in Sources : t # s => csev'[t] = csev[t] /\ idx'[t] = idx[t] /\ pc'[t] = pc[t]
    BY <2>2
  <2>4. /\ idx'[s] = idx[s] + 1 /\ pc'[s] \in {"raise", "link"}
        /\ pc'[s] = "raise" => idx[s] = Len(Parents[s])
        /\ csev'[s] = Larger(csev[s], state[p])
    BY <2>2
  <2>5. \A t \in Sources : (Live(t)' <=> Live(t)) /\ (Live(t) => t # s)
    BY <2>2, <2>3, <2>4 DEF Live
  <2>6. Live(p) /\ state[p] >= csev[p]
    BY <2>1, <2>2 DEF Built, ParentsLive, Inherited
  <2>7. csev'[s] >= csev[s] /\ csev'[s] >= csev[p] /\ csev'[s] \in Nat
    BY <2>4, <2>6 DEF Larger
  <2>8. ASSUME NEW i \in 1..Len(Parents[s]), i < idx'[s] PROVE csev'[s] >= csev'[Parents[s][i]]
    <3>1. csev'[Parents[s][i]] = csev[Parents[s][i]]
      BY <2>2, <2>3, <2>5 DEF Built, ParentsLive
    <3>2. CASE i = idx[s]
      BY <2>1, <2>7, <3>1, <3>2
    <3>3. CASE i < idx[s]
      <4>1. csev[s] >= csev[Parents[s][i]] /\ csev[Parents[s][i]] \in Nat
        BY <3>3 DEF Built, BornOrder
      <4> QED BY <2>7, <3>1, <4>1
    <3> QED BY <2>2, <2>4, <2>8, <3>2, <3>3
  <2>9. ASSUME NEW t \in Sources, t # s, NEW i \in 1..Len(Parents[t]), i < idx'[t]
        PROVE  csev'[t] >= csev'[Parents[t][i]]
    <3>1. i < idx[t] /\ pc[t] # "none"
      BY <2>3, <2>9 DEF Built, FromFirst
    <3>2. Parents[t][i] # s
      BY <2>5, <3>1 DEF Built, ParentsLive
    <3> QED BY <2>3, <2>9, <3>1, <3>2 DEF Built, BornOrder
  <2>10. BornOrder'
    BY <2>8, <2>9 DEF BornOrder
  <2>16. ParentsLive'
    <3>1. ASSUME NEW t \in Sources, pc'[t] # "none", NEW i \in 1..Len(Parents[t])
          PROVE  Live(Parents[t][i])'
      <4>1. pc[t] # "none"
        BY <2>2, <2>3, <3>1
      <4>2. Live(Parents[t][i]) /\ Parents[t][i] \in Sources
        BY <4>1 DEF Built, ParentsLive
      <4> QED BY <2>2, <2>3, <2>5, <4>2
    <3> QED BY <3>1 DEF ParentsLive
  <2>17. FromFirst'
    BY <2>2, <2>3, <2>4, <2>5 DEF Built, FromFirst
  <2>11. ParentsLive' /\ FromFirst'
    BY <2>16, <2>17
  <2>12. AllRead'
    <3>1. ASSUME NEW t \in Sources, pc'[t] \in {"raise", "live"},
                 NEW i \in 1..Len(Parents[t])
          PROVE  i < idx'[t]
      <4>1. CASE t = s
        BY <2>2, <2>4, <3>1, <4>1
      <4>2. CASE t # s
        BY <2>3, <3>1, <4>2 DEF Built, AllRead
      <4> QED BY <4>1, <4>2
    <3> QED BY <3>1 DEF AllRead
  <2>13. \A t \in Sources : \A i \in 1..Len(Parents[t]) : Linked(t, i)' => Linked(t, i)
    BY <2>2, <2>3, <2>4 DEF Linked
  <2>14. Listed'
    BY <2>2, <2>13 DEF Built, Listed
  <2>15. Inherited' /\ ParkedAbove'
    BY <2>2, <2>3, <2>5 DEF Built, Inherited, ParkedAbove
  <2> QED BY <2>10, <2>11, <2>12, <2>14, <2>15 DEF Built
<1>4. ASSUME NEW s \in Sources, Inherit(s) PROVE Built'
  <2>1. /\ pc[s] = "raise" /\ pc' = [pc EXCEPT ![s] = "live"]
        /\ pc \in [Sources -> {"none", "link", "read", "raise", "live"}]
        /\ state' = [state EXCEPT ![s] = Larger(@, csev[s])]
        /\ state \in [Sources -> {0} \cup Severities]
        /\ UNCHANGED <<children, parked, idx, csev>>
    BY <1>4 DEF Inherit, Raise, TypeOK
  <2>2. state'[s] >= csev[s]
    BY <2>1 DEF Larger
  <2>3. \A t \in Sources : t # s => state'[t] = state[t] /\ pc'[t] = pc[t]
    BY <2>1
  <2>4. \A t \in Sources : Live(t)' <=> Live(t) \/ t = s
    BY <2>1 DEF Live
  <2>5. \A t \in Sources : \A i \in 1..Len(Parents[t]) : Linked(t, i)' => Linked(t, i)
    BY <2>1 DEF Linked
  <2>6. ParentsLive' /\ FromFirst' /\ AllRead'
    BY <2>1, <2>3, <2>4 DEF Built, ParentsLive, FromFirst, AllRead
  <2>7. Listed' /\ BornOrder'
    BY <2>1, <2>5 DEF Built, Listed, BornOrder
  <2>8. Inherited' /\ ParkedAbove'
    BY <2>1, <2>2, <2>3, <2>4 DEF Built, Inherited, ParkedAbove
  <2> QED BY <2>6, <2>7, <2>8 DEF Built
<1>5. ASSUME NEW s \in Sources, NEW f \in Floors, Park(s, f) PROVE Built'
  <2>1. /\ Live(s) /\ state[s] < f /\ f \in Nat
        /\ parked' = [parked EXCEPT ![s] = @ \cup {f}] /\ parked \in [Sources -> SUBSET Floors]
        /\ UNCHANGED <<state, children, pc, idx, csev>>
    BY <1>5, GraphAssumption DEF Park, newVars, TypeOK
  <2>2. f > csev[s]
    BY <2>1 DEF Built, Inherited
  <2>3. ASSUME NEW t \in Sources, NEW g \in parked'[t] PROVE Live(t) /\ g > csev[t]
    <3>1. g \in parked[t] \/ (t = s /\ g = f)
      BY <2>1, <2>3
    <3> QED BY <2>1, <2>2, <3>1 DEF Built, ParkedAbove
  <2>4. ParkedAbove'
    BY <2>1, <2>3 DEF ParkedAbove, Live
  <2>5. ParentsLive' /\ FromFirst' /\ AllRead' /\ Listed' /\ Inherited' /\ BornOrder'
    BY <2>1 DEF Built, ParentsLive, FromFirst, AllRead, Listed, Inherited, BornOrder, Live, Linked
  <2> QED BY <2>4, <2>5 DEF Built
<1>6. ASSUME NEW k \in Calls, Begin(k) \/ Walk(k) PROVE Built'
  BY <1>6, CallFrame, BuiltFrame
<1>7. CASE UNCHANGED vars
  <2>1. /\ UNCHANGED <<state, children, parked, pc, idx, csev>>
    BY <1>7 DEF vars, newVars
  <2>2. \A s \in Sources : state'[s] >= state[s] /\ parked'[s] \subseteq parked[s]
    BY <2>1
  <2> QED BY <2>1, <2>2, BuiltFrame
<1> QED BY <1>1, <1>2, <1>3, <1>4, <1>5, <1>6, <1>7 DEF Next, Construct, Finished

-----------------------------------------------------------------------------
(* Calls *)

\* A call keeps the shape of its locals.
LEMMA ShapeOwn ==
  ASSUME TypeOK, NEW k \in Calls, CallShape(k), WalkCovers(k), Begin(k) \/ Walk(k)
  PROVE  CallShape(k)'
<1>0. /\ kpc \in [Calls -> {"call", "walk", "deliver", "head", "child", "mark", "markhead", "done"}]
      /\ ksev \in [Calls -> {0} \cup Severities] /\ nsev \in [Calls -> {0} \cup Severities]
      /\ pending \in [Calls -> Seq(Sources)] /\ todo \in [Calls -> Seq(Sources)]
      /\ visited \in [Calls -> SUBSET Sources] /\ node \in [Calls -> Sources]
  BY DEF TypeOK
<1>1. ksev[k] \in Nat /\ nsev[k] \in Nat /\ \A s \in Sources : state[s] \in Nat
  BY Types
<1>c. Call[k].src \in Sources /\ Call[k].sev \in Severities /\ Call[k].sev # 0
      /\ Call[k].op \in {"cancel", "redeliver", "mark"}
  BY GraphAssumption DEF Severities
<1>2. CASE Cancel(k)
  BY <1>0, <1>c, <1>2 DEF Cancel, StartWalk, KGoto, CallShape, Walking
<1>3. CASE Redeliver(k)
  BY <1>0, <1>c, <1>3 DEF Redeliver, StartWalk, KGoto, CallShape, Walking
<1>4. CASE RedeliverNothing(k)
  <2>1. ksev[k] = 0 /\ Call[k].op = "redeliver" /\ kpc'[k] = "done" /\ ksev'[k] = ksev[k]
        /\ pending'[k] = pending[k]
    BY <1>0, <1>4 DEF RedeliverNothing, KGoto, CallShape
  <2>2. pending[k] = <<>>
    BY <1>4 DEF RedeliverNothing, CallShape
  <2> QED BY <2>1, <2>2 DEF CallShape, Walking
<1>5. CASE Mark(k)
  BY <1>0, <1>c, <1>5 DEF Mark, StartWalk, KGoto, CallShape, Walking
<1>6. CASE WalkNode(k)
  <2>1. PICK n : n = pending[k][Len(pending[k])]
    OBVIOUS
  <2>2. n \in Sources /\ In(pending[k], n)
    BY <1>0, <1>6, <2>1, FrontIn DEF WalkNode
  <2>3. /\ kpc[k] = "walk" /\ kpc'[k] = "deliver" /\ node'[k] = n /\ visited'[k] = visited[k]
        /\ nsev'[k] = Larger(ksev[k], state[n]) /\ ksev'[k] = ksev[k]
    BY <1>0, <1>6, <2>1 DEF WalkNode, KGoto
  <2>4. n \in visited[k] /\ Walking(k)
    BY <2>2, <2>3 DEF CallShape, WalkCovers
  <2>5. nsev'[k] >= ksev[k]
    BY <1>1, <2>2, <2>3 DEF Larger
  <2> QED BY <2>3, <2>4, <2>5 DEF CallShape, Walking
<1>7. CASE Deliver(k)
  BY <1>0, <1>7 DEF Deliver, KGoto, CallShape, Walking
<1>8. CASE WalkHead(k)
  BY <1>0, <1>8 DEF WalkHead, KGoto, CallShape, Walking
<1>9. CASE RaiseChild(k)
  BY <1>0, <1>9 DEF RaiseChild, CallShape, Walking
<1>10. CASE NodeEnds(k)
  BY <1>0, <1>10 DEF NodeEnds, KGoto, CallShape, Walking
<1>11. CASE WalkEnds(k)
  BY <1>0, <1>11 DEF WalkEnds, KGoto, CallShape, Walking
<1>12. CASE MarkNode(k)
  BY <1>0, <1>12 DEF MarkNode, KGoto, CallShape, Walking
<1>13. CASE MarkHead(k)
  BY <1>0, <1>13 DEF MarkHead, KGoto, CallShape, Walking
<1>14. CASE MarkEnds(k)
  BY <1>0, <1>14 DEF MarkEnds, KGoto, CallShape, Walking
<1> QED BY <1>2, <1>3, <1>4, <1>5, <1>6, <1>7, <1>8, <1>9, <1>10, <1>11, <1>12, <1>13, <1>14
        DEF Begin, Walk

\* A step that changes no local of k, lowers no state, parks nobody and reads
\* no parent keeps what the walk k has covered.
LEMMA CoversFrame ==
  ASSUME TypeOK, TypeOK', NEW k \in Calls, WalkCovers(k), UNCHANGED <<idx, csev>>,
         kpc'[k] = kpc[k], ksev'[k] = ksev[k], pending'[k] = pending[k],
         visited'[k] = visited[k], node'[k] = node[k], todo'[k] = todo[k],
         \A s \in Sources : state'[s] >= state[s],
         \A s \in Sources : parked'[s] \subseteq parked[s]
  PROVE  WalkCovers(k)'
<1>1. SUFFICES ASSUME Walking(k) PROVE WalkCovers(k)'
  BY DEF WalkCovers, Walking
<1>2. \A p : (ToDeliver(k, p)' <=> ToDeliver(k, p)) /\ (ToDescend(k, p)' <=> ToDescend(k, p))
  BY DEF ToDeliver, ToDescend, In
<1>3. \A p : Descended(k, p) => Descended(k, p)'
  BY DEF Descended, In
<1>4. \A p \in visited'[k] : state'[p] >= ksev'[k]
  <2>1. SUFFICES ASSUME NEW p \in visited[k] PROVE state'[p] >= ksev[k]
    OBVIOUS
  <2>2. p \in Sources /\ state[p] \in Nat /\ ksev[k] \in Nat /\ state[p] >= ksev[k]
    BY <1>1, Types DEF WalkCovers
  <2>3. state'[p] \in Nat
    <3>1. state' \in [Sources -> {0} \cup Severities]
      BY DEF TypeOK
    <3> QED BY <2>2, <3>1 DEF Severities
  <2> QED BY <2>2, <2>3
<1>5. visited[k] \subseteq Sources
  BY Types
<1>6. \A p \in visited'[k] : ~ToDeliver(k, p)' => \A f \in parked'[p] : f > ksev'[k]
  BY <1>1, <1>2, <1>5 DEF WalkCovers
<1>7. \A p \in visited'[k] : ~ToDescend(k, p)' => Descended(k, p)'
  BY <1>1, <1>2, <1>3 DEF WalkCovers
<1>8. Call[k].src \in visited'[k] /\ \A p \in Sources : In(pending'[k], p) => p \in visited'[k]
  BY <1>1 DEF WalkCovers
<1> QED BY <1>4, <1>6, <1>7, <1>8 DEF WalkCovers

\* Constructors and parking waits keep what a walk has covered: a constructor
\* that the walk missed reads the severity from the parent.
LEMMA CoversNew ==
  ASSUME TypeOK, TypeOK', Built, NEW k \in Calls, WalkCovers(k), NEW s \in Sources,
         Construct(s) \/ \E f \in Floors : Park(s, f)
  PROVE  WalkCovers(k)'
<1>1. UNCHANGED <<kpc, ksev, pending, visited, node, nsev, todo>>
  BY NewFrame DEF callVars
<1>2. CASE Create(s) \/ Link(s)
  <2>1. UNCHANGED <<state, parked, idx, csev>>
    BY <1>2 DEF Create, Link
  <2>2. \A t \in Sources : state'[t] >= state[t]
    BY <2>1, Types
  <2> QED BY <1>1, <2>1, <2>2, CoversFrame
<1>3. CASE Inherit(s)
  <2>1. UNCHANGED <<parked, idx, csev>> /\ state' = [state EXCEPT ![s] = Larger(@, csev[s])]
        /\ state \in [Sources -> {0} \cup Severities]
    BY <1>3 DEF Inherit, Raise, TypeOK
  <2>2. ASSUME NEW t \in Sources PROVE state'[t] >= state[t]
    <3>1. state[t] \in Nat /\ csev[s] \in Nat
      BY Types
    <3>2. CASE t = s
      <4>1. state'[s] = Larger(state[s], csev[s])
        BY <2>1
      <4> QED BY <3>1, <3>2, <4>1 DEF Larger
    <3>3. CASE t # s
      BY <2>1, <3>1, <3>3
    <3> QED BY <3>2, <3>3
  <2> QED BY <1>1, <2>1, <2>2, CoversFrame
<1>4. CASE ReadParent(s)
  <2>0. SUFFICES ASSUME Walking(k) PROVE WalkCovers(k)'
    BY <1>1 DEF WalkCovers, Walking
  <2>1. PICK p \in Sources : p = Parents[s][idx[s]]
    <3>1. idx[s] \in Nat \ {0} /\ idx[s] <= Len(Parents[s])
      BY <1>4 DEF ReadParent, TypeOK
    <3>2. idx[s] \in 1..Len(Parents[s])
      BY <3>1, ParentsAre
    <3> QED BY <3>2, ParentsAre
  <2>2. /\ UNCHANGED <<state, parked>> /\ idx[s] \in Nat /\ state[p] \in Nat
        /\ csev[s] \in Nat /\ ksev[k] \in Nat
    BY <1>4, Types DEF ReadParent
  <2>3. /\ csev'[s] = Larger(csev[s], state[p]) /\ idx'[s] = idx[s] + 1
        /\ \A t \in Sources : t # s => csev'[t] = csev[t] /\ idx'[t] = idx[t]
    BY <1>4, <2>1 DEF ReadParent, TypeOK
  <2>4. csev'[s] >= csev[s] /\ csev'[s] >= state[p] /\ csev'[s] \in Nat
    BY <2>2, <2>3 DEF Larger
  <2>5. ASSUME NEW q \in visited[k], Descended(k, q) PROVE Descended(k, q)'
    <3>1. SUFFICES ASSUME NEW t \in Sources, NEW i \in 1..Len(Parents[t]), Parents[t][i] = q
                   PROVE  \/ t \in visited[k]
                          \/ kpc[k] = "child" /\ In(todo[k], t)
                          \/ i >= idx'[t]
                          \/ csev'[t] >= ksev[k]
      BY <1>1 DEF Descended, In
    <3>2. \/ t \in visited[k]
          \/ kpc[k] = "child" /\ In(todo[k], t)
          \/ i >= idx[t]
          \/ csev[t] >= ksev[k]
      BY <2>5, <3>1 DEF Descended
    <3>3. CASE t # s
      BY <2>3, <3>2, <3>3
    <3>4. CASE t = s /\ i = idx[s]
      <4>1. state[p] >= ksev[k]
        BY <2>0, <2>1, <3>1, <3>4 DEF WalkCovers
      <4> QED BY <2>2, <2>4, <3>4, <4>1
    <3>5. CASE t = s /\ i # idx[s] /\ i >= idx[s]
      BY <2>2, <2>3, <3>5
    <3>6. CASE t = s /\ csev[s] >= ksev[k]
      BY <2>2, <2>4, <3>6
    <3> QED BY <3>2, <3>3, <3>4, <3>5, <3>6
  <2>6. \A q : (ToDeliver(k, q)' <=> ToDeliver(k, q)) /\ (ToDescend(k, q)' <=> ToDescend(k, q))
    BY <1>1 DEF ToDeliver, ToDescend, In
  <2> QED BY <1>1, <2>0, <2>2, <2>5, <2>6 DEF WalkCovers
<1>5. ASSUME NEW f \in Floors, Park(s, f) PROVE WalkCovers(k)'
  <2>0. SUFFICES ASSUME Walking(k) PROVE WalkCovers(k)'
    BY <1>1 DEF WalkCovers, Walking
  <2>1. /\ state[s] < f /\ f \in Nat /\ state[s] \in Nat /\ ksev[k] \in Nat
        /\ visited[k] \subseteq Sources /\ UNCHANGED <<state, idx, csev>>
    BY <1>5, GraphAssumption, Types DEF Park, newVars
  <2>2. \A t \in Sources : \A g \in parked'[t] : g \in parked[t] \/ (t = s /\ g = f)
    BY <1>5 DEF Park, TypeOK
  <2>3. s \in visited[k] => f > ksev[k]
    BY <2>0, <2>1 DEF WalkCovers
  <2>4. \A p : /\ (ToDeliver(k, p)' <=> ToDeliver(k, p)) /\ (ToDescend(k, p)' <=> ToDescend(k, p))
               /\ (Descended(k, p)' <=> Descended(k, p))
    BY <1>1, <2>1 DEF ToDeliver, ToDescend, Descended, In
  <2>5. \A p \in visited[k] : ~ToDeliver(k, p) => \A g \in parked'[p] : g > ksev[k]
    BY <2>0, <2>1, <2>2, <2>3 DEF WalkCovers
  <2> QED BY <1>1, <2>0, <2>1, <2>4, <2>5 DEF WalkCovers
<1> QED BY <1>2, <1>3, <1>4, <1>5 DEF Construct

\* The walk's own steps keep what it has covered.
LEMMA CoversOwn ==
  ASSUME TypeOK, TypeOK', Built, NEW k \in Calls, CallShape(k), CallShape(k)', WalkCovers(k),
         Begin(k) \/ Walk(k)
  PROVE  WalkCovers(k)'
<1>0. SUFFICES ASSUME Walking(k)' PROVE WalkCovers(k)'
  BY DEF WalkCovers
<1>1. /\ kpc \in [Calls -> {"call", "walk", "deliver", "head", "child", "mark", "markhead", "done"}]
      /\ ksev \in [Calls -> {0} \cup Severities] /\ nsev \in [Calls -> {0} \cup Severities]
      /\ pending \in [Calls -> Seq(Sources)] /\ todo \in [Calls -> Seq(Sources)]
      /\ visited \in [Calls -> SUBSET Sources] /\ node \in [Calls -> Sources]
      /\ state \in [Sources -> {0} \cup Severities] /\ parked \in [Sources -> SUBSET Floors]
  BY DEF TypeOK
<1>2. /\ UNCHANGED <<children, idx, csev, pc>>
      /\ \A s \in Sources : state'[s] >= state[s]
      /\ \A s \in Sources : parked'[s] \subseteq parked[s]
  BY CallFrame
<1>3. /\ ksev[k] \in Nat /\ nsev[k] \in Nat /\ node[k] \in Sources /\ visited[k] \subseteq Sources
      /\ pending[k] \in Seq(Sources) /\ todo[k] \in Seq(Sources)
      /\ \A s \in Sources : state[s] \in Nat /\ parked[s] \subseteq Nat
  BY Types
<1>4. \A s \in Sources : state'[s] \in Nat
  <2>1. state' \in [Sources -> {0} \cup Severities]
    BY DEF TypeOK
  <2> QED BY <2>1 DEF Severities
<1>c. Call[k].src \in Sources /\ Call[k].sev \in Nat
  BY GraphAssumption DEF Severities
<1>5. ASSUME NEW v \in Nat, NEW l \in {"walk", "mark"}, StartWalk(k, l, v), state'[Call[k].src] >= v
      PROVE  WalkCovers(k)'
  <2>1. ksev'[k] = v /\ pending'[k] = <<Call[k].src>> /\ visited'[k] = {Call[k].src}
    BY <1>1, <1>5 DEF StartWalk
  <2>2. \A y : In(pending'[k], y) <=> y = Call[k].src
    BY <2>1 DEF In
  <2>3. ToDeliver(k, Call[k].src)' /\ ToDescend(k, Call[k].src)'
    BY <2>2 DEF ToDeliver, ToDescend
  <2> QED BY <1>5, <2>1, <2>2, <2>3 DEF WalkCovers
<1>6. CASE Cancel(k)
  <2>1. state'[Call[k].src] >= Call[k].sev
    <3>1. state'[Call[k].src] = Larger(state[Call[k].src], Call[k].sev)
      BY <1>1, <1>c, <1>6 DEF Cancel, Raise
    <3> QED BY <1>3, <1>c, <3>1 DEF Larger
  <2> QED BY <1>5, <1>6, <1>c, <2>1 DEF Cancel
<1>7. CASE Redeliver(k)
  BY <1>2, <1>3, <1>5, <1>7, <1>c DEF Redeliver
<1>8. CASE RedeliverNothing(k)
  <2>1. ksev'[k] = 0
    BY <1>1, <1>8 DEF RedeliverNothing, CallShape
  <2> QED BY <1>0, <2>1 DEF Walking
<1>9. CASE Mark(k) \/ MarkNode(k) \/ MarkHead(k) \/ MarkEnds(k)
  <2>1. Call[k].op = "mark"
    BY <1>9 DEF Mark, MarkNode, MarkHead, MarkEnds, CallShape
  <2> QED BY <1>0, <2>1 DEF Walking
<1>10. ASSUME Walk(k), kpc[k] \in {"walk", "deliver", "head", "child"}, visited[k] \subseteq visited'[k],
              ksev'[k] = ksev[k]
       PROVE  /\ Walking(k) /\ Call[k].src \in visited'[k]
              /\ \A p \in visited[k] : state'[p] >= ksev'[k]
  <2>1. Walking(k)
    BY <1>10 DEF CallShape
  <2>2. ASSUME NEW p \in visited[k] PROVE state'[p] >= ksev'[k]
    <3>1. p \in Sources /\ state[p] >= ksev[k]
      BY <1>3, <2>1 DEF WalkCovers
    <3> QED BY <1>2, <1>3, <1>4, <1>10, <3>1
  <2> QED BY <1>10, <2>1, <2>2 DEF WalkCovers
<1>11. CASE WalkNode(k)
  <2>1. PICK n : n = pending[k][Len(pending[k])]
    OBVIOUS
  <2>2. /\ kpc[k] = "walk" /\ kpc'[k] = "deliver" /\ node'[k] = n
        /\ pending'[k] = SubSeq(pending[k], 1, Len(pending[k]) - 1) /\ pending[k] # <<>>
        /\ visited'[k] = visited[k] /\ ksev'[k] = ksev[k] /\ UNCHANGED <<state, parked>>
    BY <1>1, <1>11, <2>1 DEF WalkNode, KGoto
  <2>3. n \in Sources /\ \A y : In(pending[k], y) <=> In(pending'[k], y) \/ y = n
    BY <1>3, <2>1, <2>2, FrontIn
  <2>4. \A p : (ToDeliver(k, p)' <=> ToDeliver(k, p)) /\ (ToDescend(k, p)' <=> ToDescend(k, p))
    BY <2>2, <2>3 DEF ToDeliver, ToDescend
  <2>5. \A p : Descended(k, p) => Descended(k, p)'
    BY <1>2, <2>2 DEF Descended
  <2>6. Walking(k) /\ Call[k].src \in visited'[k] /\ \A p \in visited[k] : state'[p] >= ksev'[k]
    BY <1>10, <1>11, <2>2 DEF Walk
  <2> QED BY <2>2, <2>3, <2>4, <2>5, <2>6 DEF WalkCovers
<1>12. CASE Deliver(k)
  <2>1. /\ kpc[k] = "deliver" /\ kpc'[k] = "head" /\ node'[k] = node[k]
        /\ pending'[k] = pending[k] /\ visited'[k] = visited[k] /\ ksev'[k] = ksev[k]
        /\ parked'[node[k]] = {f \in parked[node[k]] : f > nsev[k]} /\ nsev[k] >= ksev[k]
    BY <1>1, <1>12 DEF Deliver, KGoto, CallShape
  <2>2. \A p : /\ ToDeliver(k, p) => ToDeliver(k, p)' \/ p = node[k]
               /\ ToDescend(k, p)' <=> ToDescend(k, p)
    BY <2>1 DEF ToDeliver, ToDescend
  <2>3. \A p : Descended(k, p) => Descended(k, p)'
    BY <1>2, <2>1 DEF Descended
  <2>4. Walking(k) /\ Call[k].src \in visited'[k] /\ \A p \in visited[k] : state'[p] >= ksev'[k]
    BY <1>10, <1>12, <2>1 DEF Walk
  <2>5. \A f \in parked'[node[k]] : f > ksev[k]
    BY <1>3, <2>1
  <2>6. \A p \in visited[k] : ~ToDeliver(k, p)' => \A f \in parked'[p] : f > ksev[k]
    BY <1>2, <1>3, <2>2, <2>4, <2>5 DEF WalkCovers
  <2> QED BY <2>1, <2>2, <2>3, <2>4, <2>6 DEF WalkCovers
<1>13. CASE WalkHead(k)
  <2>1. /\ kpc[k] = "head" /\ kpc'[k] = "child" /\ node'[k] = node[k]
        /\ pending'[k] = pending[k] /\ visited'[k] = visited[k] /\ ksev'[k] = ksev[k]
        /\ todo'[k] = children[node[k]] /\ UNCHANGED <<state, parked>>
    BY <1>1, <1>13 DEF WalkHead, KGoto
  <2>2. \A p : /\ ToDeliver(k, p)' <=> ToDeliver(k, p)
               /\ ToDescend(k, p) => ToDescend(k, p)' \/ p = node[k]
    BY <2>1 DEF ToDeliver, ToDescend
  <2>3. \A p : Descended(k, p) => Descended(k, p)'
    BY <1>2, <2>1 DEF Descended
  <2>4. Descended(k, node[k])'
    <3>1. SUFFICES ASSUME NEW s \in Sources, NEW i \in 1..Len(Parents[s]), Parents[s][i] = node[k]
                   PROVE  In(children[node[k]], s) \/ i >= idx[s]
      BY <1>2, <2>1 DEF Descended
    <3>2. i \in Nat /\ idx[s] \in Nat
      BY Types, ParentsAre
    <3>3. CASE i < idx[s]
      BY <3>1, <3>3 DEF Built, Listed, Linked
    <3> QED BY <3>2, <3>3
  <2>5. Walking(k) /\ Call[k].src \in visited'[k] /\ \A p \in visited[k] : state'[p] >= ksev'[k]
    BY <1>10, <1>13, <2>1 DEF Walk
  <2> QED BY <2>1, <2>2, <2>3, <2>4, <2>5 DEF WalkCovers
<1>14. CASE RaiseChild(k)
  <2>1. PICK c : c = Head(todo[k])
    OBVIOUS
  <2>2. /\ kpc[k] = "child" /\ kpc'[k] = "child" /\ node'[k] = node[k] /\ todo[k] # <<>>
        /\ visited'[k] = visited[k] \cup {c} /\ ksev'[k] = ksev[k] /\ todo'[k] = Tail(todo[k])
        /\ pending'[k] = IF c \in visited[k] THEN pending[k] ELSE Append(pending[k], c)
        /\ state' = [state EXCEPT ![c] = Larger(@, nsev[k])] /\ UNCHANGED parked
        /\ nsev[k] >= ksev[k]
    BY <1>1, <1>14, <2>1 DEF RaiseChild, Raise, CallShape
  <2>3. c \in Sources /\ \A y : In(todo[k], y) <=> In(todo'[k], y) \/ y = c
    BY <1>3, <2>1, <2>2, TailIn
  <2>4. \A y : In(pending'[k], y) <=> In(pending[k], y) \/ (y = c /\ c \notin visited[k])
    <3>1. CASE c \in visited[k]
      BY <2>2, <3>1
    <3>2. CASE c \notin visited[k]
      BY <1>3, <2>2, <2>3, <3>2, AppendIn
    <3> QED BY <3>1, <3>2
  <2>5. Walking(k) /\ Call[k].src \in visited'[k] /\ \A p \in visited[k] : state'[p] >= ksev'[k]
    BY <1>10, <1>14, <2>2 DEF Walk
  <2>6. state'[c] >= ksev'[k]
    <3>1. state'[c] = Larger(state[c], nsev[k]) /\ state[c] \in Nat
      BY <1>1, <1>3, <2>2, <2>3
    <3> QED BY <1>3, <2>2, <3>1 DEF Larger
  <2>7. \A p \in visited'[k] : state'[p] >= ksev'[k]
    BY <2>2, <2>5, <2>6
  <2>8. \A p \in visited'[k] :
          ~ToDeliver(k, p)' => p \in visited[k] /\ ~ToDeliver(k, p)
    BY <2>2, <2>4 DEF ToDeliver
  <2>9. \A p \in visited'[k] :
          ~ToDescend(k, p)' => p \in visited[k] /\ ~ToDescend(k, p)
    BY <2>2, <2>4 DEF ToDescend
  <2>10. \A p : Descended(k, p) => Descended(k, p)'
    BY <1>2, <2>2, <2>3 DEF Descended
  <2>11. \A p \in Sources : In(pending'[k], p) => p \in visited'[k]
    BY <2>2, <2>4, <2>5 DEF WalkCovers
  <2>12. \A p \in visited'[k] : ~ToDeliver(k, p)' => \A f \in parked'[p] : f > ksev'[k]
    BY <2>2, <2>5, <2>8 DEF WalkCovers
  <2>13. \A p \in visited'[k] : ~ToDescend(k, p)' => Descended(k, p)'
    BY <2>5, <2>9, <2>10 DEF WalkCovers
  <2> QED BY <2>5, <2>7, <2>11, <2>12, <2>13 DEF WalkCovers
<1>15. CASE NodeEnds(k) \/ WalkEnds(k)
  <2>1. /\ kpc[k] \in {"walk", "child"} /\ kpc'[k] \in {"walk", "done"} /\ node'[k] = node[k]
        /\ kpc[k] = "child" => todo[k] = <<>>
        /\ pending'[k] = pending[k] /\ visited'[k] = visited[k] /\ ksev'[k] = ksev[k]
        /\ UNCHANGED <<state, parked>>
    BY <1>1, <1>15 DEF NodeEnds, WalkEnds, KGoto
  <2>2. \A p : (ToDeliver(k, p)' <=> ToDeliver(k, p)) /\ (ToDescend(k, p)' <=> ToDescend(k, p))
    BY <2>1 DEF ToDeliver, ToDescend
  <2>3. \A p : Descended(k, p) => Descended(k, p)'
    BY <1>2, <2>1, EmptyIn DEF Descended
  <2>4. Walking(k) /\ Call[k].src \in visited'[k] /\ \A p \in visited[k] : state'[p] >= ksev'[k]
    BY <1>10, <1>15, <2>1 DEF Walk
  <2> QED BY <2>1, <2>2, <2>3, <2>4 DEF WalkCovers
<1> QED BY <1>6, <1>7, <1>8, <1>9, <1>11, <1>12, <1>13, <1>14, <1>15 DEF Begin, Walk

-----------------------------------------------------------------------------
(* The theorems *)

\* The invariant is inductive.
THEOREM IInvInvariant == Spec => []IInv
<1>1. Init => IInv
  <2> SUFFICES ASSUME Init PROVE IInv
    OBVIOUS
  <2>1. \A k \in Calls : Call[k].src \in Sources
    BY GraphAssumption
  <2>2. TypeOK
    BY <2>1 DEF Init, TypeOK
  <2>3. ParentsLive /\ FromFirst /\ AllRead /\ Inherited /\ ParkedAbove
    BY DEF Init, ParentsLive, FromFirst, AllRead, Inherited, ParkedAbove, Live
  <2>4. \A s \in Sources : \A i \in 1..Len(Parents[s]) : ~(i < idx[s]) /\ ~Linked(s, i)
    BY ParentsAre DEF Init, Linked
  <2>5. Listed /\ BornOrder
    BY <2>4 DEF Listed, BornOrder
  <2>6. \A k \in Calls : CallShape(k) /\ WalkCovers(k)
    BY DEF Init, CallShape, WalkCovers, Walking
  <2> QED BY <2>2, <2>3, <2>5, <2>6 DEF IInv, Built
<1>2. IInv /\ [Next]_vars => IInv'
  <2> SUFFICES ASSUME IInv, [Next]_vars PROVE IInv'
    OBVIOUS
  <2>1. TypeOK' /\ Built'
    BY TypeStep, BuiltStep DEF IInv
  <2>2. ASSUME NEW k \in Calls, NEW j \in Calls, Begin(j) \/ Walk(j)
        PROVE  CallShape(k)' /\ WalkCovers(k)'
    <3>1. CASE k = j
      BY <2>1, <2>2, <3>1, ShapeOwn, CoversOwn DEF IInv
    <3>2. CASE k # j
      <4>1. /\ UNCHANGED <<idx, csev>>
            /\ \A s \in Sources : state'[s] >= state[s]
            /\ \A s \in Sources : parked'[s] \subseteq parked[s]
            /\ kpc'[k] = kpc[k] /\ ksev'[k] = ksev[k] /\ pending'[k] = pending[k]
            /\ visited'[k] = visited[k] /\ node'[k] = node[k] /\ nsev'[k] = nsev[k]
            /\ todo'[k] = todo[k]
        BY <2>2, <3>2, CallFrame DEF IInv
      <4>2. CallShape(k)'
        BY <4>1 DEF IInv, CallShape, Walking
      <4>3. WalkCovers(k)'
        BY <2>1, <4>1, CoversFrame DEF IInv
      <4> QED BY <4>2, <4>3
    <3> QED BY <3>1, <3>2
  <2>3. ASSUME NEW k \in Calls, UNCHANGED callVars PROVE CallShape(k)'
    BY <2>3 DEF IInv, callVars, CallShape, Walking
  <2>4. ASSUME NEW k \in Calls, NEW s \in Sources, Construct(s) \/ \E f \in Floors : Park(s, f)
        PROVE  CallShape(k)' /\ WalkCovers(k)'
    <3>1. CallShape(k)'
      BY <2>3, <2>4, NewFrame
    <3>2. WalkCovers(k)'
      BY <2>1, <2>4, CoversNew DEF IInv
    <3> QED BY <3>1, <3>2
  <2>5. ASSUME NEW k \in Calls, UNCHANGED vars PROVE CallShape(k)' /\ WalkCovers(k)'
    <3>1. UNCHANGED <<callVars, idx, csev, state, parked>>
      BY <2>5 DEF vars, newVars
    <3>2. \A s \in Sources : state'[s] >= state[s] /\ parked'[s] \subseteq parked[s]
      BY <3>1, Types DEF IInv
    <3>3. WalkCovers(k)'
      BY <2>1, <3>1, <3>2, CoversFrame DEF IInv, callVars
    <3> QED BY <2>3, <3>1, <3>3
  <2>6. \A k \in Calls : CallShape(k)' /\ WalkCovers(k)'
    BY <2>2, <2>4, <2>5 DEF Next, Finished
  <2> QED BY <2>1, <2>6 DEF IInv
<1> QED BY <1>1, <1>2, PTL DEF Spec

\* The variables of the graph and of the calls keep their types.
THEOREM TypeCorrect == Spec => []TypeOK
<1>1. IInv => TypeOK
  BY DEF IInv
<1> QED BY <1>1, IInvInvariant, PTL

\* The source and the severity of a call, and what is below its source.
LEMMA CallReach ==
  ASSUME NEW k \in Calls
  PROVE  /\ Call[k].src \in Sources /\ Call[k].sev \in Severities
         /\ Reach[Call[k].src] =
              {s \in Sources :
                 \A X \in SUBSET Sources : Call[k].src \in X /\ Closed(X) => s \in X}
<1>1. Call[k].src \in Sources /\ Call[k].sev \in Severities
  BY GraphAssumption
<1> QED BY <1>1 DEF Reach

\* Where a walk has ended the sources it visited, the ones born with its
\* severity and the ones under construction hold all that is below its source.
LEMMA Covered ==
  ASSUME IInv, NEW k \in Calls, kpc[k] = "done", Walking(k), NEW r \in Reach[Call[k].src], Live(r)
  PROVE  r \in Sources /\ (r \in visited[k] \/ csev[r] >= ksev[k])
<1> DEFINE X == {s \in Sources : s \in visited[k] \/ csev[s] >= ksev[k] \/ ~Live(s)}
<1>1. Call[k].src \in X
  <2>1. Call[k].src \in Sources
    BY CallReach
  <2> QED BY <2>1 DEF IInv, WalkCovers
<1>2. ASSUME NEW p \in X, NEW s \in Sources, IsParent(p, s), Live(s) PROVE s \in X
  <2>1. PICK i \in 1..Len(Parents[s]) : Parents[s][i] = p
    BY <1>2 DEF IsParent
  <2>2. i < idx[s] /\ Live(p) /\ p \in Sources
    BY <1>2, <2>1, ParentsAre DEF IInv, Built, AllRead, ParentsLive, Live
  <2>3. /\ csev[s] \in Nat /\ csev[p] \in Nat /\ ksev[k] \in Nat /\ idx[s] \in Nat /\ i \in Nat
    <3>1. TypeOK
      BY DEF IInv
    <3> QED BY <2>2, <3>1, Types, ParentsAre
  <2>4. CASE csev[p] >= ksev[k]
    <3>1. csev[s] >= csev[p]
      BY <2>1, <2>2 DEF IInv, Built, BornOrder
    <3> QED BY <2>3, <2>4, <3>1
  <2>5. CASE p \in visited[k]
    <3>1. ~ToDescend(k, p)
      BY EmptyIn DEF IInv, CallShape, ToDescend
    <3>2. Descended(k, p)
      BY <2>5, <3>1 DEF IInv, WalkCovers
    <3>3. s \in visited[k] \/ i >= idx[s] \/ csev[s] >= ksev[k]
      BY <2>1, <3>2 DEF Descended
    <3> QED BY <2>2, <2>3, <3>3
  <2> QED BY <1>2, <2>2, <2>4, <2>5
<1>3. Closed(X)
  BY <1>2 DEF Closed
<1>4. X \in SUBSET Sources
  OBVIOUS
<1>5. r \in Sources /\ r \in X
  <2> HIDE DEF X
  <2> QED BY <1>1, <1>3, <1>4, CallReach
<1> QED BY <1>5

\* When cancel! returns, every source below its source has its severity.
THEOREM CancelIsComplete == Spec => []CancelMarksSubtree
<1>1. IInv => CancelMarksSubtree
  <2> SUFFICES ASSUME IInv, NEW k \in Calls, kpc[k] = "done", Call[k].op = "cancel",
                      NEW s \in Reach[Call[k].src], Live(s)
               PROVE  state[s] >= Call[k].sev
    BY DEF CancelMarksSubtree
  <2>1. ksev[k] = Call[k].sev /\ Walking(k)
    <3>1. Call[k].sev # 0
      BY CallReach DEF Severities
    <3>2. ksev[k] = Call[k].sev
      BY DEF IInv, CallShape
    <3> QED BY <3>1, <3>2 DEF Walking
  <2>2. s \in Sources /\ (s \in visited[k] \/ csev[s] >= ksev[k])
    BY <2>1, Covered
  <2>3. state[s] \in Nat /\ csev[s] \in Nat /\ ksev[k] \in Nat
    BY <2>2, Types DEF IInv
  <2>4. CASE s \in visited[k]
    BY <2>1, <2>4 DEF IInv, WalkCovers
  <2>5. CASE csev[s] >= ksev[k]
    <3>1. state[s] >= csev[s]
      BY <2>2 DEF IInv, Built, Inherited
    <3> QED BY <2>1, <2>3, <2>5, <3>1
  <2> QED BY <2>2, <2>4, <2>5
<1> QED BY <1>1, IInvInvariant, PTL

\* When cancel! or redeliver! returns, no wait it reaches is parked below its
\* source.
THEOREM CancelWakes == Spec => []CancelWakesSubtree
<1>1. IInv => CancelWakesSubtree
  <2> SUFFICES ASSUME IInv, NEW k \in Calls, kpc[k] = "done", Call[k].op # "mark",
                      NEW s \in Reach[Call[k].src], NEW f \in parked[s]
               PROVE  f > ksev[k]
    BY DEF CancelWakesSubtree
  <2>1. s \in Sources
    BY CallReach
  <2>2. ksev[k] \in Nat /\ csev[s] \in Nat /\ f \in Nat \ {0}
    <3>1. parked[s] \subseteq Floors
      BY <2>1 DEF IInv, TypeOK
    <3> QED BY <2>1, <3>1, Types, GraphAssumption DEF IInv
  <2>3. Live(s) /\ f > csev[s]
    BY <2>1 DEF IInv, Built, ParkedAbove
  <2>4. CASE ksev[k] = 0
    BY <2>2, <2>4
  <2>5. CASE Walking(k)
    <3>1. s \in visited[k] \/ csev[s] >= ksev[k]
      BY <2>3, <2>5, Covered
    <3>2. CASE s \in visited[k]
      <4>1. ~ToDeliver(k, s)
        BY EmptyIn DEF IInv, CallShape, ToDeliver
      <4> QED BY <2>5, <3>2, <4>1 DEF IInv, WalkCovers
    <3>3. CASE csev[s] >= ksev[k]
      BY <2>2, <2>3, <3>3
    <3> QED BY <3>1, <3>2, <3>3
  <2> QED BY <2>4, <2>5 DEF Walking
<1> QED BY <1>1, IInvInvariant, PTL

-----------------------------------------------------------------------------
(***************************************************************************)
(* Closure of the subtree.  A walk that finds a source more severely       *)
(* cancelled than itself carries that severity on, but does not queue a    *)
(* child it has visited; a mark does not descend into a source that        *)
(* somebody has marked before.  Neither loses a severity, because one      *)
(* above 1 comes from a call of cancel! above, whose own walk covers all   *)
(* that is below, and the marks only ever carry a 1.                       *)
(***************************************************************************)
Above(k, p) == Walking(k) /\ p \in Reach[Call[k].src]
Caused(p, v) == v <= 1 \/ \E k \in Calls : Above(k, p) /\ ksev[k] >= v

\* The lists hold children, and a walk stays below the source of its call.
ListSound == \A p, s \in Sources : In(children[p], s) => IsParent(p, s)
Below(k) ==
  /\ visited[k] \subseteq Reach[Call[k].src]
  /\ kpc[k] = "child" => \A s \in Sources : In(todo[k], s) => IsParent(node[k], s)
  /\ kpc[k] \in {"mark", "markhead"} => ksev[k] = 1

\* A severity above 1 comes from a walk above: in the state of a source, in
\* what its constructor has read, and in what a walk has read.
CauseInv ==
  /\ \A p \in Sources : Caused(p, state[p]) /\ Caused(p, csev[p])
  /\ \A k \in Calls : kpc[k] \in {"deliver", "head", "child"} => Caused(node[k], nsev[k])

\* A mark on its way from p to s.
MarkOnWay(k, p, s) ==
  \/ kpc[k] = "markhead" /\ node[k] = p
  \/ kpc[k] \in {"mark", "markhead"} /\ In(pending[k], s)

\* A child that has read its parent is cancelled if the parent is, or will be.
EdgeInv ==
  \A s \in Sources : \A i \in 1..Len(Parents[s]) :
    i < idx[s] /\ state[Parents[s][i]] # 0 =>
      \/ state[s] # 0 \/ csev[s] # 0
      \/ \E k \in Calls : Above(k, Parents[s][i]) \/ MarkOnWay(k, Parents[s][i], s)

GInv == ListSound /\ (\A k \in Calls : Below(k)) /\ CauseInv /\ EdgeInv

-----------------------------------------------------------------------------
\* The members of a concatenation.
LEMMA ConcatIn ==
  ASSUME NEW S, NEW q \in Seq(S), NEW r \in Seq(S), NEW y, In(q, y) \/ In(r, y)
  PROVE  In(q \o r, y)
<1>1. /\ Len(q) \in Nat /\ Len(r) \in Nat /\ Len(q \o r) = Len(q) + Len(r)
      /\ \A i \in 1..Len(q) : (q \o r)[i] = q[i]
      /\ \A i \in 1..Len(r) : (q \o r)[Len(q) + i] = r[i]
  OBVIOUS
<1>2. CASE In(q, y)
  <2>1. PICK i \in 1..Len(q) : q[i] = y
    BY <1>2 DEF In
  <2>2. i \in 1..Len(q \o r) /\ (q \o r)[i] = y
    BY <1>1, <2>1
  <2> QED BY <2>2 DEF In
<1>3. CASE In(r, y)
  <2>1. PICK i \in 1..Len(r) : r[i] = y
    BY <1>3 DEF In
  <2>2. Len(q) + i \in 1..Len(q \o r) /\ (q \o r)[Len(q) + i] = y
    BY <1>1, <2>1
  <2> QED BY <2>2 DEF In
<1> QED BY <1>2, <1>3

\* A source is below itself, and its children are below whatever it is below.
LEMMA ReachSteps ==
  /\ \A r \in Sources : r \in Reach[r]
  /\ \A r, p, s \in Sources : p \in Reach[r] /\ IsParent(p, s) => s \in Reach[r]
<1>1. \A r \in Sources : Reach[r] =
        {s \in Sources : \A X \in SUBSET Sources : r \in X /\ Closed(X) => s \in X}
  BY DEF Reach
<1>2. ASSUME NEW r \in Sources, NEW p \in Sources, NEW s \in Sources,
             p \in Reach[r], IsParent(p, s), NEW X \in SUBSET Sources, r \in X, Closed(X)
      PROVE  s \in X
  <2>1. p \in X
    BY <1>1, <1>2
  <2> QED BY <1>2, <2>1 DEF Closed
<1> QED BY <1>1, <1>2

\* A walk, once begun, keeps its severity, also after its end.
LEMMA WalksStay ==
  ASSUME IInv, [Next]_vars, NEW k \in Calls, Walking(k)
  PROVE  Walking(k)' /\ ksev'[k] = ksev[k]
<1>0. TypeOK /\ kpc[k] # "call"
  BY DEF IInv, CallShape, Walking
<1>1. ASSUME NEW j \in Calls, Begin(j) \/ Walk(j) PROVE ksev'[k] = ksev[k]
  <2>1. CASE j # k
    BY <1>0, <1>1, <2>1, CallFrame
  <2>2. CASE j = k
    BY <1>0, <1>1, <2>2 DEF Begin, Cancel, Redeliver, RedeliverNothing, Mark, Walk, WalkNode,
      Deliver, WalkHead, RaiseChild, NodeEnds, WalkEnds, MarkNode, MarkHead, MarkEnds
  <2> QED BY <2>1, <2>2
<1>2. ASSUME NEW s \in Sources, Construct(s) \/ \E f \in Floors : Park(s, f)
      PROVE  ksev'[k] = ksev[k]
  BY <1>2, NewFrame DEF callVars
<1>3. ASSUME UNCHANGED vars PROVE ksev'[k] = ksev[k]
  BY <1>3 DEF vars, callVars
<1>4. ksev'[k] = ksev[k]
  BY <1>1, <1>2, <1>3 DEF Next, Finished
<1> QED BY <1>4 DEF Walking

\* So what has a cause keeps it.
LEMMA CausedKept ==
  ASSUME IInv, [Next]_vars
  PROVE  /\ \A k \in Calls, p \in Sources : Above(k, p) => Above(k, p)'
         /\ \A p \in Sources, v \in Nat : Caused(p, v) => Caused(p, v)'
<1>1. \A k \in Calls, p \in Sources : Above(k, p) => Above(k, p)'
  <2>1. ASSUME NEW k \in Calls, NEW p \in Sources, Above(k, p) PROVE Above(k, p)'
    <3>1. Walking(k)'
      BY <2>1, WalksStay DEF Above
    <3> QED BY <2>1, <3>1 DEF Above
  <2> QED BY <2>1
<1>2. ASSUME NEW p \in Sources, NEW v \in Nat, Caused(p, v) PROVE Caused(p, v)'
  <2>1. CASE v <= 1
    BY <2>1 DEF Caused
  <2>2. CASE \E k \in Calls : Above(k, p) /\ ksev[k] >= v
    <3>1. PICK k \in Calls : Above(k, p) /\ ksev[k] >= v
      BY <2>2
    <3>2. Above(k, p)' /\ ksev'[k] >= v
      BY <1>1, <3>1, WalksStay DEF Above
    <3> QED BY <3>2 DEF Caused
  <2> QED BY <1>2, <2>1, <2>2 DEF Caused
<1> QED BY <1>1, <1>2

\* What is caused at a parent is caused at its children.
LEMMA CausedBelow ==
  ASSUME NEW p \in Sources, NEW s \in Sources, IsParent(p, s), NEW v \in Nat, Caused(p, v)
  PROVE  Caused(s, v)
<1>1. \A k \in Calls : Call[k].src \in Sources
  BY GraphAssumption
<1> QED BY <1>1, ReachSteps DEF Caused, Above

-----------------------------------------------------------------------------
\* To keep CauseInv it is enough that what is read or written has a cause now.
LEMMA CauseStep ==
  ASSUME IInv, [Next]_vars, TypeOK',
         \A p \in Sources : Caused(p, state'[p]) /\ Caused(p, csev'[p]),
         \A k \in Calls : kpc'[k] \in {"deliver", "head", "child"} => Caused(node'[k], nsev'[k])
  PROVE  CauseInv'
<1>0. /\ \A p \in Sources : state'[p] \in Nat /\ csev'[p] \in Nat
      /\ \A k \in Calls : nsev'[k] \in Nat /\ node'[k] \in Sources
  <2>1. {0} \cup Severities \subseteq Nat
    BY DEF Severities
  <2> QED BY <2>1 DEF TypeOK
<1>1. ASSUME NEW p \in Sources PROVE Caused(p, state[p])' /\ Caused(p, csev[p])'
  <2>1. PICK u \in Nat, v \in Nat : u = state'[p] /\ v = csev'[p]
    BY <1>0
  <2>2. Caused(p, u)' /\ Caused(p, v)'
    BY <2>1, CausedKept
  <2> QED BY <2>1, <2>2 DEF Caused
<1>2. ASSUME NEW k \in Calls, (kpc[k] \in {"deliver", "head", "child"})'
      PROVE  Caused(node[k], nsev[k])'
  <2>1. PICK p \in Sources, v \in Nat : p = node'[k] /\ v = nsev'[k]
    BY <1>0
  <2>2. Caused(p, v)
    BY <1>2, <2>1
  <2>3. Caused(p, v)'
    BY <2>2, CausedKept
  <2> QED BY <2>1, <2>3 DEF Caused, Above
<1> QED BY <1>1, <1>2 DEF CauseInv

\* Constructors and waits keep it: a source reads what its parent has after its
\* link is published, and has no child before it is returned.
LEMMA GraphNew ==
  ASSUME IInv, GInv, [Next]_vars, NEW s \in Sources, Construct(s) \/ \E f \in Floors : Park(s, f)
  PROVE  GInv'
<1>0. /\ UNCHANGED <<kpc, ksev, pending, visited, node, nsev, todo>>
      /\ TypeOK /\ Built /\ TypeOK'
  BY NewFrame, TypeStep DEF callVars, IInv
<1>1. \A k \in Calls : Below(k)'
  BY <1>0 DEF GInv, Below
<1>2. ListSound'
  <2>1. CASE Link(s)
    <3>1. PICK p : p = Parents[s][idx[s]]
      OBVIOUS
    <3>2. p \in Sources /\ IsParent(p, s)
      <4>1. idx[s] \in 1..Len(Parents[s])
        BY <1>0, <2>1, ParentsAre DEF Link, TypeOK
      <4> QED BY <3>1, <4>1, ParentsAre DEF IsParent
    <3>3. children' = [children EXCEPT ![p] = <<s>> \o @] /\ children \in [Sources -> Seq(Sources)]
      BY <1>0, <2>1, <3>1 DEF Link, TypeOK
    <3>4. ASSUME NEW r \in Sources, NEW c \in Sources, In(children'[r], c) PROVE IsParent(r, c)
      <4>1. CASE r # p
        BY <3>3, <3>4, <4>1 DEF GInv, ListSound
      <4>2. CASE r = p
        <5>1. In(<<s>> \o children[p], c)
          BY <3>2, <3>3, <3>4, <4>2
        <5>2. In(children[p], c) \/ c = s
          BY <3>2, <3>3, <5>1, PrependIn
        <5> QED BY <3>2, <4>2, <5>2 DEF GInv, ListSound
      <4> QED BY <4>1, <4>2
    <3> QED BY <3>4 DEF ListSound
  <2>2. CASE ~Link(s)
    BY <2>2 DEF Construct, Create, ReadParent, Inherit, Park, GInv, ListSound
  <2> QED BY <2>1, <2>2
<1>3. \A r \in Sources : Caused(r, csev'[r])
  <2>1. CASE ReadParent(s)
    <3>1. PICK p : p = Parents[s][idx[s]]
      OBVIOUS
    <3>2. p \in Sources /\ IsParent(p, s)
      <4>1. idx[s] \in 1..Len(Parents[s])
        BY <1>0, <2>1, ParentsAre DEF ReadParent, TypeOK
      <4> QED BY <3>1, <4>1, ParentsAre DEF IsParent
    <3>3. \A r \in Sources : csev'[r] = IF r = s THEN Larger(csev[s], state[p]) ELSE csev[r]
      BY <1>0, <2>1, <3>1 DEF ReadParent, TypeOK
    <3>4. Caused(s, csev[s]) /\ Caused(s, state[p])
      <4>1. Caused(p, state[p]) /\ state[p] \in Nat
        BY <1>0, <3>2, Types DEF GInv, CauseInv
      <4> QED BY <3>2, <4>1, CausedBelow DEF GInv, CauseInv
    <3> QED BY <3>3, <3>4 DEF Larger, GInv, CauseInv
  <2>2. CASE ~ReadParent(s)
    BY <2>2 DEF Construct, Create, Link, Inherit, Park, newVars, GInv, CauseInv
  <2> QED BY <2>1, <2>2
<1>4. \A r \in Sources : Caused(r, state'[r])
  <2>1. CASE Inherit(s)
    <3>1. \A r \in Sources : state'[r] = IF r = s THEN Larger(state[s], csev[s]) ELSE state[r]
      BY <1>0, <2>1 DEF Inherit, Raise, TypeOK
    <3> QED BY <3>1 DEF Larger, GInv, CauseInv
  <2>2. CASE ~Inherit(s)
    BY <2>2 DEF Construct, Create, Link, ReadParent, Park, GInv, CauseInv
  <2> QED BY <2>1, <2>2
<1>5. CauseInv'
  BY <1>0, <1>3, <1>4, CauseStep DEF GInv, CauseInv
<1>6. EdgeInv'
  <2> SUFFICES ASSUME NEW c \in Sources, NEW i \in 1..Len(Parents[c]), i < idx'[c],
                      NEW p \in Sources, p = Parents[c][i], state'[p] # 0,
                      state'[c] = 0, csev'[c] = 0
               PROVE  \E k \in Calls : Above(k, p)' \/ MarkOnWay(k, p, c)'
    BY ParentsAre DEF EdgeInv
  <2>1. i < idx[c]
    <3>1. CASE ReadParent(s) /\ c = s
      <4>1. csev'[s] = Larger(csev[s], state[Parents[s][idx[s]]]) /\ idx'[s] = idx[s] + 1
            /\ state' = state
        BY <1>0, <3>1 DEF ReadParent, TypeOK
      <4>2. i # idx[s]
        <5>1. csev[s] \in Nat /\ state[p] \in Nat
          BY <1>0, Types
        <5> QED BY <3>1, <4>1, <5>1 DEF Larger
      <4> QED BY <1>0, <3>1, <4>1, <4>2, Types
    <3>2. CASE ReadParent(s) /\ c # s
      BY <1>0, <3>2 DEF ReadParent, TypeOK
    <3>3. CASE ~ReadParent(s)
      BY <3>3 DEF Construct, Create, Link, Inherit, Park, newVars
    <3> QED BY <3>1, <3>2, <3>3
  <2>2. Live(p)
    <3>1. idx[c] # 1
      BY <1>0, <2>1, Types, ParentsAre
    <3>2. pc[c] # "none"
      BY <1>0, <3>1 DEF Built, FromFirst
    <3> QED BY <1>0, <3>2 DEF Built, ParentsLive
  <2>3. state[p] # 0
    BY <1>0, <2>2 DEF Construct, Create, Link, ReadParent, Inherit, Raise, Park, Live, TypeOK
  <2>4. state[c] = 0 /\ csev[c] = 0
    <3>1. state[c] \in Nat /\ csev[c] \in Nat /\ (\A r \in Sources : state[r] \in Nat /\ csev[r] \in Nat)
      BY <1>0, Types
    <3>2. state'[c] >= state[c] /\ csev'[c] >= csev[c]
      <4>1. CASE ReadParent(s)
        <5>1. Parents[s][idx[s]] \in Sources
          BY <1>0, <4>1, ParentsAre DEF ReadParent, TypeOK
        <5>2. csev'[c] = (IF c = s THEN Larger(csev[s], state[Parents[s][idx[s]]]) ELSE csev[c])
              /\ state' = state
          BY <1>0, <4>1 DEF ReadParent, TypeOK
        <5>3. Larger(csev[s], state[Parents[s][idx[s]]]) >= csev[s]
          BY <3>1, <5>1 DEF Larger
        <5> QED BY <3>1, <5>2, <5>3
      <4>2. CASE Inherit(s)
        BY <1>0, <3>1, <4>2 DEF Inherit, Raise, Larger, TypeOK
      <4>3. CASE ~ReadParent(s) /\ ~Inherit(s)
        <5>1. UNCHANGED <<state, csev>>
          BY <4>3 DEF Construct, Create, Link, Park, newVars
        <5> QED BY <3>1, <5>1
      <4> QED BY <4>1, <4>2, <4>3
    <3> QED BY <3>1, <3>2
  <2>5. PICK k \in Calls : Above(k, p) \/ MarkOnWay(k, p, c)
    BY <2>1, <2>3, <2>4 DEF GInv, EdgeInv
  <2>6. Above(k, p) => Above(k, p)'
    BY CausedKept
  <2>7. MarkOnWay(k, p, c) => MarkOnWay(k, p, c)'
    BY <1>0 DEF MarkOnWay
  <2> QED BY <2>5, <2>6, <2>7
<1> QED BY <1>1, <1>2, <1>5, <1>6 DEF GInv

-----------------------------------------------------------------------------
\* A step of a call raises one source at most: the source of the call, a child
\* of the one at hand, or the one a mark is at.
LEMMA RaiseEffect ==
  ASSUME IInv, NEW k \in Calls, Begin(k) \/ Walk(k)
  PROVE  \/ UNCHANGED state
         \/ \E c \in Sources, v \in Nat :
              /\ \A s \in Sources : state'[s] = IF s = c THEN Larger(state[c], v) ELSE state[s]
              /\ \/ Cancel(k) /\ c = Call[k].src /\ v = Call[k].sev
                 \/ RaiseChild(k) /\ In(todo[k], c) /\ v = nsev[k]
                 \/ MarkNode(k) /\ c = pending[k][Len(pending[k])] /\ v = ksev[k]
<1>0. TypeOK
  BY DEF IInv
<1>1. CASE Cancel(k)
  <2>1. Call[k].src \in Sources /\ Call[k].sev \in Nat
    BY GraphAssumption DEF Severities
  <2> QED BY <1>0, <1>1, <2>1 DEF Cancel, Raise, TypeOK
<1>2. CASE RaiseChild(k)
  <2>1. PICK c : c = Head(todo[k])
    OBVIOUS
  <2>2. c \in Sources /\ In(todo[k], c) /\ nsev[k] \in Nat
    <3>1. todo[k] \in Seq(Sources) /\ todo[k] # <<>> /\ nsev[k] \in Nat
      BY <1>0, <1>2, Types DEF RaiseChild
    <3> QED BY <2>1, <3>1, TailIn
  <2>3. \A s \in Sources : state'[s] = IF s = c THEN Larger(state[c], nsev[k]) ELSE state[s]
    BY <1>0, <1>2, <2>1, <2>2 DEF RaiseChild, Raise, TypeOK
  <2> QED BY <1>2, <2>2, <2>3
<1>3. CASE MarkNode(k)
  <2>1. PICK c : c = pending[k][Len(pending[k])]
    OBVIOUS
  <2>2. c \in Sources /\ ksev[k] \in Nat
    <3>1. pending[k] \in Seq(Sources) /\ pending[k] # <<>> /\ ksev[k] \in Nat
      BY <1>0, <1>3, Types DEF MarkNode
    <3> QED BY <2>1, <3>1, FrontIn
  <2>3. \A s \in Sources : state'[s] = IF s = c THEN Larger(state[c], ksev[k]) ELSE state[s]
    BY <1>0, <1>3, <2>1, <2>2 DEF MarkNode, Raise, TypeOK
  <2> QED BY <1>3, <2>1, <2>2, <2>3
<1> QED BY <1>1, <1>2, <1>3 DEF Begin, Redeliver, RedeliverNothing, Mark, Walk, WalkNode, Deliver,
      WalkHead, NodeEnds, WalkEnds, MarkHead, MarkEnds

\* The walk k stays below the source of its call.
LEMMA BelowOwn ==
  ASSUME IInv, GInv, NEW k \in Calls, Begin(k) \/ Walk(k)
  PROVE  Below(k)'
<1>0. /\ kpc \in [Calls -> {"call", "walk", "deliver", "head", "child", "mark", "markhead", "done"}]
      /\ ksev \in [Calls -> {0} \cup Severities]
      /\ visited \in [Calls -> SUBSET Sources] /\ node \in [Calls -> Sources]
      /\ todo \in [Calls -> Seq(Sources)] /\ children \in [Sources -> Seq(Sources)]
  BY DEF IInv, TypeOK
<1>1. /\ Below(k) /\ CallShape(k)
      /\ Call[k].src \in Sources /\ Call[k].src \in Reach[Call[k].src]
  BY ReachSteps, GraphAssumption DEF GInv, IInv
<1>2. CASE Cancel(k) \/ Redeliver(k)
  BY <1>0, <1>1, <1>2 DEF Cancel, Redeliver, StartWalk, KGoto, Below
<1>3. CASE Mark(k)
  <2>1. Call[k].sev = 1
    BY <1>3, GraphAssumption DEF Mark
  <2> QED BY <1>0, <1>1, <1>3, <2>1 DEF Mark, StartWalk, KGoto, Below
<1>4. CASE RedeliverNothing(k) \/ WalkNode(k) \/ Deliver(k) \/ NodeEnds(k) \/ WalkEnds(k)
             \/ MarkNode(k) \/ MarkHead(k) \/ MarkEnds(k)
  BY <1>0, <1>1, <1>4 DEF RedeliverNothing, WalkNode, Deliver, NodeEnds, WalkEnds, MarkNode,
    MarkHead, MarkEnds, KGoto, Below
<1>5. CASE WalkHead(k)
  <2>1. \A s \in Sources : In(children[node[k]], s) => IsParent(node[k], s)
    BY <1>0 DEF GInv, ListSound
  <2> QED BY <1>0, <1>1, <1>5, <2>1 DEF WalkHead, KGoto, Below
<1>6. CASE RaiseChild(k)
  <2>1. PICK c : c = Head(todo[k])
    OBVIOUS
  <2>2. todo[k] \in Seq(Sources) /\ todo[k] # <<>> /\ kpc[k] = "child" /\ node[k] \in Sources
    BY <1>0, <1>6 DEF RaiseChild
  <2>3. c \in Sources /\ In(todo[k], c) /\ \A s : In(Tail(todo[k]), s) => In(todo[k], s)
    BY <2>1, <2>2, TailIn
  <2>4. c \in Reach[Call[k].src]
    <3>1. IsParent(node[k], c) /\ node[k] \in Reach[Call[k].src]
      BY <1>1, <2>2, <2>3 DEF Below, CallShape
    <3> QED BY <1>1, <2>2, <2>3, <3>1, ReachSteps
  <2>5. /\ visited'[k] = visited[k] \cup {c} /\ todo'[k] = Tail(todo[k])
        /\ kpc'[k] = kpc[k] /\ node'[k] = node[k] /\ ksev'[k] = ksev[k]
    BY <1>0, <1>6, <2>1 DEF RaiseChild
  <2> QED BY <1>1, <2>2, <2>3, <2>4, <2>5 DEF Below
<1> QED BY <1>2, <1>3, <1>4, <1>5, <1>6 DEF Begin, Walk

\* What a call writes, or reads to carry on, has a cause.
LEMMA CauseOwn ==
  ASSUME IInv, GInv, [Next]_vars, NEW k \in Calls, Begin(k) \/ Walk(k)
  PROVE  CauseInv'
<1>0. TypeOK /\ TypeOK' /\ UNCHANGED csev /\ Below(k) /\ CallShape(k) /\ WalkCovers(k)
  BY TypeStep, CallFrame DEF IInv, GInv
<1>1. ASSUME NEW p \in Sources PROVE Caused(p, state[p]) /\ Caused(p, csev[p])
  BY DEF GInv, CauseInv
<1>2. ASSUME NEW j \in Calls, kpc'[j] \in {"deliver", "head", "child"}
      PROVE  Caused(node'[j], nsev'[j])
  <2>1. CASE j # k
    BY <1>0, <1>2, <2>1, CallFrame DEF GInv, CauseInv
  <2>2. CASE j = k /\ WalkNode(k)
    <3>1. PICK n : n = pending[k][Len(pending[k])]
      OBVIOUS
    <3>2. pending[k] \in Seq(Sources) /\ pending[k] # <<>> /\ kpc[k] = "walk" /\ ksev[k] \in Nat
      BY <1>0, <2>2, Types DEF WalkNode
    <3>3. n \in Sources /\ In(pending[k], n)
      BY <3>1, <3>2, FrontIn
    <3>4. Walking(k) /\ n \in visited[k]
      BY <1>0, <3>2, <3>3 DEF CallShape, WalkCovers
    <3>5. Above(k, n)
      BY <1>0, <3>4 DEF Above, Below
    <3>6. Caused(n, ksev[k]) /\ Caused(n, state[n])
      BY <1>1, <3>2, <3>3, <3>5 DEF Caused
    <3>7. node'[k] = n /\ nsev'[k] = Larger(ksev[k], state[n])
      BY <1>0, <2>2, <3>1 DEF WalkNode, TypeOK
    <3> QED BY <2>2, <3>6, <3>7 DEF Larger
  <2>3. CASE j = k /\ ~WalkNode(k)
    <3>1. kpc[k] \in {"deliver", "head", "child"} /\ node'[k] = node[k] /\ nsev'[k] = nsev[k]
      BY <1>0, <1>2, <2>3, ZenonT(60) DEF Begin, Cancel, Redeliver, RedeliverNothing, Mark, StartWalk, Walk,
        Deliver, WalkHead, RaiseChild, NodeEnds, WalkEnds, MarkNode, MarkHead, MarkEnds, KGoto, TypeOK
    <3> QED BY <2>3, <3>1 DEF GInv, CauseInv
  <2> QED BY <2>1, <2>2, <2>3
<1>3. CASE UNCHANGED state
  BY <1>0, <1>1, <1>2, <1>3, CauseStep
<1>4. ASSUME NEW c \in Sources, NEW v \in Nat,
             \A s \in Sources : state'[s] = IF s = c THEN Larger(state[c], v) ELSE state[s],
             Caused(c, v)'
      PROVE  CauseInv'
  <2>1. ASSUME NEW p \in Sources PROVE Caused(p, state[p])' /\ Caused(p, csev[p])'
    <3>1. PICK u \in Nat, w \in Nat : u = state[p] /\ w = csev[p]
      BY <1>0, Types
    <3>2. Caused(p, u)' /\ Caused(p, w)'
      BY <1>1, <3>1, CausedKept
    <3>3. state'[p] = u \/ (p = c /\ state'[p] = v)
      BY <1>4, <3>1 DEF Larger
    <3> QED BY <1>0, <1>4, <3>1, <3>2, <3>3 DEF Caused
  <2>2. ASSUME NEW j \in Calls, (kpc[j] \in {"deliver", "head", "child"})'
        PROVE  Caused(node[j], nsev[j])'
    <3>1. PICK p \in Sources, w \in Nat : p = node'[j] /\ w = nsev'[j]
      <4>1. {0} \cup Severities \subseteq Nat
        BY DEF Severities
      <4> QED BY <1>0, <4>1 DEF TypeOK
    <3>2. Caused(p, w)'
      BY <1>2, <2>2, <3>1, CausedKept
    <3> QED BY <3>1, <3>2 DEF Caused, Above
  <2> QED BY <2>1, <2>2 DEF CauseInv
<1>5. CASE ~UNCHANGED state
  <2>1. PICK c \in Sources, v \in Nat :
          /\ \A s \in Sources : state'[s] = IF s = c THEN Larger(state[c], v) ELSE state[s]
          /\ \/ Cancel(k) /\ c = Call[k].src /\ v = Call[k].sev
             \/ RaiseChild(k) /\ In(todo[k], c) /\ v = nsev[k]
             \/ MarkNode(k) /\ c = pending[k][Len(pending[k])] /\ v = ksev[k]
    BY <1>5, RaiseEffect
  <2>2. CASE Cancel(k) /\ c = Call[k].src /\ v = Call[k].sev
    <3>1. Walking(k)' /\ ksev'[k] = v
      <4>1. Call[k].sev \in Severities
        BY GraphAssumption
      <4> QED BY <1>0, <2>2, <4>1 DEF Cancel, StartWalk, Walking, TypeOK, Severities
    <3>2. Above(k, c)'
      BY <2>2, <3>1, ReachSteps DEF Above
    <3>3. Caused(c, v)'
      BY <3>1, <3>2 DEF Caused
    <3> QED BY <1>4, <2>1, <3>3
  <2>3. CASE RaiseChild(k) /\ In(todo[k], c) /\ v = nsev[k]
    <3>1. kpc[k] = "child" /\ node[k] \in Sources
      BY <1>0, <2>3 DEF RaiseChild, TypeOK
    <3>2. IsParent(node[k], c) /\ Caused(node[k], v)
      BY <1>0, <2>3, <3>1 DEF Below, GInv, CauseInv
    <3>3. Caused(c, v)
      BY <3>1, <3>2, CausedBelow
    <3>4. Caused(c, v)'
      BY <3>3, CausedKept
    <3> QED BY <1>4, <2>1, <3>4
  <2>4. CASE MarkNode(k) /\ v = ksev[k]
    <3>1. v = 1
      BY <1>0, <2>4 DEF MarkNode, Below
    <3>2. Caused(c, v)'
      BY <3>1 DEF Caused
    <3> QED BY <1>4, <2>1, <3>2
  <2> QED BY <2>1, <2>2, <2>3, <2>4
<1> QED BY <1>3, <1>5

\* The severity a parent has is on its way to the child, whoever brings it.
LEMMA EdgeOwn ==
  ASSUME IInv, GInv, [Next]_vars, NEW k \in Calls, Begin(k) \/ Walk(k)
  PROVE  EdgeInv'
<1>0. /\ TypeOK /\ Built /\ UNCHANGED <<children, idx, csev>>
      /\ Below(k) /\ CallShape(k)
  BY CallFrame DEF IInv, GInv
<1> SUFFICES ASSUME NEW s \in Sources, NEW i \in 1..Len(Parents[s]), i < idx[s],
                    NEW p \in Sources, p = Parents[s][i], state'[p] # 0,
                    state'[s] = 0, csev[s] = 0
             PROVE  \E j \in Calls : Above(j, p)' \/ MarkOnWay(j, p, s)'
  BY <1>0, ParentsAre DEF EdgeInv
<1>1. state[s] = 0 /\ state[s] \in Nat /\ state[p] \in Nat
  <2>1. state[s] \in Nat /\ state[p] \in Nat /\ state'[s] >= state[s]
    BY <1>0, Types, CallFrame
  <2> QED BY <2>1
<1>2. CASE state[p] # 0
  <2>1. PICK j \in Calls : Above(j, p) \/ MarkOnWay(j, p, s)
    BY <1>1, <1>2 DEF GInv, EdgeInv
  <2>2. Above(j, p) => Above(j, p)'
    BY CausedKept
  <2>3. j # k /\ MarkOnWay(j, p, s) => MarkOnWay(j, p, s)'
    <3>1. j # k => kpc'[j] = kpc[j] /\ node'[j] = node[j] /\ pending'[j] = pending[j]
      BY <1>0, CallFrame
    <3> QED BY <3>1 DEF MarkOnWay
  <2>4. ASSUME j = k, MarkOnWay(k, p, s) PROVE MarkOnWay(k, p, s)'
    <3>1. MarkNode(k) \/ MarkHead(k) \/ MarkEnds(k)
      BY <2>4 DEF MarkOnWay, Begin, Cancel, Redeliver, RedeliverNothing, Mark, Walk, WalkNode,
        Deliver, WalkHead, RaiseChild, NodeEnds, WalkEnds
    <3>2. CASE MarkNode(k)
      <4>1. PICK n : n = pending[k][Len(pending[k])]
        OBVIOUS
      <4>2. kpc[k] = "mark" /\ In(pending[k], s)
        BY <2>4, <3>2 DEF MarkNode, MarkOnWay
      <4>3. /\ pending[k] \in Seq(Sources) /\ pending[k] # <<>>
            /\ pending'[k] = SubSeq(pending[k], 1, Len(pending[k]) - 1)
            /\ kpc'[k] \in {"mark", "markhead"}
        BY <1>0, <3>2, <4>2 DEF MarkNode, KGoto, TypeOK
      <4>4. n \in Sources /\ (In(pending'[k], s) \/ s = n)
        BY <4>1, <4>2, <4>3, FrontIn
      <4>5. s # n
        <5>1. state'[n] = Larger(state[n], 1)
          BY <1>0, <3>2, <4>1, <4>2, <4>4 DEF MarkNode, Raise, TypeOK, Below
        <5> QED BY <1>1, <5>1 DEF Larger
      <4> QED BY <4>3, <4>4, <4>5 DEF MarkOnWay
    <3>3. CASE MarkHead(k)
      <4>1. /\ pending[k] \in Seq(Sources) /\ node[k] \in Sources
            /\ children[node[k]] \in Seq(Sources)
            /\ pending'[k] = pending[k] \o children[node[k]] /\ kpc'[k] = "mark"
        BY <1>0, <3>3 DEF MarkHead, KGoto, TypeOK
      <4>2. In(pending[k], s) \/ In(children[node[k]], s)
        BY <1>0, <2>4 DEF MarkOnWay, Built, Listed, Linked
      <4>3. In(pending'[k], s)
        BY <4>1, <4>2, ConcatIn
      <4> QED BY <4>1, <4>3 DEF MarkOnWay
    <3>4. CASE MarkEnds(k)
      BY <2>4, <3>4, EmptyIn DEF MarkEnds, MarkOnWay
    <3> QED BY <3>1, <3>2, <3>3, <3>4
  <2> QED BY <2>1, <2>2, <2>3, <2>4
<1>3. CASE state[p] = 0
  <2>1. PICK c \in Sources, v \in Nat :
          /\ \A r \in Sources : state'[r] = IF r = c THEN Larger(state[c], v) ELSE state[r]
          /\ \/ Cancel(k) /\ c = Call[k].src /\ v = Call[k].sev
             \/ RaiseChild(k) /\ In(todo[k], c) /\ v = nsev[k]
             \/ MarkNode(k) /\ c = pending[k][Len(pending[k])] /\ v = ksev[k]
    BY <1>3, RaiseEffect
  <2>2. c = p
    BY <1>3, <2>1
  <2>3. CASE Cancel(k) /\ c = Call[k].src
    <3>1. Call[k].sev \in Severities
      BY GraphAssumption
    <3>3. Call[k].op = "cancel" /\ ksev'[k] = Call[k].sev
      BY <1>0, <2>3 DEF Cancel, StartWalk, TypeOK
    <3>2. Walking(k)'
      BY <3>1, <3>3 DEF Walking, Severities
    <3> QED BY <2>2, <2>3, <3>2, ReachSteps DEF Above
  <2>4. CASE RaiseChild(k) /\ In(todo[k], c)
    <3>1. kpc[k] = "child" /\ node[k] \in Sources /\ Call[k].src \in Sources
      BY <1>0, <2>4, GraphAssumption DEF RaiseChild, TypeOK
    <3>2. Walking(k) /\ node[k] \in Reach[Call[k].src] /\ IsParent(node[k], c)
      BY <1>0, <2>4, <3>1 DEF CallShape, Below
    <3>3. Above(k, p)
      BY <2>2, <3>1, <3>2, ReachSteps DEF Above
    <3> QED BY <3>3, CausedKept
  <2>5. CASE MarkNode(k) /\ c = pending[k][Len(pending[k])]
    <3>1. kpc[k] = "mark" /\ ksev[k] = 1
      BY <1>0, <2>5 DEF MarkNode, Below
    <3>2. kpc'[k] = "markhead" /\ node'[k] = p
      BY <1>0, <1>3, <2>2, <2>5, <3>1 DEF MarkNode, KGoto, TypeOK
    <3> QED BY <3>2 DEF MarkOnWay
  <2> QED BY <2>1, <2>3, <2>4, <2>5
<1> QED BY <1>2, <1>3

\* The parts together are inductive over IInv.
THEOREM GInvInvariant == Spec => []GInv
<1>1. Init => GInv
  <2> SUFFICES ASSUME Init PROVE GInv
    OBVIOUS
  <2>1. ListSound
    BY EmptyIn DEF Init, ListSound
  <2>2. \A k \in Calls : Below(k)
    BY DEF Init, Below
  <2>3. CauseInv
    BY DEF Init, CauseInv, Caused
  <2>4. EdgeInv
    BY ParentsAre DEF Init, EdgeInv
  <2> QED BY <2>1, <2>2, <2>3, <2>4 DEF GInv
<1>2. IInv /\ GInv /\ [Next]_vars => GInv'
  <2> SUFFICES ASSUME IInv, GInv, [Next]_vars PROVE GInv'
    OBVIOUS
  <2>1. ASSUME NEW k \in Calls, Begin(k) \/ Walk(k) PROVE GInv'
    <3>1. ListSound'
      BY <2>1, CallFrame DEF IInv, GInv, ListSound
    <3>2. ASSUME NEW j \in Calls PROVE Below(j)'
      <4>1. CASE j = k
        BY <2>1, <4>1, BelowOwn
      <4>2. CASE j # k
        BY <2>1, <4>2, CallFrame DEF IInv, GInv, Below
      <4> QED BY <4>1, <4>2
    <3> QED BY <2>1, <3>1, <3>2, CauseOwn, EdgeOwn DEF GInv
  <2>2. CASE UNCHANGED vars
    BY <2>2 DEF vars, newVars, callVars, GInv, ListSound, Below, CauseInv, Caused, EdgeInv,
      MarkOnWay, Above, Walking
  <2> QED BY <2>1, <2>2, GraphNew DEF Next, Finished
<1> QED BY <1>1, <1>2, IInvInvariant, PTL DEF Spec

\* When all constructors and calls have returned, no source is cancelled less
\* severely than a parent, whichever walk skipped it because another had marked
\* or visited it before.
THEOREM SubtreeIsClosed == Spec => []SubtreeClosed
<1>1. IInv /\ GInv => SubtreeClosed
  <2> SUFFICES ASSUME IInv, GInv, \A k \in Calls : kpc[k] \in {"call", "done"},
                      NEW p \in Sources, NEW s \in Sources, Live(s), IsParent(p, s)
               PROVE  state[s] >= state[p]
    BY DEF SubtreeClosed
  <2>0. /\ state[s] \in Nat /\ csev[s] \in Nat /\ state[p] \in Nat
        /\ \A k \in Calls : ksev[k] \in Nat
        /\ state[s] >= csev[s]
    BY Types DEF IInv, Built, Inherited
  <2>1. ASSUME NEW k \in Calls, Above(k, p) PROVE state[s] >= ksev[k]
    <3>1. kpc[k] = "done" /\ Walking(k)
      BY <2>1 DEF Above, Walking, IInv, CallShape
    <3>2. s \in Reach[Call[k].src]
      BY <2>1, ReachSteps, GraphAssumption DEF Above
    <3>3. s \in visited[k] \/ csev[s] >= ksev[k]
      BY <3>1, <3>2, Covered
    <3>4. CASE s \in visited[k]
      BY <3>1, <3>4 DEF IInv, WalkCovers
    <3>5. CASE csev[s] >= ksev[k]
      BY <2>0, <3>5
    <3> QED BY <3>3, <3>4, <3>5
  <2>2. CASE state[p] > 1
    <3>1. PICK k \in Calls : Above(k, p) /\ ksev[k] >= state[p]
      BY <2>0, <2>2 DEF GInv, CauseInv, Caused
    <3> QED BY <2>0, <2>1, <3>1
  <2>3. CASE state[p] = 1
    <3>1. PICK i \in 1..Len(Parents[s]) : Parents[s][i] = p
      BY DEF IsParent
    <3>2. i < idx[s]
      BY <3>1 DEF IInv, Built, AllRead, Live
    <3>3. \/ state[s] # 0 \/ csev[s] # 0
          \/ \E k \in Calls : Above(k, p) \/ MarkOnWay(k, p, s)
      BY <2>3, <3>1, <3>2 DEF GInv, EdgeInv
    <3>4. \A k \in Calls : ~MarkOnWay(k, p, s)
      BY DEF MarkOnWay
    <3>5. ASSUME NEW k \in Calls, Above(k, p) PROVE state[s] >= 1
      <4>1. ksev[k] >= 1
        BY <2>0, <3>5 DEF Above, Walking
      <4> QED BY <2>0, <2>1, <3>5, <4>1
    <3> QED BY <2>0, <2>3, <3>3, <3>4, <3>5
  <2>4. CASE state[p] = 0
    BY <2>0, <2>4
  <2> QED BY <2>0, <2>2, <2>3, <2>4
<1> QED BY <1>1, IInvInvariant, GInvInvariant, PTL
====
