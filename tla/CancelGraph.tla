---------------------------- MODULE CancelGraph ----------------------------
(***************************************************************************)
(* The graph of cancellation token sources.  A source is constructed under *)
(* its parents (jl_new_cancel_source, src/task.c) and inherits their       *)
(* cancellation; cancel! and redeliver! (base/cancellation.jl) and the ^C  *)
(* handler's jl_cancel_subtree_mark (src/signal-handling.c) propagate a    *)
(* severity down the graph.  All of them run at once, without a lock on    *)
(* the graph: a constructor publishes its link, then reads the parent's    *)
(* state; a walk writes the state, then reads the links.                   *)
(*                                                                         *)
(* Delivery at a source is taken whole: what module Park shows of it is    *)
(* that a wait parks only while the state is below its floor and that a    *)
(* walk leaves nobody parked whom its severity reaches.                    *)
(***************************************************************************)
EXTENDS Naturals, Sequences

CONSTANTS
  Sources,   \* cancellation token sources
  Parents,   \* Parents[s]: the parents s is constructed under, in order
  Calls,     \* calls of cancel!, redeliver! and jl_cancel_subtree_mark
  Call,      \* Call[k]: the operation, its source and its severity, which
             \* jl_sigint_request_cancellation always passes as 0x1
  Floors     \* floors of the waits that park under a source

Severities == {1, 3, 4}

ASSUME GraphAssumption ==
  /\ Parents \in [Sources -> Seq(Sources)]
  /\ Call \in [Calls -> [op : {"cancel", "redeliver", "mark"}, src : Sources,
                         sev : Severities]]
  /\ \A k \in Calls : Call[k].op = "mark" => Call[k].sev = 1
  /\ Floors \subseteq Nat \ {0}

VARIABLES
  state,     \* state[s]: the severity s is cancelled at, 0 if it is not
  children,  \* children[s]: the child list, last attached first
  parked,    \* parked[s]: floors of the waits that are parked under s
  pc, idx, csev,  \* per source, its constructor: step, next parent, severity
  kpc, ksev,      \* per call: step and the severity it propagates
  pending, visited,  \* per call: the worklist and the sources ever put on it
  node, nsev, todo   \* per call: source at hand, its severity, children to do

newVars == <<pc, idx, csev>>
callVars == <<kpc, ksev, pending, visited, node, nsev, todo>>
vars == <<state, children, parked, newVars, callVars>>

\* The compare-and-swap loops of _raise_state! and cancel_source_raise_state.
Larger(m, n) == IF m >= n THEN m ELSE n
Raise(s, sev) == state' = [state EXCEPT ![s] = Larger(@, sev)]

Init ==
  /\ state = [s \in Sources |-> 0]
  /\ children = [s \in Sources |-> <<>>]
  /\ parked = [s \in Sources |-> {}]
  /\ pc = [s \in Sources |-> "none"]
  /\ idx = [s \in Sources |-> 1]
  /\ csev = [s \in Sources |-> 0]
  /\ kpc = [k \in Calls |-> "call"]
  /\ ksev = [k \in Calls |-> 0]
  /\ pending = [k \in Calls |-> <<>>]
  /\ visited = [k \in Calls |-> {}]
  /\ node = [k \in Calls |-> Call[k].src]
  /\ nsev = [k \in Calls |-> 0]
  /\ todo = [k \in Calls |-> <<>>]

-----------------------------------------------------------------------------
(* Construction *)

Live(s) == pc[s] = "live"

\* A program holds the parents it passes, so they are constructed.  A root is
\* on no list and inherits nothing.
Create(s) ==
  /\ pc[s] = "none"
  /\ \A i \in 1..Len(Parents[s]) : Live(Parents[s][i])
  /\ pc' = [pc EXCEPT ![s] = IF Parents[s] = <<>> THEN "live" ELSE "link"]
  /\ UNCHANGED <<state, children, parked, idx, csev, callVars>>

\* Prepend to the child list of the next parent ...
Link(s) ==
  /\ pc[s] = "link"
  /\ children' = [children EXCEPT ![Parents[s][idx[s]]] = <<s>> \o @]
  /\ pc' = [pc EXCEPT ![s] = "read"]
  /\ UNCHANGED <<state, parked, idx, csev, callVars>>

\* ... then read that parent's state.
ReadParent(s) ==
  LET p == Parents[s][idx[s]] IN
  /\ pc[s] = "read"
  /\ csev' = [csev EXCEPT ![s] = Larger(@, state[p])]
  /\ idx' = [idx EXCEPT ![s] = @ + 1]
  /\ pc' = [pc EXCEPT ![s] = IF idx[s] = Len(Parents[s]) THEN "raise" ELSE "link"]
  /\ UNCHANGED <<state, children, parked, callVars>>

\* Inherit the largest severity read and return the source.
Inherit(s) ==
  /\ pc[s] = "raise"
  /\ Raise(s, csev[s])
  /\ pc' = [pc EXCEPT ![s] = "live"]
  /\ UNCHANGED <<children, parked, idx, csev, callVars>>

\* A wait under s whose recheck finds the state below its floor parks.
Park(s, f) ==
  /\ Live(s) /\ state[s] < f
  /\ parked' = [parked EXCEPT ![s] = @ \cup {f}]
  /\ UNCHANGED <<state, children, newVars, callVars>>

-----------------------------------------------------------------------------
(* cancel! and redeliver! *)

KGoto(k, l) == kpc' = [kpc EXCEPT ![k] = l]

\* Start the worklist with the source of the call.
StartWalk(k, l, sev) ==
  /\ ksev' = [ksev EXCEPT ![k] = sev]
  /\ pending' = [pending EXCEPT ![k] = <<Call[k].src>>]
  /\ visited' = [visited EXCEPT ![k] = {Call[k].src}]
  /\ KGoto(k, l)
  /\ UNCHANGED <<children, parked, newVars, node, nsev, todo>>

Cancel(k) ==
  /\ kpc[k] = "call" /\ Call[k].op = "cancel" /\ Live(Call[k].src)
  /\ Raise(Call[k].src, Call[k].sev)
  /\ StartWalk(k, "walk", Call[k].sev)

Redeliver(k) ==
  /\ kpc[k] = "call" /\ Call[k].op = "redeliver" /\ Live(Call[k].src)
  /\ state[Call[k].src] # 0
  /\ StartWalk(k, "walk", state[Call[k].src])
  /\ UNCHANGED state

\* Nothing is done for a source that is not cancelled.
RedeliverNothing(k) ==
  /\ kpc[k] = "call" /\ Call[k].op = "redeliver" /\ Live(Call[k].src)
  /\ state[Call[k].src] = 0
  /\ KGoto(k, "done")
  /\ UNCHANGED <<state, children, parked, newVars, ksev, pending, visited, node, nsev, todo>>

\* _cancel_walk_node!: pop a source and read its state, which another call may
\* have escalated ...
WalkNode(k) ==
  LET n == pending[k][Len(pending[k])] IN
  /\ kpc[k] = "walk" /\ pending[k] # <<>>
  /\ node' = [node EXCEPT ![k] = n]
  /\ pending' = [pending EXCEPT ![k] = SubSeq(@, 1, Len(@) - 1)]
  /\ nsev' = [nsev EXCEPT ![k] = Larger(ksev[k], state[n])]
  /\ KGoto(k, "deliver")
  /\ UNCHANGED <<state, children, parked, newVars, ksev, visited, todo>>

\* ... wake the waits it reaches ...
Deliver(k) ==
  /\ kpc[k] = "deliver"
  /\ parked' = [parked EXCEPT ![node[k]] = {f \in @ : f > nsev[k]}]
  /\ KGoto(k, "head")
  /\ UNCHANGED <<state, children, newVars, ksev, pending, visited, node, nsev, todo>>

\* ... read the child list, to which new children are only prepended ...
WalkHead(k) ==
  /\ kpc[k] = "head"
  /\ todo' = [todo EXCEPT ![k] = children[node[k]]]
  /\ KGoto(k, "child")
  /\ UNCHANGED <<state, children, parked, newVars, ksev, pending, visited, node, nsev>>

\* Mutant: a child that is already at the severity is not walked.
RaiseChildAdvanced(k) ==
  LET c == Head(todo[k]) IN
  /\ kpc[k] = "child" /\ todo[k] # <<>>
  /\ Raise(c, nsev[k])
  /\ visited' = [visited EXCEPT ![k] = @ \cup {c}]
  /\ pending' = [pending EXCEPT ![k] = IF state[c] >= nsev[k] THEN @ ELSE Append(@, c)]
  /\ todo' = [todo EXCEPT ![k] = Tail(@)]
  /\ UNCHANGED <<children, parked, newVars, kpc, ksev, node, nsev>>

\* ... and raise each child and queue the ones not yet visited.
RaiseChild(k) ==
  LET c == Head(todo[k]) IN
  /\ kpc[k] = "child" /\ todo[k] # <<>>
  /\ Raise(c, nsev[k])
  /\ visited' = [visited EXCEPT ![k] = @ \cup {c}]
  /\ pending' = [pending EXCEPT ![k] = IF c \in visited[k] THEN @ ELSE Append(@, c)]
  /\ todo' = [todo EXCEPT ![k] = Tail(@)]
  /\ UNCHANGED <<children, parked, newVars, kpc, ksev, node, nsev>>

NodeEnds(k) ==
  /\ kpc[k] = "child" /\ todo[k] = <<>>
  /\ KGoto(k, "walk")
  /\ UNCHANGED <<state, children, parked, newVars, ksev, pending, visited, node, nsev, todo>>

WalkEnds(k) ==
  /\ kpc[k] = "walk" /\ pending[k] = <<>>
  /\ KGoto(k, "done")
  /\ UNCHANGED <<state, children, parked, newVars, ksev, pending, visited, node, nsev, todo>>

-----------------------------------------------------------------------------
(* jl_cancel_subtree_mark *)

Mark(k) ==
  /\ kpc[k] = "call" /\ Call[k].op = "mark" /\ Live(Call[k].src)
  /\ StartWalk(k, "mark", Call[k].sev)
  /\ UNCHANGED state

\* A source is descended into only if this call advanced its state.
MarkNode(k) ==
  LET n == pending[k][Len(pending[k])] IN
  /\ kpc[k] = "mark" /\ pending[k] # <<>>
  /\ Raise(n, ksev[k])
  /\ IF state[n] < ksev[k]
     THEN node' = [node EXCEPT ![k] = n] /\ KGoto(k, "markhead")
     ELSE UNCHANGED <<node, kpc>>
  /\ pending' = [pending EXCEPT ![k] = SubSeq(@, 1, Len(@) - 1)]
  /\ UNCHANGED <<children, parked, newVars, ksev, visited, nsev, todo>>

\* Mutant: the sibling links are not followed.
MarkHeadFirstChild(k) ==
  /\ kpc[k] = "markhead"
  /\ pending' = [pending EXCEPT ![k] = @ \o
       IF children[node[k]] = <<>> THEN <<>> ELSE <<Head(children[node[k]])>>]
  /\ KGoto(k, "mark")
  /\ UNCHANGED <<state, children, parked, newVars, ksev, visited, node, nsev, todo>>

MarkHead(k) ==
  /\ kpc[k] = "markhead"
  /\ pending' = [pending EXCEPT ![k] = @ \o children[node[k]]]
  /\ KGoto(k, "mark")
  /\ UNCHANGED <<state, children, parked, newVars, ksev, visited, node, nsev, todo>>

MarkEnds(k) ==
  /\ kpc[k] = "mark" /\ pending[k] = <<>>
  /\ KGoto(k, "done")
  /\ UNCHANGED <<state, children, parked, newVars, ksev, pending, visited, node, nsev, todo>>

-----------------------------------------------------------------------------
\* Mutant: a parent's state is read before the link to it is published.
ConstructReadsFirst(s) ==
  LET p == Parents[s][idx[s]] IN
  \/ Create(s) \/ Inherit(s)
  \/ /\ pc[s] = "link"
     /\ csev' = [csev EXCEPT ![s] = Larger(@, state[p])]
     /\ pc' = [pc EXCEPT ![s] = "read"]
     /\ UNCHANGED <<state, children, parked, idx, callVars>>
  \/ /\ pc[s] = "read"
     /\ children' = [children EXCEPT ![p] = <<s>> \o @]
     /\ idx' = [idx EXCEPT ![s] = @ + 1]
     /\ pc' = [pc EXCEPT ![s] = IF idx[s] = Len(Parents[s]) THEN "raise" ELSE "link"]
     /\ UNCHANGED <<state, parked, csev, callVars>>

\* jl_new_cancel_source, which attaches the source parent by parent.
Construct(s) == Create(s) \/ Link(s) \/ ReadParent(s) \/ Inherit(s)

Walk(k) ==
  \/ WalkNode(k) \/ Deliver(k) \/ WalkHead(k) \/ RaiseChild(k) \/ NodeEnds(k) \/ WalkEnds(k)
  \/ MarkNode(k) \/ MarkHead(k) \/ MarkEnds(k)

Begin(k) == Cancel(k) \/ Redeliver(k) \/ RedeliverNothing(k) \/ Mark(k)

\* Every source is constructed and every call has returned.
Finished ==
  /\ \A s \in Sources : Live(s)
  /\ \A k \in Calls : kpc[k] = "done"
  /\ UNCHANGED vars

Next ==
  \/ \E s \in Sources : Construct(s) \/ \E f \in Floors : Park(s, f)
  \/ \E k \in Calls : Begin(k) \/ Walk(k)
  \/ Finished

Spec == Init /\ [][Next]_vars

-----------------------------------------------------------------------------
(* Properties *)

\* Every variable has the type the code gives it.
TypeOK ==
  /\ state \in [Sources -> {0} \cup Severities]
  /\ children \in [Sources -> Seq(Sources)]
  /\ parked \in [Sources -> SUBSET Floors]
  /\ pc \in [Sources -> {"none", "link", "read", "raise", "live"}]
  /\ idx \in [Sources -> Nat \ {0}]
  /\ \A s \in Sources : pc[s] \in {"link", "read"} => idx[s] <= Len(Parents[s])
  /\ csev \in [Sources -> {0} \cup Severities]
  /\ kpc \in [Calls -> {"call", "walk", "deliver", "head", "child", "mark", "markhead", "done"}]
  /\ ksev \in [Calls -> {0} \cup Severities]
  /\ pending \in [Calls -> Seq(Sources)]
  /\ visited \in [Calls -> SUBSET Sources]
  /\ node \in [Calls -> Sources]
  /\ nsev \in [Calls -> {0} \cup Severities]
  /\ todo \in [Calls -> Seq(Sources)]

IsParent(p, s) == \E i \in 1..Len(Parents[s]) : Parents[s][i] = p

\* A set of sources that holds the children of its members.
Closed(X) == \A p \in X : \A s \in Sources : IsParent(p, s) => s \in X

\* The descendants of r, r among them: the smallest closed set it is in.
Reach == [r \in Sources |->
  {s \in Sources : \A X \in SUBSET Sources : r \in X /\ Closed(X) => s \in X}]

\* The docstring of cancel!: when it returns, "every source currently reachable
\* from src has been advanced to (at least) the requested severity".  It stays
\* so for sources that are constructed later.
CancelMarksSubtree ==
  \A k \in Calls : kpc[k] = "done" /\ Call[k].op = "cancel" =>
    \A s \in Reach[Call[k].src] : Live(s) => state[s] >= Call[k].sev

\* When cancel! or redeliver! returns, no wait is parked anywhere below its
\* source that its severity reaches: not even where the ^C handler had set the
\* state, and woken nobody, before.
CancelWakesSubtree ==
  \A k \in Calls : kpc[k] = "done" /\ Call[k].op # "mark" =>
    \A s \in Reach[Call[k].src] : \A f \in parked[s] : f > ksev[k]

\* When nothing is under way a source is cancelled at least as severely as its
\* parents, whichever calls and constructions overlapped and whichever of them
\* skipped a source because another had already marked it.
SubtreeClosed ==
  /\ \A k \in Calls : kpc[k] \in {"call", "done"}
  /\ \A s \in Sources : pc[s] \in {"none", "live"}
  => \A p, s \in Sources : Live(s) /\ IsParent(p, s) => state[s] >= state[p]

=============================================================================
