------------------------------ MODULE WorkBag -------------------------------
(***************************************************************************)
(* What a mark queue promises: an item that was pushed is handed out once, *)
(* to the owner or to a thief, in any order.  An attempt to take may fail. *)
(***************************************************************************)
EXTENDS Naturals

CONSTANT Items

VARIABLES
  pool,   \* pushed and not yet taken
  done    \* how often each item was handed out

Init == pool = {} /\ done = [x \in Items |-> 0]

Push(x) ==
  /\ x \notin pool /\ done[x] = 0
  /\ pool' = pool \cup {x}
  /\ UNCHANGED done

Take(x) ==
  /\ x \in pool
  /\ pool' = pool \ {x}
  /\ done' = [done EXCEPT ![x] = 1]

Spec == Init /\ [][\E x \in Items : Push(x) \/ Take(x)]_<<pool, done>>
=============================================================================
