------------------------------- MODULE MCPark -------------------------------
(* The instance of Park for TLC. *)
EXTENDS Park

CONSTANTS a, b, s1, s2, k1, k2

\* A shield, a throwing wait, a throwing teardown wait and a value teardown
\* wait that have acknowledged severity 1, and a wait under another source to
\* which the task's governing token may move.
MovingWaits ==
  {[mode |-> "shield", src |-> s1, floor |-> 0],
   [mode |-> "throw", src |-> s1, floor |-> 0],
   [mode |-> "throw", src |-> s1, floor |-> 2],
   [mode |-> "value", src |-> s1, floor |-> 2],
   [mode |-> "throw", src |-> s2, floor |-> 0]}

\* cancel! at severity 1, escalated to 3 by another task.
Escalation == k1 :> [src |-> s1, sev |-> 1] @@ k2 :> [src |-> s1, sev |-> 3]

Symmetry == Permutations({a, b})
=============================================================================
