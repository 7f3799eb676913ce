--------------------------- MODULE MCCancelGraph ---------------------------
(* Instances of CancelGraph for TLC. *)
EXTENDS CancelGraph, TLC

CONSTANTS r, a, b, d, k1, k2, k3

\* A root with two children that have a child in common.
Diamond == r :> <<>> @@ a :> <<r>> @@ b :> <<r>> @@ d :> <<a, b>>

\* A ^C: the handler marks the episode source, the listener redelivers; a task
\* cancels a source below it, more severely.
ControlC ==
  k1 :> [op |-> "mark", src |-> r, sev |-> 1] @@ k2 :> [op |-> "redeliver", src |-> r, sev |-> 1]
    @@ k3 :> [op |-> "cancel", src |-> a, sev |-> 3]
=============================================================================
