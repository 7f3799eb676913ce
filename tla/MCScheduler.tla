---------------------------- MODULE MCScheduler -----------------------------
(* The I/O thread and a pool of two, or of itself and one more. *)
EXTENDS Scheduler, TLC

CONSTANTS t0, t1, t2, shared

Symmetry == Permutations({t1, t2})
=============================================================================
