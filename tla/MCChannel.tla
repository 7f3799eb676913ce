----------------------------- MODULE MCChannel -----------------------------
(* Instances of Channel for TLC. *)
EXTENDS Channel, TLC

CONSTANTS a, b, c

\* The tasks are interchangeable.
TaskSymmetry == Permutations(Tasks)
=============================================================================
