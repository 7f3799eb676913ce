------------------------------ MODULE MCEngine ------------------------------
(* Three threads that infer two keys. *)
EXTENDS Engine, TLC

CONSTANTS t1, t2, t3, k1, k2
=============================================================================
