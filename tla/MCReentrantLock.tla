-------------------------- MODULE MCReentrantLock --------------------------
(* Instances of ReentrantLock for TLC. *)
EXTENDS ReentrantLock

CONSTANTS a, b, c
=============================================================================
