---- MODULE MCSafepoint ----
(* Two mutators, one of which suspends, and a thread to be adopted. *)
EXTENDS Safepoint
CONSTANTS t0, t1, f
====
