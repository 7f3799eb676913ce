------------------------ MODULE MCWorkStealingQueue -------------------------
(* An owner and two thieves; the array grows once and wraps around. *)
EXTENDS WorkStealingQueue, TLC

CONSTANTS h1, h2

Symmetry == Permutations({h1, h2})
=============================================================================
