---- MODULE MCStockGC ----
(* Two mutators, two heap cells, of which one is a task that may be given a
   weak reference and a finalizer and the other a wait entry, one image object,
   and a collector thread that marks beside the initiator. *)
EXTENDS StockGC, TLC
CONSTANTS a, b, i, t0, t1, c0, g
Symmetry == Permutations({t0, t1})
====
