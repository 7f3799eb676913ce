------------------------------ MODULE MCSigint ------------------------------
(* Instances of Sigint for TLC. *)
EXTENDS Sigint, TLC

CONSTANTS io, w, e1, e2

\* The fresh sources of successive episodes are interchangeable.
SourceSymmetry == Permutations(Sources)
=============================================================================
