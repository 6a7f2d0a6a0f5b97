--------------------------- MODULE MCKeyLifecycle ---------------------------
(* A small instance of the key lifecycle for TLC: three ids can be issued. *)
EXTENDS KeyLifecycle, TLC

CONSTANTS r1, r2, p1, p2

Symmetry == Permutations({r1, r2}) \cup Permutations({p1, p2})
=============================================================================
