---------------------------- MODULE MCAtomicStore ----------------------------
(* A small instance of the record store for TLC. *)
EXTENDS AtomicStore, TLC

CONSTANTS v1, v2

Symmetry == Permutations({v1, v2})
=============================================================================
