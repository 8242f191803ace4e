------------------------------- MODULE MCFifo -------------------------------
(* Fifo for TLC: readers r1, r2 and writers w1, w2 are interchangeable. *)
EXTENDS Fifo, TLC

CONSTANTS r1, r2, w1, w2

Symmetry == Permutations(Readers) \cup Permutations(Writers)
=============================================================================
