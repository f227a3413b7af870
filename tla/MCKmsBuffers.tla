---------------------------- MODULE MCKmsBuffers -----------------------------
(* KmsBuffers with two threads that share one display.                     *)
EXTENDS KmsBuffers, TLC

Symmetry == Permutations(Threads) \cup Permutations(Bufs) \cup Permutations(Objects \ Foreign)
            \cup Permutations(Foreign)
=============================================================================
