-------------------------- MODULE MCDmaFenceChain --------------------------
(* DmaFenceChain for TLC. *)
EXTENDS DmaFenceChain, TLC

CONSTANTS u1, u2, u3, worker, driver

\* The readers are interchangeable.
Symmetric == Permutations(Readers)
=============================================================================
