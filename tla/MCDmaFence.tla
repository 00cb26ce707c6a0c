----------------------------- MODULE MCDmaFence -----------------------------
(* DmaFence for TLC. *)
EXTENDS DmaFence

CONSTANTS f1, w1, c1, irq
=============================================================================
