--------------------------- MODULE DmaFenceSeqno ---------------------------
(***************************************************************************)
(* The comparison of sequence numbers in drivers/dma-buf/dma-fence.c.      *)
(* Fences of a driver without use_64bit_seqno have numbers of 32 bits that *)
(* wrap around.                                                            *)
(***************************************************************************)
EXTENDS Integers

CONSTANT SignBit    \* the value of the sign bit of a number, 2^31 in the code

ASSUME SeqnoAssumption == SignBit \in Nat \ {0}

\* __dma_fence_is_later(): the difference, as a signed number, is positive.
\* Mutant: the numbers are compared as they are.
IsLaterUnsigned(f1, f2) == f1 > f2
IsLater(f1, f2) ==
  LET diff == (f1 - f2) % (2 * SignBit)
  IN 0 < diff /\ diff < SignBit
============================================================================
