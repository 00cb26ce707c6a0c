----------------------------- MODULE MCDmaResv -----------------------------
EXTENDS DmaResv, TLC
CONSTANT r1

\* Contexts of the fences, the odd and the even ones.
TwoContexts == [f \in Fences |-> f % 2]
============================================================================
