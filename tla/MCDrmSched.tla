----------------------------- MODULE MCDrmSched -----------------------------
(* The scheduler with two entities and one or two schedulers, on which any  *)
(* entity may run.                                                          *)
EXTENDS DrmSched, TLC
CONSTANTS s1, s2, e1, e2

Every == [e \in Entities |-> Scheds]
Symmetric == Permutations(Entities) \cup Permutations(Scheds)
=============================================================================
