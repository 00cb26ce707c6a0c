---------------------------- MODULE MCSpscQueue ----------------------------
(* Instances of SpscQueue for TLC.                                         *)
EXTENDS SpscQueue

CONSTANTS a, b, c, d, null, root
=============================================================================
