----------------------------- MODULE MCSyncFile -----------------------------
EXTENDS SyncFile, TLC
CONSTANTS p1, p2, c1

\* Contexts of the fences, the odd and the even ones.
TwoContexts == [f \in Fences |-> f % 2]

\* One or two different fences in any order, at most three together.
OneOrTwo == {<<f>> : f \in Fences}
            \cup {s \in Fences \X Fences : s[1] # s[2]}
ShortInputs == {x \in OneOrTwo \X OneOrTwo : Len(x[1]) + Len(x[2]) <= 3}
============================================================================
