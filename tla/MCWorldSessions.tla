-------------------------- MODULE MCWorldSessions --------------------------
EXTENDS WorldSessions, TLC
CONSTANTS a1, a2, a3, s1, s2, s3, s4

\* Account a1 connects twice, a2 and a3 once.
MCAccountOf == [s \in Session |-> IF s \in {s1, s4} THEN a1 ELSE IF s = s2 THEN a2 ELSE a3]

\* The two connections of a1 are alike.
ReconnectSymmetry == Permutations({s1, s4})
=============================================================================
