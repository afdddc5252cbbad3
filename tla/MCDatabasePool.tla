-------------------------- MODULE MCDatabasePool ---------------------------
EXTENDS DatabasePool
CONSTANTS t1, t2, e1, p1, c1, c2, c3

\* Two transactions of two statements, an empty one, and one plain statement.
MCSize == [t \in Task |-> IF t \in Plain THEN 1 ELSE IF t = e1 THEN 0 ELSE 2]
=============================================================================
