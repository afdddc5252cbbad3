--------------------------- MODULE MCMapUpdater ----------------------------
EXTENDS MapUpdater
CONSTANTS b1, b2, i1, i2, i3, w1, w2

\* Two instances belong to the first base map, one to the second.
MCParent == [i \in Instance |-> IF i = i3 THEN b2 ELSE b1]
=============================================================================
