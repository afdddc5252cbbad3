--------------------------- MODULE MCWorldSocket ---------------------------
EXTENDS WorldSocket

\* Model values: two sessions, so that a second one can be created on the
\* socket, and two map threads.
CONSTANTS w1, w2, m1, m2
=============================================================================
