------------------------------- MODULE MCMbox -------------------------------
\* Mbox on a ring of two slots, two threads at each end.
EXTENDS Mbox, TLC

CONSTANTS p1, p2, g1, g2, m1, m2

MCPutters == {p1, p2}
MCGetters == {g1, g2}
MCMessages == {m1, m2}
=============================================================================
