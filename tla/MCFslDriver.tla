---------------------------- MODULE MCFslDriver ----------------------------
\* Up to two readers and a poller on one link.
EXTENDS FslDriver, TLC

CONSTANTS r1, r2, p1
MCReaders == {r1, r2}
MCPollers == {p1}
=============================================================================
