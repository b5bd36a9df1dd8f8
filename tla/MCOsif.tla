------------------------------- MODULE MCOsif -------------------------------
\* One slot with links that a call leaves room in, fills, and overfills.
EXTENDS Osif, TLC

MCDepths == {2, 3}
MCSizes == {1, 2}
=============================================================================
