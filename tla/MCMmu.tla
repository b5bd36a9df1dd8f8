------------------------------- MODULE MCMmu -------------------------------
\* Three pages, so that a TLB of two entries has to replace one; the one
\* in the middle lies in another frame than the others.
EXTENDS Mmu
CONSTANTS d1, t1, t2, t3, f1, f2, none
MCMayMap == {<<t1, f1>>, <<t2, f2>>, <<t3, f1>>}
=============================================================================
