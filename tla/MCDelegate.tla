----------------------------- MODULE MCDelegate -----------------------------
\* Three programs: three threads on a condition variable; two threads on a
\* mutex, a semaphore and a message box, with wrong calls; two threads that
\* exchange messages.
EXTENDS Delegate, TLC

CONSTANTS s1, s2, s3, mu1, sem1, cond1, mb1, rq1, m1, b1, b2
MCSlots == {s1, s2, s3}
MCMutexes == {mu1}
MCSems == {sem1}
MCConds == {cond1}
MCMboxes == {mb1}
MCRqs == {rq1}
MCConditions == [s \in MCSlots |-> {mu1, cond1}]
MCMixed == [s \in {s1, s2} |-> {mu1, sem1, mb1}]
MCQueues == [s \in {s1, s2} |-> {rq1}]
MCPrograms == {MCConditions, MCMixed, MCQueues}
MCMisuse == {MCMixed}
MCMessages == {m1}
MCMsgSizes == {0, 1, 2}
MCBlocks == {b1, b2}
=============================================================================
