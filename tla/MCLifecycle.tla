------------------------------ MODULE MCLifecycle ------------------------------
\* Small instances of Lifecycle for TLC.
EXTENDS Lifecycle

CONSTANTS t1, t2, t3, t4   \* model values

Table2 == <<t2, t3>>
Table3 == <<t2, t3, t4>>

\* Initial counts of the semaphores.
AllZero == [s \in Sem |-> 0]
=============================================================================
