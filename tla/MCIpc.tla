-------------------------------- MODULE MCIpc --------------------------------
\* Small instances of Ipc for TLC.
EXTENDS Ipc

\* Tasks other than first_task are interchangeable.  Used by the runs that
\* check no liveness.
Symmetry == Permutations(Task \ {First})

\* Initial counts of the semaphores.
AllZero == [s \in Sem |-> 0]
AllOne  == [s \in Sem |-> 1]
=============================================================================
