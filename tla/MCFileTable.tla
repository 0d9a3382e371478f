------------------------------ MODULE MCFileTable ------------------------------
\* Small instances of FileTable for TLC.
EXTENDS FileTable, TLC

\* Processes other than the first are interchangeable.
Symmetry == Permutations(Task \ {FirstTask})

\* Initial counts of the semaphores.
AllZero == [s \in Sem |-> 0]
=============================================================================
