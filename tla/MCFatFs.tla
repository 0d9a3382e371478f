-------------------------------- MODULE MCFatFs --------------------------------
\* Small instances of FatFs for TLC.
EXTENDS FatFs, TLC

\* The flags of fopen(name, "r") and fopen(name, "wb"), which cat, less, cp and
\* touch use.
ShellModes == {{}, {"write", "creat", "trunc"}}

Symmetry == Permutations(Handle) \cup Permutations(Name)
=============================================================================
