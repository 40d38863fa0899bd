---------------------------- MODULE MCBatchRename ----------------------------
\* Instance of BatchRename for TLC.
EXTENDS BatchRename, TLC

Symmetry == Permutations(Calls) \cup Permutations(Symbols)
=============================================================================
