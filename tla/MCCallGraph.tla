----------------------------- MODULE MCCallGraph -----------------------------
\* Instance of CallGraph for TLC.
EXTENDS CallGraph, TLC

Symmetry == Permutations(Functions)
=============================================================================
