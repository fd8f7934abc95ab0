---------------------------- MODULE MCImageSources ----------------------------
EXTENDS ImageSources, TLC

CONSTANTS a, a2, b

Symmetry == Permutations(Request) \cup Permutations({a, a2})

\* The names of a and a2 differ only in what a folder's name cannot hold.
MCFolderOf == [c \in Code |-> IF c = b THEN 2 ELSE 1]
=============================================================================
