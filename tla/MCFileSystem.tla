---------------------------- MODULE MCFileSystem ----------------------------
EXTENDS FileSystem, TLC

Symmetry == Permutations(Process)
=============================================================================
