------------------------------- MODULE MCTables -------------------------------
EXTENDS Tables, TLC

Symmetry == Permutations(Procs)
=============================================================================
