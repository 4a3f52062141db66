------------------------------ MODULE MCTable ------------------------------
EXTENDS Table, TLC
Symmetry == Permutations(Players)
=============================================================================
