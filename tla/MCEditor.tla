------------------------------ MODULE MCEditor ------------------------------
\* A set of one to two characters, and a canvas of 8 on which a box opens at 1 with
\* a side of 4 or 5: a pointer can pull it over each of the edges.
EXTENDS Editor, TLC

PointerMoves == {-6, 2}
Symmetry == Permutations(Olds)
=============================================================================
