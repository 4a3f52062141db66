--------------------------- MODULE MCConnections ---------------------------
EXTENDS Connections, TLC
Symmetry == Permutations(Clients) \cup Permutations(Players)
=============================================================================
