------------------------------- MODULE MCSeats ------------------------------
EXTENDS Seats, TLC
Symmetry == Permutations(Slots) \cup Permutations(Seats) \cup Permutations(Lobbies)
=============================================================================
