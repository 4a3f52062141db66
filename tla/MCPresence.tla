---------------------------- MODULE MCPresence -----------------------------
EXTENDS Presence, TLC
Symmetry == Permutations(Clients) \cup Permutations(Players)
=============================================================================
