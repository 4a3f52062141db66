------------------------------ MODULE MCEntry ------------------------------
(* Two lobbies, and one set with one character more than a game needs, all but *)
(* one of which may be replaced.                                               *)
EXTENDS Entry, TLC
CONSTANTS set, c1, c2, c3, c4
Pools == set :> {c1, c2, c3, c4}
Firsts == set :> {c1, c2, c3}
Symmetry == Permutations(Lobbies) \cup Permutations(Slots)
=============================================================================
