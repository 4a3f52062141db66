------------------------------ MODULE MCStatics ----------------------------
EXTENDS Statics, TLC
Symmetry == Permutations(Seats \ {Host}) \cup Permutations(Pumps)
=============================================================================
