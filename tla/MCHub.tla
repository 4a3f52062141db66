------------------------------- MODULE MCHub -------------------------------
(* The hub for TLC.  No symmetry: liveness is checked. *)
EXTENDS Hub, TLC
=============================================================================
