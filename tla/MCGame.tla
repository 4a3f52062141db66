------------------------------- MODULE MCGame ------------------------------
EXTENDS Game

\* What the players may call: all the operations.
AllOps == Ops
=============================================================================
