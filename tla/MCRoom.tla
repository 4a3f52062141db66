------------------------------- MODULE MCRoom -------------------------------
\* Two questions, and one connection lost or page reloaded at any moment.
EXTENDS Room
=============================================================================
