----------------------------- MODULE MCRealtime -----------------------------
EXTENDS RealtimeTurn
=============================================================================
