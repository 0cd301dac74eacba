--------------------------- MODULE MCFinalAction ---------------------------
EXTENDS FinalAction
MCKeys == (1..MaxGen) \X (1..MaxGen)
=============================================================================
