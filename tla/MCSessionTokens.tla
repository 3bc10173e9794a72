--------------------------- MODULE MCSessionTokens --------------------------
EXTENDS SessionTokens, TLC

Symmetry == Permutations(Requests)
=============================================================================
