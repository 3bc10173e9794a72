--------------------------- MODULE MCLandSelection --------------------------
EXTENDS LandSelection, TLC

Symmetry == Permutations(Requests) \cup Permutations(Actions)
=============================================================================
