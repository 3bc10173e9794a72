--------------------------- MODULE MCClaimJourney ---------------------------
EXTENDS ClaimJourney, TLC

Symmetry == Permutations(Requests) \cup Permutations(Amounts)
=============================================================================
