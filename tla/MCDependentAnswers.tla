------------------------- MODULE MCDependentAnswers -------------------------
EXTENDS DependentAnswers, FiniteSets, TLC

MCTotal == [parcels \in SUBSET Parcels |-> Cardinality(parcels)]

Symmetry == Permutations(Requests) \cup Permutations(Parcels)
=============================================================================
