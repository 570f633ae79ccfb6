------------------------------- MODULE MCTopic -------------------------------
EXTENDS Topic, TLC

Symmetry == Permutations(Producers) \cup Permutations(Groups)
=============================================================================
