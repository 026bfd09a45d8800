------------------------------ MODULE MCLineage -----------------------------
EXTENDS Lineage, TLC

CONSTANTS b1, b2, b3, b4, b5, s1, s2

Symmetry == Permutations(Bots) \cup Permutations(Sessions)
=============================================================================
