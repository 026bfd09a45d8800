----------------------------- MODULE MCTreasury -----------------------------
EXTENDS Treasury, TLC

CONSTANTS b1, b2, t1, t2, s1, s2

\* Principal and interest; the second payment of a loan exceeds what is left of it.
PaymentPairs == {<<3, 2>>}
NoPayments == {}

Symmetry == Permutations(Sons) \cup Permutations(Theses) \cup Permutations(Sessions)
=============================================================================
