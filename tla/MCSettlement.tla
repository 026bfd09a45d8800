---------------------------- MODULE MCSettlement ----------------------------
EXTENDS Settlement, TLC

CONSTANTS b1, b2, d1, d2, s1

\* A good day with a repayment, a better one with charges, an even one, a loss.
DayCalls == {[gross |-> 3, charges |-> 0, repayment |-> 1],
             [gross |-> 5, charges |-> 1, repayment |-> 0],
             [gross |-> 1, charges |-> 1, repayment |-> 0],
             [gross |-> -2, charges |-> 0, repayment |-> 1]}

Symmetry == Permutations(Sons) \cup Permutations(Days)
=============================================================================
