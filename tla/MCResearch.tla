----------------------------- MODULE MCResearch -----------------------------
(***************************************************************************)
(* Instance of Research: two sessions, one row of each kind but wallets,   *)
(* addresses and launches, which meet.                                     *)
(***************************************************************************)
EXTENDS Research, TLC

CONSTANTS s1, s2, v1, th1, p1, w1, w2, a1, a2, m1, m2, m3, c1, c2

FiveDollarLadder == <<5, 10, 25>>
ReportsAround == {[operations |-> 2, drawdown |-> 20],
                  [operations |-> 1, drawdown |-> 20],
                  [operations |-> 2, drawdown |-> 21]}

Nothing == [f \in Fields |-> NotGiven]
SomeUpdates == {Nothing, [Nothing EXCEPT !["audits"] = 1],
                [Nothing EXCEPT !["incidents"] = 2],
                [Nothing EXCEPT !["age"] = 10, !["tvl"] = 10]}

\* What POST /api/wallets registers, in the type that asks for authorization.
Receiving == {[type |-> "RECEIVING_WALLET", watchOnly |-> TRUE]}

Symmetry ==
    Permutations({s1, s2}) \cup Permutations({w1, w2}) \cup Permutations({a1, a2})
      \cup Permutations({m1, m2, m3})
=============================================================================
