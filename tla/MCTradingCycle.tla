--------------------------- MODULE MCTradingCycle ---------------------------
(***************************************************************************)
(* Instance of TradingCycle.   A unit costs 10000; sold at 10000 it loses  *)
(* 299 after slippage and fees, sold at 20000 it gains.                    *)
(***************************************************************************)
EXTENDS TradingCycle, TLC

CONSTANTS b1, b2, tA, tB, tC, s1, s2, op

KeyOf(t, b, side) == <<t, b, side>>
AllKeys == Tokens \X Bots \X Sides
AllOrders == [bot : Bots, token : Tokens, side : Sides, qty : {1},
              price : ExitPrices \cup {EntryPriceOfLaunch}, liquid : {TRUE}]

\* One liquidity band: bands do not touch each other, and in one every outcome
\* counts.
OneBand(t) == "low"

FullSymmetry == Permutations(Tokens) \cup Permutations(Bots) \cup Permutations(Sessions)
=============================================================================
