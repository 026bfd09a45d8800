-------------------------- MODULE MCPaperExecutor --------------------------
(***************************************************************************)
(* Instances of PaperExecutor.  Prices are multiples of 10000 so that 1%   *)
(* of slippage and then 1% of fee are exact: a round trip at 10000 loses   *)
(* 299, one that sells at 20000 gains.                                     *)
(***************************************************************************)
EXTENDS PaperExecutor, TLC

CONSTANTS b1, b2, tA, tB, k1, k2, k3, k4, s1, s2, s3

OrderOf(b, t, side, price) ==
    [bot |-> b, token |-> t, side |-> side, qty |-> 1, price |-> price,
     liquid |-> TRUE]

BuyA == OrderOf(b1, tA, "BUY", 10000)
BuyB == OrderOf(b1, tB, "BUY", 10000)
LoseA == OrderOf(b1, tA, "SELL", 10000)
WinA == OrderOf(b1, tA, "SELL", 20000)
WinTwoA == [WinA EXCEPT !.qty = 2]
BuyTooLarge == OrderOf(b1, tA, "BUY", 50000)
BuyUntracked == [BuyA EXCEPT !.token = NoToken]

\* Profits, losses, partial exits, rejections, two bots.
OrdersSerial == {BuyA, LoseA, WinTwoA, BuyTooLarge, BuyUntracked,
                 [BuyA EXCEPT !.bot = b2]}
\* Two tokens, so that one can be sold at a loss while the other is held.
OrdersTwoTokens == {BuyA, BuyB, LoseA}

\* Calls that overlap are retries: a caller that begins while another is at
\* work brings the same key, and rows that are not out of date.
BeginsAsRetry(s) ==
    /\ \A t \in Sessions : sess[t].pc # "idle" => sess[t].key = sess'[s].key
    /\ \A b \in Bots : sess[s].cached[b] \in {NotLoaded, bots[b]}
SpecRetrying ==
    Init /\ [][Next /\ \A s \in Sessions : sess[s].pc = "idle" /\ sess'[s].pc # "idle"
                          => BeginsAsRetry(s)]_vars

KeySymmetry == Permutations(Keys)
SessionSymmetry == Permutations(Keys) \cup Permutations(Sessions)
=============================================================================
