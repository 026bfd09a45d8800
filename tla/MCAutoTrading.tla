---------------------------- MODULE MCAutoTrading ----------------------------
(***************************************************************************)
(* Instance of AutoTrading.  A unit costs 10000; sold at 10000 it loses    *)
(* 299 after slippage and fees, the ceiling of the bot.                    *)
(***************************************************************************)
EXTENDS AutoTrading, TLC

CONSTANTS b1, b2, tA, tB, tick, hand, op

KeyOf(t, b, side) == <<t, b, side>>
AllKeys == Tokens \X Bots \X Sides
AllOrders == [bot : Bots, token : Tokens, side : Sides, qty : {1},
              price : ExitPrices \cup {EntryPriceOfLaunch}, liquid : {TRUE}]
OneBand(t) == "low"
=============================================================================
