---------------------------- MODULE OrderLedger ----------------------------
(***************************************************************************)
(* What the execution of orders promises, without sessions, rows or        *)
(* commits: an order identified by a key takes effect at most once, and    *)
(* then as a whole, on the account of a living bot; a bot dies at most     *)
(* once, for good, and its account does not move afterwards.               *)
(***************************************************************************)
EXTENDS Integers

CONSTANTS Bots, Keys

VARIABLES done,      \* keys of the orders that took effect
          account,   \* [cash, pnl, rows] of each bot
          alive      \* the bots that have not died

vars == <<done, account, alive>>

Account == [cash : Int, pnl : Int, rows : Nat]

Init == /\ done = {}
        /\ account = [b \in Bots |-> [cash |-> 0, pnl |-> 0, rows |-> 0]]
        /\ alive = Bots

Execute(k, b) ==
    /\ k \notin done /\ b \in alive
    /\ done' = done \cup {k}
    /\ account' \in [Bots -> Account]
    /\ account'[b].rows = account[b].rows + 1
    /\ \A c \in Bots \ {b} : account'[c] = account[c]
    /\ UNCHANGED alive

Die(b) == /\ b \in alive
          /\ alive' = alive \ {b}
          /\ UNCHANGED <<done, account>>

Next == \/ \E k \in Keys, b \in Bots : Execute(k, b)
        \/ \E b \in Bots : Die(b)

Spec == Init /\ [][Next]_vars
=============================================================================
