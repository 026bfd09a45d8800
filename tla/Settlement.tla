----------------------------- MODULE Settlement -----------------------------
(***************************************************************************)
(* The daily settlement of a bot: DailySettlementEngine.settle and the     *)
(* reserve it contributes to, ReserveGrowthEngine, each call in a session  *)
(* of its own and every commit a step of its own.                          *)
(*                                                                         *)
(* settle changes the bot's row in memory before it asks the reserve       *)
(* engine to contribute, and that engine commits: once when it creates the *)
(* reserve and once with the contribution, both before the settlement's    *)
(* own row.  A call that fails in between has kept its share of the day    *)
(* without settling it.                                                    *)
(*                                                                         *)
(* Results and charges are integers of a money unit, balances integers of  *)
(* a hundredth of it, so that a percentage of a result is exact.  Audit    *)
(* rows, funding events and the row's copy of the final equity are read by *)
(* nothing and left out.                                                   *)
(***************************************************************************)
EXTENDS Integers, FiniteSets, Functions, Rows

CONSTANTS Sons, Mother,      \* bots; the Mother is the parent of every son
          Days, Sessions,
          Calls,             \* [gross, charges, repayment] a caller may settle
          RetainPct,         \* operational_capital_retention_pct
          ReservePct,        \* reserve_contribution_pct
          ReturnPct,         \* returned_to_mother_pct
          Capital, Borrowed, \* what every bot has, and has borrowed, at first
          MaxFailures,       \* bound: calls of a bot that fail half way
          NoBot, NoDay

Bots == Sons \cup {Mother}

ASSUME SettlementAssumption ==
    /\ IsFiniteSet(Bots) /\ IsFiniteSet(Days)
    /\ Mother \notin Sons /\ NoBot \notin Bots /\ NoDay \notin Days
    /\ Calls \subseteq [gross : Int, charges : Nat, repayment : Nat]
    /\ RetainPct \in Nat /\ ReservePct \in Nat /\ ReturnPct \in Nat
    /\ Capital \in Nat /\ Borrowed \in Nat /\ MaxFailures \in Nat

VARIABLES bots,      \* committed rows of bots
          reserves,  \* committed rows of reserves, by bot
          settled,   \* committed rows of daily_settlements
          sess,      \* what each call is doing
          failed     \* history: how many calls of a bot failed half way

vars == <<bots, reserves, settled, sess, failed>>
tables == <<bots, reserves, settled>>

BotRow == [capital : Int, borrowed : Nat, reserve : Nat]
Reserve == [exists : BOOLEAN, balance : Nat]
NoReserve == [exists |-> FALSE, balance |-> 0]
SettlementRow == [bot : Bots, day : Days, net : Int, retained : Int, contributed : Nat,
                  returned : Nat, repaid : Nat]

Parent(b) == IF b = Mother THEN NoBot ELSE Mother

\* The shares of a day's result.  A loss is carried whole by the bot.
ShareOfAny(b, d, c) ==
    LET net == c.gross - c.charges - c.repayment IN
    [bot |-> b, day |-> d, net |-> net, repaid |-> 100 * c.repayment,
     retained |-> RetainPct * net,
     contributed |-> IF net > 0 THEN ReservePct * net ELSE 0,
     returned |-> IF net > 0 THEN ReturnPct * net ELSE 0]

\* The bot keeps what the other percentages leave, instead of a share of its own.
KeepTheRest(b, d, c) ==
    LET net == c.gross - c.charges - c.repayment IN
    [bot |-> b, day |-> d, net |-> net, repaid |-> 100 * c.repayment,
     retained |-> IF net > 0 THEN (100 - ReservePct - ReturnPct) * net ELSE 100 * net,
     contributed |-> IF net > 0 THEN ReservePct * net ELSE 0,
     returned |-> IF net > 0 THEN ReturnPct * net ELSE 0]

Shares(b, d, c) ==
    LET net == c.gross - c.charges - c.repayment IN
    [bot |-> b, day |-> d, net |-> net, repaid |-> 100 * c.repayment,
     retained |-> IF net > 0 THEN RetainPct * net ELSE 100 * net,
     contributed |-> IF net > 0 THEN ReservePct * net ELSE 0,
     returned |-> IF net > 0 THEN ReturnPct * net ELSE 0]

\* A call's row, of a bot and a day once they are known; the session's bot as
\* it was loaded or last flushed and as it is now; the reserve and the Mother.
NoShares == [bot |-> NoBot, day |-> NoDay, net |-> 0, repaid |-> 0, retained |-> 0,
             contributed |-> 0, returned |-> 0]
Blank == [capital |-> 0, borrowed |-> 0, reserve |-> 0]
Phases == {"idle", "loaded", "reserving", "creating", "contributing", "returning",
           "saving", "crediting"}
Session == [pc : Phases, bot : Bots \cup {NoBot}, row : SettlementRow \cup {NoShares},
            loaded : BotRow, now : BotRow, balance : Nat, mother : BotRow]
Idle == [pc |-> "idle", bot |-> NoBot, row |-> NoShares, loaded |-> Blank,
         now |-> Blank, balance |-> 0, mother |-> Blank]

Init ==
    /\ bots = [b \in Bots |-> [capital |-> Capital, borrowed |-> Borrowed, reserve |-> 0]]
    /\ reserves = [b \in Bots |-> NoReserve]
    /\ settled = {}
    /\ sess = [s \in Sessions |-> Idle]
    /\ failed = [b \in Bots |-> 0]

Become(s, x) == sess' = [sess EXCEPT ![s] = x]

\* The session's bot, with the changes made since it was loaded, is flushed.
Flushed(x) == Flush(bots[x.bot], x.loaded, x.now)

(***************************************************************************)
(* settle.                                                                 *)
(***************************************************************************)

\* The caller loads the bot.
LoadBot(s, b) ==
    /\ sess[s].pc = "idle"
    /\ Become(s, [Idle EXCEPT !.pc = "loaded", !.bot = b, !.loaded = bots[b],
                              !.now = bots[b]])
    /\ UNCHANGED <<tables, failed>>

NothingIsSettled(b, d) == FALSE
IsSettled(b, d) == \E r \in settled : r.bot = b /\ r.day = d

\* AlreadySettledError.
RefuseDay(s, d) ==
    /\ sess[s].pc = "loaded"
    /\ IsSettled(sess[s].bot, d)
    /\ Become(s, Idle)
    /\ UNCHANGED <<tables, failed>>

\* The shares are computed and the bot changed, in memory.
NotBelowZero(n) == IF n < 0 THEN 0 ELSE n
Settling(now, row) == [now EXCEPT !.capital = @ + row.retained,
                                  !.borrowed = NotBelowZero(@ - row.repaid)]

ShareDay(s, d, c) ==
    LET x == sess[s]
        row == Shares(x.bot, d, c)
    IN /\ x.pc = "loaded"
       /\ ~IsSettled(x.bot, d)
       /\ Become(s, [x EXCEPT !.pc = IF row.contributed > 0 THEN "reserving" ELSE "returning",
                              !.row = row, !.now = Settling(@, row)])
       /\ UNCHANGED <<tables, failed>>

(***************************************************************************)
(* contribute.                                                             *)
(***************************************************************************)

\* get_or_create looks for the bot's reserve.
LoadReserve(s) ==
    LET reserve == reserves[sess[s].bot] IN
    /\ sess[s].pc = "reserving"
    /\ Become(s, [sess[s] EXCEPT !.pc = IF reserve.exists THEN "contributing" ELSE "creating",
                                 !.balance = reserve.balance])
    /\ UNCHANGED <<tables, failed>>

\* Its insert commits what the session has of the bot; a reserve another call
\* created meanwhile is a second row of one bot, and the commit fails.
CreateReserve(s) ==
    LET x == sess[s] IN
    /\ x.pc = "creating"
    /\ IF reserves[x.bot].exists
         THEN Become(s, Idle) /\ UNCHANGED tables
         ELSE /\ reserves' = [reserves EXCEPT ![x.bot] = [exists |-> TRUE, balance |-> 0]]
              /\ bots' = [bots EXCEPT ![x.bot] = Flushed(x)]
              /\ Become(s, [x EXCEPT !.pc = "contributing", !.loaded = x.now])
              /\ UNCHANGED settled
    /\ UNCHANGED failed

\* The contribution is added to the reserve, and the bot told its balance.
ToldTheAmount(now, balance, amount) == [now EXCEPT !.reserve = amount]
ToldTheBalance(now, balance, amount) == [now EXCEPT !.reserve = balance + amount]

Contribute(s) ==
    LET x == sess[s]
        told == ToldTheBalance(x.now, x.balance, x.row.contributed)
    IN /\ x.pc = "contributing"
       /\ reserves' = [reserves EXCEPT ![x.bot].balance = x.balance + x.row.contributed]
       /\ bots' = [bots EXCEPT ![x.bot] = Flush(@, x.loaded, told)]
       /\ Become(s, [x EXCEPT !.pc = "returning", !.loaded = told, !.now = told])
       /\ UNCHANGED <<settled, failed>>

(***************************************************************************)
(* The Mother's share and the settlement's own commit.                     *)
(***************************************************************************)
LoadMother(s) ==
    LET x == sess[s] IN
    /\ x.pc = "returning"
    /\ IF x.row.returned > 0 /\ Parent(x.bot) # NoBot
         THEN Become(s, [x EXCEPT !.pc = "crediting", !.mother = bots[Mother]])
         ELSE Become(s, [x EXCEPT !.pc = "saving"])
    /\ UNCHANGED <<tables, failed>>

Credited(mother, row) == [mother EXCEPT !.capital = @ + row.returned]

\* uq_bot_settlement_date.
Taken(row) == \E r \in settled : r.bot = row.bot /\ r.day = row.day

\* The row is inserted with the bot's last changes and the Mother's, or the
\* constraint refuses it and all of them.
CommitDay(s) ==
    LET x == sess[s]
        kept == [bots EXCEPT ![x.bot] = Flushed(x)]
        credited == Flush(bots[Mother], x.mother, Credited(x.mother, x.row))
    IN /\ x.pc \in {"saving", "crediting"}
       /\ IF Taken(x.row)
            THEN UNCHANGED tables
            ELSE /\ settled' = settled \cup {x.row}
                 /\ bots' = IF x.pc = "saving" THEN kept
                            ELSE [kept EXCEPT ![Mother] = credited]
                 /\ UNCHANGED reserves
       /\ Become(s, Idle)
       /\ UNCHANGED failed

\* The reserve engine has committed something of this call.
HalfWay(x) ==
    /\ x.pc \in {"contributing", "returning", "crediting", "saving"}
    /\ x.row.contributed > 0 /\ x.loaded = x.now

\* A locked database or the end of the process: the rest does not happen.
Abort(s) ==
    /\ sess[s].pc # "idle"
    /\ IF HalfWay(sess[s])
         THEN /\ failed[sess[s].bot] < MaxFailures
              /\ failed' = [failed EXCEPT ![sess[s].bot] = @ + 1]
         ELSE UNCHANGED failed
    /\ Become(s, Idle)
    /\ UNCHANGED tables

Next ==
    \E s \in Sessions :
       \/ \E b \in Bots : LoadBot(s, b)
       \/ \E d \in Days : RefuseDay(s, d) \/ \E c \in Calls : ShareDay(s, d, c)
       \/ LoadReserve(s) \/ CreateReserve(s) \/ Contribute(s)
       \/ LoadMother(s) \/ CommitDay(s) \/ Abort(s)

Spec == Init /\ [][Next]_vars

(***************************************************************************)
(* Properties, of calls that do not overlap.                               *)
(***************************************************************************)

\* Type invariant.
TypeOK ==
    /\ bots \in [Bots -> BotRow]
    /\ reserves \in [Bots -> Reserve]
    /\ settled \subseteq SettlementRow
    /\ sess \in [Sessions -> Session]
    /\ failed \in [Bots -> 0..MaxFailures]

\* A column of the settled rows, summed.
Total(column, rows) == SumFunctionOnSet([r \in rows |-> r[column]], rows)
OwnRows(b, rows) == {r \in rows : r.bot = b}
SonsRows(b, rows) == {r \in rows : Parent(r.bot) = b}
Untouched(b) == failed[b] = 0 /\ \A s \in Sessions : sess[s].bot # b

\* The reserve a bot shows is the balance of its reserve, wherever a call fails
\* ("the single source of truth for a bot's reserve balance", docs/PHASES.md:129).
ReserveMirrored == \A b \in Bots : bots[b].reserve = reserves[b].balance

\* A bot of which no call runs or failed half way has exactly what the settled days left
\* it with: nothing is retained, reserved or repaid twice, or outside a settled
\* day (settle, lines 41-66).  The Mother has her sons' shares too.
BooksAgree ==
    \A b \in Bots : Untouched(b) =>
       LET own == OwnRows(b, settled)
       IN /\ bots[b].capital = Capital + Total("retained", own)
                                       + Total("returned", SonsRows(b, settled))
          /\ bots[b].reserve = Total("contributed", own)
          /\ bots[b].borrowed = NotBelowZero(Borrowed - Total("repaid", own))

\* What the family holds is what it began with and what the settled days won and
\* lost, but for two shares nobody gets: what the percentages leave of a good day,
\* which SettlementPolicyConfig does not make sum to 100 (when they sum to more, the
\* family holds money nobody won), and the share of a root's own result, which has
\* no parent to be returned to (lines 70-76).  A losing day is carried whole
\* whatever they are (lines 6-7).
UnsplitPct == 100 - RetainPct - ReservePct - ReturnPct
Gains(rows) == SumFunctionOnSet([r \in rows |-> NotBelowZero(r.net)], rows)

MoneyConserved ==
    (\A b \in Bots : Untouched(b)) =>
       SumFunctionOnSet([b \in Bots |-> bots[b].capital + bots[b].reserve], Bots)
          = Capital * Cardinality(Bots) + 100 * Total("net", settled)
            - UnsplitPct * Gains(settled) - Total("returned", OwnRows(Mother, settled))
=============================================================================
