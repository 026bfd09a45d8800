--------------------------- MODULE PaperExecutor ---------------------------
(***************************************************************************)
(* PaperExecutor.execute: an order with an idempotency key, checked        *)
(* against the bot, the global state and the day's statistics, filled, and *)
(* committed with its trade row; then the maximum-loss policy, in a commit *)
(* of its own.                                                             *)
(*                                                                         *)
(* Every caller works in a database session.  A session keeps the bot rows *)
(* it has loaded (sessionmaker(autoflush=False, expire_on_commit=False)),  *)
(* never reads them again, and writes the absolute value of the attributes *)
(* it changed.  Queries for trades, positions and the system state are     *)
(* answered from the committed tables at the moment they run.  Amounts are *)
(* integers of a small money unit.  peak_equity_usd and drawdown_pct, which *)
(* no rule reads, are left out.                                            *)
(***************************************************************************)
EXTENDS Integers, Sequences, FiniteSets, Functions, Rows

CONSTANTS Bots, Tokens, Keys,
          Sessions,             \* callers, each with a database session
          Orders,               \* orders the callers may submit
          NoKey, NoOrder, NoToken, NoPosition, NotLoaded,
          InitialCapital, MaxLoss,
          MaxPosition, MinWallet, MaxDailyLoss, MaxTrades, MaxLosses,
          SlipPct, FeePct,
          SystemStates,         \* values get_system_state takes in a run
          MaxDay                \* bound on the number of days

Sides == {"BUY", "SELL"}

\* liquid: the liquidity and slippage limits are respected.
Order == [bot : Bots, token : Tokens \cup {NoToken}, side : Sides,
          qty : Nat, price : Nat, liquid : BOOLEAN]

\* execute distinguishes DEAD bots only; ACTIVE and PAUSED matter to those who
\* choose the bots to trade.
BotStates == {"ACTIVE", "PAUSED", "DEAD"}
BotRow == [capital : Int, pnl : Int, count : Nat, state : BotStates]
Position == [id : Keys, bot : Bots, token : Tokens,
             qty : Nat, avg : Int, open : BOOLEAN]
Trade == [key : Keys, bot : Bots, token : Tokens \cup {NoToken}, side : Sides,
          qty : Nat, pnl : Int, day : Nat]
Ledger == [cash : Int, pnl : Int, rows : Nat]

ASSUME OrdersAssumption == Orders \subseteq Order /\ NoOrder \notin Orders
ASSUME OnlineAssumption == "ONLINE" \in SystemStates
ASSUME AmountsAssumption ==
    /\ InitialCapital \in Int /\ MaxLoss \in Nat /\ MaxDay \in Nat
    /\ MinWallet \in Int /\ MaxPosition \in Int /\ MaxDailyLoss \in Int
    /\ MaxTrades \in Nat /\ MaxLosses \in Nat
    /\ SlipPct \in 0..100 /\ FeePct \in 0..100
ASSUME SentinelsAssumption ==
    /\ NoKey \notin Keys /\ NoToken \notin Tokens
    /\ NoPosition \notin Position /\ NotLoaded \notin BotRow

VARIABLES bots,        \* committed rows of bots
          positions,   \* committed rows of positions
          trades,      \* committed rows of paper_trades, in commit order
          deaths,      \* DEAD rows of bot_lifecycle_events, per bot
          system,      \* what get_system_state returns
          today,
          sess,        \* the callers
          ledger       \* history: totals over the trade rows of each bot

vars == <<bots, positions, trades, deaths, system, today, sess, ledger>>
tables == <<bots, positions, trades, deaths, ledger>>

Phases == {"idle", "loaded", "approved", "priced", "committed", "enforced"}
Results == {"none", "executed", "died", "duplicate", "rejected", "error"}

Session == [pc : Phases, key : Keys \cup {NoKey}, order : Orders \cup {NoOrder},
            cached : [Bots -> BotRow \cup {NotLoaded}],
            pos : Position \cup {NoPosition}, day : Nat, result : Results]

(***************************************************************************)
(* Fills.                                                                  *)
(***************************************************************************)
FillPrice(o) == IF o.side = "BUY" THEN (o.price * (100 + SlipPct)) \div 100
                                  ELSE (o.price * (100 - SlipPct)) \div 100
Gross(o) == FillPrice(o) * o.qty
Fee(o) == (Gross(o) * FeePct) \div 100

\* What the order adds to the capital, and the profit it realises against
\* the average entry price of the position it sells.
Cash(o) == IF o.side = "BUY" THEN -(Gross(o) + Fee(o)) ELSE Gross(o) - Fee(o)
Realized(o, avg) == IF o.side = "BUY" THEN 0
                    ELSE (FillPrice(o) - avg) * o.qty - Fee(o)

\* Mistakes the properties must notice, each the body of the operator that
\* follows it.
FilledWithoutFee(row, o, avg) ==
    [row EXCEPT !.capital = @ + Cash(o) + Fee(o),
                !.pnl = @ + Realized(o, avg), !.count = @ + 1]

\* The bot as the session sees it after the fill.
Filled(row, o, avg) == [row EXCEPT !.capital = @ + Cash(o),
                                   !.pnl = @ + Realized(o, avg),
                                   !.count = @ + 1]

\* The position after the fill: a new row, a larger one, or a reduced one,
\* closed when nothing is left.
Opened(k, o) == [id |-> k, bot |-> o.bot, token |-> o.token, qty |-> o.qty,
                 avg |-> FillPrice(o), open |-> TRUE]
Increased(p, o) ==
    [p EXCEPT !.qty = @ + o.qty,
              !.avg = (p.avg * p.qty + Gross(o)) \div (p.qty + o.qty)]
ReducedNeverCloses(p, o) == [p EXCEPT !.qty = @ - o.qty]
Reduced(p, o) == [p EXCEPT !.qty = @ - o.qty, !.open = p.qty - o.qty > 0]

(***************************************************************************)
(* Queries.                                                                *)
(***************************************************************************)
KeysUsed == {trades[i].key : i \in DOMAIN trades}

RowsOf(b) == {i \in DOMAIN trades : trades[i].bot = b}
RowsOn(b, d) == {i \in RowsOf(b) : trades[i].day = d}

LossOn(b, d) == SumFunctionOnSet([i \in DOMAIN trades |-> -trades[i].pnl],
                                 {i \in RowsOn(b, d) : trades[i].pnl < 0})

\* Losing trades since the last winning one, over the bot's whole history.
ConsecutiveLosses(b) ==
    Cardinality({i \in RowsOf(b) :
                   /\ trades[i].pnl < 0
                   /\ \A j \in RowsOf(b) : j > i => trades[j].pnl <= 0})

OpenPositions(b, t) == {p \in positions : p.bot = b /\ p.token = t /\ p.open}

(***************************************************************************)
(* RiskEngine.evaluate.                                                    *)
(***************************************************************************)
ApprovesOneTooMany(o, row) ==
    /\ system = "ONLINE" /\ o.liquid /\ o.qty > 0
    /\ o.side = "BUY" => o.price * o.qty <= MaxPosition
    /\ Cardinality(RowsOn(o.bot, today)) <= MaxTrades
ApprovesWhenStopped(o, row) ==
    /\ o.liquid /\ o.qty > 0
    /\ o.side = "BUY" => o.price * o.qty <= MaxPosition
    /\ Cardinality(RowsOn(o.bot, today)) < MaxTrades

RiskApproves(o, row) ==
    /\ system = "ONLINE"
    /\ o.qty > 0 /\ o.price > 0
    /\ o.liquid
    /\ o.side = "BUY" => /\ o.price * o.qty <= MaxPosition
                         /\ row.capital >= MinWallet
    /\ LossOn(o.bot, today) < MaxDailyLoss
    /\ Cardinality(RowsOn(o.bot, today)) < MaxTrades
    /\ ConsecutiveLosses(o.bot) < MaxLosses

BreachedByMoreThanCeiling(row) == row.pnl < -MaxLoss

\* MaximumLossPolicy.has_breached.
HasBreached(row) == row.pnl <= -MaxLoss

(***************************************************************************)
(* execute, one action per stretch between the moments that matter.        *)
(***************************************************************************)
EmptyCache == [b \in Bots |-> NotLoaded]

Init ==
    /\ bots = [b \in Bots |-> [capital |-> InitialCapital, pnl |-> 0,
                               count |-> 0, state |-> "ACTIVE"]]
    /\ positions = {}
    /\ trades = <<>>
    /\ deaths = [b \in Bots |-> 0]
    /\ system = "ONLINE"
    /\ today = 0
    /\ sess = [s \in Sessions |->
                 [pc |-> "idle", key |-> NoKey, order |-> NoOrder,
                  cached |-> EmptyCache, pos |-> NoPosition, day |-> 0,
                  result |-> "none"]]
    /\ ledger = [b \in Bots |-> [cash |-> 0, pnl |-> 0, rows |-> 0]]

\* Session s answers its call with r and keeps the rows cached.
Answered(r, cached) ==
    [pc |-> "idle", key |-> NoKey, order |-> NoOrder, cached |-> cached,
     pos |-> NoPosition, day |-> 0, result |-> r]

\* session.get: the identity map first, the table otherwise.
Row(s, b) == IF sess[s].cached[b] = NotLoaded THEN bots[b]
                                              ELSE sess[s].cached[b]
Loaded(s, b) == [sess[s].cached EXCEPT ![b] = Row(s, b)]

\* The idempotency key already has a trade: it is returned, nothing else.
Replay(s, k) ==
    /\ sess[s].pc = "idle"
    /\ k \in KeysUsed
    /\ sess' = [sess EXCEPT ![s] = Answered("duplicate", sess[s].cached)]
    /\ UNCHANGED <<tables, system, today>>

RefusesNobody(row) == FALSE
RefusesBot(row) == row.state = "DEAD"

RefuseDead(s, k, o) ==
    /\ sess[s].pc = "idle"
    /\ k \notin KeysUsed
    /\ RefusesBot(Row(s, o.bot))
    /\ sess' = [sess EXCEPT ![s] = Answered("rejected", Loaded(s, o.bot))]
    /\ UNCHANGED <<tables, system, today>>

Begin(s, k, o) ==
    /\ sess[s].pc = "idle"
    /\ k \notin KeysUsed
    /\ ~RefusesBot(Row(s, o.bot))
    /\ sess' = [sess EXCEPT ![s] =
                  [Answered("none", Loaded(s, o.bot)) EXCEPT
                     !.pc = "loaded", !.key = k, !.order = o]]
    /\ UNCHANGED <<tables, system, today>>

\* The state and the day's statistics are queried and the order judged.
Evaluate(s) ==
    LET o == sess[s].order IN
    /\ sess[s].pc = "loaded"
    /\ sess' = [sess EXCEPT ![s] =
                  IF RiskApproves(o, @.cached[o.bot])
                  THEN [@ EXCEPT !.pc = "approved"]
                  ELSE Answered("rejected", @.cached)]
    /\ UNCHANGED <<tables, system, today>>

\* scalar_one_or_none raises when two rows match.
Ambiguous(o) == \E p, q \in OpenPositions(o.bot, o.token) : p # q
Insufficient(o) ==
    o.side = "SELL" /\ \A p \in OpenPositions(o.bot, o.token) : p.qty < o.qty

Price(s) ==
    LET o == sess[s].order IN
    /\ sess[s].pc = "approved"
    /\ ~Ambiguous(o) /\ ~Insufficient(o)
    /\ \E p \in IF OpenPositions(o.bot, o.token) = {} THEN {NoPosition}
                ELSE OpenPositions(o.bot, o.token) :
          sess' = [sess EXCEPT ![s].pc = "priced", ![s].pos = p,
                               ![s].day = today]
    /\ UNCHANGED <<tables, system, today>>

\* InsufficientPositionError or MultipleResultsFound, before any change.
PriceFails(s) ==
    LET o == sess[s].order IN
    /\ sess[s].pc = "approved"
    /\ Ambiguous(o) \/ Insufficient(o)
    /\ sess' = [sess EXCEPT ![s] = Answered("error", @.cached)]
    /\ UNCHANGED <<tables, system, today>>

\* The row a session's order inserts, and what it does to the positions.
EntryPrice(x) == IF x.order.side = "SELL" THEN x.pos.avg ELSE 0
TradeOf(x) == [key |-> x.key, bot |-> x.order.bot, token |-> x.order.token,
               side |-> x.order.side, qty |-> x.order.qty,
               pnl |-> Realized(x.order, EntryPrice(x)), day |-> x.day]

PositionsAfter(x) ==
    LET Now == IF x.order.side = "BUY" THEN Increased(x.pos, x.order)
                                       ELSE Reduced(x.pos, x.order)
    IN IF x.order.token = NoToken THEN positions
       ELSE IF x.pos = NoPosition THEN positions \cup {Opened(x.key, x.order)}
       ELSE {IF p.id = x.pos.id THEN Flush(p, x.pos, Now) ELSE p : p \in positions}

UniqueKeyDropped(x) == TRUE
UniqueKey(x) == x.key \notin KeysUsed

\* One transaction: the bot, the position and the trade row.
Commit(s) ==
    LET x == sess[s]
        b == x.order.bot
        now == Filled(x.cached[b], x.order, EntryPrice(x))
    IN /\ x.pc = "priced"
       /\ UniqueKey(x)
       /\ bots' = [bots EXCEPT ![b] = Flush(@, x.cached[b], now)]
       /\ positions' = PositionsAfter(x)
       /\ trades' = Append(trades, TradeOf(x))
       /\ ledger' = [ledger EXCEPT ![b] =
                       [cash |-> @.cash + Cash(x.order),
                        pnl |-> @.pnl + TradeOf(x).pnl,
                        rows |-> @.rows + 1]]
       /\ sess' = [sess EXCEPT ![s].pc = "committed", ![s].cached[b] = now]
       /\ UNCHANGED <<deaths, system, today>>

\* IntegrityError on the unique key: the rollback expires every row of the
\* session and the other call's trade is returned.
CommitConflict(s) ==
    /\ sess[s].pc = "priced"
    /\ ~UniqueKey(sess[s])
    /\ sess' = [sess EXCEPT ![s] = Answered("duplicate", EmptyCache)]
    /\ UNCHANGED <<tables, system, today>>

\* MaximumLossPolicy.enforce, in a transaction of its own.
Dies(row) == row.state # "DEAD" /\ HasBreached(row)

Enforce(s) ==
    LET b == sess[s].order.bot
        died == Dies(sess[s].cached[b])
    IN /\ sess[s].pc = "committed"
       /\ bots' = [bots EXCEPT ![b].state = IF died THEN "DEAD" ELSE @]
       /\ deaths' = [deaths EXCEPT ![b] = IF died THEN @ + 1 ELSE @]
       /\ sess' = [sess EXCEPT
                     ![s].pc = "enforced",
                     ![s].cached[b].state = IF died THEN "DEAD" ELSE @,
                     ![s].result = IF died THEN "died" ELSE "executed"]
       /\ UNCHANGED <<positions, trades, ledger, system, today>>

\* The notifier has been called; the result is returned.
Answer(s) ==
    /\ sess[s].pc = "enforced"
    /\ sess' = [sess EXCEPT ![s] = Answered(@.result, @.cached)]
    /\ UNCHANGED <<tables, system, today>>

\* An exception out of execute (a locked database, the notifier's HTTP call)
\* or the end of the process: what is not committed is lost.
Abort(s) ==
    /\ sess[s].pc # "idle"
    /\ sess' = [sess EXCEPT ![s] = Answered("error", EmptyCache)]
    /\ UNCHANGED <<tables, system, today>>

\* The caller closes its session, or drops the bot it held.
Close(s) ==
    /\ sess[s].pc = "idle"
    /\ sess' = [sess EXCEPT ![s] = Answered("none", EmptyCache)]
    /\ UNCHANGED <<tables, system, today>>

ChangeSystem ==
    /\ system' \in SystemStates
    /\ UNCHANGED <<tables, today, sess>>

NewDay ==
    /\ today < MaxDay
    /\ today' = today + 1
    /\ UNCHANGED <<tables, system, sess>>

Step(s) ==
    \/ \E k \in Keys : Replay(s, k)
    \/ \E k \in Keys, o \in Orders : RefuseDead(s, k, o) \/ Begin(s, k, o)
    \/ Evaluate(s) \/ Price(s) \/ PriceFails(s)
    \/ Commit(s) \/ CommitConflict(s) \/ Enforce(s) \/ Answer(s)
    \/ Close(s)

NextReliable == (\E s \in Sessions : Step(s)) \/ ChangeSystem \/ NewDay
Next == NextReliable \/ \E s \in Sessions : Abort(s)

SpecReliable == Init /\ [][NextReliable]_vars
Spec == Init /\ [][Next]_vars

(***************************************************************************)
(* Properties.                                                             *)
(***************************************************************************)

\* Type invariant.
TypeOK ==
    /\ bots \in [Bots -> BotRow]
    /\ positions \subseteq Position
    /\ trades \in Seq(Trade)
    /\ deaths \in [Bots -> Nat]
    /\ system \in SystemStates
    /\ today \in Nat
    /\ sess \in [Sessions -> Session]
    /\ ledger \in [Bots -> Ledger]

\* The balance, the profit and the trade count of every bot are those of its
\* trade rows, at every moment, failed calls and replayed keys included
\* ("balance and positions exactly as if it were a real operation",
\* paper/paper_executor.py:1-2).  Callers that overlap break it.
LedgerAgrees ==
    \A b \in Bots : /\ bots[b].capital = InitialCapital + ledger[b].cash
                    /\ bots[b].pnl = ledger[b].pnl
                    /\ bots[b].count = ledger[b].rows

\* A bot and a token have at most one OPEN position, and what the rows of
\* positions hold is what the trade rows bought and did not sell
\* (_open_position and the position updates of execute).
Moved(b, t, side) ==
    SumFunctionOnSet([i \in DOMAIN trades |-> trades[i].qty],
                     {i \in RowsOf(b) : trades[i].token = t /\ trades[i].side = side})
HeldIn(b, t) ==
    SumFunctionOnSet([p \in positions |-> p.qty],
                     {p \in positions : p.bot = b /\ p.token = t})
PositionsAgree ==
    \A b \in Bots, t \in Tokens :
        /\ Cardinality(OpenPositions(b, t)) <= 1
        /\ \A p \in positions : p.open <=> p.qty > 0
        /\ HeldIn(b, t) = Moved(b, t, "BUY") - Moved(b, t, "SELL")

\* The account of a dead bot does not move and no trade of its appears
\* (the state check of execute, after whatever failed or was retried).
DeadBotFrozen ==
    [][\A b \in Bots : bots[b].state = "DEAD" =>
          /\ bots'[b] = bots[b]
          /\ ledger'[b] = ledger[b]]_vars

\* No step of any caller of the executor, however stale the rows it holds, brings
\* a dead bot back to life (operators' requests are in TradingCycle).
DeadForever ==
    [][\A b \in Bots : bots[b].state = "DEAD" => bots'[b].state = "DEAD"]_vars

\* When no call is in flight every bot at or past its ceiling is dead, by one
\* death with one lifecycle row ("a bot that crosses its loss ceiling dies
\* immediately, mid-session, no exceptions", paper/paper_executor.py:6-7;
\* "idempotent", engines/max_loss_policy.py:30-31).
AtRest == \A s \in Sessions : sess[s].pc = "idle"
DeathFollowsBreach ==
    AtRest => \A b \in Bots :
        /\ bots[b].pnl <= -MaxLoss => bots[b].state = "DEAD"
        /\ deaths[b] = IF bots[b].state = "DEAD" THEN 1 ELSE 0

\* Overlapping callers may pass max_trades_per_day by as many orders as there
\* are other callers, never by more.
TradesPerDayBounded ==
    \A b \in Bots, d \in 0..MaxDay :
        Cardinality(RowsOn(b, d)) <= MaxTrades + Cardinality(Sessions) - 1

\* A bot that holds an open position can still be let out of it on some day:
\* no rule has locked it for good ("must always be allowed to go through so a
\* bot can never be trapped in a position it cannot exit",
\* engines/risk_engine.py:80-82).
NeverTrapped ==
    \A b \in Bots, t \in Tokens :
        (OpenPositions(b, t) # {} /\ bots[b].state = "ACTIVE")
            => ConsecutiveLosses(b) < MaxLosses

\* Run one after another, the calls implement the promise of OrderLedger.
Book == INSTANCE OrderLedger
          WITH done <- KeysUsed,
               account <- [b \in Bots |-> [cash |-> bots[b].capital - InitialCapital,
                                           pnl |-> bots[b].pnl,
                                           rows |-> bots[b].count]],
               alive <- {b \in Bots : bots[b].state # "DEAD"}
Promise == Book!Spec
=============================================================================
