---------------------------- MODULE TradingCycle ----------------------------
(***************************************************************************)
(* AutonomousTradingCycle.run_once on top of PaperExecutor: for every      *)
(* watched launch and every bot that was ACTIVE when the cycle began, one  *)
(* BUY, then one SELL of the same quantity at a drawn exit price; then the *)
(* PatternLearner records the outcome and may suggest growth, and a death  *)
(* is given its post-mortem.                                               *)
(*                                                                         *)
(* A cycle is a session of PaperExecutor: the scheduler's tick runs one on *)
(* the event loop (AutoTrading) and POST /api/system/run-cycle any number  *)
(* more in worker threads.  Meanwhile operators pause and resume bots, each *)
(* request in a session of its own that loads the bot's row, judges that    *)
(* copy and commits later.  Every order is for one unit: the position       *)
(* sizing and the learner's multiplier only choose how large that unit is.  *)
(***************************************************************************)
EXTENDS PaperExecutor

CONSTANTS EntryPriceOfLaunch,  \* what a unit costs when it is launched
          ExitPrices,          \* prices the synthetic walk may end at
          PerCycle,            \* watched launches of a cycle, at most
          TradeKey(_, _, _),   \* the idempotency key of token, bot and side
          Buckets, BucketOf(_), \* liquidity bands, and that of a token
          MinSamples,          \* outcomes that make a pattern of a band
          Operators, NoRequest \* requests to pause or resume that may overlap

VARIABLES cyc,          \* what each cycle is doing
          launched,     \* tokens registered so far
          postMortems,  \* rows of post_mortems, per bot
          outcomes,     \* round trips remembered per band: number and sum
          suggestions,  \* rows of growth_suggestions, per band
          asked,        \* pauses and resumes that have loaded their bot
          revived,      \* history: dead bots such requests wrote over, per bot
          left          \* history: launches a bot could not be let out of

learned == <<outcomes, suggestions>>
switches == <<asked, revived>>
cvars == <<vars, cyc, launched, postMortems, learned, switches, left>>

Stages == {"off", "choosing", "buying", "selling", "judging", "suggesting",
           "explaining"}
Pairs == Tokens \X Bots
Off == [stage |-> "off", todo |-> {}, now |-> <<NoToken, NoOrder>>]

BuyOrder(t, b) == [bot |-> b, token |-> t, side |-> "BUY", qty |-> 1,
                   price |-> EntryPriceOfLaunch, liquid |-> TRUE]
SellOrder(t, b, p) == [BuyOrder(t, b) EXCEPT !.side = "SELL", !.price = p]

ASSUME CycleAssumption ==
    \A t \in Tokens, b \in Bots :
        /\ TradeKey(t, b, "BUY") \in Keys /\ TradeKey(t, b, "SELL") \in Keys
        /\ BuyOrder(t, b) \in Orders
        /\ \A p \in ExitPrices : SellOrder(t, b, p) \in Orders

CycleInit == /\ Init
             /\ cyc = [s \in Sessions |-> Off]
             /\ launched = {}
             /\ postMortems = [b \in Bots |-> 0]
             /\ outcomes = [u \in Buckets |-> [n |-> 0, sum |-> 0]]
             /\ suggestions = [u \in Buckets |-> 0]
             /\ asked = [o \in Operators |-> NoRequest]
             /\ revived = [b \in Bots |-> 0]
             /\ left = {}

\* _tradeable_bots: the rows of the ACTIVE bots, kept for the whole cycle.
TradeableBots == {b \in Bots : bots[b].state = "ACTIVE"}

\* PumpFunMonitor.poll: "ts" are the launches it registers and decides to WATCH,
\* a few at a time, each once.  Launches it decides to IGNORE (no liquidity, a
\* creator with a record) concern no bot; a cycle that watches none does nothing.
FreshLaunches(ts) ==
    ts # {} /\ ts \cap launched = {} /\ Cardinality(ts) <= PerCycle

StartCycle(s, ts) ==
    /\ cyc[s].stage = "off" /\ sess[s].pc = "idle"
    /\ FreshLaunches(ts)
    /\ launched' = launched \cup ts
    /\ cyc' = [cyc EXCEPT ![s] = [Off EXCEPT !.stage = "choosing",
                                            !.todo = ts \X TradeableBots]]
    /\ sess' = [sess EXCEPT ![s] =
                  Answered("none", [b \in Bots |-> IF b \in TradeableBots
                                                   THEN bots[b] ELSE NotLoaded])]
    /\ UNCHANGED <<tables, system, today, postMortems, learned, switches, left>>

\* Between two calls of the executor, with no exception on its way out.
Running(s) == sess[s].pc = "idle" /\ sess[s].result # "error"

\* The bot died earlier in this cycle, or has nothing to invest.
Passed(row) == row.state = "DEAD" \/ row.capital < EntryPriceOfLaunch

Skip(s, t, b) ==
    /\ cyc[s].stage = "choosing" /\ Running(s) /\ <<t, b>> \in cyc[s].todo
    /\ Passed(Row(s, b))
    /\ cyc' = [cyc EXCEPT ![s].todo = @ \ {<<t, b>>}]
    /\ UNCHANGED <<vars, launched, postMortems, learned, switches, left>>

Buy(s, t, b) ==
    /\ cyc[s].stage = "choosing" /\ Running(s) /\ <<t, b>> \in cyc[s].todo
    /\ ~Passed(Row(s, b))
    /\ Begin(s, TradeKey(t, b, "BUY"), BuyOrder(t, b))
    /\ cyc' = [cyc EXCEPT ![s] = [stage |-> "buying", todo |-> @.todo \ {<<t, b>>},
                                  now |-> <<t, b>>]]
    /\ UNCHANGED <<launched, postMortems, learned, switches, left>>

\* The BUY was executed and left the bot alive.
Sell(s, p) ==
    LET t == cyc[s].now[1]
        b == cyc[s].now[2]
    IN /\ cyc[s].stage = "buying" /\ sess[s].pc = "idle"
       /\ sess[s].result = "executed"
       /\ Begin(s, TradeKey(t, b, "SELL"), SellOrder(t, b, p))
       /\ cyc' = [cyc EXCEPT ![s].stage = "selling"]
       /\ UNCHANGED <<launched, postMortems, learned, switches, left>>

\* Mistakes: no SELL after the BUY, and a SELL whose rejection is overlooked.
BuyIsEnough(stage, result) ==
    \/ stage = "buying" /\ result \in {"rejected", "executed", "died"}
    \/ stage = "selling" /\ result = "rejected"
RejectedSellWaits(stage, result) ==
    stage = "buying" /\ result \in {"rejected", "died"}

\* The BUY was rejected or killed the bot, or the SELL was rejected: on to the
\* next bot.
NothingLeft(stage, result) ==
    \/ stage = "buying" /\ result \in {"rejected", "died"}
    \/ stage = "selling" /\ result = "rejected"

NextBot(s) ==
    /\ sess[s].pc = "idle" /\ NothingLeft(cyc[s].stage, sess[s].result)
    /\ cyc' = [cyc EXCEPT ![s].stage = "choosing"]
    /\ UNCHANGED <<vars, launched, postMortems, learned, switches, left>>

\* PatternLearner.record_outcome: the profit of the SELL goes to the memory of
\* its liquidity band.
PnlOf(k) == LET i == CHOOSE i \in DOMAIN trades : trades[i].key = k IN trades[i].pnl

RememberLoss(x, pnl) == [x EXCEPT !.n = @ + 1, !.sum = IF pnl < 0 THEN @ + pnl ELSE @]
Remember(x, pnl) == [x EXCEPT !.n = @ + 1, !.sum = @ + pnl]

RecordOutcome(s) ==
    LET t == cyc[s].now[1]
        b == cyc[s].now[2]
    IN /\ cyc[s].stage = "selling" /\ sess[s].pc = "idle"
       /\ sess[s].result \in {"executed", "died"}
       /\ outcomes' = [outcomes EXCEPT ![BucketOf(t)] =
                          Remember(@, PnlOf(TradeKey(t, b, "SELL")))]
       /\ cyc' = [cyc EXCEPT ![s].stage = "judging"]
       /\ UNCHANGED <<vars, launched, postMortems, suggestions, switches, left>>

\* check_growth_suggestion: a band with enough outcomes, positive on average,
\* and no suggestion yet.
WorthWhenever(u) == outcomes[u].n >= MinSamples /\ outcomes[u].sum > 0
WorthSuggesting(u) ==
    outcomes[u].n >= MinSamples /\ outcomes[u].sum > 0 /\ suggestions[u] = 0

\* Mistake: the SELL's death is taken for any other end.
DeathNeedsNothing(result) == "choosing"

\* What follows the learning: the post-mortem, if the SELL killed the bot.
AfterSell(result) == IF result = "died" THEN "explaining" ELSE "choosing"

JudgePattern(s) ==
    /\ cyc[s].stage = "judging" /\ Running(s)
    /\ cyc' = [cyc EXCEPT ![s].stage = IF WorthSuggesting(BucketOf(cyc[s].now[1]))
                                       THEN "suggesting" ELSE AfterSell(sess[s].result)]
    /\ UNCHANGED <<vars, launched, postMortems, learned, switches, left>>

SuggestGrowth(s) ==
    /\ cyc[s].stage = "suggesting" /\ Running(s)
    /\ suggestions' = [suggestions EXCEPT ![BucketOf(cyc[s].now[1])] = @ + 1]
    /\ cyc' = [cyc EXCEPT ![s].stage = AfterSell(sess[s].result)]
    /\ UNCHANGED <<vars, launched, postMortems, outcomes, switches, left>>

\* create_post_mortem, in a transaction of its own.
Explain(s) ==
    /\ cyc[s].stage = "explaining" /\ Running(s)
    /\ sess[s].cached[cyc[s].now[2]].state = "DEAD"
    /\ postMortems' = [postMortems EXCEPT ![cyc[s].now[2]] = @ + 1]
    /\ cyc' = [cyc EXCEPT ![s].stage = "choosing"]
    /\ UNCHANGED <<vars, launched, learned, switches, left>>

Finish(s) ==
    /\ cyc[s].stage = "choosing" /\ Running(s) /\ cyc[s].todo = {}
    /\ cyc' = [cyc EXCEPT ![s] = Off]
    /\ sess' = [sess EXCEPT ![s] = Answered("none", EmptyCache)]
    /\ UNCHANGED <<tables, system, today, launched, postMortems, learned, switches, left>>

\* An exception leaves run_once; its caller closes the session.
CycleFails(s) ==
    /\ cyc[s].stage # "off" /\ sess[s].pc = "idle" /\ sess[s].result = "error"
    /\ cyc' = [cyc EXCEPT ![s] = Off]
    /\ sess' = [sess EXCEPT ![s] = Answered("none", EmptyCache)]
    /\ UNCHANGED <<tables, system, today, launched, postMortems, learned, switches, left>>

\* A SELL judged while the system is stopped or after the day's last trade, and
\* a BUY after which the policy finds a bot that had been past its ceiling
\* before: neither comes to a sale, and no cycle returns to the launch.
NoWayOut(s) ==
    LET b == cyc[s].now[2]
    IN \/ /\ cyc[s].stage = "selling" /\ sess[s].pc = "loaded"
          /\ system # "ONLINE" \/ Cardinality(RowsOn(b, today)) >= MaxTrades
       \/ /\ cyc[s].stage = "buying" /\ sess[s].pc = "committed"
          /\ revived[b] > 0 /\ bots[b].pnl <= -MaxLoss

\* The calls into the executor.
Executing(s) ==
    /\ \/ Evaluate(s) \/ Price(s) \/ PriceFails(s)
       \/ Commit(s) \/ CommitConflict(s) \/ Enforce(s) \/ Answer(s)
    /\ left' = IF NoWayOut(s) THEN left \cup {cyc[s].now} ELSE left
    /\ UNCHANGED <<cyc, launched, postMortems, learned, switches>>

\* A locked database, a notifier that cannot connect, or a dead process, in
\* the middle of an order or between two.
Interrupt(s) ==
    /\ \/ Abort(s)
       \/ /\ cyc[s].stage # "off" /\ Running(s)
          /\ sess' = [sess EXCEPT ![s] = Answered("error", EmptyCache)]
          /\ UNCHANGED <<tables, system, today>>
    /\ UNCHANGED <<cyc, launched, postMortems, learned, switches, left>>

\* pause_bot and resume_bot: the row is loaded and that copy judged,
PausesTheDead(state, to) ==
    IF to = "PAUSED" THEN state # "PAUSED" ELSE state = "PAUSED"
MaySwitch(state, to) ==
    IF to = "PAUSED" THEN state \notin {"DEAD", "PAUSED"} ELSE state = "PAUSED"

LoadSwitch(o, b, to) ==
    /\ asked[o] = NoRequest
    /\ MaySwitch(bots[b].state, to)
    /\ asked' = [asked EXCEPT ![o] = [bot |-> b, to |-> to, deaths |-> deaths[b]]]
    /\ UNCHANGED <<vars, cyc, launched, postMortems, learned, revived, left>>

\* and the new state is committed, whatever the table says by then.
CommitSwitch(o) ==
    /\ asked[o] # NoRequest
    /\ LET b == asked[o].bot
       IN /\ bots' = [bots EXCEPT ![b].state = asked[o].to]
          /\ revived' = [revived EXCEPT ![b] = IF bots[b].state = "DEAD" THEN @ + 1 ELSE @]
    /\ asked' = [asked EXCEPT ![o] = NoRequest]
    /\ UNCHANGED <<positions, trades, deaths, system, today, sess, ledger,
                   cyc, launched, postMortems, learned, left>>

Switching ==
    \E o \in Operators :
        CommitSwitch(o) \/ \E b \in Bots, to \in {"PAUSED", "ACTIVE"} : LoadSwitch(o, b, to)

\* The system is stopped or started, or the day turns.
Around == /\ ChangeSystem \/ NewDay
          /\ UNCHANGED <<cyc, launched, postMortems, learned, switches, left>>

Progress(s) ==
    \/ \E t \in Tokens, b \in Bots : Skip(s, t, b) \/ Buy(s, t, b)
    \/ \E p \in ExitPrices : Sell(s, p)
    \/ NextBot(s) \/ RecordOutcome(s) \/ JudgePattern(s) \/ SuggestGrowth(s)
    \/ Explain(s) \/ Finish(s)
    \/ Executing(s)

CycleNextReliable ==
    \/ \E s \in Sessions : Progress(s) \/ \E ts \in SUBSET Tokens : StartCycle(s, ts)
    \/ Switching \/ Around

CycleSpecReliable == CycleInit /\ [][CycleNextReliable]_cvars

(***************************************************************************)
(* Properties.                                                             *)
(***************************************************************************)

\* Type invariant.
Request == [bot : Bots, to : {"PAUSED", "ACTIVE"}, deaths : Nat]
CycleTypeOK ==
    /\ TypeOK
    /\ cyc \in [Sessions -> [stage : Stages, todo : SUBSET Pairs,
                             now : Pairs \cup {<<NoToken, NoOrder>>}]]
    /\ launched \subseteq Tokens
    /\ postMortems \in [Bots -> Nat]
    /\ outcomes \in [Buckets -> [n : Nat, sum : Int]]
    /\ suggestions \in [Buckets -> Nat]
    /\ asked \in [Operators -> Request \cup {NoRequest}]
    /\ revived \in [Bots -> Nat]
    /\ left \subseteq Pairs

\* A cycle that goes on after a bot of its own has died has left a
\* post-mortem of that death ("a bot's history must never be silently
\* discarded", engines/autonomous_trading_cycle.py:27-32).
NoSilentDeath ==
    \A s \in Sessions, b \in Bots :
        (cyc[s].stage = "choosing" /\ sess[s].cached[b] # NotLoaded)
            => (sess[s].cached[b].state = "DEAD" => postMortems[b] > 0)

\* Between cycles exactly those positions are open whose bot could not be let
\* out: the SELL was judged while the system was stopped or after the day's last
\* trade, or the BUY killed a bot that an operator had brought back past its
\* ceiling.  Every other round trip is complete ("the mock launch's whole
\* (instantaneous) lifecycle in this cycle", engines/autonomous_trading_cycle.py:
\* 156-157), with one cycle at a time and without failures.
OpenOnlyWithoutWayOut ==
    (\A s \in Sessions : cyc[s].stage = "off")
        => \A b \in Bots, t \in Tokens : OpenPositions(b, t) # {} <=> <<t, b>> \in left

\* When no call is in flight every bot at or past its ceiling is dead, or has been
\* and an operator wrote over its death; and every death has one row, no more than
\* one for each time the bot was alive ("a bot that crosses its loss ceiling dies
\* immediately", paper/paper_executor.py:6-7; "idempotent",
\* engines/max_loss_policy.py:30-31).
EveryDeathCounted ==
    AtRest => \A b \in Bots :
        /\ bots[b].pnl <= -MaxLoss => bots[b].state = "DEAD" \/ revived[b] > 0
        /\ deaths[b] = revived[b] + IF bots[b].state = "DEAD" THEN 1 ELSE 0

\* A bot comes back from death only by a pause or a resume that had loaded its row
\* before it died (api/routes/bots.py:151, :183): no cycle, however stale the rows
\* it holds, no request that saw the death, no failure and no restart undoes one.
RevivedOnlyByRace ==
    [][\A b \in Bots :
         bots[b].state = "DEAD" /\ bots'[b].state # "DEAD"
           => \E o \in Operators : /\ asked[o] # NoRequest /\ asked[o].bot = b
                                   /\ asked[o].deaths < deaths[b]]_cvars

\* The memory the learner consults is that of the trades: between cycles every
\* band holds the profits of the SELLs of its tokens, each once ("each
\* round-trip trade's real (simulated) outcome", engines/pattern_learning.py:1-4).
SellsOf(u) == {i \in DOMAIN trades : /\ trades[i].side = "SELL"
                                    /\ BucketOf(trades[i].token) = u}
LearnsFromTrades ==
    (\A s \in Sessions : cyc[s].stage = "off")
        => \A u \in Buckets :
              outcomes[u] = [n |-> Cardinality(SellsOf(u)),
                             sum |-> SumFunctionOnSet([i \in DOMAIN trades |-> trades[i].pnl],
                                                     SellsOf(u))]

\* Cycles that overlap look for an earlier suggestion before any of them has
\* committed one: a band may be suggested by each of them, and never again after
\* that, whatever fails and however its average moves.
SuggestionsBounded ==
    \A u \in Buckets : suggestions[u] <= Cardinality(Sessions)

\* Every cycle that begins ends.
CycleEnds == \A s \in Sessions : cyc[s].stage # "off" ~> cyc[s].stage = "off"
=============================================================================
