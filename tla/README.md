# A TLA+ development of Broker Sakuma

Broker Sakuma (`src/backend/src/broker_sakuma`) is a FastAPI server over SQLite that
simulates a family of trading bots with paper money: a Mother Bot lends a fixed test capital
to her sons, the sons trade synthetic launches, die at a maximum loss, and are resurrected as
new bots. This directory models the parts of it that change money, permissions, lineage or
the standing of what the bots may trade with, checks them with TLC and proves their main properties with TLAPS.

Everything below was read from the code; line numbers are those of the commit in `src/`.
`PROJECT.json` holds the component list, the runs, the mapping of every definition to its
source lines, the hazards with the properties that watch them, and the theorems.

## 1. The system

### 1.1 How it executes

* **Threads.** FastAPI runs its synchronous route handlers in a pool of worker threads
  (`api/routes/*.py`). The auto-trading loop (`api/app.py:29-57`) runs a cycle on the event
  loop; `POST /api/system/run-cycle` runs any number more in workers. Nothing is locked.
* **Sessions.** Every request and every tick has its own SQLAlchemy session
  (`db/base.py`, `api/deps.py`): `autoflush=False, expire_on_commit=False`. A row once loaded
  is kept and never read again; a flush writes the *absolute value* of the *attributes that
  changed*. Queries see what is committed.
* **Commits.** SQLite has one writer; each `session.commit()` is one atomic step. One
  handler often has several, and the process may stop between them, or any of them may fail
  with "database is locked".

These facts are the sources of all the hard behaviours: stale rows, lost updates, checks in
one transaction and effects in another, and operations that stop halfway.

### 1.2 Components

| Component | State | Operations | What makes it correct |
|---|---|---|---|
| **System state** `engines/system_state.py`, `services/system_control_service.py`, `api/routes/system.py` | append-only `system_events`; the state is the row with the greatest `created_at` | start, pause, resume, kill switch (API); reset, halt, clear (engines) | a stop is lifted only explicitly; a kill is in force when committed |
| **Paper executor** `paper/paper_executor.py`, **risk engine** `engines/risk_engine.py`, **maximum loss** `engines/max_loss_policy.py` | `bots`, `positions`, `paper_trades`, `bot_lifecycle_events` | `execute` with an idempotency key | balances are those of the trades; an order counts once; a bot at its ceiling dies and stays dead |
| **Trading cycle** `engines/autonomous_trading_cycle.py`, `engines/post_mortem_engine.py` | the cycle's bots and watched launches, `post_mortems` | `run_once` | what is bought is sold; a stop reaches running cycles; no death without post-mortem; cycles end |
| **Treasury** `engines/loan_engine.py`, `api/routes/bots.py` | `bots`, `theses`, `bot_loans`, `funding_events` | activate, pause, resume, `create_loan`, `record_payment` | exposure limit; the Mother's patrimony; books agree; death blocks capital |
| **Thesis engine** `engines/thesis_engine.py` | `theses` | create, advance, start test, evaluate, approve, disable, escalate | one rung at a time; only approved theses escalate |
| **Lineage** `engines/lineage_engine.py`, `engines/resurrection_engine.py` | `bots`, `bot_lineage` | create Mother, spawn, resurrect | one root; growth limits; a complete trail; distinct names |
| **Settlement** `engines/daily_settlement_engine.py`, `reserve_growth_engine.py`, `loan_interest_engine.py` | `daily_settlements`, `reserves`, `bots` | `settle`, `contribute`, `compute_interest` | a day is settled once; what is split is what was earned |
| **Auto-trading control** `api/app.py` | one background task | start, stop, server restart | at most one loop; a failed cycle does not end it |
| **Telegram control** `engines/telegram_control_service.py` | users, confirmations, audit | commands by role | only authorised roles act; two-step stop |
| **Notifications** `engines/telegram_notifications.py`, `adapters/telegram` | none | an HTTP call after a winning trade | its failure must not undo the trade |
| **Pattern learning** `engines/pattern_learning.py`, `api/routes/growth_suggestions.py` | `growth_suggestions` | suggest, decide, multiplier | bounded multiplier, one suggestion per pattern |
| **Backtests** `engines/backtest_engine.py` | `strategy_versions`, `backtests` | create, run a backtest, promote, review, approve, disable; `validate_split_ordering` | no stage without its evidence; a disabled version stays so; no look-ahead (not kept by the code, section 3.1) |
| **Protocol discovery** `engines/protocol_discovery.py` | `protocols` | register, update evidence, evaluate, flag, clear, disable | eligible only with a score or a review; the score is that of the evidence |
| **Wallets** `engines/wallet_manager.py` | `wallets` | register, activate, change address, rename | one wallet per address; changes on record |
| **Launch monitor** `adapters/pumpfun/monitor.py` | `creators`, `tokens`, `opportunities` | `evaluate` | one row per creator; creators of many launches are flagged |
| **Trade suggestions** `engines/trade_suggestion_engine.py`, `api/routes/trade_suggestions.py` | `trade_suggestions` | suggest, dismiss, mark done | a suggestion only for an active watch-only wallet |
| **Learning and discovery** `engines/learning_engine.py`, `engines/crypto_discovery.py` | `learning_events`, `opportunities` | record, propose a test, register an opportunity | — |
| **Memory, council** `engines/collective_memory.py`, `engines/bot_communication.py` | append-only rows | record, list | nothing reads them back into a decision |
| **Signer** `engines/signer.py` | none | refuses | — |
| **Dashboard, misc. routes, schemas, web page, macOS app, extension, scripts, configuration** | none of their own | read and display | — |

### 1.3 Interactions

* A **cycle** calls the **executor** for every (launch, bot), which reads the **system
  state**, writes the bot's row and then calls the **maximum-loss policy**.
* **Operators** change the system state and the bots' states while cycles run; the cycle sees
  the system state (queried for every order) but not the bots' rows (loaded once).
* **Activation** goes through the **thesis engine** (four commits), the **loan engine**
  (one) and the bot's own state (one), over rows loaded at its beginning, while a cycle may
  kill the bot.
* **Resurrection** is a **spawn** followed by a commit of its own.
* A **cycle** begins with the **launch monitor** (four commits of its own) and a **trade
  suggestion** for a launch to WATCH, which needs an active **wallet**.
* **Learning** may begin a **thesis**: a hypothesis is one commit, the thesis another.
* Versions, theses, protocols and wallets are rows their caller has loaded; the engines check
  and change that copy and commit it. No rule reads two of these kinds of rows.

## 2. Modules

| Module | Extends | Models |
|---|---|---|
| `Rows` | | what a session writes: `Flush`, the changed attributes over the table's row |
| `SystemControl` | | the system state with its requests in flight |
| `TelegramControl` | `SystemControl` | `handle_command`: commands by role, the audit row of each |
| `OrderLedger` | | **abstract**: an order takes effect once, whole, on a living bot |
| `PaperExecutor` | `Rows` | `execute`, with `RiskEngine.evaluate` and `MaximumLossPolicy.enforce` |
| `TradingCycle` | `PaperExecutor` | `run_once` with post-mortems and the pattern learner; operators pause and resume bots |
| `AutoTrading` | `TradingCycle` | the background loop and its switch, cycles by hand, stops, restarts |
| `Treasury` | `Rows` | activation, pause, resume, loans and payments |
| `Lineage` | | Mother Bot, spawn and resurrection |
| `Settlement` | `Rows` | `settle` and `contribute` |
| `SessionCopies` | `Rows` | the rows that sessions hold, and what a commit of one writes |
| `StrategyVersions` | `SessionCopies` | versions and the backtests on record |
| `ThesisLadder` | `SessionCopies` | the whole life of a thesis, `propose_new_test`, the ladder |
| `ProtocolReview` | `SessionCopies` | protocols, their evidence, score and status |
| `Wallets` | `SessionCopies` | registering, activating and re-addressing wallets |
| `LaunchMonitor` | | `evaluate`, opportunities and trade suggestions |
| `Research` | the five above | their composition |
| `MC*` | the above | model values, order sets, symmetry |
| `Sums` | `Functions`, `TLAPS` | lemmas: sums over finite sets |
| `*Proofs` | the above and `TLAPS` | theorems; `ControlProofs` is about `SystemControl` and `TelegramControl`, `AutoTradingProofs` also about `TradingCycle` |

### 2.1 `SystemControl`

`events` is the committed `system_events` table, `clock` the greatest `created_at` handed out,
`req` the requests. A request reads the latest row (`ReadState`; a refused or idempotent one
answers at once), and then writes: `start`, `resume` and `pause` compute `created_at`
before they hold SQLite's write lock (`Stamp`, later `CommitStamped`); a kill's audit row is
written first in the same flush, so its `created_at` is computed under the lock
(`CommitUnderLock`). Hence rows may commit in another order than their stamps — but never a
kill's. `Halt`, `ClearHalt` and `ResetKillSwitch` are the engines' methods, which look at
nothing. `FailWrite` is a locked database and `Crash` the end of the process.

### 2.2 `TelegramControl`

A chat is one of the requests of `SystemControl`, with `handle_command` around it. `chat` is
what it is doing, `audits` the committed `TELEGRAM_COMMAND` rows. `Receive` takes a user and
an attempt; then the code's early returns are an action each: `Refuse` (no permission),
`Report`, `AskConfirmation` (a kill without CONFIRM), `AskReason` (without a reason: answered,
not logged) and `Act`, the call of `SystemControlService`. `StampRow` and `CommitRow` are that
service's own steps; `WriteLog` is the second commit. `FailCommand` and `CrashAll` may come
between them. The other requests are HTTP ones. `ImplementsSystemControl` says the
composition is `SystemControl` as far as the system state goes. Within `src/`, `handle_command`
is called by its tests only: no polling client is wired to it.

### 2.3 `PaperExecutor` and `OrderLedger`

`bots`, `positions`, `trades` and `deaths` are the committed tables, `system` what
`get_system_state` returns, `sess` the callers: each has its cache of bot rows, its order and
key, and a program counter that separates the stretches of `execute` between which another
caller can act:

| Action | Code (`paper/paper_executor.py`) |
|---|---|
| `Replay`, `RefuseDead`, `Begin` | the idempotency query and the load of the bot |
| `Evaluate` | the day's statistics and `RiskEngine.evaluate` |
| `Price`, `PriceFails` | the open position, the fill, `InsufficientPositionError` |
| `Commit`, `CommitConflict` | the transaction, or the `IntegrityError` and rollback |
| `Enforce` | `MaximumLossPolicy.enforce`, a second transaction |
| `Answer`, `Abort` | the notifier, or the exception out of any point |

`today` and `MaxDay` bound the days. `ledger` is a history variable: totals of the trade
rows. `OrderLedger` knows only which keys are done, an account per bot and who lives;
`Promise` is its specification under the mapping *done = keys of trade rows, account = the
bot's balance, profit and count, alive = not DEAD*.

### 2.4 `TradingCycle`

A cycle is a session of `PaperExecutor` with a stage and a set of (launch, bot) still to do:
the code's nested loops take them in the order of the query, the model in any. Beside the
cycles operators pause and resume bots: such a request loads the row and judges that copy
(`LoadSwitch`), and commits the new state later, whatever the table says by then
(`CommitSwitch`, `api/routes/bots.py:139-162`, `:173-190`), so it may write over a death;
`revived` counts, in history, how often it has. The system stops and starts and the day turns
at any moment (`Around`). `left` is the history of the round trips a bot could not be let out
of (`NoWayOut`): the SELL was judged under a stop or after the day's last trade, or the BUY made
the policy find a bot that had been brought back past its ceiling. After a SELL
the cycle remembers the result in the launch's liquidity band (`RecordOutcome`, a commit of its
own), judges the band (`JudgePattern`, a query), may suggest growth (`SuggestGrowth`, another
commit) and then, if the SELL killed the bot, explains the death (`Explain`). Sizes are abstracted to one unit: position
sizing and the learner's multiplier only choose how large it is. Prices are drawn from
`ExitPrices`. What an operator later decides of a suggestion is left out.

### 2.5 `AutoTrading`

`loops` are the tasks that will tick again, `task` the one `app.state` remembers, `enabled` the
switch. A tick is a cycle of the session `Ticker`. `run_once` does not await, so while the tick
runs the event loop does nothing else: no task starts or ends and no arriving request is
handed to a worker (`LoopFree` guards `UpdateAutoTrading` and `AcceptStop`), while cycles by
hand, already in their threads, go on. A task cancelled in its sleep leaves `loops` at
once. A stop has three steps: it arrives, is accepted, commits. `FailSwitch` ends a pause or a
resume before its commit. `RestartServer` loses sessions, cycles, the requests on their way
and the switch: it lives in memory, and configuration decides again. `late` is a history variable: trades of each cycle since a stop.

### 2.6 `Treasury`

One Mother, her `Sons`, theses that belong to one activation each, loans keyed by the thesis
they fund. Every commit of `activate_bot` is a step. `Die` is the effect of a cycle, on a bot it
had loaded ACTIVE, which may have been paused meanwhile. `overlapped` is a history variable: whether
two requests that move money, activations or payments, have been at work at once (`MovesMoney`);
pauses, resumes, deaths and failures beside them do not count.
`record_payment` has no caller in the API; it is modelled as an operation of its own with
the amounts of `Payments`. Theses do not leave `INITIAL_TEST` here, because nothing in
activation or lending reads what becomes of them.

### 2.7 `Lineage`

`InsertBot`, `RecordLineage` and `SetVersion` are the three commits. `torn` is a history
variable: the bots whose call failed after their row was committed. The version a
resurrection will write is computed when the call begins, as in the code, and kept in the session. Money and pause/resume
are in `Treasury`. The collective-memory entries at the end of `resurrect` are left out.

### 2.8 `Settlement`

`LoadBot`, then `RefuseDay` or `ShareDay` (in memory), then the commits: `CreateReserve`
(with the bot's changed row in the same flush), `Contribute`, and at last `CommitDay` with
the settlement row, before which `LoadMother` loads the parent to credit. `Abort` fails
a call at any of them; `failed` counts the calls of a bot that failed half way. Results are integers
of a money unit, balances hundredths of it, so percentages are exact. The three percentages are
any numbers: `SettlementPolicyConfig` (`config.py:79-84`) does not make them sum to 100, and what
they leave of a good day goes nowhere (`UnsplitPct`). Interest enters as a
charge. A root has no parent: the share returned to the Mother goes nowhere when she settles
herself. Reserves that belong to no bot are left out.

### 2.9 `Research` and its five parts

`SessionCopies` is the rule of 1.1 as operators: `copies[s][r]` is what session `s` holds of
row `r`; `Write` flushes what the session changed over whatever the table has by then; after a
failed commit or at its end a session holds nothing (`Forget`). Each method of an engine is one
action because each has one commit: its guard looks at the copy, except where the code asks
the table (`TestOnRecord` in `promote_to_paper`). Loading a row is an action of its own, so a
session may act on a row as old as one likes.

* **`StrategyVersions`** — a dataset is its split; windows, prices and metrics are left out. Nothing
  but tests calls `validate_split_ordering`, so it is not here.
* **`ThesisLadder`** — `theses` with state and capital, the funding events (`starts`), the
  rows of `learning_events` a hypothesis and a disabling leave, and the bot, which may die
  while a session holds it alive. `accepted` and `advised` are history variables: the
  reports that passed and the answers of `next_escalation_amount`. `Treasury` has the same
  first steps with an activation's loan around them.
* **`ProtocolReview`** — all identifiers are about one name on one blockchain. Registering
  looks (`LookForProtocol`) and then inserts. Evidence is four numbers; the score is computed
  from the copy, in whole points.
* **`Wallets`** — a request looks for its address, inserts, and writes its audit row: three
  moments. `saw` is what it had seen, a history the property needs.
* **`LaunchMonitor`** — each monitor is a cycle's, with a stage for each of its queries and
  commits: creator looked for, inserted, launches counted, token registered, opportunity
  registered, wallet looked for, suggestion made. Two rows for a creator raise, which is to
  say the monitor cannot begin with that creator any more.

`focus` chooses which part a behaviour of `Research` is about, so that the states of the run are
the sum and not the product of theirs; no step reads or writes the rows of two parts.

## 3. Properties and runs

Every property of a passing run has a mutant of the code (in the modules, beside the
definition it replaces) that violates it.

| Run | Instance | Properties |
|---|---|---|
| `telegram_control` | 1 chat, 1 HTTP request, an owner and an operator, 2 stamps, failures, crashes, fairness | `AuditTellsTheTruth`, `ImplementsSystemControl`, `StopLiftedOnlyByReleaseOrRace`, `KillTakesEffect`, `DuplicateKillOnlyByRace`, `KillLands` |
| `paper_calls` | orders one after another, each retried under its key while the first call may be running; 2 bots, 2 days, failures | `LedgerAgrees`, `PositionsAgree`, `DeadBotFrozen`, `Promise` |
| `cycle_serial` | 1 cycle at a time, 2 bots, 2 launches of one band, 1 operator's request, stops between any two steps, an odd daily limit | `NoSilentDeath`, `OpenOnlyWithoutWayOut`, `EveryDeathCounted` |
| `cycle_overlap` | 2 cycles that overlap on 1 bot, 3 launches of one band, 1 operator's request, stops | `LearnsFromTrades`, `SuggestionsBounded`, `RevivedOnlyByRace` |
| `auto_trading` | the loop and a cycle by hand, 1 bot, 2 launches of one band, 1 operator's request, stops, toggles, failures, restarts, fairness | `KillStopsTrading`, `TradesPerDayBounded`, `LoopMatchesSwitch`, `CycleEnds`, `StopIsHeard`, `LoopKeepsTicking` |
| `treasury` | 2 requests, 2 sons, 2 theses, a payment, failures, deaths | `ExposureBounded`, `PatrimonyKept`, `BooksOfLoans`, `MotherSolvent`, `DeathUndoneOnlyByRace` |
| `lineage` | 1 caller, 5 bot ids, limit 4 bots and 2 generations, deaths, failures | `GenerationsBounded`, `PopulationBounded`, `SonsRecorded` |
| `settlement` | a son and the Mother, 2 days, 4 kinds of day, shares of 50, 20 and 20 per cent, failures and retries | `ReserveMirrored`, `BooksAgree`, `MoneyConserved` |
| `research` | 2 sessions or monitors; 1 version, 1 thesis, 1 protocol, 2 wallets at 2 addresses, 3 launches of 2 creators, failures | `EarnedStanding`, `DisabledStands`, `ScoreStaleOnlyByRace`, `DuplicateOnlyByRace`, `AddressOnRecord`, `CreatorDoubledOnlyByRace`, `VelocityFlagged` |

The type invariants are proved (section 4); the runs check what is built on them.

What they show:

* **A stop holds** against every request that begins after it, whatever order rows commit in.
  The only way around is a request that had read the state before (`DecidedOnOlderState`).
  A kill is in force when it commits, even with older uncommitted stamps about
  (`KillTakesEffect` would fail if kills were stamped like resumes: that is its mutant).
* **The ledger**: for calls one after another, balances, profits and positions are exactly
  those of the trade rows, through failures at every commit. For these, and for calls that
  retry one key at the same time, the executor implements `OrderLedger`: an order takes effect
  once or not at all.
* **Death**: the executor's own callers never revive a dead bot, because the flush writes only
  changed attributes (`FlushWholeRow` is the mutant); what does is a pause, a resume or an
  activation that had loaded the bot alive, and nothing else, in the cycles
  (`RevivedOnlyByRace`) as in the treasury. With no failures, a bot past its ceiling is dead when
  no call is in flight unless such a request has written over its death, and it has one
  lifecycle row for each time it died (`EveryDeathCounted`). A cycle that goes on after a death
  has written its post-mortem.
* **Cycles**: after a stop a cycle, of the loop or by hand, commits at most the one order
  already approved; a cycle that begins ends, failures included; the daily limit of trades is
  passed by at most one order for two overlapping cycles. With one cycle at a time and no
  failures a position stays open between cycles exactly when its bot had no way out: stops and
  limits between a BUY and its SELL are in the run.
* **The loop**: toggles, failed ticks and restarts leave one loop when the switch is on and none
  when it is off, and a stop that arrives during a tick is heard once it ends.
* **Learning**: with no failures, the learner's memory is exactly the SELLs of the trade
  rows, each once, however cycles overlap; each cycle that overlaps may suggest a band once, and
  no one suggests it after that.
* **Commands**: an audit row that says "confirmed" has its effect behind it, and nobody
  without the role has caused one.
* **Money and growth**: the exposure limit, the Mother's patrimony and the books hold until two
  requests that move money have overlapped, whatever fails, dies, is paused or resumed meanwhile.
  Her solvency holds however they overlap, and only because
  a loan writes what is left of the capital it checked and not of what is there: taking the loan off
  the table's value, which looks like a repair of the lost update, would overdraw her (the
  mutant `CommitLoanOffTheTable`). Growth limits, the single root and the trail hold for
  calls one after another with failures anywhere.
* **Settlement**: with one call at a time, the reserve a bot shows is its reserve's balance
  whatever fails; as long as no call failed half way, every balance is what the settled days
  left. The family holds what it won and lost, but for what the percentages leave of a gain and
  what a root returns to nobody: with 50, 20 and 20 per cent a tenth of every gain disappears.
* **Standing**: whatever two sessions do to a version, a thesis or a protocol from old copies,
  none stands higher than its evidence: the flush writes only the state, the guards are
  those of a copy that was once true, and evidence is never taken away. Old copies do have
  one power, and only they: to bring back what was disabled.
* **Records**: a score that is not that of its evidence, an address two wallets have, a creator with
  two rows each need a session that looked before another one wrote. The last audit row about
  an address names it unless such a session wrote it.
* **The flag** on a creator of many launches is missed at most once per other cycle, even when
  the creator has two rows and cycles fail half way.

### 3.1 Disagreements with the code's own words

Three runs end in a violation, each of a sentence in the repository:

* `resume_over_kill` — *"a generic /resume must never be the thing that clears an emergency
  stop"*. A resume that read PAUSED before the kill commits its row after it, and it is the
  latest: the stop is gone.
* `paper_trapped` — *"a SELL … must always be allowed to go through so a bot can never be
  trapped in a position it cannot exit"*. The limits on losses and trades apply to SELLs
  too; consecutive losses are counted over the whole history, and only a winning SELL could
  reset them: with another position open, it can never be sold.
* `tradeable_unfunded` — *"Active bots with a thesis that has actually started (spec section
  10's $5 rule already funded it)"*. The loan is refused after the thesis has started; the
  operator's pause and resume then make the bot ACTIVE, and `_tradeable_bots` selects it; the
  cycle then skips it, since its capital of 0 buys nothing.

Other limits met while modelling, without a run of their own. They are why the properties
above say "one after another" or "unless it read before":

* `/kill CONFIRM` without a reason is answered before `_log` is called
  (`telegram_control_service.py:142-148`, the action `AskReason`), so it leaves no audit row: *"Every
  single attempt, authorized or not, gets an `AuditLog` row"* (`:7-8`; so does
  `docs/PHASES.md:384-385`: *"Every single attempt — authorized, denied, or unknown-command —
  writes an `AuditLog` row"*);
* two activations that overlap sum the exposure before either loan commits (`loan_engine.py:60`), and
  together pass the limit: *"Mother with $1,000 and a 20% limit can never have more than $200
  outstanding"* (`docs/PHASES.md:121-122`). `ExposureBounded` speaks of the time before that;
* a pause that had loaded a bot before it died commits PAUSED over DEAD (`bots.py:151`); resumed, the bot
  trades in the next cycle: *"Death blocks new trades"* (`max_loss_policy.py:1-4`).
  `RevivedOnlyByRace` says that this is the only way;
* two cycles that overlap both find no suggestion of a band and both commit one
  (`pattern_learning.py:142`): *"Only ever suggested once per bucket"* (`:127-130`).
  `SuggestionsBounded` is what the code keeps to;
* nothing but the tests calls `validate_split_ordering`, and `run_backtest` trims a series to its
  dataset's own window, whatever that is: *"enforces strict, non-overlapping TRAIN/VALIDATION/TEST
  date windows before any run starts"* (`docs/PHASES.md:156-158`);
* overlapping orders on one bot lose updates of its balance (`paper_executor.py:145`), may
  write two DEAD lifecycle rows (`max_loss_policy.py:34`) and may open two positions of a token, after which
  `scalar_one_or_none` raises for every order on it;
* a failure between the trade's commit and the death's leaves a bot alive past its ceiling
  until its next trade (`paper_executor.py:211`); when that is a BUY, the cycle returns
  without a post-mortem (`autonomous_trading_cycle.py:150`);
* fees of BUYs leave the capital but never enter the profit the ceiling is compared with
  (`max_loss_policy.py:25`);
* overlapping kills write two rows and two alerts; overlapping requests create two Mother Bots
  (`bots.py:48`) or one son too many (`lineage_engine.py:86`);
* a failure between a son's row and its lineage row leaves it without lineage
  (`lineage_engine.py:98`);
* a settlement that fails after `contribute` has committed keeps the shares of a day that is not
  settled, and the retry adds them again (`daily_settlement_engine.py:66`,
  `reserve_growth_engine.py:26`, `:52`); overlapping settlements of one day both contribute;
  what a root returns to its Mother is lost (`daily_settlement_engine.py:70-76`);
* a SELL counts against the limit of trades of the day (`risk_engine.py:80-82` says it is let
  through): when the last trade of the day is a BUY it cannot be sold, and the cycle does not come
  back to its launch; the default limit of 20 is even (`config.py:45`), so for bots that only trade
  in whole round trips this needs a day that began with an open position or a cycle cut short;
* a Telegram command may take effect and leave no audit row, when the second commit fails;
* a tick holds the event loop, so a kill that arrives meanwhile waits for the whole
  tick (`api/app.py:49`); updates of the settings more frequent than the interval restart the
  sleep each time and the loop never ticks (`app.py:39`): `LoopKeepsTicking` has to except
  them; the switch is lost on restart;
* a failure of the learner leaves a death without its post-mortem
  (`autonomous_trading_cycle.py:180`);
* overlapping cycles may insert one creator twice (`monitor.py:103`): afterwards every cycle
  that draws one of that creator's launches, among fifty creators, fails before it trades;
* overlapping requests register one address twice (`wallet_manager.py:45`), and changing an
  address looks for no other wallet at all; the wallet and its audit row are two commits
  (`:64`, `:75`), and a retry after the second one failed is refused as a duplicate;
* `clear_review` makes a protocol eligible whatever its score, or without one
  (`protocol_discovery.py:153`);
* a session that had loaded a version, thesis or protocol brings it back after it was disabled.

### 3.2 Bounds, and why they are enough

* Two requests suffice for every race of `SystemControl`: one holds an old decision, the
  other or a direct engine call stops the system. `MaxClock = 2` in `telegram_control` lets a
  stop be written over the empty table and another row after it; the violating run has 4. When stamps run out the
  writers wait, so these runs do not check deadlock and `KillLands` excuses
  `clock = MaxClock`. `MaxAudits = 1`: a command in flight counts, and the property relates each audit row
  to the events, not to other audit rows.
* Amounts in `PaperExecutor` are such that slippage and fee of 1% are exact: a round trip at
  the same price loses 299, one at twice the price gains. `MaxLoss = 299` makes a single
  losing trade fatal, so deaths, retries after deaths and second bots fit in four keys.
* `paper_calls` lets calls overlap when they carry one key: calls that overlap under different
  keys are the lost updates described above.
* `cycle_serial` has `MaxTrades = 3`, so that a bot's second BUY may be the day's last trade, and
  two bots that a single loss kills; one request at a time suffices for a stale pause and a later
  resume. Days do not turn in the instances (`MaxDay = 0`): the theorems cover them.
* When the launches have been seen no cycle can begin, so deadlock is not checked.
* In `auto_trading`, `MaxTrades = 2` puts the daily limit within the reach of two cycles, one
  launch each; two tasks are one to cancel and one to start. One bot is enough for two cycles to
  meet on a row. Nobody loses here, so nobody dies, which keeps the graph within what the
  liveness properties need; deaths in a cycle are in `cycle_serial` and `cycle_overlap`, and the
  safety properties of this run are proved for any prices.
* `cycle_overlap`: with `MinSamples = 1` and three launches of one band, two cycles may both find the
  band worth a suggestion and a third round trip comes after; an exit that loses kills the bot, so a
  pause may hold it from before its death.
* `treasury`: a loan is 5 and the Mother has 9 units, enough for one, and may lend 60%: a limit on
  each loan alone would let her lend a second after a payment of 3 with interest 2, and two
  requests that overlap could take her below zero. The second payment on a loan is more than what is
  left of it.
* `lineage`: the identifiers exceed `MaxBots` by one, so an overshoot would be seen.
* `settlement`: `MaxFailures = 1` failed call per bot, then a retry; the days are a gain
  with a repayment, a gain with charges, an even day and a loss; `Borrowed` is 1.5 repayments,
  so one day repays in part and the next reaches zero.
* `research`: two sessions are one with an old copy and one that wrote since. One version, thesis and
  protocol suffice because no rule of theirs relates two rows; wallets and creators, whose
  rules do, have two.
  `MaxPrior = 0` stands for the code's 10, so the second launch of a creator is one too many and
  three launches go past what two monitors may miss. `MaxStarts = 2` lets a thesis be funded twice,
  by two sessions; `MaxChanges = 2` re-addresses a wallet twice, so that the second update may
  come from a row loaded before the first. The score's weights and limits are the code's in whole
  points, with 10 for the days and for the amount that earn full credit.
* Deadlock is not checked in `treasury`, `lineage`, `settlement` and `research`: when theses,
  identifiers, days or launches run out nothing is left to do.

### 3.3 Fairness

`TelegramControl`: weak fairness of `Command(c)` and of an HTTP request's `Finish` — a worker
thread that has passed its check goes on to its write; beginning a request is not fair.
`AutoTrading`: weak fairness of `Work(s) \/ FailedCycle(s)` — a cycle is a function call on a thread, nothing in
it waits for another; strong fairness of `AcceptStop` — the event loop is free only between
two ticks, and takes what has arrived each time it is; weak fairness of `CommitStop`, the
worker; weak fairness of `SleepOn` and `Tick` for each task — `asyncio.sleep` returns and the
task runs on, unless it is cancelled first. Failures, restarts and operators are never fair.
The parts of `Research` have no liveness: every method is a call that returns.

## 4. Proofs

All theorems hold for every value of the constants that satisfies the named assumptions
(`ClockAssumption`, `TelegramAssumption`, `OrdersAssumption`, `OnlineAssumption`,
`AmountsAssumption`, `SentinelsAssumption`, `CycleAssumption`, `TaskAssumption`,
`TreasuryAssumption`, `LineageAssumption`, `SettlementAssumption`, `LadderAssumption`, `ScoreAssumption`, `WalletsAssumption`, `KindsAssumption`, `MonitorAssumption`
and the `*CopyAssumption`s and `WalletRowAssumption`, which keep the sentinels out of the rows).
"One caller" is the hypothesis `\A s, t \in Sessions : s = t` of a theorem; what is true only
of calls that do not overlap or do not fail (section 3.1 has the counterexamples) says so there.
Every safety invariant and every action property of the passing runs is a theorem.

| Module | Theorem | States |
|---|---|---|
| `ControlProofs` | `TypeCorrect` | `[]TypeOK` |
| | `StopLifted`, `KillIsImmediate`, `KillIsIdempotent` | the three action properties, any number of requests |
| | `TelegramRefines` | `ImplementsSystemControl`: so the three above hold of the composition |
| | `TelegramTypeCorrect`, `AuditIsTrue` | `TelegramTypeOK`, `AuditTellsTheTruth`, any number of chats and requests |
| `PaperExecutorProofs` | `TypeCorrect` | `[]TypeOK` |
| | `DeathIsFinal` | `DeadForever`, any number of callers |
| | `TradesBounded` | `TradesPerDayBounded`, any finite number of callers, whatever fails |
| | `SerialLedger`, `SerialPositions`, `SerialFrozen`, `SerialPromise` | `LedgerAgrees`, `PositionsAgree`, `DeadBotFrozen`, `Promise`, one caller, whatever fails |
| | `SerialDeaths` | `DeathFollowsBreach`, one caller, no failures, `MaxLoss > 0` |
| `AutoTradingProofs` | `SwitchIsTrue`, `StopHolds`, `OnlyRacesRevive` | `LoopMatchesSwitch`, `KillStopsTrading`, `RevivedOnlyByRace`, any number of cycles and operators, whatever fails |
| | `CycleTradesBounded`, `SuggestionsAreBounded` | `TradesPerDayBounded`, `SuggestionsBounded`, any finite number of cycles, whatever fails |
| | `CycleDeaths`, `DeathsAreTold` | `EveryDeathCounted`, `NoSilentDeath`, one cycle at a time beside any operators, no failures, `MaxLoss > 0` |
| | `NothingElseLeftOpen` | `OpenOnlyWithoutWayOut`, the same with positive `ExitPrices`; any limits, stops and days |
| | `EverySaleLearned`, `CyclesTyped` | `LearnsFromTrades`, `CycleTypeOK`, any number of cycles, no failures |
| `TreasuryProofs` | `TypeCorrect`, `NeverOverdrawn`, `DeathStands` | `TypeOK`, `MotherSolvent`, `DeathUndoneOnlyByRace`, any number of requests |
| | `LoansFundTheses` | every loan is of the test capital, for a started thesis of its borrower; any number of requests |
| | `SerialExposure`, `SerialPatrimony`, `SerialBooks` | `ExposureBounded`, `PatrimonyKept`, `BooksOfLoans`, any number of requests (the properties speak of the time before two that move money overlap) |
| `LineageProofs` | `TypeCorrect`, `GenerationLimit` | `TypeOK`, `GenerationsBounded`, any number of callers |
| | `SerialPopulation` | `PopulationBounded`, one caller, from `SerialRoot` and `SerialGrowth` |
| | `SerialTrail` | `SonsRecorded`, one caller, whatever fails |
| `SettlementProofs` | `TypeCorrect` | any number of calls: no reserve and no debt is negative |
| | `SerialReserve`, `SerialSettlement`, `SerialMoney` | `ReserveMirrored`, `BooksAgree`, `MoneyConserved`, one call at a time, whatever fails, any percentages |
| `ResearchProofs` | `Standing`, `Disabled`, `ScoreStale` | `EarnedStanding`, `DisabledStands`, `ScoreStaleOnlyByRace`, any sessions, rows, evidence and weights |
| | `ResearchTyped` | the type invariants of the five parts, any sessions and monitors |
| | `Duplicates`, `AddressesLogged`, `CreatorsDoubled`, `VelocityCaught` | `DuplicateOnlyByRace`, `AddressOnRecord`, `CreatorDoubledOnlyByRace`, `VelocityFlagged`, any requests and cycles |

The arguments:

* **Sums.** `SumFunctionOnSet` folds a set through a recursive function on its subsets, and the
  library's induction over finite sets takes an operator, so `Sums` finds a smallest
  counterexample instead (`SmallestNumber`, `SmallestSubset`, from the well-foundedness of the
  strict subsets): the fold has a solution, and taking any element out first gives the same
  sum. From these, what a sum becomes when a term changes, joins or leaves is a lemma to cite.
* **`SystemControl`.** `IInv` adds to the types that stamps are distinct, that every
  committed stamp and every stamp held by a request is at most `clock`, and that what a
  request has seen is a row of the table no newer than its own stamp. From it the latest row
  exists and is unique; a row stamped under the lock is the latest; a row that lifts a stop
  without releasing it was decided on a row older than the stop.
* **`PaperExecutor`.** `DeadForever` needs no serial hypothesis: a session in the middle of an
  order changes only capital, profit and count of its row, and `Enforce` writes only
  DEAD, so `Flush` leaves the table's state alone. The serial theorems rest on `SoloInv`:
  what the one caller holds is what the table holds (`GoodSession`), and accounts are the
  ledger's. Refinement is then by cases: `Commit` is the abstract order, `Enforce` the
  abstract death, all else stutters. `TradesBounded` counts the rows of the
  day and the orders approved for it together (`RoomLeft`): an order is approved below the
  limit, and each other session holds one at most. `SerialPositions` rests on `PosInv`: no two
  open rows are of one bot and token, and a priced order still faces the row it found.
  `SerialDeaths`: a bot past its ceiling is dead unless the SELL that took it there has just
  committed (`Judged`).
* **`TelegramControl`.** Each action is one of `SystemControl`'s or leaves its variables alone,
  so `IInv` of `SystemControl` is available for the audit trail. `AInv` adds that a chat that acts
  is permitted, its request is past the check with the same operation, and what it is about to
  log is already true of the events; rows are never removed, so what is true of one stays true.
* **`AutoTrading`.** Every step of the composition is for the executor one of its own steps, a
  session answered from outside, a request that writes a bot's state or a restart, so the executor's `IInv` carries
  over. `KillStopsTrading` needs `Spent`: while the system is stopped, a session that has
  traded since holds no approved order, and `Evaluate` approves none. `LoopMatchesSwitch` is
  inductive with types. `RevivedOnlyByRace` rests on `Asking`: a request has loaded its bot alive,
  so if that bot is dead now it has died since, and the count of deaths the request saw is
  exceeded. `SuggestionsBounded` counts sessions (`Bounded`): a band's suggestions and the
  cycles about to make one are together no more than the sessions, and once there is a
  suggestion no further cycle finds the band worth one.
* **`TradingCycle`.** For cycles without failures `Matches` says what a session is doing at each
  stage of its cycle, and the invariants of the executor carry over (`CycleInv`). `CycleDeaths`
  restates the executor's death invariant with the revivals counted (`BotDeaths`): a bot past its ceiling
  is dead, about to be killed by the SELL that took it there, or was brought back.
  `DeathsAreTold`: the SELL's answer tells the cycle of the death, and what is between it and
  `Explain` forgets nothing; a BUY realises nothing, so the bot it kills had been past its ceiling,
  hence has died before, and has its post-mortem from then (`Explained`). `EverySaleLearned`:
  the key of a cycle's SELL is used once (`KeysOnce`, `RowOfEach`), so the SELLs learned from and
  those the cycles have in hand (`Awaited`) are all the SELLs there are (`LearnInv`);
  nothing in it needs the cycles to be one at a time. `NothingElseLeftOpen` is the deepest: an
  approved BUY leaves its SELL room under the limits on losses, because a BUY realises none
  (`RoomToSell`), so between the two only a stop, the day's last trade or a death from before can come;
  an open position is the one in the cycle's hand or was given up for one of these (`HandInv`).
  A worthless exit price would make the SELL invalid.
* **`Settlement`.** `SerialReserve` rests on `SoloInv`: what the one call holds is what is in
  the tables, and the reserve it is about to write was the one the bot showed. A contribution
  is positive, hence the shown balance changes and the flush writes it. `SerialSettlement`: what a
  call has in hand is what the books will say once its day is settled, and until it commits
  some of it the tables hold what they say now (`Books`, `InHand`). `SerialMoney` adds
  one settled day at a time to the family's holdings (`Conserved`): a day's shares and what they
  leave unsplit are its result (`SharesSplit`), whatever the percentages sum to.
* **`Treasury`.** `MotherSolvent`: the room check bounds `owed + TestCapital` by the capital
  the request *holds*, and `Solvent` says that this remembered capital is at least the test
  capital when the loan is committed and that what is written is what was held less the loan.
  `ExposureBounded` and `PatrimonyKept` come from `SoloInv`, which holds together with `Single` as
  long as `overlapped` is false (`NotYetOverlapped`): of the one request that moves money, what it
  holds is current (`Ownership` gives each unfunded thesis its request, so the loan
  row it writes was empty), and `Tallied` bounds what is owed. `SerialBooks` adds the sums:
  `Accounts` ties each loan row to its thesis, `Borrowings` what a son has borrowed to the
  principals of his loans. `DeathStands` rests on
  `LiveHeld`: no request ever holds a dead row.
* **`Lineage`.** `IInv` keeps, for a caller past the growth check, that its parent exists one
  generation below the limit; since generations never change and rows never disappear, the
  check stays true however stale it is. Counts do not: the serial theorems use that
  nobody else inserts. `TrailInv` ties the number a resurrection takes to the count of the
  recorded resurrections of the same bot: it is one above it until the lineage row is there,
  and no recorded number exceeds it. A call that fails between its two commits leaves a number
  that the next one takes again, which is why such bots are told apart (`torn`).
* **`Research`.** One inductive invariant per part, joined in `ResearchInv`: what a *copy* says
  must be backed by the records just as what the *table* says (`VersionSound`, `ThesisSound`,
  `ProtocolSound`), which holds when the copy is loaded and goes on holding because records only
  grow. Then a commit mixes two sound rows, and the mixture must be sound: it is where two
  attributes are related. A thesis's capital goes from 0 to the test capital once
  (`LadderInv`), and a score once given is never taken back (`ProtocolsInv`), so the attribute the
  flush leaves alone is at least as good as the one in the copy. `MonitorInv` and
  `WalletsInv` say of a request past its look that nobody it saw was in its way.
  `VelocityCaught` counts. A row's own count bounds its unflagged launches by its
  tokens and the monitors that count at the same time. When an address has two rows, one is the
  older; each other one was inserted by a monitor that had found none, gets no launch but
  that monitor's, because with two rows the look-up fails, and its monitor is not among those
  that count for the older row. So rows, newcomers and holders of the older row
  together are at most the monitors and one (`Bounded`), whoever fails or comes back.

Only model-checked: liveness under fairness (`KillLands`, `CycleEnds`, `StopIsHeard`,
`LoopKeepsTicking`), which is out of the prover's reach, and the three violations.

## 5. Not modelled, and the plan

Left out for good: queries, formatting, the dashboard, the web page and the other clients,
scripts, the signer (no state), the notifier's text, and append-only records no rule reads: the
collective memory, the council, most learning events. Names and `rename_wallet` are left out for
the same reason. Floating-point rounding is left out: amounts are integers.

Partly modelled: `compute_interest` and reserves without a bot (settlement); the operator's
decision on a growth suggestion and the sizing multiplier (learner); liquidity and score of a
launch, which only order the reasons of a decision (monitor); `confirm_cause` of a post-mortem.

Planned, in this order:

1. `NothingElseLeftOpen` and `DeathsAreTold` with failures: which positions stay open and which
   deaths stay untold when a cycle fails between two of its commits, as an invariant that names them.
2. The order under different keys that overlap (`LedgerAgrees`, `PositionsAgree`): how far a balance
   may part from its trade rows for a given number of callers.
3. A cycle and the treasury over the same rows: a death while an activation holds the bot, as
   a refinement of both.
4. The suggestion's status and the multiplier in `TradingCycle`; `compute_interest` against a
   reference definition in `Settlement`.
5. The monitor inside the cycle: a doubled creator ends `run_once` before its first order.
