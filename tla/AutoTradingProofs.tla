------------------------- MODULE AutoTradingProofs -------------------------
(***************************************************************************)
(* Proofs about AutoTrading, for any number of cycles, bots and launches.  *)
(* What a cycle does to money is a step of PaperExecutor, so its invariant *)
(* IInv and the lemmas of PaperExecutorProofs carry over; what remains is  *)
(* that the cycle knows its bot and launch (Working), that the switch and  *)
(* the loop agree, and that a session which has traded since a stop holds  *)
(* no approved order any more (Spent).                                     *)
(*                                                                         *)
(* A request that pauses or resumes a bot loads its row, tests that copy   *)
(* and commits later (Asking): the dead come back by that race and by      *)
(* nothing else (RevivedOnlyByRace).                                       *)
(*                                                                         *)
(* The second half is about cycles that do not fail (CycleNextReliable),   *)
(* beside stops, days that turn and requests that race. The stage of a     *)
(* cycle says what its session is doing (Matches); of one cycle alone, a   *)
(* bot past its ceiling is dead, or being killed, or brought back by the   *)
(* race (BotDeaths), a kill the cycle has not told of yet is one it is     *)
(* about to tell of (Explained), and a position is open only in the        *)
(* cycle's hand or given up for want of a way out (HandInv). Of any number *)
(* of cycles, a bucket is suggested at most once by each (Bounded) and the *)
(* learner holds every committed SELL but those in hand (LearnInv).        *)
(***************************************************************************)
EXTENDS AutoTrading, PaperExecutorProofs

Cycle == [stage : Stages, todo : SUBSET Pairs, now : Pairs \cup {<<NoToken, NoOrder>>}]

Working == /\ cyc \in [Sessions -> Cycle]
           /\ \A s \in Sessions :
                cyc[s].stage \notin {"off", "choosing"} => cyc[s].now \in Pairs

Spent == /\ late \in [Sessions -> {0, 1}]
         /\ system = "ONLINE" => late = NoTrades
         /\ \A s \in Sessions : late[s] = 1 => sess[s].pc \notin {"approved", "priced"}

\* A request that has loaded its bot knows of no death but those before it, and
\* saw it alive.
Asking ==
  /\ asked \in [Operators -> Request \cup {NoRequest}]
  /\ revived \in [Bots -> Nat]
  /\ \A o \in Operators : asked[o] # NoRequest =>
       /\ asked[o].deaths <= deaths[asked[o].bot]
       /\ bots[asked[o].bot].state = "DEAD" => asked[o].deaths < deaths[asked[o].bot]

AInv == IInv /\ Working /\ LoopMatchesSwitch /\ Spent /\ Asking

LEMMA OffIsCycle == Off \in Cycle
BY DEF Off, Cycle, Stages

LEMMA InitAsking == CycleInit => Asking
BY DEF CycleInit, Asking

LEMMA InitAInv == AutoInit => AInv
<1> SUFFICES ASSUME AutoInit PROVE AInv
  OBVIOUS
<1>1. IInv
  BY InitIInv DEF AutoInit, CycleInit
<1>2. Working
  BY OffIsCycle DEF AutoInit, CycleInit, Working, Off
<1>3. LoopMatchesSwitch
  BY TaskAssumption DEF AutoInit, AtStart, Start, LoopMatchesSwitch
<1>4. Spent
  BY DEF AutoInit, CycleInit, Init, Spent, NoTrades
<1>5. Asking
  BY InitAsking DEF AutoInit
<1> QED BY <1>1, <1>2, <1>3, <1>4, <1>5 DEF AInv

(***************************************************************************)
(* The steps of a cycle as steps of the executor.                          *)
(***************************************************************************)

\* A step of a cycle is a step of its call, or leaves the executor alone.
LEMMA ProgressIsStep ==
  ASSUME Working, NEW s \in Sessions, Progress(s)
  PROVE  Step(s) \/ UNCHANGED vars
<1>1. CASE \E t \in Tokens, b \in Bots : Skip(s, t, b)
  BY <1>1 DEF Skip
<1>2. CASE \E t \in Tokens, b \in Bots : Buy(s, t, b)
  BY <1>2, CycleAssumption DEF Buy, Step
<1>3. CASE \E p \in ExitPrices : Sell(s, p)
  <2>1. PICK p \in ExitPrices : Sell(s, p)
    BY <1>3
  <2>2. cyc[s].now[1] \in Tokens /\ cyc[s].now[2] \in Bots
    BY <2>1 DEF Sell, Working, Pairs
  <2> QED BY <2>1, <2>2, CycleAssumption DEF Sell, Step
<1>4. CASE NextBot(s) \/ RecordOutcome(s) \/ JudgePattern(s) \/ SuggestGrowth(s) \/ Explain(s)
  BY <1>4 DEF NextBot, RecordOutcome, JudgePattern, SuggestGrowth, Explain
<1>5. CASE Finish(s)
  BY <1>5 DEF Finish, Running, Step, Close
<1>6. CASE Executing(s)
  BY <1>6 DEF Executing, Step
<1> QED BY <1>1, <1>2, <1>3, <1>4, <1>5, <1>6 DEF Progress

\* Every step of the composition is, for the executor, one of its steps, a
\* session answered from outside, a bot switched, or a restart.
BotSwitched == \E b \in Bots, to \in BotStates \ {"DEAD"} :
    /\ bots' = [bots EXCEPT ![b].state = to]
    /\ UNCHANGED <<positions, trades, deaths, ledger, system, today, sess>>
SessionReplaced == \E s \in Sessions, r \in Results,
                      c \in [Bots -> BotRow \cup {NotLoaded}] :
    /\ sess' = [sess EXCEPT ![s] = Answered(r, c)]
    /\ UNCHANGED <<tables, system, today>>
AllClosed ==
    /\ sess' = [s \in Sessions |-> Answered("none", EmptyCache)]
    /\ UNCHANGED <<tables, system, today>>

LEMMA StartReplaces ==
  ASSUME IInv, NEW s \in Sessions, NEW ts \in SUBSET Tokens, StartCycle(s, ts)
  PROVE  SessionReplaced
<1> DEFINE c == [b \in Bots |-> IF b \in TradeableBots THEN bots[b] ELSE NotLoaded]
<1>1. c \in [Bots -> BotRow \cup {NotLoaded}]
  BY DEF IInv, TypeOK
<1>2. "none" \in Results
  BY DEF Results
<1>3. sess' = [sess EXCEPT ![s] = Answered("none", c)] /\ UNCHANGED <<tables, system, today>>
  BY DEF StartCycle
<1> QED BY <1>1, <1>2, <1>3 DEF SessionReplaced

LEMMA SwitchIs ==
  ASSUME Asking, NEW o \in Operators, CommitSwitch(o)
  PROVE  BotSwitched
<1>1. asked[o] \in Request
  BY DEF CommitSwitch, Asking
<1> QED BY <1>1 DEF CommitSwitch, BotSwitched, BotStates, Request

LEMMA AutoStepCases ==
  ASSUME IInv, Working, [AutoNext]_avars
  PROVE  \/ [Next]_vars \/ SessionReplaced \/ AllClosed
         \/ \E o \in Operators : CommitSwitch(o)
<1>1. CASE \E on \in BOOLEAN : UpdateAutoTrading(on)
  BY <1>1 DEF UpdateAutoTrading, cvars
<1>2. CASE \E ts \in SUBSET Tokens : Tick(ts) \/ \E s \in Sessions : RunCycle(s, ts)
  BY <1>2, StartReplaces, TaskAssumption DEF Tick, RunCycle
<1>3. CASE \E s \in Sessions : Work(s) \/ FailedCycle(s)
  BY <1>3, ProgressIsStep DEF Work, FailedCycle, CycleFails, Step, Close, Next, NextReliable
<1>4. CASE \E s \in Sessions : Fail(s)
  <2>1. PICK s \in Sessions : Interrupt(s)
    BY <1>4 DEF Fail
  <2>2. CASE Abort(s)
    BY <2>2 DEF Next
  <2>3. CASE ~Abort(s)
    <3>1. sess' = [sess EXCEPT ![s] = Answered("error", EmptyCache)]
          /\ UNCHANGED <<tables, system, today>>
      BY <2>1, <2>3 DEF Interrupt
    <3>2. "error" \in Results
      BY DEF Results
    <3> QED BY <3>1, <3>2, EmptyCacheType DEF SessionReplaced
  <2> QED BY <2>2, <2>3
<1>5. CASE PostStop \/ AcceptStop \/ SleepOn
  BY <1>5 DEF PostStop, AcceptStop, SleepOn, cvars
<1>6. CASE CommitStop \/ GoOnline
  <2>1. ChangeSystem
    BY <1>6, OnlineAssumption DEF CommitStop, GoOnline, ChangeSystem
  <2> QED BY <2>1 DEF Next, NextReliable
<1>7. CASE SwitchBot \/ \E o \in Operators : FailSwitch(o)
  BY <1>7 DEF SwitchBot, Switching, LoadSwitch, FailSwitch
<1>8. CASE RestartServer
  BY <1>8 DEF RestartServer, AllClosed
<1>9. CASE UNCHANGED avars
  BY <1>9 DEF avars, cvars
<1> QED BY <1>1, <1>2, <1>3, <1>4, <1>5, <1>6, <1>7, <1>8, <1>9 DEF AutoNext

LEMMA SwitchedIInv ==
  ASSUME IInv, BotSwitched
  PROVE  IInv'
<1>1. bots' \in [Bots -> BotRow]
  BY DEF BotSwitched, IInv, TypeOK, BotRow
<1> QED BY <1>1 DEF BotSwitched, IInv, TypeOK, GoodSession

LEMMA AutoIInv ==
  ASSUME IInv, Working, Asking, [AutoNext]_avars
  PROVE  IInv'
<1>1. CASE [Next]_vars
  BY <1>1, NextIInv
<1>2. CASE \E o \in Operators : CommitSwitch(o)
  BY <1>2, SwitchIs, SwitchedIInv
<1>3. CASE SessionReplaced
  BY <1>3, AnsweredGood, SessionStep DEF SessionReplaced
<1>4. CASE AllClosed
  <2>1. "none" \in Results
    BY DEF Results
  <2>2. sess' \in [Sessions -> GoodSession]
    BY <1>4, <2>1, AnsweredGood, EmptyCacheType DEF AllClosed
  <2> QED BY <1>4, <2>2 DEF AllClosed, IInv, TypeOK, tables, GoodSession
<1> QED BY <1>1, <1>2, <1>3, <1>4, AutoStepCases

(***************************************************************************)
(* The cycles.                                                             *)
(***************************************************************************)
LEMMA CycleMoves ==
  ASSUME Working, NEW s \in Sessions, NEW x \in Cycle, cyc' = [cyc EXCEPT ![s] = x],
         x.stage \notin {"off", "choosing"} => x.now \in Pairs
  PROVE  Working'
BY DEF Working

LEMMA StartWorking ==
  ASSUME Working, NEW s \in Sessions, NEW ts \in SUBSET Tokens, StartCycle(s, ts)
  PROVE  Working'
<1> DEFINE x == [Off EXCEPT !.stage = "choosing", !.todo = ts \X TradeableBots]
<1>1. x \in Cycle /\ x.stage = "choosing"
  BY OffIsCycle DEF Cycle, Stages, Off, TradeableBots, Pairs
<1>2. cyc' = [cyc EXCEPT ![s] = x]
  BY DEF StartCycle
<1> HIDE DEF x
<1> QED BY <1>1, <1>2, CycleMoves

LEMMA ProgressWorking ==
  ASSUME Working, NEW s \in Sessions, Progress(s)
  PROVE  Working'
<1>f. cyc[s] \in Cycle
  BY DEF Working
<1>1. ASSUME NEW t \in Tokens, NEW b \in Bots, Skip(s, t, b) PROVE Working'
  <2> DEFINE x == [cyc[s] EXCEPT !.todo = @ \ {<<t, b>>}]
  <2>1. cyc' = [cyc EXCEPT ![s] = x]
    BY <1>1 DEF Skip, Working
  <2>2. x \in Cycle /\ x.stage = "choosing"
    BY <1>1, <1>f DEF Cycle, Skip
  <2> HIDE DEF x
  <2> QED BY <2>1, <2>2, CycleMoves
<1>2. ASSUME NEW t \in Tokens, NEW b \in Bots, Buy(s, t, b) PROVE Working'
  <2> DEFINE x == [stage |-> "buying", todo |-> cyc[s].todo \ {<<t, b>>}, now |-> <<t, b>>]
  <2>1. cyc' = [cyc EXCEPT ![s] = x]
    BY <1>2 DEF Buy, Working
  <2>2. x \in Cycle /\ x.now \in Pairs
    BY <1>f DEF Cycle, Stages, Pairs
  <2> HIDE DEF x
  <2> QED BY <2>1, <2>2, CycleMoves
<1>3. ASSUME NEW st \in Stages, cyc[s].stage \notin {"off", "choosing"},
             cyc' = [cyc EXCEPT ![s].stage = st]
      PROVE  Working'
  <2> DEFINE x == [cyc[s] EXCEPT !.stage = st]
  <2>1. cyc' = [cyc EXCEPT ![s] = x]
    BY <1>3, <1>f DEF Working
  <2>2. x \in Cycle /\ x.now = cyc[s].now
    BY <1>f DEF Cycle
  <2>3. cyc[s].now \in Pairs
    BY <1>3 DEF Working
  <2> HIDE DEF x
  <2> QED BY <2>1, <2>2, <2>3, CycleMoves
<1>4. CASE \E p \in ExitPrices : Sell(s, p)
  BY <1>3, <1>4 DEF Sell, Stages
<1>5. CASE NextBot(s)
  BY <1>3, <1>5 DEF NextBot, NothingLeft, Stages
<1>6. CASE RecordOutcome(s) \/ Explain(s)
  BY <1>3, <1>6 DEF RecordOutcome, Explain, Stages
<1>7. CASE JudgePattern(s) \/ SuggestGrowth(s)
  BY <1>3, <1>7 DEF JudgePattern, SuggestGrowth, AfterSell, Stages
<1>8. CASE Finish(s)
  BY <1>8, OffIsCycle, CycleMoves DEF Finish, Off
<1>9. CASE Executing(s)
  BY <1>9 DEF Executing, Working
<1> QED BY <1>1, <1>2, <1>4, <1>5, <1>6, <1>7, <1>8, <1>9 DEF Progress

LEMMA AutoWorking ==
  ASSUME Working, [AutoNext]_avars
  PROVE  Working'
<1>k. ASSUME UNCHANGED cyc PROVE Working'
  BY <1>k DEF Working
<1>1. CASE \E ts \in SUBSET Tokens : Tick(ts) \/ \E s \in Sessions : RunCycle(s, ts)
  BY <1>1, StartWorking, TaskAssumption DEF Tick, RunCycle
<1>2. CASE \E s \in Sessions : Work(s)
  BY <1>2, ProgressWorking DEF Work
<1>3. CASE \E s \in Sessions : Fail(s) \/ FailedCycle(s)
  BY <1>3, <1>k, OffIsCycle, CycleMoves DEF Fail, Interrupt, FailedCycle, CycleFails, Off
<1>4. CASE RestartServer
  BY <1>4, OffIsCycle DEF RestartServer, Working, Off
<1>5. CASE SwitchBot \/ \E o \in Operators : FailSwitch(o)
  BY <1>5, <1>k DEF SwitchBot, Switching, LoadSwitch, CommitSwitch, FailSwitch
<1>6. CASE \/ \E on \in BOOLEAN : UpdateAutoTrading(on)
           \/ SleepOn \/ PostStop \/ AcceptStop \/ CommitStop \/ GoOnline \/ UNCHANGED avars
  BY <1>6, <1>k DEF UpdateAutoTrading, SleepOn, PostStop, AcceptStop, CommitStop, GoOnline, avars, cvars
<1> QED BY <1>1, <1>2, <1>3, <1>4, <1>5, <1>6 DEF AutoNext

(***************************************************************************)
(* The switch and the loop.                                                *)
(***************************************************************************)
LEMMA AutoSwitch ==
  ASSUME LoopMatchesSwitch, [AutoNext]_avars
  PROVE  LoopMatchesSwitch'
<1> USE DEF LoopMatchesSwitch
<1>1. ASSUME NEW on \in BOOLEAN, UpdateAutoTrading(on) PROVE LoopMatchesSwitch'
  <2>1. loops \ {task} = {}
    OBVIOUS
  <2> QED BY <1>1, <2>1 DEF UpdateAutoTrading, StopTask, Start, Becomes
<1>2. ASSUME NEW s \in Sessions, FailedCycle(s) PROVE LoopMatchesSwitch'
  BY <1>2 DEF FailedCycle, AfterFailure, Becomes
<1>3. CASE RestartServer
  BY <1>3 DEF RestartServer, AtStart, Start, Becomes
<1>4. ASSUME UNCHANGED <<enabled, task, loops>> PROVE LoopMatchesSwitch'
  BY <1>4
<1>5. CASE \/ \E ts \in SUBSET Tokens : Tick(ts) \/ \E s \in Sessions : RunCycle(s, ts)
           \/ \E s \in Sessions : Work(s) \/ Fail(s)
           \/ SleepOn \/ PostStop \/ AcceptStop \/ CommitStop \/ GoOnline
           \/ SwitchBot \/ \E o \in Operators : FailSwitch(o)
           \/ UNCHANGED avars
  BY <1>4, <1>5 DEF Tick, RunCycle, Work, Fail, SleepOn, PostStop, AcceptStop,
                    CommitStop, GoOnline, SwitchBot, FailSwitch, app, avars
<1> QED BY <1>1, <1>2, <1>3, <1>5 DEF AutoNext

(***************************************************************************)
(* Trades after a stop.                                                    *)
(***************************************************************************)

\* What a step of a call does to the session: only an approval begins the way to
\* a trade, none is given while the system is stopped, and the trade ends it.
LEMMA StepSpends ==
  ASSUME IInv, NEW s \in Sessions, Step(s)
  PROVE  /\ system' = system
         /\ \A r \in Sessions : r # s => sess'[r] = sess[r]
         /\ trades' # trades => /\ sess[s].pc = "priced"
                               /\ sess'[s].pc = "committed"
         /\ sess'[s].pc \in {"approved", "priced"}
              => system = "ONLINE" \/ sess[s].pc \in {"approved", "priced"}
<1>s. sess \in [Sessions -> Session]
  BY DEF IInv, TypeOK
<1>1. CASE Commit(s)
  BY <1>1, <1>s DEF Commit, Session
<1>2. CASE Enforce(s)
  BY <1>2, <1>s DEF Enforce, Session
<1>3. CASE \/ \E k \in Keys : Replay(s, k)
           \/ \E k \in Keys, o \in Orders : RefuseDead(s, k, o)
           \/ PriceFails(s) \/ CommitConflict(s) \/ Answer(s) \/ Close(s)
  BY <1>3, <1>s DEF Replay, RefuseDead, PriceFails, CommitConflict, Answer, Close,
                    Answered, tables
<1>4. CASE \E k \in Keys, o \in Orders : Begin(s, k, o)
  BY <1>4, <1>s DEF Begin, Answered, tables
<1>5. CASE Evaluate(s)
  BY <1>5, <1>s DEF Evaluate, RiskApproves, Answered, tables, Session
<1>6. CASE Price(s)
  BY <1>6, <1>s DEF Price, tables, Session
<1> QED BY <1>1, <1>2, <1>3, <1>4, <1>5, <1>6 DEF Step

LEMMA WorkSpent ==
  ASSUME IInv, Working, Spent, NEW s \in Sessions, Work(s)
  PROVE  Spent'
<1>1. Step(s) \/ UNCHANGED vars
  BY ProgressIsStep DEF Work
<1>2. late' = IF system # "ONLINE" /\ trades' # trades
              THEN [late EXCEPT ![s] = @ + 1] ELSE late
  BY DEF Work
<1>3. CASE UNCHANGED vars
  BY <1>2, <1>3 DEF Spent, vars, NoTrades
<1>4. CASE Step(s)
  <2>1. CASE system # "ONLINE" /\ trades' # trades
    <3>1. late[s] = 0
      BY <1>4, <2>1, StepSpends DEF Spent
    <3>2. late' = [late EXCEPT ![s] = 1]
      BY <1>2, <2>1, <3>1
    <3> QED BY <1>4, <2>1, <3>2, StepSpends DEF Spent
  <2>2. CASE ~(system # "ONLINE" /\ trades' # trades)
    <3>1. late' = late /\ system' = system
      BY <1>2, <1>4, <2>2, StepSpends
    <3>2. ASSUME NEW r \in Sessions, late[r] = 1
          PROVE  sess'[r].pc \notin {"approved", "priced"}
      <4>1. system # "ONLINE"
        BY <3>2 DEF Spent, NoTrades
      <4> QED BY <1>4, <3>2, <4>1, StepSpends DEF Spent
    <3> QED BY <3>1, <3>2 DEF Spent, NoTrades
  <2> QED BY <2>1, <2>2
<1> QED BY <1>1, <1>3, <1>4

\* Sessions that are answered from outside hold no approved order.
LEMMA AnsweredSpent ==
  ASSUME Spent, UNCHANGED <<system, late>>, sess \in [Sessions -> Session],
         \A s \in Sessions : sess'[s] = sess[s] \/ sess'[s].pc = "idle"
  PROVE  Spent'
BY DEF Spent, NoTrades

LEMMA AutoSpent ==
  ASSUME IInv, Working, Spent, [AutoNext]_avars
  PROVE  Spent'
<1>s. sess \in [Sessions -> Session]
  BY DEF IInv, TypeOK
<1>1. ASSUME NEW s \in Sessions, NEW ts \in SUBSET Tokens, StartCycle(s, ts),
             late' = late
      PROVE  Spent'
  BY <1>1, <1>s, AnsweredSpent DEF StartCycle, Answered
<1>2. CASE \E ts \in SUBSET Tokens : Tick(ts) \/ \E s \in Sessions : RunCycle(s, ts)
  BY <1>1, <1>2, TaskAssumption DEF Tick, RunCycle
<1>3. CASE \E s \in Sessions : Fail(s) \/ FailedCycle(s)
  BY <1>3, <1>s, AnsweredSpent DEF Fail, Interrupt, Abort, FailedCycle, CycleFails, Answered
<1>4. CASE RestartServer
  BY <1>4, <1>s, AnsweredSpent DEF RestartServer, Answered
<1>5. CASE CommitStop
  BY <1>5 DEF CommitStop, Spent, NoTrades
<1>6. CASE GoOnline
  BY <1>6 DEF GoOnline, Spent, NoTrades
<1>7. CASE \/ \E on \in BOOLEAN : UpdateAutoTrading(on)
           \/ SleepOn \/ PostStop \/ AcceptStop
           \/ SwitchBot \/ \E o \in Operators : FailSwitch(o)
           \/ UNCHANGED avars
  BY <1>7 DEF UpdateAutoTrading, SleepOn, PostStop, AcceptStop, SwitchBot, Switching, LoadSwitch,
              CommitSwitch, FailSwitch, avars, cvars, vars, Spent, NoTrades
<1> QED BY WorkSpent, <1>2, <1>3, <1>4, <1>5, <1>6, <1>7 DEF AutoNext

(***************************************************************************)
(* Requests to pause and resume.                                           *)
(***************************************************************************)

\* A step that answers or drops requests, or none, and counts the deaths it adds.
LEMMA AskingKept ==
  ASSUME IInv, Asking, UNCHANGED revived, deaths' \in [Bots -> Nat],
         asked' \in [Operators -> Request \cup {NoRequest}],
         \A o \in Operators : asked'[o] \in {asked[o], NoRequest},
         \A b \in Bots : /\ deaths'[b] >= deaths[b]
                         /\ bots'[b].state = "DEAD"
                              => bots[b].state = "DEAD" \/ deaths'[b] > deaths[b]
  PROVE  Asking'
<1>1. ASSUME NEW o \in Operators, asked'[o] # NoRequest
      PROVE  /\ asked'[o].deaths <= deaths'[asked'[o].bot]
             /\ bots'[asked'[o].bot].state = "DEAD"
                  => asked'[o].deaths < deaths'[asked'[o].bot]
  <2>1. asked'[o] = asked[o] /\ asked[o] \in Request /\ asked[o] # NoRequest
    BY <1>1 DEF Asking
  <2>2. PICK b \in Bots, n \in Nat : b = asked[o].bot /\ n = asked[o].deaths
    BY <2>1 DEF Request
  <2>3. /\ n <= deaths[b] /\ deaths[b] \in Nat /\ deaths'[b] \in Nat
        /\ bots[b].state = "DEAD" => n < deaths[b]
    BY <2>1, <2>2 DEF Asking, IInv, TypeOK
  <2> QED BY <2>1, <2>2, <2>3
<1> QED BY <1>1 DEF Asking

LEMMA LoadAsking ==
  ASSUME IInv, Asking, NEW o \in Operators, NEW b \in Bots, NEW to \in {"PAUSED", "ACTIVE"},
         LoadSwitch(o, b, to)
  PROVE  Asking'
<1>1. /\ UNCHANGED <<bots, deaths, revived>> /\ bots[b].state # "DEAD" /\ deaths[b] \in Nat
      /\ asked' = [asked EXCEPT ![o] = [bot |-> b, to |-> to, deaths |-> deaths[b]]]
  BY DEF LoadSwitch, MaySwitch, vars, IInv, TypeOK
<1>2. [bot |-> b, to |-> to, deaths |-> deaths[b]] \in Request
  BY <1>1 DEF Request
<1> QED BY <1>1, <1>2 DEF Asking

LEMMA CommitAsking ==
  ASSUME IInv, Asking, NEW o \in Operators, CommitSwitch(o)
  PROVE  Asking'
<1>1. asked[o] \in Request /\ deaths' = deaths /\ bots \in [Bots -> BotRow]
      /\ asked' = [asked EXCEPT ![o] = NoRequest]
  BY DEF CommitSwitch, Asking, IInv, TypeOK
<1>2. PICK b \in Bots, to \in {"PAUSED", "ACTIVE"} : b = asked[o].bot /\ to = asked[o].to
  BY <1>1 DEF Request
<1>3. /\ bots' = [bots EXCEPT ![b].state = to]
      /\ revived' = [revived EXCEPT ![b] = IF bots[b].state = "DEAD" THEN @ + 1 ELSE @]
  BY <1>2 DEF CommitSwitch
<1>4. \A c \in Bots : bots'[c].state = "DEAD" => bots[c].state = "DEAD"
  BY <1>1, <1>3 DEF BotRow
<1>5. revived' \in [Bots -> Nat] /\ asked' \in [Operators -> Request \cup {NoRequest}]
  BY <1>1, <1>3 DEF Asking
<1>6. ASSUME NEW p \in Operators, asked'[p] # NoRequest
      PROVE  /\ asked'[p].deaths <= deaths'[asked'[p].bot]
             /\ bots'[asked'[p].bot].state = "DEAD"
                  => asked'[p].deaths < deaths'[asked'[p].bot]
  <2>1. p # o /\ asked'[p] = asked[p] /\ asked[p] # NoRequest
    BY <1>1, <1>6 DEF Asking
  <2>2. asked[p].bot \in Bots
    BY <2>1 DEF Asking, Request
  <2> QED BY <1>1, <1>4, <2>1, <2>2 DEF Asking
<1> QED BY <1>5, <1>6 DEF Asking

LEMMA ProgressAsked ==
  ASSUME NEW s \in Sessions, Progress(s)
  PROVE  UNCHANGED switches
BY DEF Progress, Skip, Buy, Sell, NextBot, RecordOutcome, JudgePattern, SuggestGrowth, Explain,
       Finish, Executing

LEMMA AutoAsking ==
  ASSUME IInv, Working, Asking, [AutoNext]_avars
  PROVE  Asking'
<1>t. deaths \in [Bots -> Nat] /\ deaths' \in [Bots -> Nat]
  BY AutoIInv DEF IInv, TypeOK
<1>1. CASE \E o \in Operators : CommitSwitch(o)
  BY <1>1, CommitAsking
<1>2. CASE \E o \in Operators, b \in Bots, to \in {"PAUSED", "ACTIVE"} : LoadSwitch(o, b, to)
  BY <1>2, LoadAsking
<1>3. CASE ~SwitchBot /\ ~\E o \in Operators : CommitSwitch(o)
  <2>1. /\ revived' = revived
        /\ asked' \in [Operators -> Request \cup {NoRequest}]
        /\ \A o \in Operators : asked'[o] \in {asked[o], NoRequest}
    <3>1. CASE \E ts \in SUBSET Tokens : Tick(ts) \/ \E s \in Sessions : RunCycle(s, ts)
      BY <3>1 DEF Tick, RunCycle, StartCycle, switches, Asking
    <3>2. CASE \E s \in Sessions : Work(s)
      BY <3>2, ProgressAsked DEF Work, switches, Asking
    <3>3. CASE \E s \in Sessions : Fail(s) \/ FailedCycle(s)
      BY <3>3 DEF Fail, Interrupt, FailedCycle, CycleFails, switches, Asking
    <3>4. CASE RestartServer \/ \E o \in Operators : FailSwitch(o)
      BY <3>4 DEF RestartServer, FailSwitch, Asking
    <3>5. CASE \/ \E on \in BOOLEAN : UpdateAutoTrading(on)
               \/ SleepOn \/ PostStop \/ AcceptStop \/ CommitStop \/ GoOnline \/ UNCHANGED avars
      BY <3>5 DEF UpdateAutoTrading, SleepOn, PostStop, AcceptStop, CommitStop, GoOnline,
                  avars, cvars, switches, Asking
    <3> QED BY <1>3, <3>1, <3>2, <3>3, <3>4, <3>5 DEF AutoNext
  <2>2. CASE [Next]_vars
    BY <1>t, <2>1, <2>2, StepCountsDeaths, AskingKept
  <2>3. CASE SessionReplaced \/ AllClosed
    <3>1. UNCHANGED <<bots, deaths>>
      BY <2>3 DEF SessionReplaced, AllClosed, tables
    <3>2. \A b \in Bots : deaths[b] >= deaths[b]
      BY <1>t
    <3> QED BY <1>t, <2>1, <3>1, <3>2, AskingKept
  <2> QED BY <1>3, <2>2, <2>3, AutoStepCases
<1> QED BY <1>1, <1>2, <1>3 DEF SwitchBot, Switching

(***************************************************************************)
(* Theorems.                                                               *)
(***************************************************************************)
LEMMA AutoInvariance == AutoSpec => []AInv
<1>1. AInv /\ [AutoNext]_avars => AInv'
  BY AutoIInv, AutoWorking, AutoSwitch, AutoSpent, AutoAsking DEF AInv
<1> QED BY InitAInv, <1>1, PTL DEF AutoSpec

\* The switch tells the truth after any toggles, failed ticks and restarts: one
\* loop and the one the application remembers, or none.
THEOREM SwitchIsTrue == AutoSpec => []LoopMatchesSwitch
<1>1. AInv => LoopMatchesSwitch
  BY DEF AInv
<1> QED BY <1>1, AutoInvariance, PTL

\* However many cycles run, by the loop or by hand, each commits at most one
\* trade after a stop.
THEOREM StopHolds == AutoSpec => []KillStopsTrading
<1>1. AInv => KillStopsTrading
  BY DEF AInv, Spent, KillStopsTrading
<1> QED BY <1>1, AutoInvariance, PTL

LEMMA AutoCounts ==
  ASSUME IsFiniteSet(Sessions), IInv, Working, Asking, CountsInv, [AutoNext]_avars
  PROVE  CountsInv'
<1>t. today \in Nat /\ sess \in [Sessions -> Session]
  BY DEF IInv, TypeOK
<1>1. CASE [Next]_vars
  BY <1>1, NextCounts
<1>2. CASE BotSwitched \/ SessionReplaced \/ AllClosed
  BY <1>2, <1>t, CountsKept DEF BotSwitched, SessionReplaced, AllClosed, Answered, tables
<1> QED BY <1>1, <1>2, SwitchIs, AutoStepCases

\* However the loop's ticks and the cycles by hand overlap, fail and restart, a
\* bot makes at most the limit of trades of the day and one more for each other
\* session.
THEOREM CycleTradesBounded ==
  ASSUME IsFiniteSet(Sessions)
  PROVE  AutoSpec => []TradesPerDayBounded
<1>1. AutoInit => CountsInv
  BY InitCounts, TaskAssumption DEF AutoInit, CycleInit
<1>2. AInv /\ CountsInv /\ [AutoNext]_avars => CountsInv'
  BY AutoCounts DEF AInv
<1>3. AInv /\ CountsInv => TradesPerDayBounded
  BY CountsBound DEF AInv
<1> QED BY <1>1, <1>2, <1>3, AutoInvariance, PTL DEF AutoSpec

\* A bot comes back from death only by a pause or a resume that had loaded its row
\* before its latest death: neither the cycles, whatever rows they hold, nor a
\* failure, a restart or a request that saw it dead brings it back.
THEOREM OnlyRacesRevive == AutoSpec => RevivedOnlyByRace
<1>1. AInv /\ [AutoNext]_avars =>
        [\A b \in Bots :
           bots[b].state = "DEAD" /\ bots'[b].state # "DEAD"
             => \E o \in Operators : /\ asked[o] # NoRequest /\ asked[o].bot = b
                                     /\ asked[o].deaths < deaths[b]]_cvars
  <2> SUFFICES ASSUME AInv, [AutoNext]_avars,
                      NEW b \in Bots, bots[b].state = "DEAD", bots'[b].state # "DEAD"
               PROVE  \E o \in Operators : /\ asked[o] # NoRequest /\ asked[o].bot = b
                                           /\ asked[o].deaths < deaths[b]
    OBVIOUS
  <2>0. IInv /\ Working /\ Asking
    BY DEF AInv
  <2>1. ~[Next]_vars
    BY <2>0, StepKeepsDead
  <2>2. ~SessionReplaced /\ ~AllClosed
    BY DEF SessionReplaced, AllClosed, tables
  <2>3. PICK o \in Operators : CommitSwitch(o)
    BY <2>0, <2>1, <2>2, AutoStepCases
  <2>4. asked[o] # NoRequest /\ asked[o].bot = b
    BY <2>0, <2>3 DEF CommitSwitch, IInv, TypeOK
  <2> QED BY <2>0, <2>4 DEF Asking
<1> QED BY <1>1, AutoInvariance, PTL DEF AutoSpec, RevivedOnlyByRace

(***************************************************************************)
(* One cycle at a time, without failures.                                  *)
(***************************************************************************)
\* The system stops or starts, the day turns, or a request loads its bot.
Elsewhere == /\ [ChangeSystem \/ NewDay]_vars
             /\ UNCHANGED <<cyc, launched, postMortems, learned, revived, left>>

LEMMA CycleCases ==
  ASSUME [CycleNextReliable]_cvars
  PROVE  \/ \E s \in Sessions : Progress(s)
         \/ \E s \in Sessions, ts \in SUBSET Tokens : StartCycle(s, ts)
         \/ \E o \in Operators : CommitSwitch(o)
         \/ Elsewhere
<1>1. CASE Switching
  BY <1>1 DEF Switching, LoadSwitch, Elsewhere
<1>2. CASE Around \/ UNCHANGED cvars
  BY <1>2 DEF Around, Elsewhere, switches, cvars
<1> QED BY <1>1, <1>2 DEF CycleNextReliable

LEMMA ElsewhereKeeps ==
  ASSUME Elsewhere
  PROVE  /\ UNCHANGED <<bots, positions, trades, deaths, sess, ledger, cyc, launched,
                        postMortems, outcomes, suggestions, revived, left>>
         /\ today' = today \/ NewDay
BY DEF Elsewhere, ChangeSystem, NewDay, tables, vars, learned

LEMMA CycleWorking ==
  ASSUME Working, [CycleNextReliable]_cvars
  PROVE  Working'
<1>1. CASE UNCHANGED cyc
  BY <1>1 DEF Working
<1> QED BY <1>1, CycleCases, ProgressWorking, StartWorking DEF CommitSwitch, Elsewhere

LEMMA CycleAsking ==
  ASSUME IInv, IInv', Working, Asking, [CycleNextReliable]_cvars
  PROVE  Asking'
<1>t. deaths \in [Bots -> Nat] /\ deaths' \in [Bots -> Nat]
  BY DEF IInv, TypeOK
<1>k. ASSUME UNCHANGED switches, [Next]_vars \/ SessionReplaced PROVE Asking'
  <2>1. \A b \in Bots : /\ deaths'[b] >= deaths[b]
                        /\ bots'[b].state = "DEAD"
                             => bots[b].state = "DEAD" \/ deaths'[b] > deaths[b]
    BY <1>t, <1>k, StepCountsDeaths DEF SessionReplaced, tables
  <2> QED BY <1>t, <1>k, <2>1, AskingKept DEF switches, Asking
<1>1. ASSUME NEW s \in Sessions, Progress(s) PROVE Asking'
  BY <1>1, <1>k, ProgressAsked, ProgressIsStep DEF Next, NextReliable
<1>2. ASSUME NEW s \in Sessions, NEW ts \in SUBSET Tokens, StartCycle(s, ts) PROVE Asking'
  BY <1>2, <1>k, StartReplaces DEF StartCycle
<1>3. CASE Switching
  BY <1>3, LoadAsking, CommitAsking DEF Switching
<1>4. CASE Around \/ UNCHANGED cvars
  BY <1>4, <1>k DEF Around, Next, NextReliable, cvars
<1> QED BY <1>1, <1>2, <1>3, <1>4 DEF CycleNextReliable

\* What a starting cycle holds are the rows of the table.
LEMMA StartSolo ==
  ASSUME SoloInv, NEW s \in Sessions, NEW ts \in SUBSET Tokens, StartCycle(s, ts)
  PROVE  SoloInv'
<1>1. SessionReplaced
  BY StartReplaces DEF SoloInv
<1>2. IInv'
  BY <1>1, AnsweredGood, SessionStep DEF SessionReplaced, SoloInv
<1>3. /\ UNCHANGED <<bots, ledger>>
      /\ \A b \in Bots : sess'[s].cached[b] # NotLoaded => sess'[s].cached[b] = bots[b]
      /\ \A r \in Sessions \ {s} : sess'[r] = sess[r]
  BY DEF StartCycle, tables, Answered, SoloInv, IInv, TypeOK
<1>4. Fresh'
  BY <1>3 DEF SoloInv, Fresh, SameAccount
<1> QED BY <1>2, <1>3, <1>4 DEF SoloInv, LedgerAgrees

LEMMA SwitchedSolo ==
  ASSUME SoloInv, BotSwitched
  PROVE  SoloInv'
<1>1. IInv'
  BY SwitchedIInv DEF SoloInv
<1>2. /\ UNCHANGED <<sess, ledger>>
      /\ \A b \in Bots : SameAccount(bots[b], bots'[b])
  BY DEF BotSwitched, SoloInv, IInv, TypeOK, BotRow, SameAccount
<1>3. Fresh' /\ LedgerAgrees'
  BY <1>2 DEF SoloInv, Fresh, LedgerAgrees, SameAccount
<1> QED BY <1>1, <1>3 DEF SoloInv

LEMMA CycleSolo ==
  ASSUME \A s, t \in Sessions : s = t, SoloInv, Working, Asking, [CycleNextReliable]_cvars
  PROVE  SoloInv'
<1>1. ASSUME NEW s \in Sessions, Progress(s) PROVE SoloInv'
  BY <1>1, ProgressIsStep, SoloNext DEF Next, NextReliable
<1>2. CASE Elsewhere
  BY <1>2, SoloNext DEF Elsewhere, Next, NextReliable
<1> QED BY <1>1, <1>2, CycleCases, SwitchIs, StartSolo, SwitchedSolo

\* The deaths that the executor counts, with those that a request wrote over.
BotDeaths == DeathInv(revived)

LEMMA CommitSwitchDeaths ==
  ASSUME SoloInv, Asking, BotDeaths, NEW o \in Operators, CommitSwitch(o)
  PROVE  BotDeaths'
<1>1. asked[o] \in Request /\ bots \in [Bots -> BotRow]
      /\ revived \in [Bots -> Nat] /\ UNCHANGED <<deaths, sess>>
  BY DEF CommitSwitch, Asking, SoloInv, IInv, TypeOK
<1>2. PICK b \in Bots, to \in {"PAUSED", "ACTIVE"} : b = asked[o].bot /\ to = asked[o].to
  BY <1>1 DEF Request
<1>3. /\ bots' = [bots EXCEPT ![b].state = to]
      /\ revived' = [revived EXCEPT ![b] = IF bots[b].state = "DEAD" THEN @ + 1 ELSE @]
  BY <1>2 DEF CommitSwitch
<1>4. /\ bots'[b].state # "DEAD" /\ \A c \in Bots : bots'[c].pnl = bots[c].pnl
      /\ \A c \in Bots \ {b} : bots'[c] = bots[c] /\ revived'[c] = revived[c]
      /\ revived'[b] = revived[b] + IF bots[b].state = "DEAD" THEN 1 ELSE 0
  BY <1>1, <1>3 DEF BotRow
<1>5. Counted(revived)'
  BY <1>1, <1>4 DEF BotDeaths, DeathInv, Counted
<1>6. Judged(revived)'
  BY <1>1, <1>4 DEF BotDeaths, DeathInv, Judged, Selling
<1> QED BY <1>5, <1>6 DEF BotDeaths, DeathInv

LEMMA CycleDeathsStep ==
  ASSUME \A s, t \in Sessions : s = t, SoloInv, Working, Asking, BotDeaths,
         [CycleNextReliable]_cvars
  PROVE  BotDeaths'
<1>0. PICK back \in [Bots -> Nat] : back = revived
  BY DEF Asking
<1>k. ASSUME revived' = revived, DeathInv(back)' PROVE BotDeaths'
  BY <1>0, <1>k DEF BotDeaths, DeathInv, Counted, Judged, Selling
<1>d. DeathInv(back)
  BY <1>0 DEF BotDeaths
<1>1. ASSUME NEW s \in Sessions, Progress(s) PROVE BotDeaths'
  <2>1. CASE UNCHANGED vars
    BY <1>1, <1>d, <1>k, <2>1, DeathsKept, ProgressAsked DEF vars, switches
  <2> QED BY <1>1, <1>d, <1>k, <2>1, ProgressIsStep, StepDeaths, ProgressAsked DEF switches
<1>2. ASSUME NEW s \in Sessions, NEW ts \in SUBSET Tokens, StartCycle(s, ts)
      PROVE  BotDeaths'
  <2>1. /\ UNCHANGED <<bots, deaths, revived>>
        /\ \A r \in Sessions : sess'[r] = sess[r] \/ sess[r].pc # "committed"
    BY <1>2 DEF StartCycle, tables, switches, SoloInv, IInv, TypeOK
  <2> QED BY <1>d, <1>k, <2>1, DeathsKept
<1>3. CASE \E o \in Operators : CommitSwitch(o)
  BY <1>3, CommitSwitchDeaths
<1>4. CASE Elsewhere
  BY <1>4, <1>d, <1>k, DeathsKept, ElsewhereKeeps
<1> QED BY <1>1, <1>2, <1>3, <1>4, CycleCases

\* A loop of cycles, one at a time, that trade, are paused and resumed.
CycleInv == SoloInv /\ Working /\ Asking /\ BotDeaths

LEMMA InitCycleInv ==
  ASSUME MaxLoss > 0, CycleInit
  PROVE  CycleInv
<1>1. PICK back \in [Bots -> Nat] : back = [b \in Bots |-> 0]
  OBVIOUS
<1>2. DeathInv(back) /\ revived = back
  BY <1>1, InitDeaths DEF CycleInit
<1>3. BotDeaths
  BY <1>2 DEF BotDeaths
<1> QED BY <1>3, InitSoloInv, InitAsking, OffIsCycle DEF CycleInit, CycleInv, Working, Off

LEMMA CycleInvariance ==
  ASSUME \A s, t \in Sessions : s = t, MaxLoss > 0
  PROVE  CycleSpecReliable => []CycleInv
<1>1. CycleInit => CycleInv
  BY InitCycleInv
<1>2. CycleInv /\ [CycleNextReliable]_cvars => CycleInv'
  BY CycleSolo, CycleWorking, CycleAsking, CycleDeathsStep DEF CycleInv, SoloInv
<1> QED BY <1>1, <1>2, PTL DEF CycleSpecReliable

\* The deaths of bots that trade in cycles: no pause and no resume, however late it
\* commits, hides a breach or doubles a death, except that a bot it has brought back
\* may live on past its ceiling and die once more.
THEOREM CycleDeaths ==
  ASSUME \A s, t \in Sessions : s = t, MaxLoss > 0
  PROVE  CycleSpecReliable => []EveryDeathCounted
<1>1. CycleInv => EveryDeathCounted
  BY DEF CycleInv, BotDeaths, DeathInv, Counted, Judged, Selling, EveryDeathCounted, AtRest
<1> QED BY <1>1, CycleInvariance, PTL

(***************************************************************************)
(* What a cycle knows of the call it is in.                                *)
(***************************************************************************)
BotOf(s) == cyc[s].now[2]
TokenOf(s) == cyc[s].now[1]
Ended(s) == sess[s].result \in {"executed", "died"}

InCall(s) ==
  \/ /\ cyc[s].stage = "buying"
     /\ sess[s].order = BuyOrder(TokenOf(s), BotOf(s))
     /\ sess[s].key = TradeKey(TokenOf(s), BotOf(s), "BUY")
  \/ /\ cyc[s].stage = "selling"
     /\ \E p \in ExitPrices : sess[s].order = SellOrder(TokenOf(s), BotOf(s), p)
     /\ sess[s].key = TradeKey(TokenOf(s), BotOf(s), "SELL")

MatchesAt(s) ==
  /\ sess[s].pc # "idle" => InCall(s)
  /\ sess[s].pc = "enforced" => Ended(s)
  /\ cyc[s].stage \in {"judging", "suggesting", "explaining"} => Ended(s)
Matches == \A s \in Sessions : MatchesAt(s)

\* One session moves at a time.
LEMMA ProgressFrame ==
  ASSUME NEW s \in Sessions, Progress(s), NEW r \in Sessions, r # s,
         sess \in [Sessions -> Session], Working
  PROVE  sess'[r] = sess[r] /\ cyc'[r] = cyc[r]
<1>1. CASE Executing(s)
  BY <1>1 DEF Executing, Evaluate, Price, PriceFails, Commit, CommitConflict, Enforce,
              Answer, Working
<1>2. CASE ~Executing(s)
  BY <1>2 DEF Progress, Skip, Buy, Sell, Begin, NextBot, RecordOutcome, JudgePattern,
              SuggestGrowth, Explain, Finish, vars, Working
<1> QED BY <1>1, <1>2

\* The order, the key and the lines of a call stay until it ends.
LEMMA ExecutingCall ==
  ASSUME sess \in [Sessions -> Session], NEW s \in Sessions, Executing(s)
  PROVE  /\ sess[s].pc # "idle" /\ cyc' = cyc
         /\ \/ sess'[s].pc = "idle"
            \/ /\ sess'[s].order = sess[s].order /\ sess'[s].key = sess[s].key
               /\ sess'[s].pc = "enforced" => sess'[s].result \in {"executed", "died"}
<1>1. CASE Evaluate(s)
  BY <1>1 DEF Executing, Evaluate, Answered, Session
<1>2. CASE Price(s)
  <2>1. PICK p : sess' = [sess EXCEPT ![s].pc = "priced", ![s].pos = p, ![s].day = today]
    BY <1>2 DEF Price
  <2>2. sess[s].pc = "approved" /\ cyc' = cyc
    BY <1>2 DEF Executing, Price
  <2> QED BY <2>1, <2>2 DEF Session
<1>3. CASE Commit(s)
  BY <1>3 DEF Executing, Commit, Session
<1>4. CASE Enforce(s)
  BY <1>4 DEF Executing, Enforce, Session
<1>5. CASE PriceFails(s) \/ CommitConflict(s) \/ Answer(s)
  BY <1>5 DEF Executing, PriceFails, CommitConflict, Answer, Answered, Session
<1> QED BY <1>1, <1>2, <1>3, <1>4, <1>5 DEF Executing

\* A call begins with the order and the key of the bot and launch of the cycle.
LEMMA BeginCall ==
  ASSUME sess \in [Sessions -> Session], NEW s \in Sessions, NEW k, NEW o, Begin(s, k, o)
  PROVE  /\ sess'[s].pc = "loaded" /\ sess'[s].key = k /\ sess'[s].order = o
         /\ sess'[s].result = "none" /\ sess'[s].cached = Loaded(s, o.bot)
         /\ sess[s].pc = "idle" /\ k \notin KeysUsed /\ Row(s, o.bot).state # "DEAD"
         /\ UNCHANGED <<tables, system, today>>
BY DEF Begin, Answered, RefusesBot

LEMMA BuyBegins ==
  ASSUME sess \in [Sessions -> Session], Working, NEW s \in Sessions,
         NEW t \in Tokens, NEW b \in Bots, Buy(s, t, b)
  PROVE  /\ cyc[s].stage = "choosing" /\ cyc'[s].stage = "buying"
         /\ cyc'[s].now = <<t, b>>
         /\ Begin(s, TradeKey(t, b, "BUY"), BuyOrder(t, b))
         /\ UNCHANGED <<launched, postMortems, learned>>
BY DEF Buy, Working

LEMMA SellBegins ==
  ASSUME sess \in [Sessions -> Session], Working, NEW s \in Sessions,
         NEW p \in ExitPrices, Sell(s, p)
  PROVE  /\ cyc[s].stage = "buying" /\ cyc'[s].stage = "selling"
         /\ sess[s].result = "executed" /\ cyc'[s].now = cyc[s].now
         /\ Begin(s, TradeKey(TokenOf(s), BotOf(s), "SELL"),
                  SellOrder(TokenOf(s), BotOf(s), p))
         /\ UNCHANGED <<launched, postMortems, learned>>
BY DEF Sell, Working, Cycle, TokenOf, BotOf

LEMMA ProgressMatches ==
  ASSUME IInv, Working, Matches, NEW s \in Sessions, Progress(s)
  PROVE  Matches'
<1>t. sess \in [Sessions -> Session] /\ cyc \in [Sessions -> Cycle]
  BY DEF IInv, TypeOK, Working
<1>r. ASSUME NEW r \in Sessions, r # s
      PROVE  MatchesAt(r)'
  <2>1. sess'[r] = sess[r] /\ cyc'[r] = cyc[r]
    BY <1>r, <1>t, ProgressFrame
  <2> QED BY <2>1 DEF Matches, MatchesAt, InCall, Ended, TokenOf, BotOf
<1>s. MatchesAt(s)'
  <2>m. MatchesAt(s)
    BY DEF Matches
  <2>1. CASE \E t \in Tokens, b \in Bots : Skip(s, t, b)
    BY <2>1, <1>t DEF Skip, Running, vars, Cycle, MatchesAt
  <2>2. ASSUME NEW t \in Tokens, NEW b \in Bots, Buy(s, t, b) PROVE MatchesAt(s)'
    <3>1. /\ cyc'[s].stage = "buying" /\ cyc'[s].now = <<t, b>>
          /\ sess'[s].pc = "loaded" /\ sess'[s].key = TradeKey(t, b, "BUY")
          /\ sess'[s].order = BuyOrder(t, b)
      BY <2>2, <1>t, BuyBegins, BeginCall
    <3> QED BY <3>1 DEF MatchesAt, InCall, TokenOf, BotOf
  <2>3. ASSUME NEW p \in ExitPrices, Sell(s, p) PROVE MatchesAt(s)'
    <3>1. /\ cyc'[s].stage = "selling" /\ cyc'[s].now = cyc[s].now
          /\ sess'[s].pc = "loaded" /\ sess'[s].key = TradeKey(TokenOf(s), BotOf(s), "SELL")
          /\ sess'[s].order = SellOrder(TokenOf(s), BotOf(s), p)
      BY <2>3, <1>t, SellBegins, BeginCall
    <3> QED BY <3>1 DEF MatchesAt, InCall, TokenOf, BotOf
  <2>4. CASE NextBot(s)
    BY <2>4, <1>t DEF NextBot, vars, Cycle, MatchesAt
  <2>5. CASE RecordOutcome(s)
    BY <2>5, <1>t DEF RecordOutcome, vars, Cycle, MatchesAt, Ended
  <2>6. CASE JudgePattern(s) \/ SuggestGrowth(s) \/ Explain(s)
    BY <2>6, <2>m, <1>t DEF JudgePattern, SuggestGrowth, Explain, Running, vars, Cycle,
                            MatchesAt, Ended
  <2>7. CASE Finish(s)
    BY <2>7, <1>t DEF Finish, Off, Answered, MatchesAt
  <2>8. CASE Executing(s)
    BY <2>8, <2>m, <1>t, ExecutingCall DEF MatchesAt, InCall, Ended, TokenOf, BotOf
  <2> QED BY <2>1, <2>2, <2>3, <2>4, <2>5, <2>6, <2>7, <2>8 DEF Progress
<1> QED BY <1>r, <1>s DEF Matches

LEMMA StartMatches ==
  ASSUME IInv, Working, Matches, NEW s \in Sessions, NEW ts \in SUBSET Tokens,
         StartCycle(s, ts)
  PROVE  Matches'
<1>1. /\ sess'[s].pc = "idle" /\ cyc'[s].stage = "choosing"
      /\ \A r \in Sessions \ {s} : sess'[r] = sess[r] /\ cyc'[r] = cyc[r]
  BY DEF StartCycle, Answered, Off, IInv, TypeOK, Working
<1>2. MatchesAt(s)'
  BY <1>1 DEF MatchesAt
<1>3. ASSUME NEW r \in Sessions, r # s
      PROVE  MatchesAt(r)'
  BY <1>1, <1>3 DEF Matches, MatchesAt, InCall, Ended, TokenOf, BotOf
<1> QED BY <1>2, <1>3 DEF Matches

LEMMA CycleMatches ==
  ASSUME IInv, Working, Matches, [CycleNextReliable]_cvars
  PROVE  Matches'
<1>1. ASSUME UNCHANGED <<sess, cyc>>
      PROVE  Matches'
  BY <1>1 DEF Matches, MatchesAt, InCall, Ended, TokenOf, BotOf
<1>2. CASE Elsewhere \/ \E o \in Operators : CommitSwitch(o)
  BY <1>1, <1>2, ElsewhereKeeps DEF CommitSwitch
<1> QED BY <1>2, CycleCases, ProgressMatches, StartMatches

LEMMA InitMatches == CycleInit => Matches
BY DEF CycleInit, Init, Off, Matches, MatchesAt

(***************************************************************************)
(* Deaths and their post-mortems.                                          *)
(***************************************************************************)

\* The cycle has seen the death of the bot it is busy with, and goes on to
\* explain it.
Aware(s) ==
  /\ sess[s].result = "died"
  /\ \/ cyc[s].stage = "selling" /\ sess[s].pc \in {"enforced", "idle"}
     \/ cyc[s].stage \in {"judging", "suggesting", "explaining"}

\* A death in a cycle's list is one that was counted, and a bot that has died has
\* its post-mortem, or the cycle it died in is about to write it.
Known == \A s \in Sessions, b \in Bots :
  sess[s].cached[b] # NotLoaded /\ sess[s].cached[b].state = "DEAD" => deaths[b] > 0
Mourned == \A b \in Bots :
  deaths[b] > 0 => postMortems[b] > 0 \/ \E s \in Sessions : BotOf(s) = b /\ Aware(s)
Explained == postMortems \in [Bots -> Nat] /\ Known /\ Mourned

\* A step that adds no death and makes the cycle forget none.
LEMMA MournedKept ==
  ASSUME \A s, t \in Sessions : s = t, Explained, UNCHANGED <<deaths, postMortems>>,
         \A s \in Sessions : Aware(s) => Aware(s)' /\ cyc'[s].now = cyc[s].now
  PROVE  Mourned'
BY DEF Explained, Mourned, BotOf

\* A BUY realises nothing, so the bot it kills has died before.
LEMMA BuyKillsAgain ==
  ASSUME \A s, t \in Sessions : s = t, CycleInv, Matches,
         NEW s \in Sessions, Enforce(s), Dies(bots[sess[s].order.bot])
  PROVE  /\ BotOf(s) = sess[s].order.bot /\ BotOf(s) \in Bots
         /\ cyc[s].stage \in {"buying", "selling"}
         /\ cyc[s].stage = "buying" => revived[BotOf(s)] > 0 /\ deaths[BotOf(s)] > 0
<1> DEFINE b == sess[s].order.bot
<1>1. /\ sess[s].pc = "committed" /\ InCall(s) /\ b \in Bots
  BY SoloEnforce DEF Enforce, Matches, MatchesAt, CycleInv
<1>2. /\ b = BotOf(s) /\ cyc[s].stage \in {"buying", "selling"}
      /\ cyc[s].stage = "buying" => sess[s].order.side = "BUY"
  <2>1. CASE sess[s].order = BuyOrder(TokenOf(s), BotOf(s)) /\ cyc[s].stage = "buying"
    BY <2>1 DEF BuyOrder
  <2>2. CASE cyc[s].stage = "selling"
    <3>1. PICK p \in ExitPrices : sess[s].order = SellOrder(TokenOf(s), BotOf(s), p)
      BY <1>1, <2>2 DEF InCall
    <3>2. SellOrder(TokenOf(s), BotOf(s), p).bot = BotOf(s)
      BY DEF SellOrder, BuyOrder
    <3> QED BY <2>2, <3>1, <3>2
  <2> QED BY <1>1, <2>1, <2>2 DEF InCall
<1>3. ASSUME cyc[s].stage = "buying"
      PROVE  revived[b] > 0 /\ deaths[b] > 0
  <2>1. ~Selling(b)
    BY <1>2, <1>3 DEF Selling
  <2>2. bots[b].pnl <= -MaxLoss /\ bots[b].state # "DEAD"
    BY DEF Dies, HasBreached
  <2>3. revived[b] > 0 /\ deaths[b] = revived[b]
    BY <1>1, <2>1, <2>2 DEF CycleInv, BotDeaths, DeathInv, Judged, Counted, Asking
  <2> QED BY <2>3
<1> QED BY <1>1, <1>2, <1>3

LEMMA ExecutingMourned ==
  ASSUME \A s, t \in Sessions : s = t, CycleInv, Matches, Explained,
         NEW s \in Sessions, Executing(s)
  PROVE  Mourned'
<1>t. /\ sess[s] \in Session /\ sess[s].pc # "idle" /\ InCall(s)
      /\ sess \in [Sessions -> Session] /\ deaths \in [Bots -> Nat]
      /\ cyc' = cyc /\ postMortems' = postMortems
  BY ExecutingCall DEF Executing, Matches, MatchesAt, CycleInv, SoloInv, IInv, TypeOK
<1>a. Aware(s) => sess[s].pc = "enforced"
  BY <1>t DEF Aware, InCall
<1>1. CASE \/ Evaluate(s) \/ Price(s) \/ PriceFails(s) \/ Commit(s) \/ CommitConflict(s)
  <2>1. ~Aware(s) /\ deaths' = deaths
    BY <1>1, <1>a DEF Evaluate, Price, PriceFails, Commit, CommitConflict, tables
  <2> QED BY <1>t, <2>1, MournedKept
<1>2. CASE Enforce(s)
  <2> DEFINE b == sess[s].order.bot
             died == Dies(bots[b])
  <2>1. ~Aware(s) /\ sess'[s].pc = "enforced"
    BY <1>2, <1>t, <1>a DEF Enforce, Session
  <2>2. /\ b \in Bots /\ deaths' = [deaths EXCEPT ![b] = IF died THEN @ + 1 ELSE @]
        /\ sess'[s].result = IF died THEN "died" ELSE "executed"
    BY <1>2, SoloEnforce DEF CycleInv
  <2>3. CASE ~died
    <3>1. deaths' = deaths
      BY <1>t, <2>2, <2>3
    <3> QED BY <1>t, <2>1, <3>1, MournedKept
  <2>4. CASE died
    <3>1. /\ BotOf(s) = b /\ cyc[s].stage \in {"buying", "selling"}
          /\ cyc[s].stage = "buying" => deaths[b] > 0
      BY <1>2, <2>4, BuyKillsAgain
    <3>2. \A c \in Bots \ {b} : deaths'[c] = deaths[c]
      BY <1>t, <2>2
    <3>3. \A r \in Sessions : r = s /\ ~Aware(r)
      BY <2>1
    <3>4. \A c \in Bots \ {b} : deaths[c] > 0 => postMortems[c] > 0
      BY <3>3 DEF Explained, Mourned
    <3>5. CASE cyc[s].stage = "buying"
      <4>1. postMortems[b] > 0
        BY <2>2, <3>1, <3>3, <3>5 DEF Explained, Mourned
      <4> QED BY <1>t, <3>2, <3>4, <4>1 DEF Mourned
    <3>6. CASE cyc[s].stage = "selling"
      <4>1. Aware(s)' /\ BotOf(s)' = b
        BY <1>t, <2>1, <2>2, <2>4, <3>1, <3>6 DEF Aware, BotOf
      <4> QED BY <1>t, <3>2, <3>4, <4>1 DEF Mourned
    <3> QED BY <3>1, <3>5, <3>6
  <2> QED BY <2>3, <2>4
<1>3. CASE Answer(s)
  <2>1. /\ sess'[s].result = sess[s].result /\ sess'[s].pc = "idle" /\ deaths' = deaths
    BY <1>3, <1>t DEF Answer, Answered, tables
  <2>2. \A r \in Sessions : Aware(r) => Aware(r)' /\ cyc'[r].now = cyc[r].now
    BY <1>t, <2>1 DEF Aware, InCall
  <2> QED BY <1>t, <2>1, <2>2, MournedKept
<1> QED BY <1>1, <1>2, <1>3 DEF Executing

LEMMA ProgressMourned ==
  ASSUME \A s, t \in Sessions : s = t, CycleInv, Matches, Explained,
         NEW s \in Sessions, Progress(s)
  PROVE  Mourned' /\ postMortems' \in [Bots -> Nat]
<1>t. /\ sess \in [Sessions -> Session] /\ cyc \in [Sessions -> Cycle]
      /\ postMortems \in [Bots -> Nat] /\ MatchesAt(s) /\ \A r \in Sessions : r = s
  BY DEF CycleInv, SoloInv, IInv, TypeOK, Working, Explained, Matches
<1>k. ASSUME UNCHANGED <<deaths, postMortems>>, Aware(s) => Aware(s)' /\ cyc'[s].now = cyc[s].now
      PROVE  Mourned' /\ postMortems' \in [Bots -> Nat]
  BY <1>t, <1>k, MournedKept
<1>1. CASE \E t \in Tokens, b \in Bots : Skip(s, t, b) \/ Buy(s, t, b)
  <2>1. ~Aware(s) /\ UNCHANGED <<deaths, postMortems>>
    BY <1>1, <1>t DEF Skip, Buy, Begin, vars, tables, Aware
  <2> QED BY <1>k, <2>1
<1>2. CASE \E p \in ExitPrices : Sell(s, p)
  <2>1. ~Aware(s) /\ UNCHANGED <<deaths, postMortems>>
    BY <1>2, <1>t DEF Sell, Begin, tables, Aware
  <2> QED BY <1>k, <2>1
<1>3. CASE NextBot(s)
  <2>1. ~Aware(s) /\ UNCHANGED <<deaths, postMortems>>
    BY <1>3, <1>t DEF NextBot, NothingLeft, vars, Aware
  <2> QED BY <1>k, <2>1
<1>4. CASE RecordOutcome(s) \/ JudgePattern(s) \/ SuggestGrowth(s)
  <2>1. UNCHANGED <<sess, deaths, postMortems>> /\ cyc'[s].now = cyc[s].now
    BY <1>4, <1>t DEF RecordOutcome, JudgePattern, SuggestGrowth, vars, Cycle
  <2>2. sess[s].result = "died" =>
          cyc'[s].stage \in {"judging", "suggesting", "explaining"}
    BY <1>4, <1>t DEF RecordOutcome, JudgePattern, SuggestGrowth, AfterSell, Cycle
  <2> QED BY <1>k, <2>1, <2>2 DEF Aware
<1>5. CASE Explain(s)
  <2>1. /\ UNCHANGED deaths /\ BotOf(s) \in Bots
        /\ postMortems' = [postMortems EXCEPT ![BotOf(s)] = @ + 1]
    BY <1>5 DEF Explain, vars, CycleInv, Working, Pairs, BotOf
  <2>2. PICK b \in Bots : b = BotOf(s)
    BY <2>1
  <2>3. /\ postMortems' \in [Bots -> Nat] /\ postMortems'[b] > 0
        /\ \A c \in Bots \ {b} : postMortems'[c] = postMortems[c]
    BY <1>t, <2>1, <2>2
  <2>4. \A c \in Bots \ {b} : deaths[c] > 0 => postMortems[c] > 0
    BY <1>t, <2>2 DEF Explained, Mourned
  <2> QED BY <2>1, <2>3, <2>4 DEF Mourned
<1>6. CASE Finish(s)
  <2>1. ~Aware(s) /\ UNCHANGED <<deaths, postMortems>>
    BY <1>6, <1>t DEF Finish, tables, Aware
  <2> QED BY <1>k, <2>1
<1>7. CASE Executing(s)
  BY <1>7, <1>t, ExecutingMourned DEF Executing
<1> QED BY <1>1, <1>2, <1>3, <1>4, <1>5, <1>6, <1>7 DEF Progress

\* The rows of a cycle are those it read, and what became of them in its hands.
LEMMA StepKnown ==
  ASSUME \A s, t \in Sessions : s = t, CycleInv, Known, NEW s \in Sessions, Step(s)
  PROVE  Known'
<1>t. /\ sess[s] \in Session /\ sess \in [Sessions -> Session] /\ \A r \in Sessions : r = s
      /\ deaths \in [Bots -> Nat] /\ sess[s].cached \in [Bots -> BotRow \cup {NotLoaded}]
  BY DEF CycleInv, SoloInv, IInv, TypeOK, Session
<1>d. \A b \in Bots : bots[b].state = "DEAD" => deaths[b] > 0
  BY DEF CycleInv, BotDeaths, DeathInv, Counted, Asking
<1>1. CASE Commit(s)
  <2> DEFINE b == sess[s].order.bot
             now == Filled(sess[s].cached[b], sess[s].order, EntryPrice(sess[s]))
  <2>1. /\ sess'[s].cached = [sess[s].cached EXCEPT ![b] = now] /\ b \in Bots /\ deaths' = deaths
    BY <1>1, SoloCommit DEF Commit, CycleInv
  <2>2. now.state = sess[s].cached[b].state /\ sess[s].cached[b] \in BotRow
    BY <1>1, OrderTypes, TradeType, FilledType DEF Commit, CycleInv, SoloInv, IInv
  <2> HIDE DEF now
  <2>3. sess[s].cached[b] # NotLoaded
    BY <2>2, SentinelsAssumption
  <2> QED BY <1>t, <2>1, <2>2, <2>3 DEF Known
<1>2. CASE Enforce(s)
  <2> DEFINE b == sess[s].order.bot
             died == Dies(bots[b])
             own == [sess[s].cached[b] EXCEPT !.state = IF died THEN "DEAD" ELSE @]
  <2>1. /\ sess'[s].cached = [sess[s].cached EXCEPT ![b] = own] /\ b \in Bots
        /\ deaths' = [deaths EXCEPT ![b] = IF died THEN @ + 1 ELSE @]
    BY <1>2, SoloEnforce DEF CycleInv
  <2>2. sess[s].cached[b] \in BotRow /\ sess[s].cached[b] # NotLoaded
    BY <1>2, OrderTypes, SentinelsAssumption DEF Enforce, CycleInv, SoloInv, IInv
  <2>3. ~died => own.state = sess[s].cached[b].state
    BY <2>2 DEF BotRow
  <2>4. /\ \A c \in Bots : deaths'[c] >= deaths[c]
        /\ died => deaths'[b] > 0
    BY <1>t, <2>1
  <2> HIDE DEF own, died
  <2>5. ASSUME NEW c \in Bots, sess'[s].cached[c] # NotLoaded, sess'[s].cached[c].state = "DEAD"
        PROVE  deaths'[c] > 0
    <3>1. CASE c = b /\ died
      BY <2>4, <3>1
    <3>2. CASE ~(c = b /\ died)
      <4>1. sess[s].cached[c] # NotLoaded /\ sess[s].cached[c].state = "DEAD"
        BY <1>t, <2>1, <2>2, <2>3, <2>5, <3>2
      <4>2. deaths[c] > 0 /\ deaths[c] \in Nat /\ deaths'[c] \in Int
        BY <1>t, <2>1, <4>1 DEF Known
      <4> QED BY <2>4, <4>2
    <3> QED BY <3>1, <3>2
  <2> QED BY <1>t, <2>5 DEF Known
<1>3. CASE ~Commit(s) /\ ~Enforce(s)
  <2>1. UNCHANGED <<bots, deaths>>
    BY <1>3, CallStepsKeepTables DEF tables
  <2>2. \A b \in Bots : sess'[s].cached[b] \in {NotLoaded, sess[s].cached[b], bots[b]}
    BY <1>3, CallStepsCache DEF CycleInv, SoloInv
  <2> QED BY <1>t, <1>d, <2>1, <2>2 DEF Known
<1> QED BY <1>1, <1>2, <1>3

LEMMA CycleExplained ==
  ASSUME \A s, t \in Sessions : s = t, CycleInv, Matches, Explained,
         [CycleNextReliable]_cvars
  PROVE  Explained'
<1>1. ASSUME NEW s \in Sessions, Progress(s)
      PROVE  Explained'
  <2>1. Step(s) \/ UNCHANGED vars
    BY <1>1, ProgressIsStep DEF CycleInv
  <2>2. Known'
    BY <2>1, StepKnown DEF Explained, Known, vars
  <2> QED BY <1>1, <2>2, ProgressMourned DEF Explained
<1>2. ASSUME NEW s \in Sessions, NEW ts \in SUBSET Tokens, StartCycle(s, ts)
      PROVE  Explained'
  <2>1. \A b \in Bots : sess'[s].cached[b] = NotLoaded \/ sess'[s].cached[b].state = "ACTIVE"
    BY <1>2 DEF StartCycle, Answered, TradeableBots, CycleInv, SoloInv, IInv, TypeOK
  <2>2. UNCHANGED <<postMortems, deaths>> /\ ~Aware(s) /\ \A r \in Sessions : r = s
    BY <1>2 DEF StartCycle, tables, Aware
  <2> QED BY <2>1, <2>2, MournedKept DEF Explained, Known
<1>3. CASE Elsewhere \/ \E o \in Operators : CommitSwitch(o)
  <2>1. UNCHANGED <<sess, cyc, postMortems, deaths>>
    BY <1>3, ElsewhereKeeps DEF CommitSwitch
  <2> QED BY <2>1 DEF Explained, Known, Mourned, Aware, BotOf
<1> QED BY <1>1, <1>2, <1>3, CycleCases

LEMMA InitExplained == CycleInit => Explained
BY DEF CycleInit, Init, EmptyCache, Explained, Known, Mourned

LEMMA ToldInvariance ==
  ASSUME \A s, t \in Sessions : s = t, MaxLoss > 0
  PROVE  CycleSpecReliable => [](CycleInv /\ Matches /\ Explained)
<1>1. CycleInv /\ Matches /\ Explained /\ [CycleNextReliable]_cvars
        => Matches' /\ Explained'
  BY CycleMatches, CycleExplained DEF CycleInv, SoloInv
<1> QED BY <1>1, CycleInvariance, InitMatches, InitExplained, PTL DEF CycleSpecReliable

\* A cycle goes on to the next bot only when the death of the last one has its
\* post-mortem: it sees the death in its SELL's answer, a BUY kills only a bot whose
\* earlier death was told of, and neither the learning nor a suggestion makes it
\* forget.
THEOREM DeathsAreTold ==
  ASSUME \A s, t \in Sessions : s = t, MaxLoss > 0
  PROVE  CycleSpecReliable => []NoSilentDeath
<1>1. Explained => NoSilentDeath
  <2> SUFFICES ASSUME Explained, NEW s \in Sessions, NEW b \in Bots, cyc[s].stage = "choosing",
                      sess[s].cached[b] # NotLoaded, sess[s].cached[b].state = "DEAD"
               PROVE  postMortems[b] > 0
    BY DEF NoSilentDeath
  <2>1. deaths[b] > 0 /\ \A r \in Sessions : r = s /\ ~Aware(r)
    BY DEF Explained, Known, Aware
  <2> QED BY <2>1 DEF Explained, Mourned
<1> QED BY <1>1, ToldInvariance, PTL

(***************************************************************************)
(* Suggestions.                                                            *)
(***************************************************************************)

\* The cycles that have looked and will suggest the band: they and the suggestions
\* made are no more than the cycles there are, for nobody joins them once there is
\* a suggestion.
AboutToSuggest(u) == {s \in Sessions : cyc[s].stage = "suggesting" /\ BucketOf(TokenOf(s)) = u}
Bounded ==
  /\ suggestions \in [Buckets -> Nat]
  /\ \A u \in Buckets :
       suggestions[u] + Cardinality(AboutToSuggest(u)) <= Cardinality(Sessions)

LEMMA AboutFinite ==
  ASSUME IsFiniteSet(Sessions), NEW W \in SUBSET Sessions
  PROVE  /\ IsFiniteSet(W) /\ Cardinality(W) \in Nat /\ Cardinality(Sessions) \in Nat
         /\ Cardinality(W) <= Cardinality(Sessions)
         /\ \A V \in SUBSET W : Cardinality(V) \in Nat /\ Cardinality(V) <= Cardinality(W)
<1>1. IsFiniteSet(W) /\ Cardinality(W) <= Cardinality(Sessions)
  BY FS_Subset
<1>2. ASSUME NEW V \in SUBSET W
      PROVE  Cardinality(V) \in Nat /\ Cardinality(V) <= Cardinality(W)
  BY <1>1, FS_Subset, FS_CardinalityType
<1> QED BY <1>1, <1>2, FS_CardinalityType

LEMMA BoundedKept ==
  ASSUME IsFiniteSet(Sessions), Bounded, UNCHANGED suggestions,
         \A s \in Sessions : cyc'[s] = cyc[s] \/ cyc'[s].stage # "suggesting"
  PROVE  Bounded'
<1>1. ASSUME NEW u \in Buckets
      PROVE  suggestions[u] + Cardinality(AboutToSuggest(u)') <= Cardinality(Sessions)
  <2>1. PICK W, V : W = AboutToSuggest(u) /\ V = AboutToSuggest(u)'
    OBVIOUS
  <2>2. W \in SUBSET Sessions /\ V \in SUBSET W
    BY <2>1 DEF AboutToSuggest, TokenOf
  <2>3. /\ Cardinality(W) \in Nat /\ Cardinality(V) \in Nat /\ Cardinality(Sessions) \in Nat
        /\ Cardinality(V) <= Cardinality(W)
    BY <2>2, AboutFinite
  <2>4. suggestions[u] + Cardinality(W) <= Cardinality(Sessions) /\ suggestions[u] \in Nat
    BY <2>1 DEF Bounded
  <2>5. suggestions[u] + Cardinality(V) <= Cardinality(Sessions)
    BY <2>3, <2>4
  <2> QED BY <2>1, <2>5
<1> QED BY <1>1 DEF Bounded

LEMMA JudgeBounded ==
  ASSUME IsFiniteSet(Sessions), Working, Bounded, NEW s \in Sessions, JudgePattern(s)
  PROVE  Bounded'
<1>1. /\ suggestions' = suggestions /\ cyc \in [Sessions -> Cycle]
      /\ cyc'[s].now = cyc[s].now /\ \A r \in Sessions \ {s} : cyc'[r] = cyc[r]
      /\ cyc'[s].stage = "suggesting" => WorthSuggesting(BucketOf(TokenOf(s)))
  BY DEF JudgePattern, AfterSell, learned, TokenOf, Working, Cycle
<1>2. CASE cyc'[s].stage # "suggesting"
  BY <1>1, <1>2, BoundedKept
<1>3. CASE cyc'[s].stage = "suggesting"
  <2>1. ASSUME NEW u \in Buckets
        PROVE  suggestions[u] + Cardinality(AboutToSuggest(u)') <= Cardinality(Sessions)
    <3>1. PICK W, V : W = AboutToSuggest(u) /\ V = AboutToSuggest(u)'
      OBVIOUS
    <3>2. W \in SUBSET Sessions /\ V \in SUBSET Sessions
      BY <3>1 DEF AboutToSuggest
    <3>3. /\ Cardinality(W) \in Nat /\ Cardinality(V) \in Nat /\ Cardinality(Sessions) \in Nat
          /\ Cardinality(V) <= Cardinality(Sessions)
      BY <3>2, AboutFinite
    <3>4. CASE u = BucketOf(TokenOf(s))
      <4>1. suggestions[u] = 0
        BY <1>1, <1>3, <3>4 DEF WorthSuggesting
      <4>2. suggestions[u] + Cardinality(V) <= Cardinality(Sessions)
        BY <3>3, <4>1
      <4> QED BY <3>1, <4>2
    <3>5. CASE u # BucketOf(TokenOf(s))
      <4>1. V \in SUBSET W
        BY <1>1, <3>1, <3>5 DEF AboutToSuggest, TokenOf
      <4>2. Cardinality(V) <= Cardinality(W)
        BY <3>2, <4>1, AboutFinite
      <4>3. suggestions[u] + Cardinality(W) <= Cardinality(Sessions) /\ suggestions[u] \in Nat
        BY <3>1 DEF Bounded
      <4>4. suggestions[u] + Cardinality(V) <= Cardinality(Sessions)
        BY <3>3, <4>2, <4>3
      <4> QED BY <3>1, <4>4
    <3> QED BY <3>4, <3>5
  <2> QED BY <1>1, <2>1 DEF Bounded
<1> QED BY <1>2, <1>3

LEMMA SuggestBounded ==
  ASSUME IsFiniteSet(Sessions), Working, Bounded, NEW s \in Sessions, SuggestGrowth(s)
  PROVE  Bounded'
<1>0. PICK v : v = BucketOf(TokenOf(s))
  OBVIOUS
<1>1. /\ cyc[s].stage = "suggesting" /\ cyc \in [Sessions -> Cycle]
      /\ cyc'[s].stage # "suggesting" /\ \A r \in Sessions \ {s} : cyc'[r] = cyc[r]
      /\ suggestions' = [suggestions EXCEPT ![v] = @ + 1]
  BY <1>0 DEF SuggestGrowth, AfterSell, TokenOf, Working, Cycle
<1>2. suggestions' \in [Buckets -> Nat]
  <2>1. CASE v \in Buckets
    BY <1>1, <2>1 DEF Bounded
  <2>2. CASE v \notin Buckets
    <3>1. suggestions' = suggestions
      BY <1>1, <2>2, Zenon DEF Bounded
    <3> QED BY <3>1 DEF Bounded
  <2> QED BY <2>1, <2>2
<1>3. ASSUME NEW u \in Buckets
      PROVE  suggestions'[u] + Cardinality(AboutToSuggest(u)') <= Cardinality(Sessions)
  <2>1. PICK W, V : W = AboutToSuggest(u) /\ V = AboutToSuggest(u)'
    OBVIOUS
  <2>2. W \in SUBSET Sessions /\ V \in SUBSET W
    BY <1>1, <2>1 DEF AboutToSuggest, TokenOf
  <2>3. /\ Cardinality(W) \in Nat /\ Cardinality(V) \in Nat /\ Cardinality(Sessions) \in Nat
        /\ Cardinality(V) <= Cardinality(W) /\ IsFiniteSet(W)
    BY <2>2, AboutFinite
  <2>4. suggestions[u] + Cardinality(W) <= Cardinality(Sessions) /\ suggestions[u] \in Nat
    BY <2>1 DEF Bounded
  <2>5. CASE u = v
    <3>1. s \in W /\ V = W \ {s}
      BY <1>0, <1>1, <2>1, <2>5 DEF AboutToSuggest, TokenOf
    <3>2. Cardinality(V) = Cardinality(W) - 1
      BY <2>3, <3>1, FS_RemoveElement
    <3>3. suggestions'[u] = suggestions[u] + 1
      BY <1>1, <2>5 DEF Bounded
    <3>4. suggestions'[u] + Cardinality(V) <= Cardinality(Sessions)
      BY <2>3, <2>4, <3>2, <3>3
    <3> QED BY <2>1, <3>4
  <2>6. CASE u # v
    <3>1. suggestions'[u] = suggestions[u]
      BY <1>1, <2>6 DEF Bounded
    <3>2. suggestions'[u] + Cardinality(V) <= Cardinality(Sessions)
      BY <2>3, <2>4, <3>1
    <3> QED BY <2>1, <3>2
  <2> QED BY <2>5, <2>6
<1> QED BY <1>2, <1>3 DEF Bounded

LEMMA ProgressBounded ==
  ASSUME IsFiniteSet(Sessions), IInv, Working, Bounded, NEW s \in Sessions, Progress(s)
  PROVE  Bounded'
<1>t. cyc \in [Sessions -> Cycle] /\ sess \in [Sessions -> Session]
  BY DEF Working, IInv, TypeOK
<1>1. CASE JudgePattern(s) \/ SuggestGrowth(s)
  BY <1>1, JudgeBounded, SuggestBounded
<1>2. CASE ~JudgePattern(s) /\ ~SuggestGrowth(s)
  <2>1. suggestions' = suggestions
    BY <1>2 DEF Progress, Skip, Buy, Sell, NextBot, RecordOutcome, Explain, Finish, Executing,
                learned
  <2>2. cyc'[s] = cyc[s] \/ cyc'[s].stage # "suggesting"
    <3>1. CASE \E t \in Tokens, b \in Bots : Skip(s, t, b)
      BY <3>1, <1>t DEF Skip, Cycle
    <3>2. CASE \E t \in Tokens, b \in Bots : Buy(s, t, b)
      BY <3>2, <1>t DEF Buy
    <3>3. CASE \E p \in ExitPrices : Sell(s, p)
      BY <3>3, <1>t DEF Sell, Cycle
    <3>4. CASE NextBot(s) \/ RecordOutcome(s) \/ Explain(s) \/ Finish(s)
      BY <3>4, <1>t DEF NextBot, RecordOutcome, Explain, Finish, Off, Cycle
    <3>5. CASE Executing(s)
      BY <3>5 DEF Executing
    <3> QED BY <1>2, <3>1, <3>2, <3>3, <3>4, <3>5 DEF Progress
  <2>3. \A r \in Sessions : cyc'[r] = cyc[r] \/ cyc'[r].stage # "suggesting"
    BY <1>t, <2>2, ProgressFrame
  <2> QED BY <2>1, <2>3, BoundedKept
<1> QED BY <1>1, <1>2

LEMMA AutoBounded ==
  ASSUME IsFiniteSet(Sessions), IInv, Working, Bounded, [AutoNext]_avars
  PROVE  Bounded'
<1>0. cyc \in [Sessions -> Cycle]
  BY DEF Working
<1>1. ASSUME NEW s \in Sessions, NEW ts \in SUBSET Tokens, StartCycle(s, ts)
      PROVE  Bounded'
  BY <1>0, <1>1, BoundedKept DEF StartCycle, Off, learned
<1>2. CASE \E ts \in SUBSET Tokens : Tick(ts) \/ \E s \in Sessions : RunCycle(s, ts)
  BY <1>1, <1>2, TaskAssumption DEF Tick, RunCycle
<1>3. CASE \E s \in Sessions : Work(s)
  BY <1>3, ProgressBounded DEF Work
<1>4. CASE \/ \E s \in Sessions : Fail(s)
           \/ SwitchBot \/ \E o \in Operators : FailSwitch(o)
  BY <1>4, BoundedKept DEF Fail, Interrupt, SwitchBot, Switching, LoadSwitch, CommitSwitch,
                          FailSwitch, learned
<1>5. CASE RestartServer \/ \E s \in Sessions : FailedCycle(s)
  BY <1>0, <1>5, BoundedKept DEF FailedCycle, CycleFails, RestartServer, Off, learned
<1>6. CASE \/ \E on \in BOOLEAN : UpdateAutoTrading(on)
           \/ SleepOn \/ PostStop \/ AcceptStop \/ CommitStop \/ GoOnline \/ UNCHANGED avars
  BY <1>6, BoundedKept DEF UpdateAutoTrading, SleepOn, PostStop, AcceptStop, CommitStop,
                          GoOnline, avars, cvars, learned
<1> QED BY <1>2, <1>3, <1>4, <1>5, <1>6 DEF AutoNext

LEMMA InitBounded ==
  ASSUME IsFiniteSet(Sessions), CycleInit
  PROVE  Bounded
<1>1. \A u \in Buckets : AboutToSuggest(u) = {}
  BY DEF CycleInit, AboutToSuggest, Off
<1>2. Cardinality({}) = 0 /\ Cardinality(Sessions) \in Nat
  BY FS_EmptySet, FS_CardinalityType
<1>3. suggestions = [u \in Buckets |-> 0]
  BY DEF CycleInit
<1> QED BY <1>1, <1>2, <1>3 DEF Bounded

\* However ticks and cycles by hand overlap, fail and restart, a band is suggested no
\* more often than there are cycles that may look for a suggestion at once; with the
\* loop alone, once.
THEOREM SuggestionsAreBounded ==
  ASSUME IsFiniteSet(Sessions)
  PROVE  AutoSpec => []SuggestionsBounded
<1>1. AInv /\ Bounded /\ [AutoNext]_avars => Bounded'
  BY AutoBounded DEF AInv
<1>2. AutoInit => Bounded
  BY InitBounded DEF AutoInit
<1>3. Bounded => SuggestionsBounded
  <2> SUFFICES ASSUME Bounded, NEW u \in Buckets
               PROVE  suggestions[u] <= Cardinality(Sessions)
    BY DEF SuggestionsBounded
  <2>1. PICK n : n = Cardinality(AboutToSuggest(u))
    OBVIOUS
  <2>2. AboutToSuggest(u) \in SUBSET Sessions
    BY DEF AboutToSuggest
  <2>3. n \in Nat /\ Cardinality(Sessions) \in Nat
    BY <2>1, <2>2, AboutFinite
  <2> QED BY <2>1, <2>3 DEF Bounded
<1> QED BY <1>1, <1>2, <1>3, AutoInvariance, PTL DEF AutoSpec

(***************************************************************************)
(* The memory of the learner.                                              *)
(***************************************************************************)
SellKey(s) == TradeKey(TokenOf(s), BotOf(s), "SELL")

\* The SELL of the cycle is committed and not yet learned from.
Unrecorded(s) ==
  /\ cyc[s].stage = "selling"
  /\ \/ sess[s].pc \in {"committed", "enforced"}
     \/ sess[s].pc = "idle" /\ Ended(s)

\* The trade rows still to be learned from.
Awaited == {i \in DOMAIN trades :
              \E s \in Sessions : Unrecorded(s) /\ trades[i].key = SellKey(s)}

\* What a band should remember of the SELLs numbered I.
Profits == [i \in DOMAIN trades |-> trades[i].pnl]
Memory(I) == [n |-> Cardinality(I), sum |-> SumFunctionOnSet(Profits, I)]

KeysOnce == \A i, j \in DOMAIN trades : trades[i].key = trades[j].key => i = j
RowOfEach ==
  \A s \in Sessions : Unrecorded(s) =>
     \E i \in DOMAIN trades : /\ trades[i].key = SellKey(s)
                              /\ trades[i].side = "SELL" /\ trades[i].token = TokenOf(s)
KeyOfEach ==
  \A s, t \in Sessions : Unrecorded(s) /\ Unrecorded(t) /\ SellKey(s) = SellKey(t) => s = t
Learned == \A u \in Buckets : outcomes[u] = Memory(SellsOf(u) \ Awaited)

LearnInv == /\ outcomes \in [Buckets -> [n : Nat, sum : Int]]
            /\ KeysOnce /\ RowOfEach /\ KeyOfEach /\ Learned

LEMMA ProfitsTyped ==
  ASSUME IInv, NEW u, NEW I \in SUBSET SellsOf(u)
  PROVE  /\ IsFiniteSet(I) /\ Cardinality(I) \in Nat
         /\ \A i \in I : i \in DOMAIN trades /\ Profits[i] = trades[i].pnl /\ Profits[i] \in Int
         /\ SumFunctionOnSet(Profits, I) \in Int
<1>1. trades \in Seq(Trade) /\ Len(trades) \in Nat /\ DOMAIN trades = 1..Len(trades)
  BY DEF IInv, TypeOK
<1>2. I \subseteq 1..Len(trades)
  BY <1>1 DEF SellsOf
<1>3. IsFiniteSet(I) /\ Cardinality(I) \in Nat
  <2>1. IsFiniteSet(1..Len(trades))
    BY <1>1, FS_Interval, 1 \in Int
  <2> QED BY <1>2, <2>1, FS_Subset, FS_CardinalityType
<1>4. \A i \in I : i \in DOMAIN trades /\ Profits[i] = trades[i].pnl /\ Profits[i] \in Int
  BY <1>1, <1>2, RowsTyped DEF Profits
<1> QED BY <1>3, <1>4, SumType

\* A step that neither commits a trade nor records one.
LEMMA LearnKept ==
  ASSUME LearnInv, UNCHANGED <<trades, outcomes>>,
         \A s \in Sessions : /\ Unrecorded(s)' = Unrecorded(s)
                             /\ Unrecorded(s) => cyc'[s].now = cyc[s].now
  PROVE  LearnInv'
<1>1. \A s \in Sessions : Unrecorded(s) => SellKey(s)' = SellKey(s) /\ TokenOf(s)' = TokenOf(s)
  BY DEF SellKey, TokenOf, BotOf
<1>2. Awaited' = Awaited
  BY <1>1 DEF Awaited
<1>3. Profits' = Profits /\ \A u : SellsOf(u)' = SellsOf(u)
  BY DEF Profits, SellsOf
<1>4. Learned'
  BY <1>2, <1>3 DEF LearnInv, Learned, Memory
<1>5. RowOfEach' /\ KeyOfEach'
  BY <1>1 DEF LearnInv, RowOfEach, KeyOfEach
<1> QED BY <1>4, <1>5 DEF LearnInv, KeysOnce

LEMMA CommitLearn ==
  ASSUME IInv, Working, Matches, LearnInv, NEW s \in Sessions, Commit(s),
         cyc' = cyc, outcomes' = outcomes
  PROVE  LearnInv'
<1> DEFINE x == sess[s]
           row == TradeOf(x)
           n == Len(trades) + 1
           sells == cyc[s].stage = "selling"
<1>1. /\ x \in GoodSession /\ x.pc = "priced" /\ InCall(s)
      /\ trades' = Append(trades, row) /\ row \in Trade
      /\ row.key = x.key /\ x.key \notin KeysUsed
      /\ row.side = x.order.side /\ row.token = x.order.token
  BY TradeType DEF Commit, UniqueKey, IInv, TradeOf, Matches, MatchesAt
<1>2. /\ DOMAIN trades' = (DOMAIN trades) \cup {n} /\ n \notin DOMAIN trades
      /\ trades'[n] = row /\ \A i \in DOMAIN trades : trades'[i] = trades[i]
  BY <1>1 DEF IInv, TypeOK
<1>3. /\ sells => row.side = "SELL" /\ row.token = TokenOf(s) /\ row.key = SellKey(s)
      /\ ~sells => row.side = "BUY"
  <2>1. CASE sells
    <3>1. PICK p \in ExitPrices : x.order = SellOrder(TokenOf(s), BotOf(s), p)
      BY <1>1, <2>1 DEF InCall
    <3> QED BY <1>1, <2>1, <3>1 DEF InCall, SellKey, SellOrder, BuyOrder
  <2>2. CASE ~sells
    <3>1. x.order = BuyOrder(TokenOf(s), BotOf(s))
      BY <1>1, <2>2 DEF InCall
    <3> QED BY <1>1, <2>2, <3>1 DEF BuyOrder
  <2> QED BY <2>1, <2>2
<1>4. /\ \A r \in Sessions : SellKey(r)' = SellKey(r) /\ TokenOf(r)' = TokenOf(r)
      /\ \A r \in Sessions \ {s} : Unrecorded(r)' = Unrecorded(r)
      /\ ~Unrecorded(s) /\ Unrecorded(s)' = sells
  <2>1. /\ \A r \in Sessions \ {s} : sess'[r] = sess[r]
        /\ sess'[s].pc = "committed"
    BY DEF Commit, IInv, TypeOK, Session
  <2> QED BY <1>1, <2>1 DEF SellKey, TokenOf, BotOf, Unrecorded, Ended
<1>5. /\ \A i \in DOMAIN trades : trades[i].key # row.key
      /\ \A r \in Sessions : Unrecorded(r) => SellKey(r) # row.key
  BY <1>1 DEF KeysUsed, LearnInv, RowOfEach
<1> HIDE DEF row, n, sells, x
<1>6. KeysOnce'
  BY <1>2, <1>5 DEF LearnInv, KeysOnce
<1>7. KeyOfEach'
  BY <1>3, <1>4, <1>5 DEF LearnInv, KeyOfEach
<1>8. RowOfEach'
  <2>1. ASSUME sells PROVE \E i \in DOMAIN trades' :
           trades'[i].key = SellKey(s) /\ trades'[i].side = "SELL" /\ trades'[i].token = TokenOf(s)
    BY <1>2, <1>3, <2>1
  <2>2. ASSUME NEW r \in Sessions \ {s}, Unrecorded(r)
        PROVE  \E i \in DOMAIN trades' :
           trades'[i].key = SellKey(r) /\ trades'[i].side = "SELL" /\ trades'[i].token = TokenOf(r)
    BY <1>2, <2>2 DEF LearnInv, RowOfEach
  <2> QED BY <1>4, <2>1, <2>2 DEF RowOfEach
<1>9. ASSUME NEW u PROVE (SellsOf(u) \ Awaited)' = SellsOf(u) \ Awaited
  <2>1. \A i \in DOMAIN trades : i \in Awaited' <=> i \in Awaited
    BY <1>2, <1>3, <1>4, <1>5 DEF Awaited
  <2>2. \A i \in DOMAIN trades : i \in SellsOf(u)' <=> i \in SellsOf(u)
    BY <1>2 DEF SellsOf
  <2>3. n \in SellsOf(u)' => n \in Awaited'
    BY <1>2, <1>3, <1>4 DEF SellsOf, Awaited
  <2>4. SellsOf(u) \subseteq DOMAIN trades /\ SellsOf(u)' \subseteq DOMAIN trades'
    BY DEF SellsOf
  <2> QED BY <1>2, <2>1, <2>2, <2>3, <2>4
<1>10. ASSUME NEW u PROVE Memory(SellsOf(u) \ Awaited)' = Memory(SellsOf(u) \ Awaited)
  <2> DEFINE I == SellsOf(u) \ Awaited
  <2>1. /\ IsFiniteSet(I)
        /\ \A i \in I : /\ i \in DOMAIN trades
                        /\ Profits[i] = trades[i].pnl /\ Profits[i] \in Int
    BY ProfitsTyped
  <2>2. \A i \in I : Profits'[i] = Profits[i]
    BY <1>2, <2>1 DEF Profits
  <2>3. I' = I
    BY <1>9
  <2> HIDE DEF I
  <2>4. SumFunctionOnSet(Profits, I) = SumFunctionOnSet(Profits', I)
    BY <2>1, <2>2, SumSame
  <2>5. Memory(I)' = Memory(I)
    BY <2>3, <2>4 DEF Memory
  <2> QED BY <2>5 DEF I
<1>11. Learned'
  BY <1>10 DEF LearnInv, Learned
<1> QED BY <1>6, <1>7, <1>8, <1>11 DEF LearnInv

LEMMA RememberIs ==
  ASSUME NEW x \in [n : Nat, sum : Int], NEW e \in Int
  PROVE  Remember(x, e) = [n |-> x.n + 1, sum |-> x.sum + e]
<1>1. x.n + 1 \in Nat /\ x.sum + e \in Int
  OBVIOUS
<1>2. Remember(x, e) \in [n : Nat, sum : Int]
  BY <1>1 DEF Remember
<1>3. Remember(x, e).n = x.n + 1 /\ Remember(x, e).sum = x.sum + e
  BY DEF Remember
<1> QED BY <1>2, <1>3

LEMMA RecordLearn ==
  ASSUME IInv, Working, LearnInv, NEW s \in Sessions, RecordOutcome(s)
  PROVE  LearnInv'
<1>0. PICK v : v = BucketOf(TokenOf(s))
  OBVIOUS
<1>1. /\ trades' = trades /\ Unrecorded(s)
      /\ outcomes' = [outcomes EXCEPT ![v] = Remember(@, PnlOf(SellKey(s)))]
  BY <1>0 DEF RecordOutcome, Unrecorded, Ended, vars, TokenOf, BotOf, SellKey
<1>2. /\ \A r \in Sessions : SellKey(r)' = SellKey(r) /\ TokenOf(r)' = TokenOf(r)
      /\ \A r \in Sessions \ {s} : Unrecorded(r)' = Unrecorded(r)
      /\ ~(Unrecorded(s)')
  <2>1. /\ \A r \in Sessions \ {s} : cyc'[r] = cyc[r]
        /\ sess' = sess /\ cyc'[s].stage = "judging" /\ cyc'[s].now = cyc[s].now
    BY DEF RecordOutcome, vars, Working, Cycle
  <2> QED BY <2>1 DEF SellKey, TokenOf, BotOf, Unrecorded, Ended
<1>3. PICK i \in DOMAIN trades :
        /\ trades[i].key = SellKey(s) /\ trades[i].side = "SELL" /\ trades[i].token = TokenOf(s)
  BY <1>1 DEF LearnInv, RowOfEach
<1>4. PnlOf(SellKey(s)) = trades[i].pnl
  <2>1. \A j \in DOMAIN trades : trades[j].key = SellKey(s) => j = i
    BY <1>3 DEF LearnInv, KeysOnce
  <2>2. (CHOOSE j \in DOMAIN trades : trades[j].key = SellKey(s)) = i
    BY <1>3, <2>1
  <2> QED BY <2>2 DEF PnlOf
<1>5. Awaited' = Awaited \ {i} /\ i \in Awaited
  <2>1. i \in Awaited
    BY <1>1, <1>3 DEF Awaited
  <2>2. ASSUME NEW j \in Awaited' PROVE j \in Awaited \ {i}
    BY <1>1, <1>2, <1>3, <2>2 DEF Awaited, LearnInv, KeyOfEach
  <2>3. ASSUME NEW j \in Awaited, j # i PROVE j \in Awaited'
    BY <1>1, <1>2, <1>3, <2>3 DEF Awaited, LearnInv, KeysOnce
  <2> QED BY <2>1, <2>2, <2>3
<1>6. /\ Profits' = Profits /\ \A u : SellsOf(u)' = SellsOf(u)
      /\ \A u : i \in SellsOf(u) <=> u = v
  BY <1>0, <1>1, <1>3 DEF Profits, SellsOf
<1>7. ASSUME NEW u, u # v
      PROVE  Memory(SellsOf(u) \ Awaited)' = Memory(SellsOf(u) \ Awaited)
  <2>1. (SellsOf(u) \ Awaited)' = SellsOf(u) \ Awaited
    BY <1>5, <1>6, <1>7
  <2> QED BY <1>6, <2>1 DEF Memory
<1>8. ASSUME v \in Buckets
      PROVE  outcomes'[v] = Memory(SellsOf(v) \ Awaited)' /\ outcomes'[v] \in [n : Nat, sum : Int]
  <2> DEFINE I == SellsOf(v) \ Awaited
  <2>1. /\ IsFiniteSet(I) /\ Cardinality(I) \in Nat
        /\ \A j \in I : Profits[j] \in Int
        /\ SumFunctionOnSet(Profits, I) \in Int
    BY ProfitsTyped
  <2>2. Profits[i] = trades[i].pnl /\ trades[i].pnl \in Int
    BY RowsTyped DEF Profits
  <2>3. i \notin I /\ I' = I \cup {i}
    BY <1>5, <1>6
  <2>4. outcomes[v] = [n |-> Cardinality(I), sum |-> SumFunctionOnSet(Profits, I)]
    BY <1>8 DEF LearnInv, Learned, Memory
  <2> HIDE DEF I
  <2>5. Cardinality(I \cup {i}) = Cardinality(I) + 1
    BY <2>1, <2>3, FS_AddElement
  <2>6. SumFunctionOnSet(Profits, I \cup {i}) = Profits[i] + SumFunctionOnSet(Profits, I)
    BY <2>1, <2>2, <2>3, SumAdd
  <2>7. outcomes'[v] = [n |-> Cardinality(I) + 1,
                        sum |-> SumFunctionOnSet(Profits, I) + trades[i].pnl]
    <3>1. outcomes'[v] = Remember(outcomes[v], trades[i].pnl)
      BY <1>1, <1>4, <1>8 DEF LearnInv
    <3>2. outcomes[v] \in [n : Nat, sum : Int]
      BY <1>8 DEF LearnInv
    <3>3. outcomes'[v] = [n |-> outcomes[v].n + 1, sum |-> outcomes[v].sum + trades[i].pnl]
      BY <2>2, <3>1, <3>2, RememberIs
    <3> QED BY <2>4, <3>3
  <2>8. Memory(I)' = [n |-> Cardinality(I) + 1,
                      sum |-> SumFunctionOnSet(Profits, I) + trades[i].pnl]
    <3>1. Memory(I)' = [n |-> Cardinality(I \cup {i}), sum |-> SumFunctionOnSet(Profits, I \cup {i})]
      BY <1>6, <2>3 DEF Memory
    <3> QED BY <2>1, <2>2, <2>5, <2>6, <3>1
  <2>9. outcomes'[v] \in [n : Nat, sum : Int]
    BY <2>1, <2>2, <2>7
  <2> QED BY <2>7, <2>8, <2>9 DEF I
<1>9. ASSUME NEW u \in Buckets, u # v PROVE outcomes'[u] = outcomes[u]
  BY <1>1, <1>9 DEF LearnInv
<1>10. Learned'
  BY <1>7, <1>8, <1>9 DEF LearnInv, Learned
<1>11. outcomes' \in [Buckets -> [n : Nat, sum : Int]]
  BY <1>1, <1>8, <1>9 DEF LearnInv
<1>12. KeysOnce' /\ RowOfEach' /\ KeyOfEach'
  BY <1>1, <1>2 DEF LearnInv, KeysOnce, RowOfEach, KeyOfEach
<1> QED BY <1>10, <1>11, <1>12 DEF LearnInv

LEMMA ExecutingLearn ==
  ASSUME IInv, Working, Matches, LearnInv, NEW s \in Sessions, Executing(s)
  PROVE  LearnInv'
<1>t. /\ sess \in [Sessions -> Session] /\ sess[s].pc # "idle" /\ MatchesAt(s)
      /\ cyc' = cyc /\ outcomes' = outcomes
  BY ExecutingCall DEF IInv, TypeOK, Executing, learned, Matches
<1>1. CASE Commit(s)
  BY <1>1, <1>t, CommitLearn
<1>2. CASE ~Commit(s)
  <2>1. trades' = trades
    BY <1>2 DEF Executing, Evaluate, Price, PriceFails, CommitConflict, Enforce, Answer, tables
  <2>2. \A r \in Sessions \ {s} : sess'[r] = sess[r]
    BY <1>2, <1>t DEF Executing, Evaluate, Price, PriceFails, CommitConflict, Enforce, Answer
  <2>3. Unrecorded(s)' = Unrecorded(s)
    <3>1. CASE Evaluate(s)
      BY <3>1, <1>t DEF Evaluate, Answered, Unrecorded, Ended, Session
    <3>2. CASE Price(s)
      BY <3>2, <1>t DEF Price, Unrecorded, Ended, Session
    <3>3. CASE PriceFails(s) \/ CommitConflict(s)
      BY <3>3, <1>t DEF PriceFails, CommitConflict, Answered, Unrecorded, Ended, Session
    <3>4. CASE Enforce(s)
      BY <3>4, <1>t DEF Enforce, Unrecorded, Ended, Session
    <3>5. CASE Answer(s)
      BY <3>5, <1>t DEF Answer, Answered, MatchesAt, Unrecorded, Ended, Session
    <3> QED BY <1>2, <3>1, <3>2, <3>3, <3>4, <3>5 DEF Executing
  <2>4. \A r \in Sessions \ {s} : Unrecorded(r)' = Unrecorded(r)
    BY <1>t, <2>2 DEF Unrecorded, Ended
  <2> QED BY <1>t, <2>1, <2>3, <2>4, LearnKept
<1> QED BY <1>1, <1>2

LEMMA ProgressLearn ==
  ASSUME IInv, Working, Matches, LearnInv, NEW s \in Sessions, Progress(s)
  PROVE  LearnInv'
<1>t. sess \in [Sessions -> Session] /\ cyc \in [Sessions -> Cycle] /\ MatchesAt(s)
  BY DEF IInv, TypeOK, Working, Matches
<1>f. ASSUME UNCHANGED <<trades, outcomes>>, Unrecorded(s)' = Unrecorded(s),
             ~Unrecorded(s)
      PROVE  LearnInv'
  <2>1. ASSUME NEW r \in Sessions, r # s
        PROVE  Unrecorded(r)' = Unrecorded(r) /\ cyc'[r].now = cyc[r].now
    <3>1. sess'[r] = sess[r] /\ cyc'[r] = cyc[r]
      BY <2>1, <1>t, ProgressFrame
    <3> QED BY <3>1 DEF Unrecorded, Ended
  <2> QED BY <1>f, <2>1, LearnKept
<1>1. ASSUME NEW t \in Tokens, NEW b \in Bots, Skip(s, t, b) PROVE LearnInv'
  BY <1>1, <1>t, <1>f DEF Skip, vars, learned, Unrecorded, Cycle
<1>2. ASSUME NEW t \in Tokens, NEW b \in Bots, Buy(s, t, b) PROVE LearnInv'
  <2>1. /\ cyc[s].stage = "choosing" /\ cyc'[s].stage = "buying"
        /\ UNCHANGED <<trades, outcomes>>
    BY <1>2, <1>t, BuyBegins, BeginCall DEF learned, tables
  <2> QED BY <2>1, <1>f DEF Unrecorded
<1>3. ASSUME NEW p \in ExitPrices, Sell(s, p) PROVE LearnInv'
  <2>1. /\ cyc[s].stage = "buying" /\ sess'[s].pc = "loaded"
        /\ UNCHANGED <<trades, outcomes>>
    BY <1>3, <1>t, SellBegins, BeginCall DEF learned, tables
  <2> QED BY <2>1, <1>f DEF Unrecorded
<1>4. CASE NextBot(s)
  BY <1>4, <1>t, <1>f DEF NextBot, NothingLeft, vars, learned, Unrecorded, Ended
<1>5. CASE JudgePattern(s) \/ SuggestGrowth(s) \/ Explain(s)
  <2>1. UNCHANGED <<trades, outcomes>> /\ cyc[s].stage # "selling"
    BY <1>5 DEF JudgePattern, SuggestGrowth, Explain, vars, learned
  <2>2. cyc'[s].stage # "selling"
    BY <1>5, <1>t DEF JudgePattern, SuggestGrowth, Explain, AfterSell, Cycle
  <2> QED BY <2>1, <2>2, <1>f DEF Unrecorded
<1>6. CASE Finish(s)
  BY <1>6, <1>t, <1>f DEF Finish, Off, tables, learned, Unrecorded
<1> QED BY <1>1, <1>2, <1>3, <1>4, <1>5, <1>6, RecordLearn, ExecutingLearn DEF Progress

LEMMA CycleLearn ==
  ASSUME IInv, Working, Matches, LearnInv, [CycleNextReliable]_cvars
  PROVE  LearnInv'
<1>1. ASSUME NEW s \in Sessions, NEW ts \in SUBSET Tokens, StartCycle(s, ts)
      PROVE  LearnInv'
  <2>1. /\ UNCHANGED <<trades, outcomes>> /\ cyc[s].stage = "off" /\ cyc'[s].stage = "choosing"
        /\ \A r \in Sessions \ {s} : sess'[r] = sess[r] /\ cyc'[r] = cyc[r]
    BY <1>1 DEF StartCycle, Off, tables, learned, IInv, TypeOK, Working
  <2>2. \A r \in Sessions : /\ Unrecorded(r)' = Unrecorded(r)
                            /\ Unrecorded(r) => cyc'[r].now = cyc[r].now
    BY <2>1 DEF Unrecorded, Ended
  <2> QED BY <2>1, <2>2, LearnKept
<1>2. CASE Elsewhere \/ \E o \in Operators : CommitSwitch(o)
  <2>1. UNCHANGED <<sess, cyc, trades, outcomes>>
    BY <1>2, ElsewhereKeeps DEF CommitSwitch, learned
  <2>2. \A r \in Sessions : Unrecorded(r)' = Unrecorded(r)
    BY <2>1 DEF Unrecorded, Ended
  <2> QED BY <2>1, <2>2, LearnKept
<1> QED BY <1>1, <1>2, CycleCases, ProgressLearn

LEMMA InitLearn == CycleInit => LearnInv
<1> SUFFICES ASSUME CycleInit PROVE LearnInv
  OBVIOUS
<1>1. DOMAIN trades = {} /\ \A s \in Sessions : ~Unrecorded(s)
  BY DEF CycleInit, Init, Off, Unrecorded
<1>2. \A u : SellsOf(u) \ Awaited = {}
  BY <1>1 DEF SellsOf
<1>3. Memory({}) = [n |-> 0, sum |-> 0]
  BY SumEmpty, FS_EmptySet DEF Memory
<1>4. outcomes = [u \in Buckets |-> [n |-> 0, sum |-> 0]]
  BY DEF CycleInit
<1> QED BY <1>1, <1>2, <1>3, <1>4 DEF LearnInv, KeysOnce, RowOfEach, KeyOfEach, Learned

LEMMA CycleIInv ==
  ASSUME IInv, Working, Asking, [CycleNextReliable]_cvars
  PROVE  IInv'
<1>1. ASSUME NEW s \in Sessions, Progress(s) PROVE IInv'
  BY <1>1, ProgressIsStep, NextIInv DEF Next, NextReliable
<1>2. ASSUME NEW s \in Sessions, NEW ts \in SUBSET Tokens, StartCycle(s, ts) PROVE IInv'
  BY <1>2, StartReplaces, AnsweredGood, SessionStep DEF SessionReplaced
<1>3. CASE Elsewhere
  BY <1>3, NextIInv DEF Elsewhere, Next, NextReliable
<1> QED BY <1>1, <1>2, <1>3, CycleCases, SwitchIs, SwitchedIInv

\* However many cycles run beside each other, as long as none fails, every SELL
\* is remembered, by its own band, once, with the profit of its own row.
THEOREM EverySaleLearned == CycleSpecReliable => []LearnsFromTrades
<1>1. CycleInit => IInv /\ Working /\ Asking /\ Matches /\ LearnInv
  BY InitIInv, InitAsking, InitMatches, InitLearn, OffIsCycle DEF CycleInit, Working, Off
<1>2. IInv /\ Working /\ Asking /\ Matches /\ LearnInv /\ [CycleNextReliable]_cvars
        => IInv' /\ Working' /\ Asking' /\ Matches' /\ LearnInv'
  BY CycleIInv, CycleWorking, CycleAsking, CycleMatches, CycleLearn
<1>3. LearnInv => LearnsFromTrades
  <2> SUFFICES ASSUME LearnInv, \A s \in Sessions : cyc[s].stage = "off", NEW u \in Buckets
               PROVE  outcomes[u] = Memory(SellsOf(u))
    BY DEF LearnsFromTrades, Memory, Profits
  <2>1. Awaited = {}
    BY DEF Awaited, Unrecorded
  <2>2. SellsOf(u) \ Awaited = SellsOf(u)
    BY <2>1
  <2> QED BY <2>2 DEF LearnInv, Learned
<1> QED BY <1>1, <1>2, <1>3, PTL DEF CycleSpecReliable

(***************************************************************************)
(* The types of the cycle's own variables.                                 *)
(***************************************************************************)
Noted == /\ launched \subseteq Tokens /\ left \subseteq Pairs
         /\ postMortems \in [Bots -> Nat] /\ suggestions \in [Buckets -> Nat]

LEMMA CycleNoted ==
  ASSUME Working, Noted, [CycleNextReliable]_cvars
  PROVE  Noted'
<1> USE DEF Noted
<1>1. ASSUME NEW s \in Sessions, NEW ts \in SUBSET Tokens, StartCycle(s, ts) PROVE Noted'
  BY <1>1 DEF StartCycle, learned
<1>2. CASE Elsewhere \/ \E o \in Operators : CommitSwitch(o)
  BY <1>2, ElsewhereKeeps DEF CommitSwitch, learned
<1>3. ASSUME NEW s \in Sessions, Executing(s) PROVE Noted'
  <2>1. NoWayOut(s) => cyc[s].now \in Pairs
    BY DEF NoWayOut, Working
  <2> QED BY <1>3, <2>1 DEF Executing, learned
<1>4. ASSUME NEW s \in Sessions, SuggestGrowth(s) PROVE Noted'
  <2>1. PICK v : suggestions' = [suggestions EXCEPT ![v] = @ + 1]
    BY <1>4 DEF SuggestGrowth
  <2>2. CASE v \in Buckets
    BY <1>4, <2>1, <2>2 DEF SuggestGrowth
  <2>3. CASE v \notin Buckets
    <3>1. suggestions' = suggestions
      BY <2>1, <2>3, Zenon
    <3> QED BY <1>4, <3>1 DEF SuggestGrowth
  <2> QED BY <2>2, <2>3
<1>5. ASSUME NEW s \in Sessions, Explain(s) PROVE Noted'
  <2>1. PICK b \in Bots : b = cyc[s].now[2]
    BY <1>5 DEF Explain, Working, Pairs
  <2>2. postMortems' = [postMortems EXCEPT ![b] = @ + 1]
    BY <1>5, <2>1 DEF Explain
  <2> QED BY <1>5, <2>2 DEF Explain, learned
<1>6. ASSUME NEW s \in Sessions,
             \/ \E t \in Tokens, b \in Bots : Skip(s, t, b) \/ Buy(s, t, b)
             \/ \E p \in ExitPrices : Sell(s, p)
             \/ NextBot(s) \/ RecordOutcome(s) \/ JudgePattern(s) \/ Finish(s)
      PROVE  Noted'
  <2>1. UNCHANGED <<launched, left, postMortems, suggestions>>
    BY <1>6 DEF Skip, Buy, Sell, NextBot, RecordOutcome, JudgePattern, Finish, learned
  <2> QED BY <2>1
<1> QED BY <1>1, <1>2, <1>3, <1>4, <1>5, <1>6, CycleCases DEF Progress

\* The type invariant of the cycles, their learner and the operators beside them:
\* a profit is remembered of a row there is, so the memory stays a number.
THEOREM CyclesTyped == CycleSpecReliable => []CycleTypeOK
<1>1. CycleInit => IInv /\ Working /\ Asking /\ Matches /\ LearnInv /\ Noted
  BY InitIInv, InitAsking, InitMatches, InitLearn, OffIsCycle DEF CycleInit, Working, Off, Noted
<1>2. IInv /\ Working /\ Asking /\ Matches /\ LearnInv /\ Noted /\ [CycleNextReliable]_cvars
        => IInv' /\ Working' /\ Asking' /\ Matches' /\ LearnInv' /\ Noted'
  BY CycleIInv, CycleWorking, CycleAsking, CycleMatches, CycleLearn, CycleNoted
<1>3. IInv /\ Working /\ Asking /\ LearnInv /\ Noted => CycleTypeOK
  BY DEF IInv, Working, Cycle, Asking, LearnInv, Noted, CycleTypeOK
<1> QED BY <1>1, <1>2, <1>3, PTL DEF CycleSpecReliable

(***************************************************************************)
(* What a cycle buys it sells, or it has no way out.                       *)
(***************************************************************************)

\* The positions of PaperExecutorProofs, beside cycles that start and operators.
LEMMA CyclePositions ==
  ASSUME \A s, t \in Sessions : s = t, IInv, Working, PosInv, [CycleNextReliable]_cvars
  PROVE  PosInv'
<1>1. ASSUME NEW s \in Sessions, Progress(s) PROVE PosInv'
  BY <1>1, ProgressIsStep, SoloPositions DEF Next, NextReliable
<1>2. ASSUME UNCHANGED <<positions, trades>>,
             \A s \in Sessions : sess'[s].pc = "idle" \/ sess'[s] = sess[s]
      PROVE  PosInv'
  <2>1. RowsOK'
    BY <1>2 DEF PosInv, RowsOK, KeysUsed
  <2>2. Booked'
    BY <1>2 DEF PosInv, Booked, HeldIn, Moved, RowsOf
  <2>3. Chosen'
    BY <1>2 DEF PosInv, Chosen, OpenPositions
  <2> QED BY <2>1, <2>2, <2>3 DEF PosInv
<1>3. ASSUME NEW s \in Sessions, NEW ts \in SUBSET Tokens, StartCycle(s, ts) PROVE PosInv'
  BY <1>2, <1>3 DEF StartCycle, Answered, tables, IInv, TypeOK
<1>4. CASE Elsewhere \/ \E o \in Operators : CommitSwitch(o)
  BY <1>2, <1>4, ElsewhereKeeps DEF CommitSwitch
<1> QED BY <1>1, <1>3, <1>4, CycleCases

\* The cycle holds the position its BUY has opened until its SELL commits, unless
\* the policy kills the bot between the two or the SELL is refused.
InHand(s) ==
  \/ /\ cyc[s].stage = "buying"
     /\ \/ sess[s].pc = "committed"
        \/ sess[s].pc \in {"enforced", "idle"} /\ sess[s].result = "executed"
  \/ /\ cyc[s].stage = "selling" /\ sess[s].pc \notin {"committed", "enforced"}
     /\ sess[s].pc = "idle" => sess[s].result \notin {"executed", "died", "rejected"}
Approved(s) == cyc[s].stage = "buying" /\ sess[s].pc \in {"approved", "priced"}
Judging(s) == cyc[s].stage = "buying" /\ sess[s].pc = "loaded"
HeldPair(b, t) == \E s \in Sessions : InHand(s) /\ BotOf(s) = b /\ TokenOf(s) = t

\* What the limits on losses leave the bot.
MayLose(b) == LossOn(b, today) < MaxDailyLoss /\ ConsecutiveLosses(b) < MaxLosses

\* No cycle returns to a launch: what is left open was given up by a cycle that was
\* done with it.
PlacesAt(s) ==
  /\ cyc[s].todo \subseteq launched \X Bots /\ cyc[s].todo \cap left = {}
  /\ cyc[s].stage \notin {"off", "choosing"} =>
       cyc[s].now \in launched \X Bots /\ cyc[s].now \notin cyc[s].todo
  /\ InHand(s) \/ Approved(s) \/ Judging(s) => cyc[s].now \notin left
Places == left \subseteq launched \X Bots /\ \A s \in Sessions : PlacesAt(s)

\* An approved BUY leaves the limits on losses room for its SELL: it realises
\* nothing, and a new day begins with no loss.
RoomToSell == \A s \in Sessions : InHand(s) \/ Approved(s) => MayLose(BotOf(s))
OpenAre == \A b \in Bots, t \in Tokens :
  OpenPositions(b, t) # {} <=> HeldPair(b, t) \/ <<t, b>> \in left
OneInHand == \A b \in Bots, t \in Tokens :
  HeldPair(b, t) => \E p \in Position : OpenPositions(b, t) = {p} /\ p.qty = 1
HandInv == Places /\ RoomToSell /\ OpenAre /\ OneInHand

\* A step that leaves what is in the cycle's hand there.
LEMMA HandKept ==
  ASSUME \A s, t \in Sessions : s = t, HandInv, NEW s \in Sessions,
         UNCHANGED <<positions, trades, today, left>>, launched \subseteq launched',
         InHand(s)' = InHand(s), InHand(s) => cyc'[s].now = cyc[s].now,
         Approved(s)' => MayLose(BotOf(s)'), PlacesAt(s)'
  PROVE  HandInv'
<1>0. \A r \in Sessions : r = s
  OBVIOUS
<1>1. \A b, t : /\ MayLose(b)' = MayLose(b)
                /\ OpenPositions(b, t)' = OpenPositions(b, t)
  BY DEF MayLose, LossOn, ConsecutiveLosses, RowsOn, RowsOf, OpenPositions
<1>2. InHand(s) => BotOf(s)' = BotOf(s) /\ TokenOf(s)' = TokenOf(s)
  BY DEF BotOf, TokenOf
<1>3. \A b, t : HeldPair(b, t)' = HeldPair(b, t)
  BY <1>0, <1>2 DEF HeldPair
<1>4. OpenAre' /\ OneInHand'
  BY <1>1, <1>3 DEF HandInv, OpenAre, OneInHand
<1>5. RoomToSell'
  BY <1>0, <1>1, <1>2 DEF HandInv, RoomToSell
<1>6. Places'
  BY <1>0 DEF HandInv, Places
<1> QED BY <1>4, <1>5, <1>6 DEF HandInv

\* The cycle lets go of a position that stays open.
LEMMA HandDropped ==
  ASSUME \A s, t \in Sessions : s = t, HandInv, Working, NEW s \in Sessions,
         UNCHANGED <<positions, trades, today, launched, cyc>>,
         InHand(s), ~(InHand(s)'), ~(Approved(s)'), ~(Judging(s)'),
         left' = left \cup {cyc[s].now}
  PROVE  HandInv'
<1>0. \A r \in Sessions : r = s
  OBVIOUS
<1>1. \A b, t : OpenPositions(b, t)' = OpenPositions(b, t)
  BY DEF OpenPositions
<1>2. /\ cyc[s].now \in launched \X Bots /\ cyc[s].now \notin cyc[s].todo
      /\ cyc[s].now = <<TokenOf(s), BotOf(s)>>
  BY DEF HandInv, Places, PlacesAt, InHand, TokenOf, BotOf
<1>3. \A b, t : /\ ~(HeldPair(b, t)')
                /\ HeldPair(b, t) <=> b = BotOf(s) /\ t = TokenOf(s)
  BY <1>0 DEF HeldPair
<1>4. OpenAre' /\ OneInHand'
  BY <1>1, <1>2, <1>3 DEF HandInv, OpenAre, OneInHand
<1>5. RoomToSell'
  BY <1>0 DEF RoomToSell
<1>6. Places'
  BY <1>0, <1>2 DEF HandInv, Places, PlacesAt
<1> QED BY <1>4, <1>5, <1>6 DEF HandInv

\* The SELL of what the cycle holds is refused by the stop and the day's last trade
\* alone.
LEMMA SellJudged ==
  ASSUME HandInv, IInv, NEW s \in Sessions, InHand(s), MatchesAt(s),
         \A p \in ExitPrices : p > 0, cyc[s].stage = "selling", sess[s].pc = "loaded", NEW row
  PROVE  RiskApproves(sess[s].order, row) <=> ~NoWayOut(s)
<1>1. PICK p \in ExitPrices : sess[s].order = SellOrder(TokenOf(s), BotOf(s), p)
  BY DEF MatchesAt, InCall
<1>2. /\ sess[s].order.bot = BotOf(s) /\ sess[s].order.side = "SELL"
      /\ sess[s].order.qty = 1 /\ sess[s].order.price = p /\ sess[s].order.liquid
  BY <1>1 DEF SellOrder, BuyOrder
<1>3. MayLose(BotOf(s))
  BY DEF HandInv, RoomToSell
<1>4. NoWayOut(s) <=> system # "ONLINE" \/ Cardinality(RowsOn(BotOf(s), today)) >= MaxTrades
  BY DEF NoWayOut, BotOf
<1>5. Cardinality(RowsOn(BotOf(s), today)) \in Nat /\ MaxTrades \in Nat
  BY RowsOnFinite, AmountsAssumption
<1> QED BY <1>2, <1>3, <1>4, <1>5 DEF RiskApproves, MayLose

\* The BUY of a bot is its death only past a ceiling it had passed before.
LEMMA BuyJudged ==
  ASSUME \A s, t \in Sessions : s = t, CycleInv, Matches,
         NEW s \in Sessions, Enforce(s), cyc[s].stage = "buying"
  PROVE  Dies(bots[sess[s].order.bot]) <=> NoWayOut(s)
<1> DEFINE b == sess[s].order.bot
<1>1. /\ sess[s] \in GoodSession /\ sess[s].pc = "committed" /\ InCall(s)
  BY DEF Enforce, Matches, MatchesAt, CycleInv, SoloInv, IInv
<1>2. b \in Bots /\ sess[s].cached[b] \in BotRow /\ sess[s].cached[b].state # "DEAD"
  BY <1>1, OrderTypes DEF CycleInv, SoloInv, IInv, GoodSession, SessionOK
<1>3. bots[b].state # "DEAD"
  BY <1>2, SentinelsAssumption DEF CycleInv, SoloInv, Fresh, SameAccount
<1>4. b = BotOf(s)
  BY <1>1 DEF InCall, BuyOrder
<1>5. NoWayOut(s) <=> revived[b] > 0 /\ bots[b].pnl <= -MaxLoss
  BY <1>1, <1>4 DEF NoWayOut, BotOf
<1>6. Dies(bots[b]) => revived[b] > 0
  BY <1>4, BuyKillsAgain
<1> QED BY <1>3, <1>5, <1>6 DEF Dies, HasBreached

LEMMA ExecutingHand ==
  ASSUME \A s, t \in Sessions : s = t, CycleInv, Matches, HandInv,
         \A p \in ExitPrices : p > 0,
         NEW s \in Sessions, Executing(s), ~Commit(s)
  PROVE  HandInv'
<1>t. /\ sess \in [Sessions -> Session] /\ sess[s] \in Session /\ sess[s].pc # "idle"
      /\ InCall(s) /\ MatchesAt(s) /\ cyc' = cyc /\ IInv /\ Working
      /\ cyc[s].stage \in {"buying", "selling"} /\ PlacesAt(s)
  BY ExecutingCall DEF CycleInv, SoloInv, IInv, TypeOK, Executing, Matches, MatchesAt, InCall,
                       HandInv, Places
<1>u. /\ UNCHANGED <<positions, trades, today, launched>>
      /\ left' = IF NoWayOut(s) THEN left \cup {cyc[s].now} ELSE left
      /\ BotOf(s)' = BotOf(s)
  BY <1>t DEF Executing, Evaluate, Price, PriceFails, CommitConflict, Enforce, Answer, tables,
              BotOf
<1>k. ASSUME ~NoWayOut(s), InHand(s)' = InHand(s), Judging(s)' => Judging(s),
             Approved(s)' => MayLose(BotOf(s)) /\ (Approved(s) \/ Judging(s))
      PROVE  HandInv'
  <2>1. left' = left
    BY <1>u, <1>k
  <2>2. PlacesAt(s)'
    BY <1>t, <1>u, <1>k, <2>1 DEF PlacesAt
  <2> QED BY <1>t, <1>u, <1>k, <2>1, <2>2, HandKept
<1>r. Approved(s) => MayLose(BotOf(s))
  BY DEF HandInv, RoomToSell
<1>1. CASE Evaluate(s)
  <2> DEFINE o == sess[s].order
  <2>1. /\ sess[s].pc = "loaded"
        /\ IF RiskApproves(o, sess[s].cached[o.bot])
           THEN sess'[s].pc = "approved"
           ELSE sess'[s].pc = "idle" /\ sess'[s].result = "rejected"
    BY <1>1, <1>t DEF Evaluate, Answered, Session
  <2>2. CASE cyc[s].stage = "buying"
    <3>1. RiskApproves(o, sess[s].cached[o.bot]) => MayLose(BotOf(s))
      BY <1>t, <2>2 DEF InCall, BuyOrder, RiskApproves, MayLose
    <3>2. InHand(s)' = InHand(s) /\ ~NoWayOut(s) /\ Judging(s) /\ ~(Judging(s)')
      BY <1>t, <2>1, <2>2 DEF InHand, NoWayOut, Judging
    <3>3. Approved(s)' => RiskApproves(o, sess[s].cached[o.bot])
      BY <2>1 DEF Approved
    <3> QED BY <1>k, <3>1, <3>2, <3>3
  <2>3. CASE cyc[s].stage = "selling"
    <3>1. InHand(s) /\ ~(Judging(s)') /\ ~(Approved(s)')
      BY <1>t, <2>1, <2>3 DEF InHand, Judging, Approved
    <3>2. RiskApproves(o, sess[s].cached[o.bot]) <=> ~NoWayOut(s)
      BY <1>t, <2>1, <2>3, <3>1, SellJudged
    <3>3. CASE ~NoWayOut(s)
      <4>1. InHand(s)'
        BY <1>t, <2>1, <2>3, <3>2, <3>3 DEF InHand
      <4> QED BY <1>k, <3>1, <3>3, <4>1
    <3>4. CASE NoWayOut(s)
      <4>1. ~(InHand(s)')
        BY <1>t, <2>1, <2>3, <3>2, <3>4 DEF InHand
      <4> QED BY <1>t, <1>u, <3>1, <3>4, <4>1, HandDropped
    <3> QED BY <3>3, <3>4
  <2> QED BY <1>t, <2>2, <2>3
<1>2. CASE Price(s)
  <2>1. sess[s].pc = "approved" /\ sess'[s].pc = "priced"
    BY <1>2, <1>t DEF Price, Session
  <2>2. InHand(s)' = InHand(s) /\ ~NoWayOut(s) /\ ~(Judging(s)') /\ (Approved(s)' => Approved(s))
    BY <1>t, <2>1 DEF InHand, NoWayOut, Judging, Approved
  <2> QED BY <1>k, <1>r, <2>2
<1>3. CASE PriceFails(s) \/ CommitConflict(s)
  <2>1. /\ sess[s].pc \in {"approved", "priced"} /\ sess'[s].pc = "idle"
        /\ sess'[s].result \in {"error", "duplicate"}
    BY <1>3, <1>t DEF PriceFails, CommitConflict, Answered
  <2>2. InHand(s)' = InHand(s) /\ ~NoWayOut(s) /\ ~(Judging(s)') /\ ~(Approved(s)')
    BY <1>t, <2>1 DEF InHand, NoWayOut, Judging, Approved
  <2> QED BY <1>k, <2>2
<1>4. CASE Enforce(s)
  <2> DEFINE died == Dies(bots[sess[s].order.bot])
  <2>1. /\ sess[s].pc = "committed" /\ sess'[s].pc = "enforced"
        /\ sess'[s].result = IF died THEN "died" ELSE "executed"
    BY <1>4, <1>t, SoloEnforce DEF Enforce, Session, CycleInv
  <2>2. ~(Judging(s)') /\ ~(Approved(s)')
    BY <2>1 DEF Judging, Approved
  <2>3. CASE cyc[s].stage = "buying"
    <3>1. died <=> NoWayOut(s)
      BY <1>4, <2>3, BuyJudged
    <3>2. InHand(s) /\ (InHand(s)' <=> ~died)
      BY <1>t, <2>1, <2>3 DEF InHand
    <3>3. CASE died
      BY <1>t, <1>u, <2>2, <3>1, <3>2, <3>3, HandDropped
    <3>4. CASE ~died
      BY <1>k, <2>2, <3>1, <3>2, <3>4
    <3> QED BY <3>3, <3>4
  <2>4. CASE cyc[s].stage = "selling"
    <3>1. InHand(s)' = InHand(s) /\ ~NoWayOut(s)
      BY <1>t, <2>1, <2>4 DEF InHand, NoWayOut
    <3> QED BY <1>k, <2>2, <3>1
  <2> QED BY <1>t, <2>3, <2>4
<1>5. CASE Answer(s)
  <2>1. /\ sess[s].pc = "enforced" /\ sess'[s].pc = "idle" /\ Ended(s)
        /\ sess'[s].result = sess[s].result
    BY <1>5, <1>t DEF Answer, Answered, MatchesAt
  <2>2. InHand(s)' = InHand(s) /\ ~NoWayOut(s) /\ ~(Judging(s)') /\ ~(Approved(s)')
    BY <1>t, <2>1 DEF InHand, Ended, NoWayOut, Judging, Approved
  <2> QED BY <1>k, <2>2
<1> QED BY <1>1, <1>2, <1>3, <1>4, <1>5 DEF Executing

LEMMA OutsideHand ==
  ASSUME \A s, t \in Sessions : s = t, CycleInv, HandInv,
         NEW s \in Sessions, Progress(s), ~Executing(s)
  PROVE  HandInv'
<1>t. /\ sess \in [Sessions -> Session] /\ cyc \in [Sessions -> Cycle] /\ sess[s] \in Session
      /\ cyc[s] \in Cycle /\ PlacesAt(s)
  BY DEF CycleInv, SoloInv, IInv, TypeOK, Working, HandInv, Places
<1>k. ASSUME UNCHANGED <<positions, trades, today, left, launched>>,
             InHand(s)' <=> InHand(s), InHand(s) => cyc'[s].now = cyc[s].now,
             ~(Approved(s)'), PlacesAt(s)'
      PROVE  HandInv'
  <2>1. InHand(s)' = InHand(s)
    BY <1>k DEF InHand
  <2> QED BY <1>k, <2>1, HandKept
<1>e. ASSUME UNCHANGED <<positions, trades, today, left, launched>>,
             ~InHand(s), cyc'[s].stage \notin {"buying", "selling"},
             cyc'[s].todo \subseteq cyc[s].todo,
             cyc'[s].stage \notin {"off", "choosing"} =>
               cyc[s].stage \notin {"off", "choosing"} /\ cyc'[s].now = cyc[s].now
      PROVE  HandInv'
  <2>1. ~(InHand(s)') /\ ~(Approved(s)') /\ ~(Judging(s)')
    BY <1>e DEF InHand, Approved, Judging
  <2>2. PlacesAt(s)'
    BY <1>e, <1>t, <2>1 DEF PlacesAt
  <2> QED BY <1>e, <1>k, <2>1, <2>2
<1>1. ASSUME NEW t \in Tokens, NEW b \in Bots, Skip(s, t, b) PROVE HandInv'
  <2>1. /\ cyc[s].stage = "choosing" /\ cyc'[s].stage = "choosing"
        /\ cyc'[s].todo = cyc[s].todo \ {<<t, b>>}
        /\ UNCHANGED <<positions, trades, today, left, launched>>
    BY <1>1, <1>t DEF Skip, vars, Cycle
  <2> QED BY <1>e, <2>1 DEF InHand
<1>2. ASSUME NEW t \in Tokens, NEW b \in Bots, Buy(s, t, b) PROVE HandInv'
  <2>1. /\ cyc[s].stage = "choosing" /\ <<t, b>> \in cyc[s].todo
        /\ cyc'[s] = [stage |-> "buying", todo |-> cyc[s].todo \ {<<t, b>>}, now |-> <<t, b>>]
        /\ sess'[s].pc = "loaded"
        /\ UNCHANGED <<positions, trades, today, left, launched>>
    BY <1>2, <1>t, BuyBegins, BeginCall DEF Buy, tables, CycleInv
  <2>2. ~InHand(s) /\ ~(InHand(s)') /\ ~(Approved(s)')
    BY <2>1 DEF InHand, Approved
  <2>3. PlacesAt(s)'
    BY <1>t, <2>1, <2>2 DEF PlacesAt
  <2> QED BY <1>k, <2>1, <2>2, <2>3
<1>3. ASSUME NEW p \in ExitPrices, Sell(s, p) PROVE HandInv'
  <2>1. /\ cyc[s].stage = "buying" /\ cyc'[s].stage = "selling" /\ cyc'[s].now = cyc[s].now
        /\ cyc'[s].todo = cyc[s].todo
        /\ sess[s].pc = "idle" /\ sess[s].result = "executed" /\ sess'[s].pc = "loaded"
        /\ UNCHANGED <<positions, trades, today, left, launched>>
    BY <1>3, <1>t, SellBegins, BeginCall DEF Sell, tables, CycleInv, Cycle
  <2>2. InHand(s) /\ InHand(s)' /\ ~(Approved(s)') /\ ~(Judging(s)')
    BY <2>1 DEF InHand, Approved, Judging
  <2>3. PlacesAt(s)'
    BY <1>t, <2>1, <2>2 DEF PlacesAt
  <2> QED BY <1>k, <2>1, <2>2, <2>3
<1>4. CASE NextBot(s)
  <2>1. /\ NothingLeft(cyc[s].stage, sess[s].result) /\ sess[s].pc = "idle"
        /\ cyc'[s].stage = "choosing" /\ cyc'[s].todo = cyc[s].todo
        /\ UNCHANGED <<positions, trades, today, left, launched>>
    BY <1>4, <1>t DEF NextBot, vars, Cycle
  <2>2. ~InHand(s)
    BY <2>1 DEF NothingLeft, InHand
  <2> QED BY <1>e, <2>1, <2>2
<1>5. CASE RecordOutcome(s)
  <2>1. /\ cyc[s].stage = "selling" /\ Ended(s) /\ sess[s].pc = "idle"
        /\ cyc'[s].stage = "judging" /\ cyc'[s].todo = cyc[s].todo /\ cyc'[s].now = cyc[s].now
        /\ UNCHANGED <<positions, trades, today, left, launched>>
    BY <1>5, <1>t DEF RecordOutcome, Ended, vars, Cycle
  <2>2. ~InHand(s)
    BY <2>1 DEF InHand, Ended
  <2> QED BY <1>e, <2>1, <2>2
<1>6. CASE JudgePattern(s) \/ SuggestGrowth(s) \/ Explain(s)
  <2>1. /\ cyc[s].stage \in {"judging", "suggesting", "explaining"}
        /\ cyc'[s].todo = cyc[s].todo /\ cyc'[s].now = cyc[s].now
        /\ UNCHANGED <<positions, trades, today, left, launched>>
    BY <1>6, <1>t DEF JudgePattern, SuggestGrowth, Explain, vars, Cycle
  <2>2. cyc'[s].stage \notin {"buying", "selling"}
    BY <1>6, <1>t DEF JudgePattern, SuggestGrowth, Explain, AfterSell, Cycle
  <2> QED BY <1>e, <2>1, <2>2 DEF InHand
<1>7. CASE Finish(s)
  <2>1. /\ cyc[s].stage = "choosing" /\ cyc'[s] = Off
        /\ UNCHANGED <<positions, trades, today, left, launched>>
    BY <1>7, <1>t DEF Finish, tables
  <2>2. Off.stage = "off" /\ Off.todo = {}
    BY DEF Off
  <2> QED BY <1>e, <2>1, <2>2 DEF InHand
<1> QED BY <1>1, <1>2, <1>3, <1>4, <1>5, <1>6, <1>7 DEF Progress

\* A row that realises nothing moves no limit on losses.
LEMMA LossesAfterAppend ==
  ASSUME IInv, NEW row \in Trade, trades' = Append(trades, row), today' = today,
         row.pnl = 0, NEW b
  PROVE  /\ LossOn(b, today)' = LossOn(b, today)
         /\ ConsecutiveLosses(b)' = ConsecutiveLosses(b)
<1> DEFINE n == Len(trades) + 1
           S == {i \in RowsOn(b, today) : trades[i].pnl < 0}
           f == [i \in DOMAIN trades |-> -trades[i].pnl]
           g == [i \in DOMAIN trades' |-> -trades'[i].pnl]
<1>1. /\ DOMAIN trades' = (DOMAIN trades) \cup {n} /\ n \notin DOMAIN trades
      /\ trades'[n] = row /\ \A i \in DOMAIN trades : trades'[i] = trades[i]
  BY DEF IInv, TypeOK
<1>2. /\ S \subseteq RowsOn(b, today) /\ S \subseteq DOMAIN trades /\ IsFiniteSet(S)
  <2>1. S \subseteq RowsOn(b, today) /\ S \subseteq DOMAIN trades
    BY DEF RowsOn, RowsOf
  <2> HIDE DEF S
  <2> QED BY <2>1, RowsOnFinite, FS_Subset
<1>3. {i \in RowsOn(b, today) : trades[i].pnl < 0}' = S
  BY <1>1 DEF RowsOn, RowsOf
<1>4. \A i \in S : f[i] = g[i] /\ f[i] \in Int
  BY <1>1, <1>2, RowsTyped
<1>5. LossOn(b, today)' = SumFunctionOnSet(g, S)
  BY <1>3 DEF LossOn
<1>6. LossOn(b, today) = SumFunctionOnSet(f, S)
  BY DEF LossOn
<1>7. SumFunctionOnSet(f, S) = SumFunctionOnSet(g, S)
  <2> HIDE DEF f, g, S
  <2> QED BY <1>2, <1>4, SumSame
<1>8. {i \in RowsOf(b) : trades[i].pnl < 0 /\ \A j \in RowsOf(b) : j > i => trades[j].pnl <= 0}'
        = {i \in RowsOf(b) : trades[i].pnl < 0 /\ \A j \in RowsOf(b) : j > i => trades[j].pnl <= 0}
  BY <1>1 DEF RowsOf
<1>9. ConsecutiveLosses(b)' = ConsecutiveLosses(b)
  BY <1>8 DEF ConsecutiveLosses
<1> QED BY <1>5, <1>6, <1>7, <1>9

LEMMA CommitHand ==
  ASSUME \A s, t \in Sessions : s = t, CycleInv, Matches, PosInv, HandInv,
         NEW s \in Sessions, Executing(s), Commit(s)
  PROVE  HandInv'
<1> DEFINE x == sess[s]
           o == x.order
           buys == cyc[s].stage = "buying"
<1>1. /\ IInv /\ x \in GoodSession /\ x.pc = "priced" /\ InCall(s)
      /\ x.key \in Keys /\ o \in Order
      /\ trades' = Append(trades, TradeOf(x)) /\ TradeOf(x) \in Trade
      /\ cyc' = cyc /\ today' = today /\ launched' = launched
      /\ sess'[s].pc = "committed"
  BY TradeType, OrderTypes DEF Commit, IInv, TypeOK, Matches, MatchesAt, CycleInv, SoloInv,
                               Executing, Session
<1>r. PICK row \in Trade : row = TradeOf(x) /\ trades' = Append(trades, row)
  BY <1>1
<1>s. cyc[s].stage \in {"buying", "selling"}
  BY <1>1 DEF InCall
<1>b. PICK b \in Bots, t \in Tokens :
        b = BotOf(s) /\ t = TokenOf(s) /\ cyc[s].now = <<t, b>> /\ cyc[s].now \notin left
  <2>1. cyc[s].now \in Pairs /\ cyc[s].now \notin left
    BY <1>1, <1>s DEF CycleInv, Working, HandInv, Places, PlacesAt, InHand, Approved
  <2> QED BY <2>1 DEF Pairs, BotOf, TokenOf
<1>2. /\ o.bot = b /\ o.token = t /\ o.qty = 1
      /\ o.side = IF buys THEN "BUY" ELSE "SELL"
  <2>1. CASE buys
    <3>1. o = BuyOrder(t, b)
      BY <1>1, <1>b, <2>1 DEF InCall
    <3> QED BY <2>1, <3>1 DEF BuyOrder
  <2>2. CASE ~buys
    <3>1. PICK p \in ExitPrices : o = SellOrder(t, b, p)
      BY <1>1, <1>b, <2>2 DEF InCall
    <3> QED BY <2>2, <3>1 DEF BuyOrder, SellOrder
  <2> QED BY <2>1, <2>2
<1>3. /\ left' = left /\ \A r \in Sessions : r = s
      /\ BotOf(s)' = b /\ TokenOf(s)' = t
      /\ InHand(s) <=> ~buys
      /\ InHand(s)' <=> buys
      /\ buys => Approved(s)
      /\ ~(Approved(s)') /\ ~(Judging(s)')
  BY <1>1, <1>s, <1>b DEF InHand, Approved, Judging, BotOf, TokenOf, Executing, NoWayOut
<1>4. \A c \in Bots, u \in Tokens : /\ HeldPair(c, u) <=> ~buys /\ c = b /\ u = t
                                   /\ HeldPair(c, u)' <=> buys /\ c = b /\ u = t
  BY <1>b, <1>3 DEF HeldPair
<1>5. MayLose(b)
  BY <1>b, <1>s, <1>3 DEF HandInv, RoomToSell
<1>6. RoomToSell'
  <2>1. CASE buys
    <3>1. row.pnl = 0
      BY <1>r, <1>2, <2>1 DEF TradeOf, Realized
    <3>2. /\ LossOn(b, today)' = LossOn(b, today)
          /\ ConsecutiveLosses(b)' = ConsecutiveLosses(b)
      BY <1>1, <1>r, <3>1, LossesAfterAppend
    <3>3. MayLose(b)'
      BY <1>5, <3>2 DEF MayLose
    <3> QED BY <1>3, <3>3 DEF RoomToSell
  <2>2. CASE ~buys
    BY <1>3, <2>2 DEF RoomToSell
  <2> QED BY <2>1, <2>2
<1>7. Places'
  BY <1>1, <1>b, <1>3 DEF HandInv, Places, PlacesAt
<1>8. \A c \in Bots, u \in Tokens :
        OpenPositions(c, u)' = IF c = b /\ u = t THEN OpenPositions(b, t)'
                                                ELSE OpenPositions(c, u)
  <2>1. CASE buys
    <3>1. OpenPositions(b, t) = {}
      BY <1>b, <1>4, <2>1 DEF HandInv, OpenAre
    <3>2. PICK new \in Position : new = Opened(x.key, o) /\ positions' = positions \cup {new}
      BY <1>1, <1>2, <3>1, CommitPositions, SentinelsAssumption DEF PosInv
    <3>3. new.bot = b /\ new.token = t
      BY <1>2, <3>2 DEF Opened
    <3> QED BY <3>2, <3>3 DEF OpenPositions
  <2>2. CASE ~buys
    <3>1. PICK old \in positions, new \in Position :
            /\ old \in OpenPositions(o.bot, o.token) /\ new = Reduced(old, o)
            /\ positions' = (positions \ {old}) \cup {new}
      BY <1>1, <1>2, <2>2, CommitPositions, SentinelsAssumption DEF PosInv
    <3>2. old.bot = b /\ old.token = t /\ new.bot = b /\ new.token = t
      BY <1>1, <1>2, <3>1 DEF OpenPositions, Reduced, Position, IInv, TypeOK
    <3> QED BY <3>1, <3>2 DEF OpenPositions
  <2> QED BY <2>1, <2>2
<1>9. IF buys THEN \E p \in Position : OpenPositions(b, t)' = {p} /\ p.qty = 1
              ELSE OpenPositions(b, t)' = {}
  <2>1. CASE buys
    <3>1. OpenPositions(b, t) = {}
      BY <1>b, <1>4, <2>1 DEF HandInv, OpenAre
    <3>2. PICK new \in Position : new = Opened(x.key, o) /\ positions' = positions \cup {new}
      BY <1>1, <1>2, <3>1, CommitPositions, SentinelsAssumption DEF PosInv
    <3>3. new.bot = b /\ new.token = t /\ new.qty = 1 /\ new.open
      BY <1>2, <3>2 DEF Opened
    <3>4. OpenPositions(b, t)' = {new}
      BY <3>1, <3>2, <3>3 DEF OpenPositions
    <3> QED BY <2>1, <3>3, <3>4
  <2>2. CASE ~buys
    <3>0. HeldPair(b, t)
      BY <1>b, <1>3, <2>2 DEF HeldPair
    <3>1. PICK p \in Position : OpenPositions(b, t) = {p} /\ p.qty = 1
      BY <3>0 DEF HandInv, OneInHand
    <3>2. PICK old \in positions, new \in Position :
            /\ old \in OpenPositions(o.bot, o.token) /\ new = Reduced(old, o)
            /\ positions' = (positions \ {old}) \cup {new}
      BY <1>1, <1>2, <2>2, <3>1, CommitPositions, SentinelsAssumption DEF PosInv
    <3>3. old = p /\ ~new.open
      <4>1. old = p /\ old \in Position
        BY <1>2, <3>1, <3>2
      <4>2. old.qty = 1 /\ new.open = (old.qty - 1 > 0)
        BY <1>2, <3>1, <3>2, <4>1 DEF Reduced, Position
      <4>3. ~(old.qty - 1 > 0)
        BY <4>2
      <4> QED BY <4>1, <4>2, <4>3
    <3>4. OpenPositions(b, t)' = {}
      BY <3>1, <3>2, <3>3 DEF OpenPositions
    <3> QED BY <2>2, <3>4
  <2> QED BY <2>1, <2>2
<1>10. OpenAre' /\ OneInHand'
  <2>0. \A c \in Bots, u \in Tokens :
          <<u, c>> \in left' <=> <<u, c>> \in left /\ ~(c = b /\ u = t)
    BY <1>b, <1>3
  <2>1. ASSUME NEW c \in Bots, NEW u \in Tokens, c # b \/ u # t
        PROVE  /\ OpenPositions(c, u)' # {} <=> HeldPair(c, u)' \/ <<u, c>> \in left'
               /\ ~(HeldPair(c, u)')
    <3>1. OpenPositions(c, u)' = OpenPositions(c, u)
      BY <1>8, <2>1
    <3>2. ~HeldPair(c, u) /\ ~(HeldPair(c, u)')
      BY <1>b, <1>3, <2>1 DEF HeldPair
    <3>3. OpenPositions(c, u) # {} <=> HeldPair(c, u) \/ <<u, c>> \in left
      BY DEF HandInv, OpenAre
    <3> QED BY <2>0, <2>1, <3>1, <3>2, <3>3
  <2>2. /\ OpenPositions(b, t)' # {} <=> HeldPair(b, t)' \/ <<t, b>> \in left'
        /\ HeldPair(b, t)' => \E p \in Position : OpenPositions(b, t)' = {p} /\ p.qty = 1
    <3>1. <<t, b>> \notin left'
      BY <2>0
    <3>2. CASE buys
      <4>1. HeldPair(b, t)'
        BY <1>3, <3>2 DEF HeldPair
      <4>2. \E p \in Position : OpenPositions(b, t)' = {p} /\ p.qty = 1
        BY <1>9, <3>2
      <4> QED BY <4>1, <4>2
    <3>3. CASE ~buys
      <4>1. ~(HeldPair(b, t)')
        BY <1>3, <3>3 DEF HeldPair
      <4>2. OpenPositions(b, t)' = {}
        BY <1>9, <3>3
      <4> QED BY <3>1, <4>1, <4>2
    <3> QED BY <3>2, <3>3
  <2>3. OpenAre'
    BY <2>1, <2>2 DEF OpenAre
  <2>4. OneInHand'
    BY <2>1, <2>2 DEF OneInHand
  <2> QED BY <2>3, <2>4
<1> QED BY <1>6, <1>7, <1>10 DEF HandInv

\* A day that begins has no loss yet.
LEMMA NewDayMayLose ==
  ASSUME IInv, Dated, NewDay, NEW b, MayLose(b)
  PROVE  MayLose(b)'
<1>1. /\ trades' = trades /\ today' = today + 1 /\ today \in Nat
      /\ \A i \in DOMAIN trades : trades[i].day \in Nat /\ trades[i].day <= today
  BY RowsTyped DEF NewDay, tables, IInv, TypeOK, Dated
<1>2. RowsOn(b, today)' = {}
  BY <1>1 DEF RowsOn, RowsOf
<1>3. LossOn(b, today)' = 0
  <2>1. LossOn(b, today)' = SumFunctionOnSet([i \in DOMAIN trades |-> -trades[i].pnl], {})
    BY <1>1, <1>2 DEF LossOn
  <2> QED BY <2>1, SumEmpty
<1>4. LossOn(b, today) \in Nat
  <2> DEFINE S == {i \in RowsOn(b, today) : trades[i].pnl < 0}
             f == [i \in DOMAIN trades |-> -trades[i].pnl]
  <2>1. IsFiniteSet(S)
    <3>1. S \subseteq RowsOn(b, today)
      OBVIOUS
    <3> HIDE DEF S
    <3> QED BY <3>1, RowsOnFinite, FS_Subset
  <2>2. \A i \in S : f[i] \in Nat
    BY RowsTyped DEF RowsOn, RowsOf
  <2>3. LossOn(b, today) = SumFunctionOnSet(f, S)
    BY DEF LossOn
  <2> HIDE DEF S, f
  <2> QED BY <2>1, <2>2, <2>3, SumNat
<1>5. ConsecutiveLosses(b)' = ConsecutiveLosses(b)
  BY <1>1 DEF ConsecutiveLosses, RowsOf
<1>6. MaxDailyLoss \in Int
  BY AmountsAssumption
<1> QED BY <1>3, <1>4, <1>5, <1>6 DEF MayLose

LEMMA CycleHand ==
  ASSUME \A s, t \in Sessions : s = t, CycleInv, Matches, PosInv, Dated, HandInv,
         \A p \in ExitPrices : p > 0, [CycleNextReliable]_cvars
  PROVE  HandInv'
<1>1. ASSUME NEW s \in Sessions, Progress(s) PROVE HandInv'
  <2>1. CASE Executing(s)
    BY <2>1, CommitHand, ExecutingHand
  <2> QED BY <1>1, <2>1, OutsideHand
<1>2. ASSUME NEW s \in Sessions, NEW ts \in SUBSET Tokens, StartCycle(s, ts) PROVE HandInv'
  <2>1. /\ cyc[s].stage = "off" /\ cyc'[s].stage = "choosing"
        /\ cyc'[s].todo = ts \X TradeableBots
        /\ launched' = launched \cup ts /\ ts \cap launched = {}
        /\ UNCHANGED <<positions, trades, today, left>>
    BY <1>2 DEF StartCycle, FreshLaunches, Off, tables, CycleInv, Working
  <2>2. ~InHand(s) /\ ~(InHand(s)') /\ ~(Approved(s)') /\ ~(Judging(s)')
    BY <2>1 DEF InHand, Approved, Judging
  <2>3. PlacesAt(s)'
    BY <2>1, <2>2 DEF PlacesAt, HandInv, Places, TradeableBots
  <2>4. InHand(s)' = InHand(s) /\ launched \subseteq launched'
    BY <2>1, <2>2 DEF InHand
  <2> QED BY <2>1, <2>2, <2>3, <2>4, HandKept
<1>3. CASE Elsewhere \/ \E o \in Operators : CommitSwitch(o)
  <2>1. /\ UNCHANGED <<positions, trades, sess, cyc, launched, left>>
        /\ today' = today \/ NewDay
    BY <1>3, ElsewhereKeeps DEF CommitSwitch
  <2>2. /\ \A s \in Sessions : /\ InHand(s)' = InHand(s) /\ Approved(s)' = Approved(s)
                              /\ BotOf(s)' = BotOf(s) /\ PlacesAt(s)' = PlacesAt(s)
        /\ \A b, t : HeldPair(b, t)' = HeldPair(b, t)
        /\ \A b, t : OpenPositions(b, t)' = OpenPositions(b, t)
    BY <2>1 DEF InHand, Approved, Judging, BotOf, TokenOf, PlacesAt, HeldPair, OpenPositions
  <2>3. Places' /\ OpenAre' /\ OneInHand'
    BY <2>1, <2>2 DEF HandInv, Places, OpenAre, OneInHand
  <2>4. ASSUME NEW b, MayLose(b) PROVE MayLose(b)'
    <3>1. CASE NewDay
      BY <2>4, <3>1, NewDayMayLose DEF CycleInv, SoloInv
    <3>2. CASE today' = today
      BY <2>1, <2>4, <3>2 DEF MayLose, LossOn, ConsecutiveLosses, RowsOn, RowsOf
    <3> QED BY <2>1, <3>1, <3>2
  <2>5. RoomToSell'
    BY <2>2, <2>4 DEF HandInv, RoomToSell
  <2> QED BY <2>3, <2>5 DEF HandInv
<1> QED BY <1>1, <1>2, <1>3, CycleCases

LEMMA InitHand == CycleInit => HandInv
<1> SUFFICES ASSUME CycleInit PROVE HandInv
  OBVIOUS
<1>1. /\ \A s \in Sessions : /\ cyc[s].stage = "off" /\ cyc[s].todo = {}
                            /\ ~InHand(s) /\ ~Approved(s) /\ ~Judging(s)
      /\ left = {}
  BY DEF CycleInit, Init, Off, InHand, Approved, Judging
<1>2. \A b, t : OpenPositions(b, t) = {}
  BY DEF CycleInit, Init, OpenPositions
<1>3. Places /\ RoomToSell
  BY <1>1 DEF Places, PlacesAt, RoomToSell
<1>4. OpenAre /\ OneInHand
  BY <1>1, <1>2 DEF OpenAre, OneInHand, HeldPair
<1> QED BY <1>3, <1>4 DEF HandInv

LEMMA CycleCounts ==
  ASSUME IsFiniteSet(Sessions), IInv, Working, Asking, CountsInv, [CycleNextReliable]_cvars
  PROVE  CountsInv'
<1>t. today \in Nat /\ sess \in [Sessions -> Session]
  BY DEF IInv, TypeOK
<1>1. ASSUME NEW s \in Sessions, Progress(s) PROVE CountsInv'
  BY <1>1, ProgressIsStep, NextCounts DEF Next, NextReliable
<1>2. CASE Elsewhere
  BY <1>2, NextCounts DEF Elsewhere, Next, NextReliable
<1>3. CASE BotSwitched \/ SessionReplaced
  BY <1>3, <1>t, CountsKept DEF BotSwitched, SessionReplaced, Answered, tables
<1> QED BY <1>1, <1>2, <1>3, CycleCases, SwitchIs, StartReplaces

\* A cycle alone sells whatever it has bought before it ends, whatever the limits are
\* and however the system stops, the day turns and requests race, except what it
\* could not sell: an approved BUY leaves the limits on losses room for its SELL, so
\* only a stop, the day's last trade or a death past a ceiling passed before can
\* come between the two.
THEOREM NothingElseLeftOpen ==
  ASSUME \A s, t \in Sessions : s = t, Sessions # {}, MaxLoss > 0,
         \A p \in ExitPrices : p > 0
  PROVE  CycleSpecReliable => []OpenOnlyWithoutWayOut
<1>f. IsFiniteSet(Sessions)
  <2>1. PICK s \in Sessions : Sessions = {s}
    OBVIOUS
  <2> QED BY <2>1, FS_Singleton
<1>1. CycleInit => PosInv /\ CountsInv
  BY <1>f, InitPositions, InitCounts DEF CycleInit
<1>2. CycleInv /\ Matches /\ PosInv /\ CountsInv /\ HandInv /\ [CycleNextReliable]_cvars
        => Matches' /\ PosInv' /\ CountsInv' /\ HandInv'
  BY <1>f, CycleMatches, CyclePositions, CycleCounts, CycleHand DEF CycleInv, SoloInv, CountsInv
<1>3. HandInv => OpenOnlyWithoutWayOut
  <2> SUFFICES ASSUME HandInv, \A s \in Sessions : cyc[s].stage = "off",
                      NEW b \in Bots, NEW t \in Tokens
               PROVE  OpenPositions(b, t) # {} <=> <<t, b>> \in left
    BY DEF OpenOnlyWithoutWayOut
  <2>1. ~HeldPair(b, t)
    BY DEF HeldPair, InHand
  <2> QED BY <2>1 DEF HandInv, OpenAre
<1> QED BY <1>1, <1>2, <1>3, CycleInvariance, InitMatches, InitHand, PTL
        DEF CycleSpecReliable
=============================================================================
