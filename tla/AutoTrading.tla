----------------------------- MODULE AutoTrading -----------------------------
(***************************************************************************)
(* The server around the cycles: the background loop of api/app.py with    *)
(* the switch of POST /api/system/auto-trading, cycles that operators run  *)
(* by hand in worker threads, stops of the system, failures and restarts.  *)
(*                                                                         *)
(* A tick of the loop is a cycle of the session Ticker.  run_once does not *)
(* await, so while a tick runs the event loop does nothing else: no task   *)
(* starts or ends and no request that arrives is handed to a worker.       *)
(* Requests handed over before go on in their threads.  A task cancelled   *)
(* in its sleep does nothing more, so it leaves "loops" at once.           *)
(***************************************************************************)
EXTENDS TradingCycle

CONSTANTS Ticker,          \* the session of the loop's ticks
          Tasks, NoTask,   \* asyncio tasks
          EnabledAtStart   \* auto_trading.enabled of the configuration

ASSUME TaskAssumption == /\ Ticker \in Sessions /\ NoTask \notin Tasks
                         /\ EnabledAtStart \in BOOLEAN

VARIABLES enabled,   \* settings.auto_trading.enabled
          task,      \* app.state.auto_trading_task
          loops,     \* tasks that sleep and will tick again
          slept,     \* the sleep of the latest loop has gone on for a while
          stop,      \* a request to stop the system, on its way
          late       \* history: trades of each cycle since a stop

app == <<enabled, task, loops, slept>>
avars == <<cvars, app, stop, late>>

NoTrades == [s \in Sessions |-> 0]

\* start_auto_trading and stop_auto_trading on a pair: the task the
\* application remembers, and the loops that run.
Start(a) ==
    IF a.task \in a.loops THEN a
    ELSE LET new == CHOOSE k \in Tasks : k \notin a.loops
         IN [task |-> new, loops |-> a.loops \cup {new}]

StopForgets(a) == [a EXCEPT !.task = NoTask]
StopTask(a) == [task |-> NoTask, loops |-> a.loops \ {a.task}]

Becomes(a) == task' = a.task /\ loops' = a.loops

\* _lifespan at startup.
AtStart == LET none == [task |-> NoTask, loops |-> {}]
           IN IF EnabledAtStart THEN Start(none) ELSE none

AutoInit == /\ CycleInit
            /\ enabled = EnabledAtStart
            /\ task = AtStart.task /\ loops = AtStart.loops /\ slept = FALSE
            /\ stop = "none"
            /\ late = NoTrades

LoopFree == cyc[Ticker].stage = "off"

\* update_auto_trading with enabled given or not, and any interval or size:
\* the task that slept is replaced by one that has only begun to.
UpdateAutoTrading(on) ==
    /\ LoopFree
    /\ enabled' = on /\ slept' = FALSE
    /\ LET stopped == StopTask([task |-> task, loops |-> loops])
       IN Becomes(IF on THEN Start(stopped) ELSE stopped)
    /\ UNCHANGED <<cvars, stop, late>>

\* asyncio.sleep takes its time: a part of the interval passes,
SleepOn ==
    /\ loops # {} /\ LoopFree /\ ~slept
    /\ slept' = TRUE
    /\ UNCHANGED <<cvars, enabled, task, loops, stop, late>>

\* and then the rest of it, and a tick begins.
Tick(ts) ==
    /\ loops # {} /\ slept
    /\ StartCycle(Ticker, ts)
    /\ slept' = FALSE
    /\ UNCHANGED <<enabled, task, loops, stop, late>>

\* POST /api/system/run-cycle.
RunCycle(s, ts) ==
    /\ s # Ticker
    /\ StartCycle(s, ts)
    /\ UNCHANGED <<app, stop, late>>

\* A cycle goes on.
Work(s) ==
    /\ Progress(s)
    /\ late' = IF system # "ONLINE" /\ trades' # trades
               THEN [late EXCEPT ![s] = @ + 1] ELSE late
    /\ UNCHANGED <<app, stop>>

\* A cycle ends with an exception: the loop logs it and sleeps again, and a
\* cycle by hand answers with an error.
FailureEndsLoop(s) == IF s = Ticker THEN [task |-> task, loops |-> {}]
                                    ELSE [task |-> task, loops |-> loops]
AfterFailure(s) == [task |-> task, loops |-> loops]

FailedCycle(s) ==
    /\ CycleFails(s)
    /\ Becomes(AfterFailure(s))
    /\ UNCHANGED <<enabled, slept, stop, late>>

Fail(s) == Interrupt(s) /\ UNCHANGED <<app, stop, late>>

\* An operator's pause or kill: it arrives, is handed to a worker when the
\* event loop is free, and commits.
PostStop ==
    /\ stop = "none" /\ system = "ONLINE"
    /\ stop' = "arrived"
    /\ UNCHANGED <<cvars, app, late>>

AcceptStop ==
    /\ stop = "arrived" /\ LoopFree
    /\ stop' = "accepted"
    /\ UNCHANGED <<cvars, app, late>>

CommitStop ==
    /\ stop = "accepted"
    /\ system' \in SystemStates \ {"ONLINE"}
    /\ stop' = "none"
    /\ UNCHANGED <<tables, today, sess, cyc, launched, postMortems, learned, switches, left,
                   app, late>>

\* start, resume or reset: the system is ONLINE again.
GoOnline ==
    /\ system # "ONLINE"
    /\ system' = "ONLINE" /\ late' = NoTrades
    /\ UNCHANGED <<tables, today, sess, cyc, launched, postMortems, learned, switches, left,
                   app, stop>>

\* An operator pauses or resumes a bot; running cycles do not see it.
SwitchBot == Switching /\ UNCHANGED <<app, stop, late>>

\* The request ends before its commit.
FailSwitch(o) ==
    /\ asked[o] # NoRequest
    /\ asked' = [asked EXCEPT ![o] = NoRequest]
    /\ UNCHANGED <<vars, cyc, launched, postMortems, learned, revived, left, app, stop, late>>

\* The process ends and begins again: cycles, requests and the switch as the
\* operator had set it are lost.
RestartServer ==
    /\ sess' = [s \in Sessions |-> Answered("none", EmptyCache)]
    /\ cyc' = [s \in Sessions |-> Off]
    /\ enabled' = EnabledAtStart /\ slept' = FALSE
    /\ Becomes(AtStart)
    /\ stop' = "none"
    /\ asked' = [o \in Operators |-> NoRequest]
    /\ UNCHANGED <<tables, system, today, launched, postMortems, learned, revived, left, late>>

AutoNext ==
    \/ \E on \in BOOLEAN : UpdateAutoTrading(on)
    \/ SleepOn
    \/ \E ts \in SUBSET Tokens : Tick(ts) \/ \E s \in Sessions : RunCycle(s, ts)
    \/ \E s \in Sessions : Work(s) \/ FailedCycle(s) \/ Fail(s)
    \/ PostStop \/ AcceptStop \/ CommitStop \/ GoOnline
    \/ SwitchBot \/ \E o \in Operators : FailSwitch(o)
    \/ RestartServer

\* A cycle is a function on a thread: once begun it goes on.  Between two
\* ticks the event loop takes what has arrived, and a worker commits it.  A sleep
\* that nobody cuts short comes to its end.
Fairness == /\ \A s \in Sessions : WF_avars(Work(s) \/ FailedCycle(s))
            /\ SF_avars(AcceptStop)
            /\ WF_avars(CommitStop)
            /\ WF_avars(SleepOn) /\ WF_avars(\E ts \in SUBSET Tokens : Tick(ts))

AutoSpec == AutoInit /\ [][AutoNext]_avars /\ Fairness

(***************************************************************************)
(* Properties.                                                             *)
(***************************************************************************)

\* The switch tells the truth: enabled, exactly one loop runs and it is the one
\* the next toggle will cancel; disabled, none does.  Toggles, restarts and
\* failed ticks leave it so ("Start the background loop now, if it isn't
\* already running", "a bad cycle must never take the whole server down",
\* api/app.py:54-61).
LoopMatchesSwitch == loops = IF enabled THEN {task} ELSE {}

\* After a stop has committed every running cycle commits at most the one order
\* it had already had approved, ticks and cycles by hand alike (RiskEngine's
\* first rule).
KillStopsTrading == \A s \in Sessions : late[s] <= 1

\* A stop that arrives while a tick holds the event loop is not lost: it commits
\* once the tick ends, unless the server restarts.
StopIsHeard == stop = "arrived" ~> stop = "none"

\* The loop goes on by itself: it takes every launch, unless it is switched off
\* again and again, or its sleep is begun anew by updates or restarts without
\* end.  Failed ticks, stops of the system and cycles by hand do not end it
\* ("will retry next tick", api/app.py:54-55; "Restart so a changed
\* interval/config takes effect immediately", api/routes/system.py:163-166).
LoopKeepsTicking ==
    \/ <>(launched = Tokens)
    \/ []<>~enabled
    \/ []<><<\E on \in BOOLEAN : UpdateAutoTrading(on)>>_avars
    \/ []<><<RestartServer>>_avars
=============================================================================
