------------------------------ MODULE Treasury ------------------------------
(***************************************************************************)
(* Activation of a bot (POST /api/bots/{id}/activate), its pause and       *)
(* resume, and the Mother Bot's loans: ThesisEngine, BotLoanEngine and the *)
(* handlers of api/routes/bots.py, each request in a session of its own    *)
(* and every commit a step of its own.  The trading cycle appears as the   *)
(* death of a bot that is or was ACTIVE.                                   *)
(*                                                                         *)
(* Activating commits the thesis four times on its way to INITIAL_TEST,    *)
(* asks for a loan of the fixed test capital, and only then makes the bot  *)
(* ACTIVE.  Rows nothing reads back (audit, lifecycle and funding events)  *)
(* are left out.  Amounts are integers of a small money unit.              *)
(***************************************************************************)
EXTENDS Integers, FiniteSets, Functions, Rows

CONSTANTS Sons, Mother,      \* bots
          Theses,            \* thesis identifiers, of one activation each
          Sessions,          \* request threads
          Payments,          \* <<principal, interest>> pairs that may be paid
          TestCapital,       \* initial_test_capital_usd
          MotherCapital,     \* what the Mother Bot was created with
          LoanPct,           \* mother_max_total_loan_pct_of_treasury
          NoBot, NoThesis

ASSUME TreasuryAssumption ==
    /\ TestCapital \in Nat \ {0} /\ MotherCapital \in Nat
    /\ LoanPct \in 0..100
    /\ Payments \subseteq Nat \X Nat
    /\ IsFiniteSet(Theses)
    /\ Mother \notin Sons /\ NoBot \notin Sons /\ NoThesis \notin Theses

VARIABLES bots,      \* committed rows of bots
          theses,    \* committed rows of theses
          loans,     \* committed rows of bot_loans, by the thesis they fund
          owed,      \* SUM(remaining_balance_usd) over the ACTIVE loans
          sess,      \* what each request is doing
          overlapped \* history: two requests that move money were at work at once

vars == <<bots, theses, loans, owed, sess>>
allVars == <<vars, overlapped>>
tables == <<bots, theses, loans, owed>>

BotStates == {"CREATED", "ACTIVE", "PAUSED", "DEAD"}
BotRow == [state : BotStates, capital : Int, borrowed : Int, tested : Nat]

ThesisStates == {"none", "RESEARCH", "BACKTEST", "PAPER", "INITIAL_TEST"}
ThesisRow == [state : ThesisStates, bot : Sons \cup {NoBot}, capital : Nat]
NoThesisRow == [state |-> "none", bot |-> NoBot, capital |-> 0]

LoanRow == [status : {"none", "ACTIVE", "PAID"}, bot : Sons \cup {NoBot},
            principal : Nat, remaining : Nat]
NoLoan == [status |-> "none", bot |-> NoBot, principal |-> 0, remaining |-> 0]

Phases == {"idle", "loaded", "advancing", "tested", "room", "lent",
           "pausing", "resuming", "paying"}
Session == [pc : Phases, bot : Sons \cup {NoBot}, thesis : Theses \cup {NoThesis},
            son : BotRow, mother : BotRow, loan : LoanRow,
            amount : {<<0, 0>>} \cup Payments]

Blank == [state |-> "CREATED", capital |-> 0, borrowed |-> 0, tested |-> 0]
Idle == [pc |-> "idle", bot |-> NoBot, thesis |-> NoThesis, son |-> Blank,
         mother |-> Blank, loan |-> NoLoan, amount |-> <<0, 0>>]

Init ==
    /\ bots = [b \in Sons \cup {Mother} |->
                 IF b = Mother THEN [Blank EXCEPT !.state = "ACTIVE",
                                                  !.capital = MotherCapital]
                               ELSE Blank]
    /\ theses = [t \in Theses |-> NoThesisRow]
    /\ loans = [t \in Theses |-> NoLoan]
    /\ owed = 0
    /\ sess = [s \in Sessions |-> Idle]
    /\ overlapped = FALSE

Become(s, x) == sess' = [sess EXCEPT ![s] = x]

(***************************************************************************)
(* Activation.                                                             *)
(***************************************************************************)
NothingRefused == {}
RefusedStates == {"DEAD"}

\* The handler loads the bot and its Mother.
BeginActivate(s, b) ==
    /\ sess[s].pc = "idle"
    /\ bots[b].state \notin RefusedStates
    /\ Become(s, [Idle EXCEPT !.pc = "loaded", !.bot = b, !.son = bots[b],
                              !.mother = bots[Mother]])
    /\ UNCHANGED tables

\* create_thesis.
CreateThesis(s, t) ==
    /\ sess[s].pc = "loaded"
    /\ theses[t].state = "none"
    /\ theses' = [theses EXCEPT ![t] = [state |-> "RESEARCH", bot |-> sess[s].bot,
                                        capital |-> 0]]
    /\ Become(s, [sess[s] EXCEPT !.pc = "advancing", !.thesis = t])
    /\ UNCHANGED <<bots, loans, owed>>

\* advance_to_backtest and advance_to_paper.
Following == [RESEARCH |-> "BACKTEST", BACKTEST |-> "PAPER"]

AdvanceThesis(s) ==
    LET t == sess[s].thesis IN
    /\ sess[s].pc = "advancing" /\ theses[t].state \in DOMAIN Following
    /\ theses' = [theses EXCEPT ![t].state = Following[@]]
    /\ UNCHANGED <<bots, loans, owed, sess>>

\* start_initial_test: the fixed capital is written on the thesis, before
\* anything has been lent.
StartInitialTest(s) ==
    LET x == sess[s]
        now == [x.son EXCEPT !.tested = @ + 1]
    IN /\ x.pc = "advancing" /\ theses[x.thesis].state = "PAPER"
       /\ theses' = [theses EXCEPT ![x.thesis].state = "INITIAL_TEST",
                                   ![x.thesis].capital = TestCapital]
       /\ bots' = [bots EXCEPT ![x.bot] = Flush(@, x.son, now)]
       /\ Become(s, [x EXCEPT !.pc = "tested", !.son = now])
       /\ UNCHANGED <<loans, owed>>

HasRoomForThisLoan(mother) == TestCapital * 100 <= mother.capital * LoanPct

\* create_loan's limit: a share of the capital the Mother has left.
HasRoom(mother) == (owed + TestCapital) * 100 <= mother.capital * LoanPct

CheckExposure(s) ==
    /\ sess[s].pc = "tested"
    /\ HasRoom(sess[s].mother)
    /\ Become(s, [sess[s] EXCEPT !.pc = "room"])
    /\ UNCHANGED tables

\* LoanExposureExceeded, answered 409: the thesis stays where it is.
RefuseLoan(s) ==
    /\ sess[s].pc = "tested"
    /\ ~HasRoom(sess[s].mother)
    /\ Become(s, Idle)
    /\ UNCHANGED tables

LentOffTheBooks(son) == [son EXCEPT !.capital = @ + TestCapital]
Lent(son) == [son EXCEPT !.capital = @ + TestCapital,
                         !.borrowed = @ + TestCapital]
Lending(mother) == [mother EXCEPT !.capital = @ - TestCapital]

\* What the exposure query counts of a loan.
CountedPrincipal(l) == IF l.status = "ACTIVE" THEN l.principal ELSE 0
Counted(l) == IF l.status = "ACTIVE" THEN l.remaining ELSE 0

SetLoan(t, l) == /\ loans' = [loans EXCEPT ![t] = l]
                 /\ owed' = owed - Counted(loans[t]) + Counted(l)

\* A loan that takes its amount off whatever the Mother has by then.
CommitLoanOffTheTable(s) ==
    LET x == sess[s] IN
    /\ x.pc = "room"
    /\ SetLoan(x.thesis, [status |-> "ACTIVE", bot |-> x.bot,
                          principal |-> TestCapital, remaining |-> TestCapital])
    /\ bots' = [bots EXCEPT ![x.bot] = Flush(@, x.son, Lent(x.son)),
                            ![Mother].capital = @ - TestCapital]
    /\ Become(s, [x EXCEPT !.pc = "lent", !.son = Lent(@), !.mother = Lending(@)])
    /\ UNCHANGED theses

CommitLoan(s) ==
    LET x == sess[s] IN
    /\ x.pc = "room"
    /\ SetLoan(x.thesis, [status |-> "ACTIVE", bot |-> x.bot,
                          principal |-> TestCapital, remaining |-> TestCapital])
    /\ bots' = [bots EXCEPT ![x.bot] = Flush(@, x.son, Lent(x.son)),
                            ![Mother] = Flush(@, x.mother, Lending(x.mother))]
    /\ Become(s, [x EXCEPT !.pc = "lent", !.son = Lent(@), !.mother = Lending(@)])
    /\ UNCHANGED theses

\* The state attribute of the session's bot, committed.
CommitState(s, state) ==
    LET x == sess[s] IN
    /\ bots' = [bots EXCEPT ![x.bot] = Flush(@, x.son, [x.son EXCEPT !.state = state])]
    /\ Become(s, Idle)
    /\ UNCHANGED <<theses, loans, owed>>

MakeActive(s) == sess[s].pc = "lent" /\ CommitState(s, "ACTIVE")

(***************************************************************************)
(* Pause and resume.                                                       *)
(***************************************************************************)
Begin(s, b, pc) ==
    /\ sess[s].pc = "idle"
    /\ Become(s, [Idle EXCEPT !.pc = pc, !.bot = b, !.son = bots[b]])
    /\ UNCHANGED tables

BeginPause(s, b) == bots[b].state \notin {"DEAD", "PAUSED"} /\ Begin(s, b, "pausing")
CommitPause(s) == sess[s].pc = "pausing" /\ CommitState(s, "PAUSED")

BeginResume(s, b) == bots[b].state = "PAUSED" /\ Begin(s, b, "resuming")
CommitResume(s) == sess[s].pc = "resuming" /\ CommitState(s, "ACTIVE")

(***************************************************************************)
(* record_payment, called by the settlement of a loan.                     *)
(***************************************************************************)
BeginPayment(s, t, amount) ==
    /\ sess[s].pc = "idle"
    /\ loans[t].status = "ACTIVE"
    /\ Become(s, [Idle EXCEPT !.pc = "paying", !.thesis = t, !.loan = loans[t],
                              !.mother = bots[Mother], !.amount = amount])
    /\ UNCHANGED tables

Left(l, principal) == IF principal < l.remaining THEN l.remaining - principal ELSE 0
Paid(l, principal) ==
    [l EXCEPT !.remaining = Left(l, principal),
              !.status = IF Left(l, principal) = 0 THEN "PAID" ELSE @]

CreditedInterest(amount) == amount[2]
Credited(amount) == amount[1] + amount[2]

\* The Mother is credited with the whole payment; no bot is debited.
CommitPayment(s) ==
    LET x == sess[s]
        credited == [x.mother EXCEPT !.capital = @ + Credited(x.amount)]
    IN /\ x.pc = "paying"
       /\ SetLoan(x.thesis, Flush(loans[x.thesis], x.loan, Paid(x.loan, x.amount[1])))
       /\ bots' = [bots EXCEPT ![Mother] = Flush(@, x.mother, credited)]
       /\ Become(s, Idle)
       /\ UNCHANGED theses

(***************************************************************************)
(* Failures and the trading cycle.                                         *)
(***************************************************************************)

\* A locked database or the end of the process: the rest does not happen.
Abort(s) ==
    /\ sess[s].pc # "idle"
    /\ Become(s, Idle)
    /\ UNCHANGED tables

\* MaximumLossPolicy.enforce in a trading cycle, which trades the bots it has loaded
\* while they were ACTIVE and does not see that one is PAUSED since.
Die(b) ==
    /\ bots[b].state \in {"ACTIVE", "PAUSED"}
    /\ bots' = [bots EXCEPT ![b].state = "DEAD"]
    /\ UNCHANGED <<theses, loans, owed, sess>>

Step(s) ==
    \/ \E b \in Sons : BeginActivate(s, b) \/ BeginPause(s, b) \/ BeginResume(s, b)
    \/ \E t \in Theses : \/ CreateThesis(s, t)
                         \/ \E amount \in Payments : BeginPayment(s, t, amount)
    \/ AdvanceThesis(s) \/ StartInitialTest(s)
    \/ CheckExposure(s) \/ RefuseLoan(s) \/ CommitLoan(s) \/ MakeActive(s)
    \/ CommitPause(s) \/ CommitResume(s) \/ CommitPayment(s)
    \/ Abort(s)

Act == (\E s \in Sessions : Step(s)) \/ \E b \in Sons : Die(b)

\* Activations and payments; a pause or a resume moves no money.
MovesMoney(s) == sess[s].pc \notin {"idle", "pausing", "resuming"}
Overlap == \E s, r \in Sessions : s # r /\ MovesMoney(s) /\ MovesMoney(r)

Next == Act /\ overlapped' = (overlapped \/ Overlap')

Spec == Init /\ [][Next]_allVars

(***************************************************************************)
(* Properties.                                                             *)
(***************************************************************************)

\* Type invariant.
RowsTyped ==
    /\ bots \in [Sons \cup {Mother} -> BotRow]
    /\ theses \in [Theses -> ThesisRow]
    /\ loans \in [Theses -> LoanRow]
    /\ owed \in Int
    /\ sess \in [Sessions -> Session]
TypeOK == RowsTyped /\ overlapped \in BOOLEAN

\* Outstanding loans never pass the configured share of the Mother's patrimony, what
\* she holds plus what she is owed, whatever is repaid ("can never have more than $200
\* outstanding", docs/PHASES.md:119-123).
WithinLimit == owed * 100 <= LoanPct * (bots[Mother].capital + owed)

\* So it is as long as no two activations or payments have overlapped, whatever
\* fails, dies, is paused or resumed beside them; two activations that do overlap
\* each find room for a loan (create_loan, line 60).
ExposureBounded == ~overlapped => WithinLimit

\* Lending never makes the Mother poorer: what she holds and what she is owed is at
\* least what she began with (create_loan and record_payment), as long as none of
\* them writes her capital from a row older than another's.
PatrimonyKept == ~overlapped => bots[Mother].capital + owed >= MotherCapital

\* The Mother is never overdrawn, however many activations overlap: each writes what
\* is left of the capital it has checked, so one that overwrites another's loan
\* loses it (create_loan, lines 59-92) and cannot take her below zero.
MotherSolvent == bots[Mother].capital >= 0

\* The exposure query sums the balances of the ACTIVE loans.
OwedIsTheSum ==
    owed = SumFunctionOnSet([t \in Theses |-> loans[t].remaining],
                            {t \in Theses : loans[t].status = "ACTIVE"})

\* A son's borrowed capital is the principal of its loans, each of exactly the
\* test capital and for a thesis of its own that has started.
LoansAccountedFor ==
    /\ \A t \in Theses : loans[t].status # "none" =>
          /\ loans[t].principal = TestCapital
          /\ theses[t].state = "INITIAL_TEST" /\ theses[t].bot = loans[t].bot
    /\ \A b \in Sons :
          bots[b].borrowed = SumFunctionOnSet([t \in Theses |-> loans[t].principal],
                                              {t \in Theses : loans[t].bot = b})

\* The books of the loans agree with each other, whatever is repaid and
\* wherever a call fails: no balance is below zero (the clamp of
\* engines/loan_engine.py:128), the exposure is their sum, and the sons have
\* borrowed the principals, as long as no two loans or payments have overlapped.
BooksOfLoans ==
    ~overlapped =>
    /\ \A t \in Theses : loans[t].remaining >= 0
    /\ OwedIsTheSum
    /\ LoansAccountedFor

\* A bot the cycle may trade, and no request is working on, has been funded
\* ("Active bots with a thesis that has actually started (spec section 10's $5
\* rule already funded it)", engines/autonomous_trading_cycle.py:87-88).
Tradeable(b) ==
    /\ bots[b].state = "ACTIVE"
    /\ \E t \in Theses : theses[t].bot = b /\ theses[t].state = "INITIAL_TEST"
TradeableIsFunded ==
    \A b \in Sons : (Tradeable(b) /\ \A s \in Sessions : sess[s].bot # b)
                        => bots[b].borrowed > 0

\* A dead bot comes back to life, or receives capital, only at the hand of a
\* request that had loaded it before it died ("Death blocks new trades, new
\* theses, transfers and capital increases", engines/max_loss_policy.py:2-4):
\* one that begins after the death never does, whatever it interleaves with.
Undone(b) == /\ bots[b].state = "DEAD"
             /\ bots'[b].state # "DEAD" \/ bots'[b].capital > bots[b].capital
DeathUndoneOnlyByRace ==
    [][\A b \in Sons : Undone(b) =>
          \E s \in Sessions : /\ sess'[s] # sess[s]
                              /\ sess[s].bot = b /\ sess[s].son.state # "DEAD"]_vars
=============================================================================
