--------------------------- MODULE TreasuryProofs ---------------------------
EXTENDS Treasury, Sums

(***************************************************************************)
(* Rows and arithmetic.                                                    *)
(***************************************************************************)
LEMMA FlushBotType ==
  ASSUME NEW row \in BotRow, NEW loaded \in BotRow, NEW now \in BotRow
  PROVE  /\ Flush(row, loaded, now) \in BotRow
         /\ Flush(row, loaded, now).capital \in {row.capital, now.capital}
BY DEF Flush, BotRow, BotStates

LEMMA FlushBotSame ==
  ASSUME NEW row \in BotRow, NEW now \in BotRow
  PROVE  Flush(row, row, now) = now
BY DEF Flush, BotRow, BotStates

LEMMA FlushLoanType ==
  ASSUME NEW row \in LoanRow, NEW loaded \in LoanRow, NEW now \in LoanRow
  PROVE  Flush(row, loaded, now) \in LoanRow
BY DEF Flush, LoanRow

LEMMA FlushLoanSame ==
  ASSUME NEW row \in LoanRow, NEW now \in LoanRow
  PROVE  Flush(row, row, now) = now
BY DEF Flush, LoanRow

LEMMA ProductNonneg ==
  ASSUME NEW p \in Nat, NEW a \in Nat
  PROVE  p * a >= 0
OBVIOUS

LEMMA ProductMonotone ==
  ASSUME NEW p \in Nat, NEW a \in Int, NEW b \in Int, a <= b
  PROVE  p * a <= p * b
<1>1. b - a \in Nat
  OBVIOUS
<1>2. p * (b - a) >= 0
  BY <1>1, ProductNonneg
<1>3. p * (b - a) = p * b - p * a
  OBVIOUS
<1> QED BY <1>2, <1>3

LEMMA CentsMonotone ==
  ASSUME NEW a \in Int, NEW b \in Int, a <= b
  PROVE  a * 100 <= b * 100
OBVIOUS

(***************************************************************************)
(* Types.  A request past its first step has its bot, and past the         *)
(* creation of the thesis its thesis.                                      *)
(***************************************************************************)
Working == {"advancing", "tested", "room", "lent"}
Activating == {"loaded"} \cup Working
Owning == {"advancing", "tested", "room"}

WellFormed(x) ==
  /\ x.pc \in Activating \cup {"pausing", "resuming"} => x.bot \in Sons
  /\ x.pc \in Working \cup {"paying"} => x.thesis \in Theses
  /\ x.pc = "paying" => x.amount \in Payments

IInv == RowsTyped /\ \A s \in Sessions : WellFormed(sess[s])

LEMMA Empty ==
  /\ Blank \in BotRow /\ NoLoan \in LoanRow /\ NoThesisRow \in ThesisRow
  /\ Idle \in Session /\ WellFormed(Idle)
<1>1. Blank \in BotRow
  BY DEF Blank, BotRow, BotStates
<1>2. NoLoan \in LoanRow
  BY DEF NoLoan, LoanRow
<1>3. NoThesisRow \in ThesisRow
  BY DEF NoThesisRow, ThesisRow, ThesisStates
<1>4. Idle \in Session
  BY <1>1, <1>2 DEF Idle, Session, Phases
<1>5. WellFormed(Idle)
  BY DEF Idle, WellFormed, Activating, Working
<1> QED BY <1>1, <1>2, <1>3, <1>4, <1>5

\* A request that moves on, writing no table.
LEMMA SessionStep ==
  ASSUME IInv, NEW s \in Sessions, NEW x \in Session, WellFormed(x),
         Become(s, x), UNCHANGED tables
  PROVE  IInv'
BY DEF IInv, RowsTyped, Become, tables

LEMMA SonTypes ==
  ASSUME NEW row \in BotRow
  PROVE  /\ Lent(row) \in BotRow /\ Lending(row) \in BotRow
         /\ Lent(row).capital = row.capital + TestCapital
         /\ Lending(row).capital = row.capital - TestCapital
         /\ Lending(row).state = row.state
         /\ [row EXCEPT !.tested = @ + 1] \in BotRow
         /\ \A state \in BotStates : [row EXCEPT !.state = state] \in BotRow
         /\ \A n \in Int : [row EXCEPT !.capital = @ + n] \in BotRow
<1>1. /\ row.capital + TestCapital \in Int /\ row.borrowed + TestCapital \in Int
      /\ row.capital - TestCapital \in Int /\ row.tested + 1 \in Nat
      /\ \A n \in Int : row.capital + n \in Int
  BY TreasuryAssumption DEF BotRow
<1> QED BY <1>1 DEF Lent, Lending, BotRow

LEMMA PaidTypes ==
  ASSUME NEW l \in LoanRow, NEW n \in Nat
  PROVE  /\ Left(l, n) \in Nat /\ Left(l, n) <= l.remaining
         /\ l.remaining - Left(l, n) <= n
         /\ Paid(l, n) \in LoanRow /\ Paid(l, n).remaining = Left(l, n)
         /\ Paid(l, n).status \in {l.status, "PAID"}
         /\ Paid(l, n).status = l.status \/ Left(l, n) = 0
<1>1. /\ Left(l, n) \in Nat /\ Left(l, n) <= l.remaining
      /\ l.remaining - Left(l, n) <= n
  BY DEF Left, LoanRow
<1> QED BY <1>1 DEF Paid, LoanRow

LEMMA CountedType ==
  ASSUME NEW l \in LoanRow
  PROVE  Counted(l) \in Nat
BY DEF Counted, LoanRow

LEMMA InitIInv == Init => IInv
<1> SUFFICES ASSUME Init PROVE IInv
  OBVIOUS
<1>1. [Blank EXCEPT !.state = "ACTIVE", !.capital = MotherCapital] \in BotRow
  <2>1. MotherCapital \in Int /\ "ACTIVE" \in BotStates
    BY TreasuryAssumption DEF BotStates
  <2> QED BY <2>1, Empty DEF BotRow
<1>2. bots \in [Sons \cup {Mother} -> BotRow]
  BY <1>1, Empty DEF Init
<1> QED BY <1>2, Empty DEF Init, IInv, RowsTyped

LEMMA StepIInv == IInv /\ [Act]_vars => IInv'
<1> SUFFICES ASSUME IInv, [Act]_vars PROVE IInv'
  OBVIOUS
<1>1. /\ bots \in [Sons \cup {Mother} -> BotRow] /\ bots[Mother] \in BotRow
      /\ \A b \in Sons : bots[b] \in BotRow
      /\ \A s \in Sessions : sess[s] \in Session /\ WellFormed(sess[s])
      /\ Idle \in Session /\ WellFormed(Idle)
  BY Empty DEF IInv, RowsTyped
<1>2. ASSUME NEW s \in Sessions, NEW b \in Sons, BeginActivate(s, b)
      PROVE  IInv'
  <2> DEFINE x == [Idle EXCEPT !.pc = "loaded", !.bot = b, !.son = bots[b],
                               !.mother = bots[Mother]]
  <2>1. x \in Session /\ WellFormed(x)
    BY <1>1, Empty DEF Idle, Session, Phases, WellFormed, Activating, Working
  <2> QED BY <1>2, <2>1, SessionStep DEF BeginActivate
<1>3. ASSUME NEW s \in Sessions, NEW b \in Sons, BeginPause(s, b) \/ BeginResume(s, b)
      PROVE  IInv'
  <2>1. PICK pc \in {"pausing", "resuming"} : Begin(s, b, pc)
    BY <1>3 DEF BeginPause, BeginResume
  <2> DEFINE x == [Idle EXCEPT !.pc = pc, !.bot = b, !.son = bots[b]]
  <2>2. x \in Session /\ WellFormed(x)
    BY <1>1, Empty DEF Idle, Session, Phases, WellFormed, Activating, Working
  <2> QED BY <2>1, <2>2, SessionStep DEF Begin
<1>4. ASSUME NEW s \in Sessions, NEW t \in Theses, CreateThesis(s, t)
      PROVE  IInv'
  <2> DEFINE x == [sess[s] EXCEPT !.pc = "advancing", !.thesis = t]
             row == [state |-> "RESEARCH", bot |-> sess[s].bot, capital |-> 0]
  <2>1. sess[s].bot \in Sons
    BY <1>1, <1>4 DEF CreateThesis, WellFormed, Activating
  <2>2. x \in Session /\ WellFormed(x) /\ row \in ThesisRow
    BY <1>1, <2>1 DEF Session, Phases, WellFormed, Activating, Working, ThesisRow,
                      ThesisStates
  <2> QED BY <1>4, <2>2 DEF CreateThesis, Become, IInv, RowsTyped
<1>5. ASSUME NEW s \in Sessions, AdvanceThesis(s)
      PROVE  IInv'
  <2> DEFINE t == sess[s].thesis
  <2>1. /\ t \in Theses /\ theses[t] \in ThesisRow
        /\ theses[t].state \in {"RESEARCH", "BACKTEST"}
    BY <1>1, <1>5 DEF AdvanceThesis, WellFormed, Working, IInv, RowsTyped, Following
  <2>2. Following[theses[t].state] \in ThesisStates
    BY <2>1 DEF Following, ThesisStates
  <2>3. [theses[t] EXCEPT !.state = Following[theses[t].state]] \in ThesisRow
    BY <2>1, <2>2 DEF ThesisRow
  <2>4. theses' = [theses EXCEPT ![t] = [theses[t] EXCEPT !.state = Following[theses[t].state]]]
    BY <1>5, <2>1 DEF AdvanceThesis, IInv, RowsTyped
  <2> QED BY <1>5, <2>3, <2>4 DEF AdvanceThesis, IInv, RowsTyped
<1>6. ASSUME NEW s \in Sessions, StartInitialTest(s)
      PROVE  IInv'
  <2> DEFINE x == sess[s]
             now == [x.son EXCEPT !.tested = @ + 1]
             y == [x EXCEPT !.pc = "tested", !.son = now]
  <2>1. x.thesis \in Theses /\ x.bot \in Sons /\ x.son \in BotRow
    BY <1>1, <1>6 DEF StartInitialTest, WellFormed, Activating, Working, Session
  <2>2. now \in BotRow
    BY <2>1, SonTypes
  <2> HIDE DEF now
  <2>3. y \in Session /\ WellFormed(y)
    BY <1>1, <2>1, <2>2 DEF Session, Phases, WellFormed, Activating, Working
  <2>4. Flush(bots[x.bot], x.son, now) \in BotRow
    BY <1>1, <2>1, <2>2, FlushBotType
  <2>5. bots' \in [Sons \cup {Mother} -> BotRow]
    BY <1>1, <1>6, <2>4 DEF StartInitialTest, now
  <2>6. theses' \in [Theses -> ThesisRow]
    <3>1. theses[x.thesis] \in ThesisRow
      BY <2>1 DEF IInv, RowsTyped
    <3>2. [theses[x.thesis] EXCEPT !.state = "INITIAL_TEST", !.capital = TestCapital]
             \in ThesisRow
      BY <3>1, TreasuryAssumption DEF ThesisRow, ThesisStates
    <3>3. theses' = [theses EXCEPT ![x.thesis] =
                       [@ EXCEPT !.state = "INITIAL_TEST", !.capital = TestCapital]]
      BY <1>6, <3>1 DEF StartInitialTest, ThesisRow
    <3> QED BY <3>2, <3>3 DEF IInv, RowsTyped
  <2> QED BY <1>6, <2>3, <2>5, <2>6 DEF StartInitialTest, Become, IInv, RowsTyped, now
<1>7. ASSUME NEW s \in Sessions, CheckExposure(s)
      PROVE  IInv'
  <2> DEFINE x == [sess[s] EXCEPT !.pc = "room"]
  <2>1. x \in Session /\ WellFormed(x)
    BY <1>1, <1>7 DEF CheckExposure, Session, Phases, WellFormed, Activating, Working
  <2> QED BY <1>7, <2>1, SessionStep DEF CheckExposure
<1>8. ASSUME NEW s \in Sessions, RefuseLoan(s) \/ Abort(s)
      PROVE  IInv'
  BY <1>1, <1>8, SessionStep DEF RefuseLoan, Abort
<1>9. ASSUME NEW s \in Sessions, CommitLoan(s)
      PROVE  IInv'
  <2> DEFINE x == sess[s]
             l == [status |-> "ACTIVE", bot |-> x.bot, principal |-> TestCapital,
                   remaining |-> TestCapital]
             y == [x EXCEPT !.pc = "lent", !.son = Lent(@), !.mother = Lending(@)]
  <2>1. /\ x.thesis \in Theses /\ x.bot \in Sons /\ x.son \in BotRow
        /\ x.mother \in BotRow
    BY <1>1, <1>9 DEF CommitLoan, WellFormed, Activating, Working, Session
  <2>2. Lent(x.son) \in BotRow /\ Lending(x.mother) \in BotRow
    BY <2>1, SonTypes
  <2>3. y \in Session /\ WellFormed(y)
    BY <1>1, <2>1, <2>2 DEF Session, Phases, WellFormed, Activating, Working
  <2>4. /\ Flush(bots[x.bot], x.son, Lent(x.son)) \in BotRow
        /\ Flush(bots[Mother], x.mother, Lending(x.mother)) \in BotRow
    BY <1>1, <2>1, <2>2, FlushBotType
  <2>5. bots' \in [Sons \cup {Mother} -> BotRow]
    BY <1>1, <1>9, <2>1, <2>4, TreasuryAssumption DEF CommitLoan
  <2>6. l \in LoanRow
    BY <2>1, TreasuryAssumption DEF LoanRow
  <2>7. loans' \in [Theses -> LoanRow] /\ owed' \in Int
    BY <1>9, <2>1, <2>6, CountedType DEF CommitLoan, SetLoan, IInv, RowsTyped
  <2> QED BY <1>9, <2>3, <2>5, <2>7 DEF CommitLoan, Become, IInv, RowsTyped
<1>10. ASSUME NEW s \in Sessions, MakeActive(s) \/ CommitPause(s) \/ CommitResume(s)
       PROVE  IInv'
  <2>1. PICK state \in BotStates : CommitState(s, state)
    BY <1>10 DEF MakeActive, CommitPause, CommitResume, BotStates
  <2> DEFINE x == sess[s]
             now == [x.son EXCEPT !.state = state]
  <2>2. x.bot \in Sons /\ x.son \in BotRow
    BY <1>1, <1>10 DEF MakeActive, CommitPause, CommitResume, WellFormed, Activating,
                       Working, Session
  <2>3. now \in BotRow
    BY <2>2, SonTypes
  <2>4. Flush(bots[x.bot], x.son, now) \in BotRow
    BY <1>1, <2>2, <2>3, FlushBotType
  <2>5. bots' \in [Sons \cup {Mother} -> BotRow]
    BY <1>1, <2>1, <2>4 DEF CommitState
  <2> QED BY <1>1, <2>1, <2>5 DEF CommitState, Become, IInv, RowsTyped
<1>11. ASSUME NEW s \in Sessions, NEW t \in Theses, NEW amount \in Payments,
              BeginPayment(s, t, amount)
       PROVE  IInv'
  <2> DEFINE x == [Idle EXCEPT !.pc = "paying", !.thesis = t, !.loan = loans[t],
                               !.mother = bots[Mother], !.amount = amount]
  <2>1. x \in Session /\ WellFormed(x)
    BY <1>1, Empty DEF Idle, Session, Phases, WellFormed, Activating, Working, IInv, RowsTyped
  <2> QED BY <1>11, <2>1, SessionStep DEF BeginPayment
<1>12. ASSUME NEW s \in Sessions, CommitPayment(s)
       PROVE  IInv'
  <2> DEFINE x == sess[s]
             n == Credited(x.amount)
             credited == [x.mother EXCEPT !.capital = @ + n]
             l == Flush(loans[x.thesis], x.loan, Paid(x.loan, x.amount[1]))
  <2>1. /\ x.thesis \in Theses /\ x.amount \in Payments /\ x.mother \in BotRow
        /\ x.loan \in LoanRow /\ x.pc = "paying"
    BY <1>1, <1>12 DEF CommitPayment, WellFormed, Session
  <2>2. n \in Int /\ x.amount[1] \in Nat
    BY <2>1, TreasuryAssumption DEF Credited
  <2> HIDE DEF n
  <2>3. credited \in BotRow
    BY <2>1, <2>2, SonTypes
  <2>4. Flush(bots[Mother], x.mother, credited) \in BotRow
    BY <1>1, <2>1, <2>3, FlushBotType
  <2>5. l \in LoanRow
    BY <2>1, <2>2, PaidTypes, FlushLoanType DEF IInv, RowsTyped
  <2>6. loans' \in [Theses -> LoanRow] /\ owed' \in Int
    BY <1>12, <2>1, <2>5, CountedType DEF CommitPayment, SetLoan, IInv, RowsTyped
  <2>7. bots' \in [Sons \cup {Mother} -> BotRow]
    BY <1>1, <1>12, <2>4 DEF CommitPayment, n
  <2> QED BY <1>1, <1>12, <2>6, <2>7 DEF CommitPayment, Become, IInv, RowsTyped
<1>13. ASSUME NEW b \in Sons, Die(b)
       PROVE  IInv'
  <2>1. [bots[b] EXCEPT !.state = "DEAD"] \in BotRow
    BY <1>1, SonTypes DEF BotStates
  <2>2. bots' \in [Sons \cup {Mother} -> BotRow]
    BY <1>1, <1>13, <2>1 DEF Die
  <2> QED BY <1>13, <2>2 DEF Die, IInv, RowsTyped
<1>14. CASE UNCHANGED vars
  BY <1>14 DEF vars, IInv, RowsTyped
<1> QED
  BY <1>2, <1>3, <1>4, <1>5, <1>6, <1>7, <1>8, <1>9, <1>10, <1>11, <1>12, <1>13,
     <1>14 DEF Act, Step

\* What the requests do is a step of the rows and sessions.
LEMMA Acts == [Next]_allVars => [Act]_vars
BY DEF Next, allVars

\* However many requests overlap, and whatever is paid, every row of bots,
\* theses and loans keeps its type, and so does what each request remembers
\* (all handlers).
THEOREM Invariance == Spec => []IInv
BY InitIInv, StepIInv, Acts, PTL DEF Spec

THEOREM TypeCorrect == Spec => []TypeOK
<1> DEFINE Flag == overlapped \in BOOLEAN
<1>1. Init => Flag
  BY DEF Init
<1>2. Flag /\ [Next]_allVars => Flag'
  <2>1. CASE Next
    <3>1. overlapped' = (overlapped \/ Overlap')
      BY <2>1 DEF Next
    <3>2. (overlapped \/ Overlap') \in BOOLEAN
      OBVIOUS
    <3> QED BY <3>1, <3>2
  <2>2. CASE UNCHANGED allVars
    BY <2>2 DEF allVars
  <2> QED BY <2>1, <2>2
<1>3. IInv /\ Flag => TypeOK
  BY DEF IInv, TypeOK
<1> QED BY <1>1, <1>2, <1>3, Invariance, PTL DEF Spec

(***************************************************************************)
(* Deaths.  No request holds a dead row: it loaded the bot alive, and none *)
(* writes DEAD.                                                            *)
(***************************************************************************)
LiveHeld == \A s \in Sessions : sess[s].son.state # "DEAD"

LEMMA InitLiveHeld == Init => LiveHeld
BY DEF Init, LiveHeld, Idle, Blank

\* A request that moves on holding a row that is not dead.
LEMMA HoldsLive ==
  ASSUME IInv, LiveHeld, NEW s \in Sessions, NEW x, Become(s, x),
         x.son.state # "DEAD"
  PROVE  LiveHeld'
BY DEF IInv, RowsTyped, Become, LiveHeld

LEMMA StepLiveHeld == IInv /\ LiveHeld /\ [Act]_vars => LiveHeld'
<1> SUFFICES ASSUME IInv, LiveHeld, [Act]_vars PROVE LiveHeld'
  OBVIOUS
<1>1. /\ Idle.son.state # "DEAD"
      /\ \A s \in Sessions : /\ sess[s] \in Session /\ sess[s].son \in BotRow
                             /\ sess[s].son.state # "DEAD"
  BY DEF Idle, Blank, IInv, RowsTyped, Session, LiveHeld
<1>2. ASSUME NEW s \in Sessions, NEW b \in Sons, BeginActivate(s, b)
      PROVE  LiveHeld'
  <2> DEFINE x == [Idle EXCEPT !.pc = "loaded", !.bot = b, !.son = bots[b],
                               !.mother = bots[Mother]]
  <2>1. x.son.state # "DEAD"
    BY <1>2 DEF BeginActivate, RefusedStates, Idle
  <2> QED BY <1>2, <2>1, HoldsLive DEF BeginActivate
<1>3. ASSUME NEW s \in Sessions, NEW b \in Sons, BeginPause(s, b) \/ BeginResume(s, b)
      PROVE  LiveHeld'
  <2>1. PICK pc \in {"pausing", "resuming"} : Begin(s, b, pc)
    BY <1>3 DEF BeginPause, BeginResume
  <2> DEFINE x == [Idle EXCEPT !.pc = pc, !.bot = b, !.son = bots[b]]
  <2>2. x.son.state # "DEAD"
    BY <1>3 DEF BeginPause, BeginResume, Idle
  <2> QED BY <2>1, <2>2, HoldsLive DEF Begin
<1>4. ASSUME NEW s \in Sessions, NEW t \in Theses, CreateThesis(s, t)
      PROVE  LiveHeld'
  <2> DEFINE x == [sess[s] EXCEPT !.pc = "advancing", !.thesis = t]
  <2>1. x.son.state # "DEAD"
    BY <1>1 DEF Session
  <2> QED BY <1>4, <2>1, HoldsLive DEF CreateThesis
<1>5. ASSUME NEW s \in Sessions, StartInitialTest(s)
      PROVE  LiveHeld'
  <2> DEFINE now == [sess[s].son EXCEPT !.tested = @ + 1]
             x == [sess[s] EXCEPT !.pc = "tested", !.son = now]
  <2>1. x.son.state # "DEAD"
    BY <1>1 DEF Session, BotRow
  <2> QED BY <1>5, <2>1, HoldsLive DEF StartInitialTest
<1>6. ASSUME NEW s \in Sessions, CheckExposure(s)
      PROVE  LiveHeld'
  <2> DEFINE x == [sess[s] EXCEPT !.pc = "room"]
  <2>1. x.son.state # "DEAD"
    BY <1>1 DEF Session
  <2> QED BY <1>6, <2>1, HoldsLive DEF CheckExposure
<1>7. ASSUME NEW s \in Sessions, CommitLoan(s)
      PROVE  LiveHeld'
  <2> DEFINE x == [sess[s] EXCEPT !.pc = "lent", !.son = Lent(@),
                                  !.mother = Lending(@)]
  <2>1. x.son.state # "DEAD"
    BY <1>1 DEF Session, Lent, BotRow
  <2> QED BY <1>7, <2>1, HoldsLive DEF CommitLoan
<1>8. ASSUME NEW s \in Sessions,
             \/ RefuseLoan(s) \/ Abort(s) \/ CommitPayment(s)
             \/ MakeActive(s) \/ CommitPause(s) \/ CommitResume(s)
      PROVE  LiveHeld'
  BY <1>1, <1>8, HoldsLive DEF RefuseLoan, Abort, CommitPayment, MakeActive, CommitPause,
                              CommitResume, CommitState
<1>9. ASSUME NEW s \in Sessions, NEW t \in Theses, NEW amount \in Payments,
             BeginPayment(s, t, amount)
      PROVE  LiveHeld'
  <2> DEFINE x == [Idle EXCEPT !.pc = "paying", !.thesis = t, !.loan = loans[t],
                               !.mother = bots[Mother], !.amount = amount]
  <2>1. x.son.state # "DEAD"
    BY <1>1 DEF Idle
  <2> QED BY <1>9, <2>1, HoldsLive DEF BeginPayment
<1>10. ASSUME UNCHANGED sess
       PROVE  LiveHeld'
  BY <1>10 DEF LiveHeld
<1> QED
  BY <1>2, <1>3, <1>4, <1>5, <1>6, <1>7, <1>8, <1>9, <1>10
     DEF Act, Step, AdvanceThesis, Die, vars

\* A step that undoes a death is one of a request for that bot, and moves the
\* request on.
LEMMA WhoMoved ==
  ASSUME IInv, [Act]_vars, NEW b \in Sons, Undone(b)
  PROVE  \E s \in Sessions : sess'[s] # sess[s] /\ sess[s].bot = b
<1>1. /\ bots[b] \in BotRow /\ bots'[b] # bots[b] /\ b # Mother
      /\ bots = [a \in Sons \cup {Mother} |-> bots[a]]
      /\ \A s \in Sessions : sess[s] \in Session
      /\ sess = [s \in Sessions |-> sess[s]]
  BY TreasuryAssumption DEF IInv, RowsTyped, Undone, BotRow
<1>2. ASSUME NEW s \in Sessions, NEW x, Become(s, x), x.pc # sess[s].pc,
             sess[s].bot = b
      PROVE  sess'[s] # sess[s] /\ sess[s].bot = b
  BY <1>1, <1>2 DEF Become
<1>3. ASSUME NEW s \in Sessions, StartInitialTest(s)
      PROVE  sess'[s] # sess[s] /\ sess[s].bot = b
  <2> DEFINE x == [sess[s] EXCEPT !.pc = "tested",
                                  !.son = [sess[s].son EXCEPT !.tested = @ + 1]]
  <2>1. sess[s].bot = b
    BY <1>1, <1>3 DEF StartInitialTest
  <2>2. x.pc # sess[s].pc
    BY <1>1, <1>3 DEF StartInitialTest, Session
  <2> QED BY <1>2, <1>3, <2>1, <2>2 DEF StartInitialTest
<1>4. ASSUME NEW s \in Sessions, CommitLoan(s)
      PROVE  sess'[s] # sess[s] /\ sess[s].bot = b
  <2> DEFINE x == [sess[s] EXCEPT !.pc = "lent", !.son = Lent(@),
                                  !.mother = Lending(@)]
  <2>1. sess[s].bot = b
    BY <1>1, <1>4 DEF CommitLoan
  <2>2. x.pc # sess[s].pc
    BY <1>1, <1>4 DEF CommitLoan, Session
  <2> QED BY <1>2, <1>4, <2>1, <2>2 DEF CommitLoan
<1>5. ASSUME NEW s \in Sessions, MakeActive(s) \/ CommitPause(s) \/ CommitResume(s)
      PROVE  sess'[s] # sess[s] /\ sess[s].bot = b
  <2>1. PICK state \in BotStates : CommitState(s, state)
    BY <1>5 DEF MakeActive, CommitPause, CommitResume, BotStates
  <2>2. sess[s].bot = b
    BY <1>1, <2>1 DEF CommitState
  <2>3. Idle.pc # sess[s].pc
    BY <1>5 DEF MakeActive, CommitPause, CommitResume, Idle
  <2> QED BY <1>2, <2>1, <2>2, <2>3 DEF CommitState
<1>6. ASSUME NEW s \in Sessions, CommitPayment(s)
      PROVE  FALSE
  BY <1>1, <1>6 DEF CommitPayment
<1>7. ASSUME NEW a \in Sons, Die(a)
      PROVE  FALSE
  <2>1. a # b
    BY <1>7 DEF Die, Undone
  <2> QED BY <1>1, <1>7, <2>1 DEF Die
<1>8. bots' # bots
  BY <1>1
<1> QED
  BY <1>3, <1>4, <1>5, <1>6, <1>7, <1>8
     DEF Act, Step, vars, tables, BeginActivate, BeginPause, BeginResume, Begin,
         CreateThesis, AdvanceThesis, CheckExposure, RefuseLoan, BeginPayment, Abort

\* However many requests overlap, a dead bot comes back to life or receives
\* capital only from a request that had loaded it alive (the checks of DEAD in
\* activate_bot, pause_bot and create_loan).
THEOREM DeathStands == Spec => DeathUndoneOnlyByRace
<1>1. IInv /\ LiveHeld /\ [Act]_vars
        => [\A b \in Sons : Undone(b) =>
              \E s \in Sessions : /\ sess'[s] # sess[s]
                                  /\ sess[s].bot = b /\ sess[s].son.state # "DEAD"]_vars
  BY WhoMoved DEF LiveHeld
<1> QED BY <1>1, Invariance, InitLiveHeld, StepLiveHeld, Acts, PTL
           DEF Spec, DeathUndoneOnlyByRace

(***************************************************************************)
(* Which request a thesis belongs to until it is funded.                   *)
(***************************************************************************)
Ownership ==
  /\ \A t \in Theses : theses[t].state = "none" => loans[t].status = "none"
  /\ \A s \in Sessions : sess[s].pc \in Owning =>
        /\ theses[sess[s].thesis].state # "none"
        /\ loans[sess[s].thesis].status = "none"
  /\ \A s, r \in Sessions : (s # r /\ sess[s].pc \in Owning /\ sess[r].pc \in Owning)
        => sess[s].thesis # sess[r].thesis
  /\ \A s \in Sessions : sess[s].pc = "paying" =>
        /\ sess[s].loan.status = "ACTIVE"
        /\ loans[sess[s].thesis].status # "none"

LEMMA InitOwnership == Init => Ownership
BY DEF Init, Ownership, NoThesisRow, NoLoan, Idle, Owning

\* A request that takes no thesis over, and leaves theses and loans alone.
LEMMA OwnershipKept ==
  ASSUME Ownership, IInv, NEW s \in Sessions, NEW x \in Session, Become(s, x),
         x.pc \in Owning => sess[s].pc \in Owning /\ x.thesis = sess[s].thesis,
         x.pc = "paying" => x.loan.status = "ACTIVE" /\ loans[x.thesis].status # "none",
         UNCHANGED <<theses, loans>>
  PROVE  Ownership'
BY DEF Ownership, IInv, RowsTyped, Become

LEMMA StepOwnership == IInv /\ Ownership /\ [Act]_vars => Ownership'
<1> SUFFICES ASSUME IInv, Ownership, [Act]_vars PROVE Ownership'
  OBVIOUS
<1>1. /\ \A s \in Sessions : sess[s] \in Session /\ WellFormed(sess[s])
      /\ IInv' /\ sess \in [Sessions -> Session] /\ sess' \in [Sessions -> Session]
      /\ Idle \in Session /\ Idle.pc = "idle"
  BY StepIInv, Empty DEF IInv, RowsTyped, Idle
<1>2. ASSUME NEW s \in Sessions,
             (\E b \in Sons : BeginActivate(s, b) \/ BeginPause(s, b) \/ BeginResume(s, b))
             \/ (\E t \in Theses, amount \in Payments : BeginPayment(s, t, amount))
             \/ CheckExposure(s) \/ RefuseLoan(s) \/ Abort(s)
      PROVE  Ownership'
  <2> DEFINE Fine(x) == /\ x.pc \in Owning => sess[s].pc \in Owning /\ x.thesis = sess[s].thesis
                        /\ x.pc = "paying" => /\ x.loan.status = "ACTIVE"
                                              /\ loans[x.thesis].status # "none"
  <2>1. PICK x : sess' = [sess EXCEPT ![s] = x]
    BY <1>2 DEF BeginActivate, BeginPause, BeginResume, Begin, BeginPayment,
       CheckExposure, RefuseLoan, Abort, Become
  <2>2. x = sess'[s] /\ x \in Session
    BY <1>1, <2>1
  <2>3. UNCHANGED <<theses, loans>>
    BY <1>2 DEF BeginActivate, BeginPause, BeginResume, Begin, BeginPayment,
       CheckExposure, RefuseLoan, Abort, tables
  <2>4. ASSUME NEW b \in Sons, BeginActivate(s, b)
        PROVE  sess'[s].pc = "loaded"
    BY <1>1, <2>4 DEF BeginActivate, Become, Idle
  <2>5. ASSUME NEW b \in Sons, BeginPause(s, b) \/ BeginResume(s, b)
        PROVE  sess'[s].pc \in {"pausing", "resuming"}
    BY <1>1, <2>5 DEF BeginPause, BeginResume, Begin, Become, Idle
  <2>6. ASSUME NEW t \in Theses, NEW amount \in Payments, BeginPayment(s, t, amount)
        PROVE  /\ sess'[s].pc = "paying" /\ sess'[s].loan = loans[t]
               /\ sess'[s].thesis = t /\ loans[t].status = "ACTIVE"
    BY <1>1, <2>6 DEF BeginPayment, Become, Idle
  <2>7. CASE CheckExposure(s)
    <3>1. /\ sess'[s].pc = "room" /\ sess'[s].thesis = sess[s].thesis
          /\ sess[s].pc = "tested"
      BY <1>1, <2>7 DEF CheckExposure, Become, Session
    <3> QED BY <2>1, <2>2, <2>3, <3>1, OwnershipKept DEF Become, Owning
  <2>8. CASE RefuseLoan(s) \/ Abort(s)
    BY <1>1, <2>1, <2>2, <2>3, <2>8, OwnershipKept DEF RefuseLoan, Abort, Become, Owning
  <2>9. ASSUME Fine(sess'[s]) PROVE Ownership'
    BY <2>1, <2>2, <2>3, <2>9, OwnershipKept DEF Become
  <2> QED BY <1>2, <2>4, <2>5, <2>6, <2>7, <2>8, <2>9 DEF Owning
<1>3. ASSUME NEW s \in Sessions, NEW t \in Theses, CreateThesis(s, t)
      PROVE  Ownership'
  <2>1. /\ theses[t].state = "none" /\ theses'[t].state = "RESEARCH"
        /\ \A u \in Theses \ {t} : theses'[u] = theses[u]
        /\ sess'[s].thesis = t /\ sess'[s].pc = "advancing"
        /\ \A r \in Sessions \ {s} : sess'[r] = sess[r]
        /\ loans' = loans
    BY <1>1, <1>3 DEF CreateThesis, Become, IInv, RowsTyped, Session
  <2>2. \A r \in Sessions : sess[r].pc \in Owning => sess[r].thesis # t /\ sess[r].thesis \in Theses
    BY <1>1, <2>1 DEF Ownership, WellFormed, Owning, Working
  <2> QED BY <2>1, <2>2 DEF Ownership
<1>4. ASSUME NEW s \in Sessions, AdvanceThesis(s)
      PROVE  Ownership'
  <2>1. sess[s].thesis \in Theses
    BY <1>1, <1>4 DEF AdvanceThesis, WellFormed, Working
  <2>2. theses[sess[s].thesis] \in ThesisRow
    BY <2>1 DEF IInv, RowsTyped
  <2>3. /\ theses'[sess[s].thesis].state # "none" /\ theses[sess[s].thesis].state # "none"
        /\ \A u \in Theses \ {sess[s].thesis} : theses'[u] = theses[u]
        /\ UNCHANGED <<sess, loans>>
    BY <1>4, <2>1, <2>2 DEF AdvanceThesis, IInv, RowsTyped, Following, ThesisRow
  <2> QED BY <1>1, <2>1, <2>3 DEF Ownership, WellFormed, Owning, Working
<1>5. ASSUME NEW s \in Sessions, StartInitialTest(s)
      PROVE  Ownership'
  <2>1. sess[s].thesis \in Theses /\ sess[s].pc = "advancing"
    BY <1>1, <1>5 DEF StartInitialTest, WellFormed, Working
  <2>2. theses[sess[s].thesis] \in ThesisRow
    BY <2>1 DEF IInv, RowsTyped
  <2>3. /\ theses'[sess[s].thesis].state = "INITIAL_TEST"
        /\ theses[sess[s].thesis].state = "PAPER"
        /\ \A u \in Theses \ {sess[s].thesis} : theses'[u] = theses[u]
        /\ sess'[s].thesis = sess[s].thesis /\ sess'[s].pc = "tested"
        /\ \A r \in Sessions \ {s} : sess'[r] = sess[r]
        /\ loans' = loans
    BY <1>1, <1>5, <2>1, <2>2 DEF StartInitialTest, Become, IInv, RowsTyped, ThesisRow, Session
  <2> QED BY <1>1, <2>1, <2>3 DEF Ownership, WellFormed, Owning, Working
<1>6. ASSUME NEW s \in Sessions, CommitLoan(s)
      PROVE  Ownership'
  <2>1. sess[s].thesis \in Theses /\ sess[s].pc = "room" /\ sess[s].pc \in Owning
    BY <1>1, <1>6 DEF CommitLoan, WellFormed, Working, Owning
  <2>2. /\ \A u \in Theses \ {sess[s].thesis} : loans'[u] = loans[u]
        /\ loans'[sess[s].thesis].status = "ACTIVE"
        /\ sess'[s].pc = "lent"
        /\ \A r \in Sessions \ {s} : sess'[r] = sess[r]
        /\ theses' = theses
    BY <1>1, <1>6, <2>1 DEF CommitLoan, SetLoan, Become, IInv, RowsTyped, Session
  <2> QED BY <1>1, <2>1, <2>2 DEF Ownership, WellFormed, Owning, Working
<1>7. ASSUME NEW s \in Sessions, MakeActive(s) \/ CommitPause(s) \/ CommitResume(s)
      PROVE  Ownership'
  <2>1. Become(s, Idle) /\ UNCHANGED <<theses, loans>>
    BY <1>7 DEF MakeActive, CommitPause, CommitResume, CommitState
  <2> QED BY <1>1, <2>1, OwnershipKept DEF Owning
<1>8. ASSUME NEW s \in Sessions, CommitPayment(s)
      PROVE  Ownership'
  <2> DEFINE x == sess[s]
             now == Paid(x.loan, x.amount[1])
  <2>1. /\ x.thesis \in Theses /\ x.pc = "paying" /\ x.loan \in LoanRow
        /\ x.amount \in Payments /\ loans[x.thesis] \in LoanRow
    BY <1>1, <1>8 DEF CommitPayment, WellFormed, Session, IInv, RowsTyped
  <2>2. x.amount[1] \in Nat
    BY <2>1, TreasuryAssumption
  <2>3. now \in LoanRow /\ now.status # "none"
    BY <2>1, <2>2, PaidTypes DEF Ownership
  <2>4. Flush(loans[x.thesis], x.loan, now).status # "none"
    <3> HIDE DEF now
    <3> QED BY <2>1, <2>3 DEF Flush, LoanRow, Ownership
  <2>5. /\ loans'[x.thesis].status # "none" /\ loans[x.thesis].status # "none"
        /\ \A u \in Theses \ {x.thesis} : loans'[u] = loans[u]
        /\ sess'[s] = Idle
        /\ \A r \in Sessions \ {s} : sess'[r] = sess[r]
        /\ theses' = theses
    BY <1>1, <1>8, <2>1, <2>4 DEF CommitPayment, SetLoan, Become, IInv, RowsTyped, Ownership
  <2> QED BY <1>1, <2>1, <2>5 DEF Ownership, WellFormed, Owning, Working
<1>9. ASSUME NEW b \in Sons, Die(b)
      PROVE  Ownership'
  BY <1>9 DEF Die, Ownership
<1>10. CASE UNCHANGED vars
  BY <1>10 DEF vars, Ownership
<1> QED
  BY <1>2, <1>3, <1>4, <1>5, <1>6, <1>7, <1>8, <1>9, <1>10 DEF Act, Step

(***************************************************************************)
(* What is owed is the sum of what every loan counts for.                  *)
(***************************************************************************)
CountedOf == [t \in Theses |-> Counted(loans[t])]

Tallied == owed = SumFunctionOnSet(CountedOf, Theses)

LEMMA InitTallied == Init => Tallied
<1> SUFFICES ASSUME Init PROVE Tallied
  OBVIOUS
<1>1. IsFiniteSet(Theses) /\ \A t \in Theses : CountedOf[t] = 0
  BY TreasuryAssumption DEF Init, CountedOf, Counted, NoLoan
<1>2. SumFunctionOnSet(CountedOf, Theses) = SumFunctionOnSet(CountedOf, {})
  BY <1>1, SumSupport
<1> QED BY <1>2, SumEmpty DEF Tallied, Init

LEMMA SetLoanTallied ==
  ASSUME Tallied, loans \in [Theses -> LoanRow], NEW t \in Theses, NEW l \in LoanRow,
         SetLoan(t, l)
  PROVE  Tallied'
<1>1. IsFiniteSet(Theses)
  BY TreasuryAssumption
<1>2. \A u \in Theses : CountedOf[u] \in Int /\ CountedOf'[u] \in Int
  BY CountedType DEF SetLoan, CountedOf
<1>3. /\ CountedOf[t] = Counted(loans[t]) /\ CountedOf'[t] = Counted(l)
      /\ \A u \in Theses \ {t} : CountedOf[u] = CountedOf'[u]
  BY DEF SetLoan, CountedOf
<1>4. SumFunctionOnSet(CountedOf', Theses)
        = SumFunctionOnSet(CountedOf, Theses) - CountedOf[t] + CountedOf'[t]
  BY <1>1, <1>2, <1>3, SumChange
<1> QED BY <1>3, <1>4 DEF Tallied, SetLoan

\* The sum of the remaining balances of the ACTIVE loans is the same sum.
LEMMA TalliedOwed == IInv /\ Tallied => owed \in Nat /\ OwedIsTheSum
<1> SUFFICES ASSUME IInv, Tallied PROVE owed \in Nat /\ OwedIsTheSum
  OBVIOUS
<1> DEFINE Active == {t \in Theses : loans[t].status = "ACTIVE"}
           Balances == [t \in Theses |-> loans[t].remaining]
<1>1. /\ IsFiniteSet(Theses) /\ \A t \in Theses : loans[t] \in LoanRow
      /\ \A t \in Theses : CountedOf[t] \in Nat
  BY TreasuryAssumption, CountedType DEF IInv, RowsTyped, CountedOf
<1>2. owed \in Nat
  BY <1>1, SumNat DEF Tallied
<1>3. SumFunctionOnSet(CountedOf, Theses) = SumFunctionOnSet(CountedOf, Active)
  <2>1. Active \in SUBSET Theses /\ \A t \in Theses \ Active : CountedOf[t] = 0
    BY DEF CountedOf, Counted
  <2> HIDE DEF Active
  <2> QED BY <1>1, <2>1, SumSupport
<1>4. SumFunctionOnSet(CountedOf, Active) = SumFunctionOnSet(Balances, Active)
  <2>1. IsFiniteSet(Active) /\ \A t \in Active : CountedOf[t] = Balances[t] /\ CountedOf[t] \in Int
    BY <1>1, FS_Subset DEF CountedOf, Counted
  <2> HIDE DEF Active, Balances
  <2> QED BY <2>1, SumSame
<1> QED BY <1>2, <1>3, <1>4 DEF Tallied, OwedIsTheSum

\* The loans move in two steps only.
LEMMA LoanSteps ==
  ASSUME [Act]_vars
  PROVE  \/ UNCHANGED <<loans, owed>>
         \/ \E s \in Sessions : CommitLoan(s) \/ CommitPayment(s)
BY DEF Act, Step, BeginActivate, CreateThesis, AdvanceThesis, StartInitialTest,
   CheckExposure, RefuseLoan, MakeActive, CommitState, BeginPause, CommitPause, BeginResume,
   CommitResume, Begin, BeginPayment, Abort, Die, tables, vars

LEMMA StepTallied == IInv /\ Tallied /\ [Act]_vars => Tallied'
<1> SUFFICES ASSUME IInv, Tallied, [Act]_vars PROVE Tallied'
  OBVIOUS
<1>1. /\ loans \in [Theses -> LoanRow]
      /\ \A s \in Sessions : sess[s] \in Session /\ WellFormed(sess[s])
  BY DEF IInv, RowsTyped
<1>2. CASE UNCHANGED <<loans, owed>>
  BY <1>2 DEF Tallied, CountedOf
<1>3. ASSUME NEW s \in Sessions, CommitLoan(s)
      PROVE  Tallied'
  <2> DEFINE x == sess[s]
             l == [status |-> "ACTIVE", bot |-> x.bot, principal |-> TestCapital,
                   remaining |-> TestCapital]
  <2>1. x.thesis \in Theses /\ x.bot \in Sons
    BY <1>1, <1>3 DEF CommitLoan, WellFormed, Activating, Working
  <2>2. l \in LoanRow
    BY <2>1, TreasuryAssumption DEF LoanRow
  <2> QED BY <1>1, <1>3, <2>1, <2>2, SetLoanTallied DEF CommitLoan
<1>4. ASSUME NEW s \in Sessions, CommitPayment(s)
      PROVE  Tallied'
  <2> DEFINE x == sess[s]
             l == Flush(loans[x.thesis], x.loan, Paid(x.loan, x.amount[1]))
  <2>1. /\ x.thesis \in Theses /\ x.loan \in LoanRow /\ x.amount \in Payments
    BY <1>1, <1>4 DEF CommitPayment, WellFormed, Session
  <2>2. x.amount[1] \in Nat
    BY <2>1, TreasuryAssumption
  <2>3. l \in LoanRow
    BY <1>1, <2>1, <2>2, PaidTypes, FlushLoanType
  <2> QED BY <1>1, <1>4, <2>1, <2>3, SetLoanTallied DEF CommitPayment
<1> QED BY <1>2, <1>3, <1>4, LoanSteps

(***************************************************************************)
(* While no two requests that move money overlap, what a request remembers *)
(* of the Mother and of the loan it pays is what the tables hold.          *)
(***************************************************************************)
Single == \A s, r \in Sessions : MovesMoney(s) /\ MovesMoney(r) => s = r
Others(s) == \A r \in Sessions \ {s} : sess'[r] = sess[r]

Remembers(x) ==
  /\ x.pc \in Activating \cup {"paying"} => x.mother = bots[Mother]
  /\ x.pc = "room" => HasRoom(bots[Mother])
  /\ x.pc = "paying" => x.loan = loans[x.thesis]

Richer == bots[Mother].capital + owed >= MotherCapital
SoloInv == WithinLimit /\ Richer /\ \A s \in Sessions : Remembers(sess[s])

LEMMA InitSolo == Init => SoloInv
<1> SUFFICES ASSUME Init PROVE SoloInv
  OBVIOUS
<1>1. bots[Mother].capital = MotherCapital /\ owed = 0
  BY DEF Init, Blank
<1>2. LoanPct * (MotherCapital + 0) >= 0
  BY TreasuryAssumption, ProductNonneg
<1>3. \A s \in Sessions : Remembers(sess[s])
  BY DEF Init, Idle, Remembers, Activating, Working
<1> QED BY <1>1, <1>2, <1>3, TreasuryAssumption DEF SoloInv, WithinLimit, Richer

\* A step that moves no money of the Mother's.
LEMMA SoloKept ==
  ASSUME SoloInv, NEW s \in Sessions, Others(s),
         bots'[Mother] = bots[Mother], UNCHANGED <<loans, owed>>, Remembers(sess'[s])
  PROVE  SoloInv'
BY DEF SoloInv, Others, WithinLimit, Richer, Remembers, HasRoom

\* One that lends TestCapital, if there is room for it.
LEMMA LendingArithmetic ==
  ASSUME NEW c \in Int, NEW o \in Nat, (o + TestCapital) * 100 <= c * LoanPct
  PROVE  (o + TestCapital) * 100 <= LoanPct * ((c - TestCapital) + (o + TestCapital))
<1>1. LoanPct * c <= LoanPct * (c + o)
  BY TreasuryAssumption, ProductMonotone
<1>2. (c - TestCapital) + (o + TestCapital) = c + o
  BY TreasuryAssumption
<1>3. c * LoanPct = LoanPct * c
  BY TreasuryAssumption
<1> QED BY <1>1, <1>2, <1>3, TreasuryAssumption

(***************************************************************************)
(* Every other step of a request leaves the Mother's row alone, and only   *)
(* reads it or keeps what it had read.                                     *)
(***************************************************************************)
Quiet(s) ==
  /\ bots'[Mother] = bots[Mother] /\ UNCHANGED <<loans, owed>>
  /\ \A r \in Sessions \ {s} : sess'[r] = sess[r]
  /\ sess'[s].pc \in Activating \cup {"paying"} =>
        \/ sess'[s].mother = bots[Mother]
        \/ sess[s].pc \in Activating /\ sess'[s].mother = sess[s].mother
  /\ sess'[s].pc = "room" =>
        /\ sess[s].pc = "tested" /\ HasRoom(sess[s].mother)
        /\ sess'[s].mother = sess[s].mother
  /\ sess'[s].pc = "paying" => sess'[s].loan = loans[sess'[s].thesis]

LEMMA QuietStep ==
  ASSUME IInv, NEW s \in Sessions, Step(s), ~CommitLoan(s), ~CommitPayment(s)
  PROVE  Quiet(s)
<1>1. /\ sess[s] \in Session /\ WellFormed(sess[s])
      /\ sess \in [Sessions -> Session] /\ bots \in [Sons \cup {Mother} -> BotRow]
      /\ Mother \notin Sons
  BY TreasuryAssumption DEF IInv, RowsTyped
<1>2. ASSUME NEW b \in Sons, BeginActivate(s, b)
      PROVE  Quiet(s)
  BY <1>1, <1>2 DEF BeginActivate, Become, tables, Idle, Quiet
<1>3. ASSUME NEW b \in Sons, BeginPause(s, b) \/ BeginResume(s, b)
      PROVE  Quiet(s)
  BY <1>1, <1>3 DEF BeginPause, BeginResume, Begin, Become, tables, Idle, Quiet, Activating,
                    Working
<1>4. ASSUME NEW t \in Theses, CreateThesis(s, t)
      PROVE  Quiet(s)
  <2>1. /\ sess'[s].pc = "advancing" /\ sess'[s].mother = sess[s].mother
        /\ sess[s].pc \in Activating
    BY <1>1, <1>4 DEF CreateThesis, Become, Session, Activating, Working
  <2> QED BY <1>1, <1>4, <2>1 DEF CreateThesis, Become, Quiet
<1>5. CASE AdvanceThesis(s)
  BY <1>1, <1>5 DEF AdvanceThesis, Quiet, Activating, Working
<1>6. CASE StartInitialTest(s)
  <2>1. sess[s].bot \in Sons /\ sess[s].pc \in Activating
    BY <1>1, <1>6 DEF StartInitialTest, WellFormed, Activating, Working
  <2>2. sess'[s].pc = "tested" /\ sess'[s].mother = sess[s].mother
    BY <1>1, <1>6 DEF StartInitialTest, Become, Session
  <2>3. /\ bots'[Mother] = bots[Mother] /\ UNCHANGED <<loans, owed>>
        /\ \A r \in Sessions \ {s} : sess'[r] = sess[r]
    BY <1>1, <1>6, <2>1 DEF StartInitialTest, Become
  <2> QED BY <2>1, <2>2, <2>3 DEF Quiet
<1>7. CASE CheckExposure(s)
  <2>1. /\ sess'[s].pc = "room" /\ sess'[s].mother = sess[s].mother
        /\ sess[s].pc = "tested" /\ sess[s].pc \in Activating
    BY <1>1, <1>7 DEF CheckExposure, Become, Session, Activating, Working
  <2> QED BY <1>1, <1>7, <2>1 DEF CheckExposure, Become, tables, Quiet
<1>8. CASE RefuseLoan(s) \/ Abort(s)
  BY <1>1, <1>8 DEF RefuseLoan, Abort, Become, tables, Idle, Quiet, Activating, Working
<1>9. CASE MakeActive(s) \/ CommitPause(s) \/ CommitResume(s)
  <2>1. PICK state \in BotStates : CommitState(s, state)
    BY <1>9 DEF MakeActive, CommitPause, CommitResume, BotStates
  <2>2. sess[s].bot \in Sons
    BY <1>1, <1>9 DEF MakeActive, CommitPause, CommitResume, WellFormed, Activating, Working
  <2>3. sess'[s].pc = "idle" /\ bots'[Mother] = bots[Mother]
    BY <1>1, <2>1, <2>2 DEF CommitState, Become, Idle
  <2> QED BY <1>1, <2>1, <2>3 DEF CommitState, Become, Quiet, Activating, Working
<1>10. ASSUME NEW t \in Theses, NEW amount \in Payments, BeginPayment(s, t, amount)
       PROVE  Quiet(s)
  BY <1>1, <1>10 DEF BeginPayment, Become, tables, Idle, Quiet
<1> QED
  BY <1>2, <1>3, <1>4, <1>5, <1>6, <1>7, <1>8, <1>9, <1>10 DEF Step

LEMMA DeathIsQuiet ==
  ASSUME IInv, NEW b \in Sons, Die(b)
  PROVE  bots'[Mother] = bots[Mother] /\ UNCHANGED <<loans, owed, sess>>
BY TreasuryAssumption DEF Die, IInv, RowsTyped

(***************************************************************************)
(* The Mother is never overdrawn.                                          *)
(***************************************************************************)
Funds(x) ==
  /\ x.pc \in Activating \cup {"paying"} => x.mother.capital >= 0
  /\ x.pc = "room" => x.mother.capital >= TestCapital

Solvent == MotherSolvent /\ \A s \in Sessions : Funds(sess[s])

\* A share is no more than the whole.
LEMMA RoomIsFunded ==
  ASSUME NEW c \in Nat, owed \in Nat, (owed + TestCapital) * 100 <= c * LoanPct
  PROVE  c >= TestCapital
<1>1. c * LoanPct <= c * 100
  BY TreasuryAssumption, ProductMonotone
<1> QED BY <1>1, TreasuryAssumption

LEMMA StepSolvent == IInv /\ Tallied /\ Solvent /\ [Act]_vars => Solvent'
<1> SUFFICES ASSUME IInv, Tallied, Solvent, [Act]_vars PROVE Solvent'
  OBVIOUS
<1>1. /\ \A s \in Sessions : /\ sess[s] \in Session /\ WellFormed(sess[s])
                              /\ sess[s].mother \in BotRow
      /\ sess \in [Sessions -> Session] /\ bots \in [Sons \cup {Mother} -> BotRow]
      /\ bots[Mother] \in BotRow /\ bots[Mother].capital \in Int
      /\ Mother \notin Sons /\ owed \in Nat
  BY TreasuryAssumption, TalliedOwed DEF IInv, RowsTyped, Session, BotRow
<1>2. ASSUME NEW s \in Sessions, Quiet(s)
      PROVE  Solvent'
  <2>1. Funds(sess'[s])
    <3>1. CASE sess'[s].pc = "room"
      <4>1. sess[s].pc \in Activating
        BY <1>2, <3>1 DEF Quiet, Activating, Working
      <4>2. sess[s].mother.capital \in Nat
        BY <1>1, <4>1 DEF Solvent, Funds, BotRow
      <4>3. sess[s].mother.capital >= TestCapital
        BY <1>1, <1>2, <3>1, <4>2, RoomIsFunded DEF Quiet, HasRoom
      <4> QED BY <1>2, <3>1, <4>2, <4>3 DEF Quiet, Funds
    <3>2. CASE sess'[s].pc # "room"
      BY <1>2, <3>2 DEF Quiet, Solvent, MotherSolvent, Funds
    <3> QED BY <3>1, <3>2
  <2> QED BY <1>2, <2>1 DEF Quiet, Solvent, MotherSolvent, Funds
<1>3. ASSUME NEW s \in Sessions, CommitLoan(s)
      PROVE  Solvent'
  <2> DEFINE x == sess[s]
             now == Lending(x.mother)
  <2>1. x.bot \in Sons /\ x.mother \in BotRow /\ x.mother.capital >= TestCapital
    BY <1>1, <1>3 DEF CommitLoan, WellFormed, Activating, Working, Solvent, Funds
  <2>2. now \in BotRow /\ now.capital = x.mother.capital - TestCapital
    BY <2>1, SonTypes
  <2>3. now.capital >= 0
    BY <2>1, <2>2, TreasuryAssumption DEF BotRow
  <2> HIDE DEF now
  <2>4. bots'[Mother] = Flush(bots[Mother], x.mother, now)
    BY <1>1, <1>3, <2>1 DEF CommitLoan, now
  <2>5. bots'[Mother].capital >= 0
    BY <1>1, <2>1, <2>2, <2>3, <2>4, FlushBotType DEF Solvent, MotherSolvent
  <2>6. /\ sess'[s].pc = "lent" /\ sess'[s].mother = now
        /\ \A r \in Sessions \ {s} : sess'[r] = sess[r]
    BY <1>1, <1>3 DEF CommitLoan, Become, Session, now
  <2> QED BY <2>3, <2>5, <2>6 DEF Solvent, MotherSolvent, Funds
<1>4. ASSUME NEW s \in Sessions, CommitPayment(s)
      PROVE  Solvent'
  <2> DEFINE x == sess[s]
             n == Credited(x.amount)
             now == [x.mother EXCEPT !.capital = @ + n]
  <2>1. x.amount \in Payments /\ x.mother \in BotRow /\ x.mother.capital >= 0
    BY <1>1, <1>4 DEF CommitPayment, WellFormed, Solvent, Funds
  <2>2. n \in Nat
    BY <2>1, TreasuryAssumption DEF Credited
  <2> HIDE DEF n
  <2>3. now \in BotRow /\ now.capital = x.mother.capital + n
    BY <2>1, <2>2, SonTypes DEF BotRow
  <2>4. now.capital >= 0
    BY <2>1, <2>2, <2>3 DEF BotRow
  <2>5. bots'[Mother] = Flush(bots[Mother], x.mother, now)
    BY <1>1, <1>4 DEF CommitPayment, n
  <2> HIDE DEF now
  <2>6. bots'[Mother].capital >= 0
    BY <1>1, <2>1, <2>3, <2>4, <2>5, FlushBotType DEF Solvent, MotherSolvent
  <2>7. sess'[s].pc = "idle" /\ \A r \in Sessions \ {s} : sess'[r] = sess[r]
    BY <1>1, <1>4 DEF CommitPayment, Become, Idle
  <2> QED BY <2>6, <2>7 DEF Solvent, MotherSolvent, Funds, Activating, Working
<1>5. ASSUME NEW b \in Sons, Die(b)
      PROVE  Solvent'
  BY <1>5, DeathIsQuiet DEF Solvent, MotherSolvent, Funds
<1>6. CASE UNCHANGED vars
  BY <1>6 DEF vars, Solvent, MotherSolvent, Funds
<1> QED
  BY <1>2, <1>3, <1>4, <1>5, <1>6, QuietStep DEF Act

\* However many activations and payments overlap, each working from the row of
\* the Mother it had loaded, her capital never falls below zero
\* (BotLoanEngine.create_loan checks the share against the same loaded row).
THEOREM NeverOverdrawn == Spec => []MotherSolvent
<1>1. Init => Solvent
  <2> SUFFICES ASSUME Init PROVE Solvent
    OBVIOUS
  <2>1. bots[Mother].capital = MotherCapital
    BY DEF Init, Blank
  <2> QED BY <2>1, TreasuryAssumption DEF Init, Solvent, MotherSolvent, Funds, Idle,
                                          Activating, Working
<1>2. Solvent => MotherSolvent
  BY DEF Solvent
<1> QED
  BY <1>1, <1>2, InitIInv, InitTallied, StepIInv, StepTallied, StepSolvent, Acts,
     PTL DEF Spec

(***************************************************************************)
(* Activations and payments that do not overlap.                           *)
(***************************************************************************)
LEMMA StepSolo == Single /\ IInv /\ Ownership /\ Tallied /\ SoloInv /\ [Act]_vars => SoloInv'
<1> SUFFICES ASSUME Single, IInv, Ownership, Tallied, SoloInv, [Act]_vars
             PROVE  SoloInv'
  OBVIOUS
<1>1. /\ \A s \in Sessions : /\ sess[s] \in Session /\ WellFormed(sess[s])
                              /\ sess[s].mother \in BotRow /\ Remembers(sess[s])
      /\ sess \in [Sessions -> Session] /\ bots \in [Sons \cup {Mother} -> BotRow]
      /\ bots[Mother] \in BotRow /\ bots[Mother].capital \in Int
      /\ loans \in [Theses -> LoanRow]
      /\ Mother \notin Sons /\ owed \in Nat
      /\ WithinLimit /\ Richer
  BY TreasuryAssumption, TalliedOwed DEF IInv, RowsTyped, Session, BotRow, SoloInv
<1>2. ASSUME NEW s \in Sessions, Quiet(s)
      PROVE  SoloInv'
  <2>1. sess[s].pc \in Activating => sess[s].mother = bots[Mother]
    BY <1>1 DEF Remembers
  <2>2. sess'[s].pc \in Activating \cup {"paying"} => sess'[s].mother = bots[Mother]
    BY <1>2, <2>1 DEF Quiet
  <2>3. sess'[s].pc = "room" => HasRoom(bots[Mother])
    BY <1>2, <2>1 DEF Quiet, Activating, Working
  <2>4. /\ bots'[Mother] = bots[Mother] /\ UNCHANGED <<loans, owed>>
        /\ sess'[s].pc = "paying" => sess'[s].loan = loans[sess'[s].thesis]
        /\ Others(s)
    BY <1>2 DEF Quiet, Others
  <2>5. Remembers(sess'[s])
    BY <2>2, <2>3, <2>4 DEF Remembers
  <2> QED BY <2>4, <2>5, SoloKept
<1>3. ASSUME NEW s \in Sessions, CommitLoan(s)
      PROVE  SoloInv'
  <2> DEFINE x == sess[s]
             c == bots[Mother].capital
             l == [status |-> "ACTIVE", bot |-> x.bot, principal |-> TestCapital,
                   remaining |-> TestCapital]
  <2>1. /\ x.pc = "room" /\ x.bot \in Sons /\ x.thesis \in Theses
        /\ x.mother = bots[Mother] /\ HasRoom(bots[Mother])
        /\ loans[x.thesis].status = "none"
    BY <1>1, <1>3 DEF CommitLoan, WellFormed, Activating, Working, Remembers, Ownership,
                      Owning
  <2>2. Lending(bots[Mother]) \in BotRow /\ Lending(bots[Mother]).capital = c - TestCapital
    BY <1>1, SonTypes
  <2>3. bots'[Mother] = Lending(bots[Mother])
    BY <1>1, <1>3, <2>1, <2>2, FlushBotSame DEF CommitLoan
  <2>4. owed' = owed + TestCapital
    <3>1. Counted(loans[x.thesis]) = 0 /\ Counted(l) = TestCapital
      BY <2>1 DEF Counted
    <3>2. owed' = owed - Counted(loans[x.thesis]) + Counted(l)
      BY <1>3 DEF CommitLoan, SetLoan
    <3> HIDE DEF l
    <3> QED BY <1>1, <3>1, <3>2, TreasuryAssumption
  <2>5. bots'[Mother].capital = c - TestCapital
    BY <2>2, <2>3
  <2>6. WithinLimit'
    BY <1>1, <2>1, <2>4, <2>5, LendingArithmetic DEF WithinLimit, HasRoom
  <2>7. Richer'
    BY <1>1, <2>4, <2>5, TreasuryAssumption DEF Richer
  <2>8. /\ sess'[s].pc = "lent" /\ sess'[s].mother = Lending(x.mother)
        /\ \A r \in Sessions \ {s} : sess'[r].pc \in {"idle", "pausing", "resuming"}
    BY <1>1, <1>3, <2>1 DEF CommitLoan, Become, Session, Single, MovesMoney
  <2> QED BY <2>1, <2>3, <2>6, <2>7, <2>8 DEF SoloInv, Remembers, Activating, Working
<1>4. ASSUME NEW s \in Sessions, CommitPayment(s)
      PROVE  SoloInv'
  <2> DEFINE x == sess[s]
             c == bots[Mother].capital
             n == Credited(x.amount)
             p == x.amount[1]
             now == [bots[Mother] EXCEPT !.capital = @ + n]
             l == loans[x.thesis]
  <2>1. /\ x.amount \in Payments /\ x.thesis \in Theses
        /\ x.mother = bots[Mother] /\ x.loan = l /\ l \in LoanRow
        /\ l.status = "ACTIVE"
    BY <1>1, <1>4 DEF CommitPayment, WellFormed, Remembers, Ownership
  <2>2. p \in Nat /\ n \in Nat /\ n >= p
    BY <2>1, TreasuryAssumption DEF Credited
  <2>3. now \in BotRow /\ now.capital = c + n
    BY <1>1, <2>2, SonTypes DEF BotRow
  <2>4. bots'[Mother] = now
    BY <1>1, <1>4, <2>1, <2>3, FlushBotSame DEF CommitPayment
  <2>5. /\ Paid(l, p) \in LoanRow /\ Flush(l, l, Paid(l, p)) = Paid(l, p)
        /\ Paid(l, p).remaining = Left(l, p) /\ Left(l, p) \in Nat
        /\ Left(l, p) <= l.remaining /\ l.remaining - Left(l, p) <= p
        /\ Paid(l, p).status = "ACTIVE" \/ Left(l, p) = 0
    BY <2>1, <2>2, PaidTypes, FlushLoanSame
  <2>6. Counted(Paid(l, p)) = Left(l, p) /\ Counted(l) = l.remaining /\ l.remaining \in Nat
    BY <2>1, <2>5 DEF Counted, LoanRow
  <2>7. owed' = owed - l.remaining + Left(l, p)
    BY <1>4, <2>1, <2>5, <2>6 DEF CommitPayment, SetLoan
  <2>8. owed' \in Int /\ owed' <= owed /\ owed' >= owed - p
    <3> HIDE DEF p, l
    <3> QED BY <1>1, <2>2, <2>5, <2>6, <2>7
  <2>9. bots'[Mother].capital = c + n
    BY <2>3, <2>4
  <2>10. c + owed <= (c + n) + owed'
    <3> HIDE DEF p, n
    <3> QED BY <1>1, <2>2, <2>8
  <2>11. WithinLimit'
    <3>1. (c + n) + owed' \in Int /\ c + owed \in Int
      BY <1>1, <2>2, <2>8
    <3>2. LoanPct * (c + owed) <= LoanPct * ((c + n) + owed')
      BY <2>10, <3>1, ProductMonotone, TreasuryAssumption
    <3>3. owed * 100 <= LoanPct * (c + owed) /\ owed' * 100 <= owed * 100
      <4>1. owed * 100 <= LoanPct * (c + owed)
        BY <1>1 DEF WithinLimit
      <4>2. owed' \in Int /\ owed \in Int /\ owed' <= owed
        BY <1>1, <2>8
      <4>3. owed' * 100 <= owed * 100
        BY <4>2, CentsMonotone
      <4> QED BY <4>1, <4>3
    <3>4. /\ LoanPct * (c + owed) \in Int /\ LoanPct * ((c + n) + owed') \in Int
          /\ owed' * 100 \in Int /\ owed * 100 \in Int
      BY <1>1, <2>8, <3>1, TreasuryAssumption
    <3>5. owed' * 100 <= LoanPct * ((c + n) + owed')
      BY <3>2, <3>3, <3>4
    <3> QED BY <2>9, <3>5 DEF WithinLimit
  <2>12. Richer'
    <3> HIDE DEF n
    <3> QED BY <1>1, <2>2, <2>8, <2>9, <2>10, TreasuryAssumption DEF Richer
  <2>13. /\ sess'[s].pc = "idle"
         /\ \A r \in Sessions \ {s} : sess'[r].pc \in {"idle", "pausing", "resuming"}
    BY <1>1, <1>4 DEF CommitPayment, Become, Idle, Single, MovesMoney
  <2> QED BY <2>11, <2>12, <2>13 DEF SoloInv, Remembers, Activating, Working
<1>5. ASSUME NEW b \in Sons, Die(b)
      PROVE  SoloInv'
  BY <1>5, DeathIsQuiet DEF SoloInv, WithinLimit, Richer, Remembers, HasRoom
<1>6. CASE UNCHANGED vars
  BY <1>6 DEF vars, SoloInv, WithinLimit, Richer, Remembers, HasRoom
<1> QED
  BY <1>2, <1>3, <1>4, <1>5, <1>6, QuietStep DEF Act

\* A step that does not mark an overlap begins in a state without one.
LEMMA NotYetOverlapped ==
  ASSUME [Next]_allVars, ~overlapped'
  PROVE  ~overlapped /\ (Single => Single')
<1>1. CASE Next
  <2>1. ~overlapped /\ ~Overlap'
    BY <1>1 DEF Next
  <2> QED BY <2>1 DEF Overlap, Single
<1>2. CASE UNCHANGED allVars
  BY <1>2 DEF allVars, vars, Single, MovesMoney
<1> QED BY <1>1, <1>2

LEMMA InitSingle == Init => Single
BY DEF Init, Single, MovesMoney, Idle

LEMMA SoloInvariance == Spec => [](~overlapped => Single /\ SoloInv)
<1> DEFINE Apart == ~overlapped => Single /\ SoloInv
<1>1. Init => Apart
  BY InitSolo, InitSingle
<1>2. IInv /\ Ownership /\ Tallied /\ Apart /\ [Next]_allVars => Apart'
  BY NotYetOverlapped, StepSolo, Acts
<1> QED
  BY <1>1, <1>2, InitIInv, InitOwnership, InitTallied, StepIInv, StepOwnership, StepTallied,
     Acts, PTL DEF Spec

\* As long as no two activations or payments have overlapped, what the Mother has
\* lent and not had back is never more than its share of her patrimony, whatever is
\* repaid, overpaid or interrupted, and whatever dies, is paused or resumed
\* meanwhile (BotLoanEngine.create_loan, lines 59-66).
THEOREM SerialExposure == Spec => []ExposureBounded
<1>1. (~overlapped => Single /\ SoloInv) => ExposureBounded
  BY DEF SoloInv, ExposureBounded
<1> QED BY <1>1, SoloInvariance, PTL

\* Nor does lending make her poorer: what she holds and is owed is at least
\* what she began with (create_loan and record_payment).
THEOREM SerialPatrimony == Spec => []PatrimonyKept
<1>1. (~overlapped => Single /\ SoloInv) => PatrimonyKept
  BY DEF SoloInv, PatrimonyKept, Richer
<1> QED BY <1>1, SoloInvariance, PTL

(***************************************************************************)
(* The loans and the theses they fund, however many requests overlap.      *)
(***************************************************************************)
Started == {"tested", "room", "lent"}

Accounts ==
  /\ \A t \in Theses : loans[t].status = "none" => loans[t] = NoLoan
  /\ \A t \in Theses : loans[t].status # "none" =>
        /\ loans[t].principal = TestCapital /\ loans[t].bot \in Sons
        /\ theses[t].state = "INITIAL_TEST" /\ theses[t].bot = loans[t].bot
  /\ \A s \in Sessions : sess[s].pc \in Working => theses[sess[s].thesis].bot = sess[s].bot
  /\ \A s \in Sessions : sess[s].pc \in Started =>
        theses[sess[s].thesis].state = "INITIAL_TEST"

LEMMA InitAccounts == Init => Accounts
BY DEF Init, Accounts, NoLoan, Idle, Working, Started

\* What a payment keeps of a loan.
LEMMA PaymentKeeps ==
  ASSUME NEW row \in LoanRow, NEW loaded \in LoanRow, NEW n \in Nat,
         row.status # "none", loaded.status = "ACTIVE"
  PROVE  /\ Flush(row, loaded, Paid(loaded, n)).bot = row.bot
         /\ Flush(row, loaded, Paid(loaded, n)).principal = row.principal
         /\ Flush(row, loaded, Paid(loaded, n)).status # "none"
<1> DEFINE now == Paid(loaded, n)
<1>1. now \in LoanRow /\ now.status \in {"ACTIVE", "PAID"}
  BY PaidTypes
<1>2. now.bot = loaded.bot /\ now.principal = loaded.principal
  BY DEF Paid, LoanRow
<1> HIDE DEF now
<1>3. /\ Flush(row, loaded, now).bot = row.bot
      /\ Flush(row, loaded, now).principal = row.principal
      /\ Flush(row, loaded, now).status \in {row.status, now.status}
  BY <1>1, <1>2 DEF Flush, LoanRow
<1> QED BY <1>1, <1>3 DEF now

\* A request that moves on, and changes neither theses nor loans.
LEMMA AccountsKept ==
  ASSUME Accounts, NEW s \in Sessions, \A r \in Sessions \ {s} : sess'[r] = sess[r],
         sess'[s].pc \in Working =>
            /\ sess[s].pc \in Working /\ sess'[s].thesis = sess[s].thesis
            /\ sess'[s].bot = sess[s].bot,
         sess'[s].pc \in Started => sess[s].pc \in Started,
         UNCHANGED <<theses, loans>>
  PROVE  Accounts'
<1>1. \A r \in Sessions : sess'[r].pc \in Working => theses'[sess'[r].thesis].bot = sess'[r].bot
  BY DEF Accounts
<1>2. \A r \in Sessions : sess'[r].pc \in Started =>
        theses'[sess'[r].thesis].state = "INITIAL_TEST"
  BY DEF Accounts, Started, Working
<1> QED BY <1>1, <1>2 DEF Accounts

LEMMA StepAccounts == IInv /\ Ownership /\ Accounts /\ [Act]_vars => Accounts'
<1> SUFFICES ASSUME IInv, Ownership, Accounts, [Act]_vars PROVE Accounts'
  OBVIOUS
<1>1. /\ \A s \in Sessions : sess[s] \in Session /\ WellFormed(sess[s])
      /\ sess \in [Sessions -> Session] /\ theses \in [Theses -> ThesisRow]
      /\ loans \in [Theses -> LoanRow] /\ Idle.pc = "idle"
  BY DEF IInv, RowsTyped, Idle
<1>2. ASSUME NEW s \in Sessions, NEW b \in Sons,
             BeginActivate(s, b) \/ BeginPause(s, b) \/ BeginResume(s, b)
      PROVE  Accounts'
  <2>1. /\ sess'[s].pc \in {"loaded", "pausing", "resuming"}
        /\ \A r \in Sessions \ {s} : sess'[r] = sess[r]
    BY <1>1, <1>2 DEF BeginActivate, BeginPause, BeginResume, Begin, Become, Idle
  <2>2. UNCHANGED <<theses, loans>>
    BY <1>2 DEF BeginActivate, BeginPause, BeginResume, Begin, tables
  <2> QED BY <2>1, <2>2, AccountsKept DEF Working, Started
<1>3. ASSUME NEW s \in Sessions, NEW t \in Theses, NEW amount \in Payments,
             BeginPayment(s, t, amount)
      PROVE  Accounts'
  <2>1. sess'[s].pc = "paying" /\ \A r \in Sessions \ {s} : sess'[r] = sess[r]
    BY <1>1, <1>3 DEF BeginPayment, Become, Idle
  <2> QED BY <1>3, <2>1, AccountsKept DEF BeginPayment, tables, Working, Started
<1>4. ASSUME NEW s \in Sessions, CheckExposure(s)
      PROVE  Accounts'
  <2>1. /\ sess'[s].thesis = sess[s].thesis /\ sess'[s].bot = sess[s].bot
        /\ \A r \in Sessions \ {s} : sess'[r] = sess[r]
    BY <1>1, <1>4 DEF CheckExposure, Become, Session
  <2> QED BY <1>4, <2>1, AccountsKept DEF CheckExposure, tables, Working, Started
<1>5. ASSUME NEW s \in Sessions, Become(s, Idle), UNCHANGED <<theses, loans>>
      PROVE  Accounts'
  BY <1>1, <1>5, AccountsKept DEF Become, Working, Started
<1>6. ASSUME NEW s \in Sessions, NEW t \in Theses, CreateThesis(s, t)
      PROVE  Accounts'
  <2>1. /\ theses[t].state = "none" /\ theses'[t].bot = sess[s].bot
        /\ \A u \in Theses \ {t} : theses'[u] = theses[u]
        /\ sess'[s].thesis = t /\ sess'[s].pc = "advancing" /\ sess'[s].bot = sess[s].bot
        /\ \A r \in Sessions \ {s} : sess'[r] = sess[r]
        /\ loans' = loans
    BY <1>1, <1>6 DEF CreateThesis, Become, Session
  <2>2. loans[t].status = "none"
    BY <2>1 DEF Ownership
  <2>3. \A r \in Sessions : sess[r].pc \in Working =>
          sess[r].thesis # t /\ sess[r].thesis \in Theses
    BY <1>1, <2>1 DEF Ownership, Accounts, WellFormed, Owning, Working, Started
  <2> QED BY <2>1, <2>2, <2>3 DEF Accounts, Started, Working
<1>7. ASSUME NEW s \in Sessions, AdvanceThesis(s)
      PROVE  Accounts'
  <2> DEFINE t == sess[s].thesis
  <2>1. t \in Theses /\ theses[t].state # "INITIAL_TEST"
    BY <1>1, <1>7 DEF AdvanceThesis, WellFormed, Working, Following
  <2>2. /\ theses'[t].bot = theses[t].bot
        /\ \A u \in Theses \ {t} : theses'[u] = theses[u]
        /\ UNCHANGED <<sess, loans>>
    BY <1>1, <1>7, <2>1 DEF AdvanceThesis, ThesisRow
  <2> HIDE DEF t
  <2> QED BY <1>1, <2>1, <2>2 DEF Accounts, WellFormed, Started, Working
<1>8. ASSUME NEW s \in Sessions, StartInitialTest(s)
      PROVE  Accounts'
  <2> DEFINE t == sess[s].thesis
  <2>1. t \in Theses /\ sess[s].pc = "advancing"
    BY <1>1, <1>8 DEF StartInitialTest, WellFormed, Working
  <2>2. /\ theses'[t].bot = theses[t].bot /\ theses'[t].state = "INITIAL_TEST"
        /\ \A u \in Theses \ {t} : theses'[u] = theses[u]
        /\ sess'[s].thesis = t /\ sess'[s].bot = sess[s].bot
        /\ \A r \in Sessions \ {s} : sess'[r] = sess[r]
        /\ loans' = loans
    BY <1>1, <1>8, <2>1 DEF StartInitialTest, Become, ThesisRow, Session
  <2> HIDE DEF t
  <2> QED BY <1>1, <2>1, <2>2 DEF Accounts, WellFormed, Started, Working, t
<1>9. ASSUME NEW s \in Sessions, CommitLoan(s)
      PROVE  Accounts'
  <2> DEFINE x == sess[s]
  <2>1. x.thesis \in Theses /\ x.bot \in Sons /\ x.pc = "room"
    BY <1>1, <1>9 DEF CommitLoan, WellFormed, Working, Activating
  <2>2. /\ loans'[x.thesis].status = "ACTIVE" /\ loans'[x.thesis].bot = x.bot
        /\ loans'[x.thesis].principal = TestCapital
        /\ \A u \in Theses \ {x.thesis} : loans'[u] = loans[u]
        /\ sess'[s].thesis = x.thesis /\ sess'[s].bot = x.bot
        /\ \A r \in Sessions \ {s} : sess'[r] = sess[r]
        /\ theses' = theses
    BY <1>1, <1>9, <2>1 DEF CommitLoan, SetLoan, Become, Session
  <2>3. theses[x.thesis].bot = x.bot /\ theses[x.thesis].state = "INITIAL_TEST"
    BY <2>1 DEF Accounts, Working, Started
  <2> QED BY <1>1, <2>1, <2>2, <2>3 DEF Accounts
<1>10. ASSUME NEW s \in Sessions, CommitPayment(s)
       PROVE  Accounts'
  <2> DEFINE x == sess[s]
  <2>1. /\ x.thesis \in Theses /\ x.loan \in LoanRow /\ x.amount \in Payments
        /\ x.loan.status = "ACTIVE" /\ loans[x.thesis].status # "none"
    BY <1>1, <1>10 DEF CommitPayment, WellFormed, Session, Ownership
  <2>2. x.amount[1] \in Nat
    BY <2>1, TreasuryAssumption
  <2>3. /\ loans'[x.thesis].status # "none"
        /\ loans'[x.thesis].bot = loans[x.thesis].bot
        /\ loans'[x.thesis].principal = loans[x.thesis].principal
    BY <1>1, <1>10, <2>1, <2>2, PaymentKeeps DEF CommitPayment, SetLoan
  <2>4. /\ \A u \in Theses \ {x.thesis} : loans'[u] = loans[u]
        /\ sess'[s] = Idle
        /\ \A r \in Sessions \ {s} : sess'[r] = sess[r]
        /\ theses' = theses
    BY <1>1, <1>10 DEF CommitPayment, SetLoan, Become
  <2> QED BY <1>1, <2>1, <2>3, <2>4 DEF Accounts, Working, Started
<1>11. ASSUME UNCHANGED <<theses, loans, sess>>
       PROVE  Accounts'
  BY <1>11 DEF Accounts
<1> QED
  BY <1>2, <1>3, <1>4, <1>5, <1>6, <1>7, <1>8, <1>9, <1>10, <1>11
     DEF Act, Step, RefuseLoan, Abort, MakeActive, CommitPause, CommitResume, CommitState,
         Die, vars, tables

\* However many requests overlap, a loan is of exactly the test capital, and the
\* thesis it funds has started and is the borrower's (start_initial_test before
\* create_loan), and the exposure query sums what is left of the ACTIVE loans.
LoansFundStartedTheses ==
  /\ OwedIsTheSum
  /\ \A t \in Theses : loans[t].status # "none" =>
        /\ loans[t].principal = TestCapital /\ loans[t].remaining >= 0
        /\ theses[t].state = "INITIAL_TEST" /\ theses[t].bot = loans[t].bot

\* So it is in every reachable state, with any number of requests: the loans of
\* record are the loans the exposure query counts, and each has a thesis to fund.
THEOREM LoansFundTheses == Spec => []LoansFundStartedTheses
<1>1. IInv /\ Tallied /\ Accounts => LoansFundStartedTheses
  BY TalliedOwed DEF IInv, RowsTyped, LoanRow, Accounts, LoansFundStartedTheses
<1> QED
  BY <1>1, InitIInv, InitTallied, InitOwnership, InitAccounts, StepIInv, StepTallied,
     StepOwnership, StepAccounts, Acts, PTL DEF Spec

(***************************************************************************)
(* The borrowed capital of the sons, while no two requests overlap.        *)
(***************************************************************************)
LentTo(b) == [t \in Theses |-> IF loans[t].bot = b THEN loans[t].principal ELSE 0]

Borrowings ==
  /\ \A b \in Sons : bots[b].borrowed = SumFunctionOnSet(LentTo(b), Theses)
  /\ \A s \in Sessions : sess[s].pc \in Activating =>
        sess[s].son.borrowed = bots[sess[s].bot].borrowed

LEMMA InitBorrowings == Init => Borrowings
<1> SUFFICES ASSUME Init PROVE Borrowings
  OBVIOUS
<1>1. ASSUME NEW b \in Sons
      PROVE  bots[b].borrowed = SumFunctionOnSet(LentTo(b), Theses)
  <2>1. IsFiniteSet(Theses) /\ \A t \in Theses : LentTo(b)[t] = 0
    BY TreasuryAssumption DEF Init, LentTo, NoLoan
  <2>2. SumFunctionOnSet(LentTo(b), Theses) = SumFunctionOnSet(LentTo(b), {})
    BY <2>1, SumSupport
  <2>3. bots[b].borrowed = 0
    BY TreasuryAssumption DEF Init, Blank
  <2> QED BY <2>2, <2>3, SumEmpty
<1> QED BY <1>1 DEF Borrowings, Init, Idle, Activating, Working

\* The sum over the loans of a son.
LEMMA BorrowingsAreTheSums ==
  ASSUME IInv, Borrowings, NEW b \in Sons
  PROVE  bots[b].borrowed = SumFunctionOnSet([t \in Theses |-> loans[t].principal],
                                             {t \in Theses : loans[t].bot = b})
<1> DEFINE Own == {t \in Theses : loans[t].bot = b}
           Principals == [t \in Theses |-> loans[t].principal]
<1>1. IsFiniteSet(Theses) /\ \A t \in Theses : LentTo(b)[t] \in Int /\ Principals[t] \in Int
  BY TreasuryAssumption DEF IInv, RowsTyped, LoanRow, LentTo
<1>2. SumFunctionOnSet(LentTo(b), Theses) = SumFunctionOnSet(LentTo(b), Own)
  <2>1. Own \in SUBSET Theses /\ \A t \in Theses \ Own : LentTo(b)[t] = 0
    BY DEF LentTo
  <2> HIDE DEF Own
  <2> QED BY <1>1, <2>1, SumSupport
<1>3. SumFunctionOnSet(LentTo(b), Own) = SumFunctionOnSet(Principals, Own)
  <2>1. IsFiniteSet(Own) /\ \A t \in Own : LentTo(b)[t] = Principals[t] /\ LentTo(b)[t] \in Int
    BY <1>1, FS_Subset DEF LentTo
  <2> HIDE DEF Own, Principals
  <2> QED BY <2>1, SumSame
<1> QED BY <1>2, <1>3 DEF Borrowings

\* A step that leaves principals, borrowers and borrowed capital alone.
LEMMA BorrowingsKept ==
  ASSUME Borrowings, IInv,
         \A b \in Sons : bots'[b].borrowed = bots[b].borrowed,
         \A t \in Theses : /\ loans'[t].bot = loans[t].bot
                           /\ loans'[t].principal = loans[t].principal,
         \A s \in Sessions : sess'[s].pc \in Activating =>
            sess'[s].son.borrowed = bots[sess'[s].bot].borrowed /\ sess'[s].bot \in Sons
  PROVE  Borrowings'
<1>1. \A b \in Sons : LentTo(b)' = LentTo(b)
  BY DEF LentTo
<1> QED BY <1>1 DEF Borrowings

\* Of a row the session changed, what the flush keeps.
LEMMA FlushKeepsBorrowed ==
  ASSUME NEW row \in BotRow, NEW loaded \in BotRow, NEW now \in BotRow,
         now.borrowed = loaded.borrowed
  PROVE  Flush(row, loaded, now).borrowed = row.borrowed
BY DEF Flush, BotRow

LEMMA StepBorrowings ==
  Single /\ IInv /\ Ownership /\ Accounts /\ Borrowings /\ [Act]_vars => Borrowings'
<1> SUFFICES ASSUME Single, IInv, Ownership, Accounts, Borrowings, [Act]_vars
             PROVE  Borrowings'
  OBVIOUS
<1>1. /\ \A s \in Sessions : /\ sess[s] \in Session /\ WellFormed(sess[s])
                              /\ sess[s].son \in BotRow
      /\ sess \in [Sessions -> Session] /\ bots \in [Sons \cup {Mother} -> BotRow]
      /\ \A b \in Sons : bots[b] \in BotRow /\ b # Mother
      /\ loans \in [Theses -> LoanRow]
  BY TreasuryAssumption DEF IInv, RowsTyped, Session
<1>0. \A r \in Sessions : sess[r].pc \in Activating =>
        sess[r].bot \in Sons /\ sess[r].son.borrowed = bots[sess[r].bot].borrowed
  BY <1>1 DEF WellFormed, Borrowings
\* The request has stopped, or had not begun to activate.
<1>2. ASSUME NEW s \in Sessions, Others(s), sess'[s].pc \notin Activating,
             \A b \in Sons : bots'[b].borrowed = bots[b].borrowed, UNCHANGED loans
      PROVE  Borrowings'
  BY <1>1, <1>2, <1>0, BorrowingsKept DEF Others
<1>3. ASSUME NEW s \in Sessions, NEW b \in Sons, BeginActivate(s, b)
      PROVE  Borrowings'
  <2>1. /\ sess'[s].bot = b /\ sess'[s].son = bots[b] /\ UNCHANGED <<bots, loans>>
        /\ Others(s)
    BY <1>1, <1>3 DEF BeginActivate, Become, Idle, tables, Others
  <2> QED BY <1>0, <2>1, BorrowingsKept DEF Others
<1>4. ASSUME NEW s \in Sessions, NEW b \in Sons, BeginPause(s, b) \/ BeginResume(s, b)
      PROVE  Borrowings'
  <2>1. PICK pc \in {"pausing", "resuming"} : Begin(s, b, pc)
    BY <1>4 DEF BeginPause, BeginResume
  <2>2. sess'[s].pc = pc /\ Others(s) /\ UNCHANGED <<bots, loans>>
    BY <1>1, <2>1 DEF Begin, Become, Idle, tables, Others
  <2> QED BY <1>2, <2>2 DEF Activating, Working
<1>5. ASSUME NEW s \in Sessions, NEW t \in Theses, NEW amount \in Payments,
             BeginPayment(s, t, amount)
      PROVE  Borrowings'
  BY <1>1, <1>2, <1>5 DEF BeginPayment, Become, Idle, tables, Activating, Working,
                          Others
\* A request that keeps the bot it had loaded.
<1>6. ASSUME NEW s \in Sessions, Others(s), sess[s].pc \in Activating,
             sess'[s].bot = sess[s].bot, sess'[s].son.borrowed = sess[s].son.borrowed,
             \A b \in Sons : bots'[b].borrowed = bots[b].borrowed, UNCHANGED loans
      PROVE  Borrowings'
  <2>1. /\ sess[s].bot \in Sons
        /\ sess[s].son.borrowed = bots[sess[s].bot].borrowed
    BY <1>1, <1>6 DEF WellFormed, Borrowings
  <2> QED BY <1>0, <1>6, <2>1, BorrowingsKept DEF Others
<1>7. ASSUME NEW s \in Sessions, NEW t \in Theses, CreateThesis(s, t)
      PROVE  Borrowings'
  BY <1>1, <1>6, <1>7 DEF CreateThesis, Become, Session, Activating, Others
<1>8. ASSUME NEW s \in Sessions, CheckExposure(s)
      PROVE  Borrowings'
  BY <1>1, <1>6, <1>8 DEF CheckExposure, Become, Session, tables, Activating, Working,
                          Others
<1>9. ASSUME NEW s \in Sessions, StartInitialTest(s)
      PROVE  Borrowings'
  <2> DEFINE x == sess[s]
             now == [x.son EXCEPT !.tested = @ + 1]
  <2>1. /\ x.bot \in Sons /\ x.pc \in Activating /\ x.son \in BotRow
        /\ now \in BotRow /\ now.borrowed = x.son.borrowed
    BY <1>1, <1>9, SonTypes DEF StartInitialTest, WellFormed, Activating, Working, BotRow
  <2>2. /\ sess'[s].bot = x.bot /\ sess'[s].son = now
        /\ bots' = [bots EXCEPT ![x.bot] = Flush(bots[x.bot], x.son, now)]
        /\ UNCHANGED loans /\ Others(s)
    BY <1>1, <1>9 DEF StartInitialTest, Become, Session, Others
  <2> HIDE DEF now
  <2>3. \A b \in Sons : bots'[b].borrowed = bots[b].borrowed
    BY <1>1, <2>1, <2>2, FlushKeepsBorrowed
  <2> QED BY <1>6, <2>1, <2>2, <2>3
<1>10. ASSUME NEW s \in Sessions, RefuseLoan(s) \/ Abort(s)
       PROVE  Borrowings'
  BY <1>1, <1>2, <1>10 DEF RefuseLoan, Abort, Become, Idle, tables, Activating, Working,
                           Others
<1>11. ASSUME NEW s \in Sessions, MakeActive(s) \/ CommitPause(s) \/ CommitResume(s)
       PROVE  Borrowings'
  <2>1. PICK state \in BotStates : CommitState(s, state)
    BY <1>11 DEF MakeActive, CommitPause, CommitResume, BotStates
  <2> DEFINE x == sess[s]
             now == [x.son EXCEPT !.state = state]
  <2>2. /\ x.bot \in Sons /\ x.son \in BotRow
        /\ now \in BotRow /\ now.borrowed = x.son.borrowed
    BY <1>1, <1>11, SonTypes DEF MakeActive, CommitPause, CommitResume, WellFormed,
                                 Activating, Working, BotRow
  <2>3. /\ bots' = [bots EXCEPT ![x.bot] = Flush(bots[x.bot], x.son, now)]
        /\ sess'[s].pc = "idle" /\ UNCHANGED loans /\ Others(s)
    BY <1>1, <2>1 DEF CommitState, Become, Idle, Others
  <2> HIDE DEF now
  <2>4. \A b \in Sons : bots'[b].borrowed = bots[b].borrowed
    BY <1>1, <2>2, <2>3, FlushKeepsBorrowed
  <2> QED BY <1>2, <2>3, <2>4 DEF Activating, Working
<1>12. ASSUME NEW s \in Sessions, CommitPayment(s)
       PROVE  Borrowings'
  <2> DEFINE x == sess[s]
  <2>1. /\ x.thesis \in Theses /\ x.loan \in LoanRow /\ x.amount \in Payments
        /\ x.loan.status = "ACTIVE" /\ loans[x.thesis].status # "none"
    BY <1>1, <1>12 DEF CommitPayment, WellFormed, Session, Ownership
  <2>2. x.amount[1] \in Nat
    BY <2>1, TreasuryAssumption
  <2>3. \A t \in Theses : /\ loans'[t].bot = loans[t].bot
                          /\ loans'[t].principal = loans[t].principal
    BY <1>1, <1>12, <2>1, <2>2, PaymentKeeps DEF CommitPayment, SetLoan
  <2>4. /\ sess'[s].pc = "idle" /\ \A b \in Sons : bots'[b] = bots[b]
        /\ Others(s)
    BY <1>1, <1>12 DEF CommitPayment, Become, Idle, Others
  <2> QED BY <1>0, <2>3, <2>4, BorrowingsKept DEF Others, Activating, Working
<1>13. ASSUME NEW s \in Sessions, CommitLoan(s)
       PROVE  Borrowings'
  <2> DEFINE x == sess[s]
             now == Lent(x.son)
  <2>1. /\ x.bot \in Sons /\ x.thesis \in Theses /\ x.pc \in Activating
        /\ x.son \in BotRow /\ x.son.borrowed = bots[x.bot].borrowed
        /\ loans[x.thesis] = NoLoan
    BY <1>1, <1>13 DEF CommitLoan, WellFormed, Activating, Working, Borrowings, Ownership,
                       Owning, Accounts
  <2>2. now \in BotRow /\ now.borrowed = x.son.borrowed + TestCapital
    BY <2>1, SonTypes DEF Lent, BotRow
  <2>3. /\ bots'[x.bot] = Flush(bots[x.bot], x.son, now)
        /\ \A b \in Sons \ {x.bot} : bots'[b] = bots[b]
        /\ loans'[x.thesis].bot = x.bot /\ loans'[x.thesis].principal = TestCapital
        /\ \A t \in Theses \ {x.thesis} : loans'[t] = loans[t]
        /\ sess'[s].bot = x.bot /\ sess'[s].son = now
        /\ \A r \in Sessions \ {s} : sess'[r].pc \notin Activating
    BY <1>1, <1>13, <2>1 DEF CommitLoan, SetLoan, Become, Session, Single, MovesMoney,
                             Activating, Working
  <2> HIDE DEF now
  <2>4. bots'[x.bot].borrowed = bots[x.bot].borrowed + TestCapital
    <3>1. now.borrowed # x.son.borrowed
      BY <2>1, <2>2, TreasuryAssumption DEF BotRow
    <3>2. bots'[x.bot].borrowed = now.borrowed
      BY <1>1, <2>1, <2>3, <3>1 DEF Flush, BotRow
    <3> QED BY <2>1, <2>2, <3>2
  <2>5. ASSUME NEW b \in Sons
        PROVE  bots'[b].borrowed = SumFunctionOnSet(LentTo(b)', Theses)
    <3>1. /\ IsFiniteSet(Theses)
          /\ \A t \in Theses : LentTo(b)[t] \in Int /\ LentTo(b)'[t] \in Int
          /\ \A t \in Theses \ {x.thesis} : LentTo(b)[t] = LentTo(b)'[t]
      BY <1>1, <2>1, <2>3, TreasuryAssumption DEF LentTo, LoanRow
    <3>2. SumFunctionOnSet(LentTo(b)', Theses)
            = SumFunctionOnSet(LentTo(b), Theses) - LentTo(b)[x.thesis] + LentTo(b)'[x.thesis]
      BY <2>1, <3>1, SumChange
    <3>3. /\ LentTo(b)[x.thesis] = 0
          /\ LentTo(b)'[x.thesis] = IF b = x.bot THEN TestCapital ELSE 0
      BY <2>1, <2>3 DEF LentTo, NoLoan
    <3>4. bots[b].borrowed = SumFunctionOnSet(LentTo(b), Theses) /\ bots[b].borrowed \in Int
      BY <1>1 DEF Borrowings, BotRow
    <3>5. bots'[b].borrowed = bots[b].borrowed + LentTo(b)'[x.thesis]
      BY <2>3, <2>4, <3>3, <3>4
    <3> QED BY <3>2, <3>3, <3>4, <3>5, TreasuryAssumption
  <2>6. sess'[s].son.borrowed = bots'[sess'[s].bot].borrowed
    BY <2>1, <2>2, <2>3, <2>4
  <2> QED BY <2>3, <2>5, <2>6 DEF Borrowings
<1>14. ASSUME NEW b \in Sons, Die(b)
       PROVE  Borrowings'
  <2>1. /\ \A a \in Sons : bots'[a].borrowed = bots[a].borrowed
        /\ UNCHANGED <<loans, sess>>
    BY <1>1, <1>14 DEF Die, BotRow
  <2>2. \A s \in Sessions : sess[s].pc \in Activating =>
          sess[s].bot \in Sons /\ sess[s].son.borrowed = bots[sess[s].bot].borrowed
    BY <1>1 DEF WellFormed, Borrowings
  <2> QED BY <2>1, <2>2, BorrowingsKept
<1>15. ASSUME UNCHANGED <<bots, loans, sess>>
       PROVE  Borrowings'
  BY <1>15 DEF Borrowings, LentTo
<1> QED
  BY <1>3, <1>4, <1>5, <1>7, <1>8, <1>9, <1>10, <1>11, <1>12, <1>13, <1>14, <1>15
     DEF Act, Step, AdvanceThesis, vars

LEMMA BorrowingsInvariance == Spec => [](~overlapped => Single /\ Borrowings)
<1> DEFINE Apart == ~overlapped => Single /\ Borrowings
<1>1. Init => Apart
  BY InitBorrowings, InitSingle
<1>2. IInv /\ Ownership /\ Accounts /\ Apart /\ [Next]_allVars => Apart'
  BY NotYetOverlapped, StepBorrowings, Acts
<1> QED
  BY <1>1, <1>2, InitIInv, InitOwnership, InitAccounts, StepIInv, StepOwnership,
     StepAccounts, Acts, PTL DEF Spec

\* As long as no two activations or payments have overlapped, the books of the loans
\* agree, whatever is repaid, overpaid or interrupted: no balance is below zero, the
\* exposure is the sum of the ACTIVE loans, every loan is of the test capital and
\* funds a started thesis of its borrower, and a son has borrowed the sum of its
\* principals (BotLoanEngine.create_loan and record_payment).
THEOREM SerialBooks == Spec => []BooksOfLoans
<1>1. IInv /\ Tallied /\ Accounts /\ (~overlapped => Single /\ Borrowings) => BooksOfLoans
  <2> SUFFICES ASSUME IInv, Tallied, Accounts, Borrowings
               PROVE  /\ \A t \in Theses : loans[t].remaining >= 0
                      /\ OwedIsTheSum /\ LoansAccountedFor
    BY DEF BooksOfLoans
  <2>1. \A t \in Theses : loans[t].remaining >= 0
    BY DEF IInv, RowsTyped, LoanRow
  <2>2. LoansAccountedFor
    BY BorrowingsAreTheSums DEF LoansAccountedFor, Accounts
  <2> QED BY <2>1, <2>2, TalliedOwed
<1> QED
  BY <1>1, BorrowingsInvariance, InitIInv, InitTallied, InitOwnership, InitAccounts,
     StepIInv, StepTallied, StepOwnership, StepAccounts, Acts, PTL DEF Spec
=============================================================================
