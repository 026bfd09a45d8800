-------------------------- MODULE SettlementProofs --------------------------
EXTENDS Settlement, Sums

(***************************************************************************)
(* Rows and shares.                                                        *)
(***************************************************************************)
LEMMA FlushBotType ==
  ASSUME NEW row \in BotRow, NEW loaded \in BotRow, NEW now \in BotRow
  PROVE  /\ Flush(row, loaded, now) \in BotRow
         /\ now.reserve # loaded.reserve => Flush(row, loaded, now).reserve = now.reserve
         /\ now.reserve = loaded.reserve => Flush(row, loaded, now).reserve = row.reserve
BY DEF Flush, BotRow

LEMMA ProductType ==
  ASSUME NEW p \in Nat, NEW n \in Int
  PROVE  /\ p * n \in Int
         /\ n >= 0 => p * n \in Nat
OBVIOUS

LEMMA SharesType ==
  ASSUME NEW b \in Bots, NEW d \in Days, NEW c \in Calls
  PROVE  /\ Shares(b, d, c) \in SettlementRow
         /\ Shares(b, d, c).bot = b
<1> DEFINE net == c.gross - c.charges - c.repayment
<1>1. /\ c.gross \in Int /\ c.charges \in Nat /\ c.repayment \in Nat
      /\ RetainPct \in Nat /\ ReservePct \in Nat /\ ReturnPct \in Nat
  BY SettlementAssumption
<1>2. net \in Int /\ 100 * c.repayment \in Nat /\ 100 * net \in Int
  BY <1>1
<1> HIDE DEF net
<1>3. /\ RetainPct * net \in Int
      /\ net > 0 => ReservePct * net \in Nat /\ ReturnPct * net \in Nat
  BY <1>1, <1>2, ProductType
<1>4. Shares(b, d, c) =
        [bot |-> b, day |-> d, net |-> net, repaid |-> 100 * c.repayment,
         retained |-> IF net > 0 THEN RetainPct * net ELSE 100 * net,
         contributed |-> IF net > 0 THEN ReservePct * net ELSE 0,
         returned |-> IF net > 0 THEN ReturnPct * net ELSE 0]
  BY DEF Shares, net
<1> QED BY <1>2, <1>3, <1>4 DEF SettlementRow

LEMMA SettlingType ==
  ASSUME NEW now \in BotRow, NEW row \in SettlementRow
  PROVE  /\ Settling(now, row) \in BotRow
         /\ Settling(now, row).reserve = now.reserve
<1>1. /\ now.capital + row.retained \in Int
      /\ NotBelowZero(now.borrowed - row.repaid) \in Nat
  BY DEF BotRow, SettlementRow, NotBelowZero
<1> QED BY <1>1 DEF Settling, BotRow

LEMMA ToldType ==
  ASSUME NEW now \in BotRow, NEW balance \in Nat, NEW amount \in Nat
  PROVE  /\ ToldTheBalance(now, balance, amount) \in BotRow
         /\ ToldTheBalance(now, balance, amount).reserve = balance + amount
BY DEF ToldTheBalance, BotRow

LEMMA CreditedType ==
  ASSUME NEW mother \in BotRow, NEW row \in SettlementRow
  PROVE  /\ Credited(mother, row) \in BotRow
         /\ Credited(mother, row).reserve = mother.reserve
BY DEF Credited, BotRow, SettlementRow

(***************************************************************************)
(* Types.  A call past its first step has its bot, and past the day's      *)
(* check its shares.                                                       *)
(***************************************************************************)
Sharing == {"reserving", "creating", "contributing", "returning", "saving", "crediting"}

WellFormed(x) ==
  /\ x.pc # "idle" => x.bot \in Bots
  /\ x.pc \in Sharing => x.row \in SettlementRow
  /\ x.pc \in {"reserving", "creating", "contributing"} => x.row.contributed > 0
  /\ x.pc = "crediting" => x.bot # Mother

IInv == TypeOK /\ \A s \in Sessions : WellFormed(sess[s])

LEMMA IdleType == Idle \in Session /\ WellFormed(Idle)
<1>1. Blank \in BotRow
  BY DEF Blank, BotRow
<1> QED BY <1>1 DEF Idle, Session, Phases, WellFormed, Sharing

LEMMA InitIInv == Init => IInv
<1> SUFFICES ASSUME Init PROVE IInv
  OBVIOUS
<1>1. [capital |-> Capital, borrowed |-> Borrowed, reserve |-> 0] \in BotRow
  BY SettlementAssumption DEF BotRow
<1>2. NoReserve \in Reserve
  BY DEF NoReserve, Reserve
<1>3. 0 \in 0..MaxFailures
  BY SettlementAssumption
<1> QED BY <1>1, <1>2, <1>3, IdleType DEF Init, IInv, TypeOK

\* A call that moves on, writing no table.
LEMMA SessionStep ==
  ASSUME IInv, NEW s \in Sessions, NEW x \in Session, WellFormed(x),
         Become(s, x), UNCHANGED tables, failed' \in [Bots -> 0..MaxFailures]
  PROVE  IInv'
BY DEF IInv, TypeOK, Become, tables

\* A call that moves on, and commits.
LEMMA CommitStep ==
  ASSUME IInv, NEW s \in Sessions, NEW x \in Session, WellFormed(x), Become(s, x),
         bots' \in [Bots -> BotRow], reserves' \in [Bots -> Reserve],
         settled' \subseteq SettlementRow, UNCHANGED failed
  PROVE  IInv'
BY DEF IInv, TypeOK, Become

LEMMA StepIInv == IInv /\ [Next]_vars => IInv'
<1> SUFFICES ASSUME IInv, [Next]_vars PROVE IInv'
  OBVIOUS
<1>1. /\ bots \in [Bots -> BotRow] /\ reserves \in [Bots -> Reserve]
      /\ settled \subseteq SettlementRow /\ failed \in [Bots -> 0..MaxFailures]
      /\ \A s \in Sessions : sess[s] \in Session /\ WellFormed(sess[s])
  BY DEF IInv, TypeOK
<1>2. ASSUME NEW s \in Sessions, NEW b \in Bots, LoadBot(s, b)
      PROVE  IInv'
  <2> DEFINE x == [Idle EXCEPT !.pc = "loaded", !.bot = b, !.loaded = bots[b],
                               !.now = bots[b]]
  <2>1. x \in Session /\ WellFormed(x)
    BY <1>1, IdleType DEF Idle, Session, Phases, WellFormed, Sharing
  <2> QED BY <1>1, <1>2, <2>1, SessionStep DEF LoadBot
<1>3. ASSUME NEW s \in Sessions, NEW d \in Days, RefuseDay(s, d)
      PROVE  IInv'
  BY <1>1, <1>3, IdleType, SessionStep DEF RefuseDay
<1>4. ASSUME NEW s \in Sessions, NEW d \in Days, NEW c \in Calls, ShareDay(s, d, c)
      PROVE  IInv'
  <2> DEFINE row == Shares(sess[s].bot, d, c)
             now == Settling(sess[s].now, row)
             pc == IF row.contributed > 0 THEN "reserving" ELSE "returning"
             x == [sess[s] EXCEPT !.pc = pc, !.row = row, !.now = now]
  <2>1. sess[s].bot \in Bots /\ sess[s].now \in BotRow
    BY <1>1, <1>4 DEF ShareDay, WellFormed, Session
  <2>2. row \in SettlementRow /\ now \in BotRow
    BY <2>1, SharesType, SettlingType
  <2>3. Become(s, x) /\ UNCHANGED <<tables, failed>>
    BY <1>4 DEF ShareDay
  <2> HIDE DEF row, now
  <2>4. x \in Session /\ WellFormed(x)
    BY <1>1, <2>1, <2>2 DEF Session, Phases, WellFormed, Sharing
  <2> QED BY <1>1, <2>3, <2>4, SessionStep
<1>5. ASSUME NEW s \in Sessions, LoadReserve(s)
      PROVE  IInv'
  <2> DEFINE reserve == reserves[sess[s].bot]
             pc == IF reserve.exists THEN "contributing" ELSE "creating"
             x == [sess[s] EXCEPT !.pc = pc, !.balance = reserve.balance]
  <2>1. reserve \in Reserve /\ reserve.balance \in Nat
    BY <1>1, <1>5 DEF LoadReserve, WellFormed, Reserve
  <2>2. x \in Session /\ WellFormed(x)
    BY <1>1, <1>5, <2>1 DEF LoadReserve, Session, Phases, WellFormed, Sharing
  <2> QED BY <1>1, <1>5, <2>2, SessionStep DEF LoadReserve
<1>6. ASSUME NEW s \in Sessions, CreateReserve(s)
      PROVE  IInv'
  <2> DEFINE x == sess[s]
             y == [x EXCEPT !.pc = "contributing", !.loaded = x.now]
  <2>1. CASE reserves[x.bot].exists
    BY <1>1, <1>6, <2>1, IdleType, SessionStep DEF CreateReserve
  <2>2. CASE ~reserves[x.bot].exists
    <3>1. y \in Session /\ WellFormed(y) /\ x.bot \in Bots
      BY <1>1, <1>6 DEF CreateReserve, Session, Phases, WellFormed, Sharing
    <3>2. bots' \in [Bots -> BotRow]
      BY <1>1, <1>6, <2>2, <3>1, FlushBotType DEF CreateReserve, Flushed, Session
    <3>3. reserves' \in [Bots -> Reserve]
      <4> DEFINE empty == [exists |-> TRUE, balance |-> 0]
      <4>1. empty \in Reserve
        BY DEF Reserve
      <4>2. reserves' = [reserves EXCEPT ![x.bot] = empty]
        BY <1>6, <2>2 DEF CreateReserve
      <4> HIDE DEF empty
      <4> QED BY <1>1, <4>1, <4>2
    <3> QED BY <1>1, <1>6, <2>2, <3>1, <3>2, <3>3, CommitStep DEF CreateReserve
  <2> QED BY <2>1, <2>2
<1>7. ASSUME NEW s \in Sessions, Contribute(s)
      PROVE  IInv'
  <2> DEFINE x == sess[s]
             told == ToldTheBalance(x.now, x.balance, x.row.contributed)
             y == [x EXCEPT !.pc = "returning", !.loaded = told, !.now = told]
  <2>1. /\ x.bot \in Bots /\ x.row \in SettlementRow /\ x.now \in BotRow
        /\ x.loaded \in BotRow /\ x.balance \in Nat /\ x.row.contributed \in Nat
        /\ x.pc = "contributing"
    BY <1>1, <1>7 DEF Contribute, WellFormed, Sharing, Session, SettlementRow
  <2>2. told \in BotRow /\ x.balance + x.row.contributed \in Nat
    <3>1. told \in BotRow
      BY <2>1, ToldType
    <3> QED BY <2>1, <3>1
  <2> HIDE DEF told
  <2>3. y \in Session /\ WellFormed(y)
    BY <1>1, <2>1, <2>2 DEF Session, Phases, WellFormed, Sharing
  <2>4. bots' \in [Bots -> BotRow]
    <3>1. bots' = [bots EXCEPT ![x.bot] = Flush(bots[x.bot], x.loaded, told)]
      BY <1>1, <1>7 DEF Contribute, told
    <3> QED BY <1>1, <2>1, <2>2, <3>1, FlushBotType
  <2>5. reserves' \in [Bots -> Reserve]
    <3>1. [reserves[x.bot] EXCEPT !.balance = x.balance + x.row.contributed] \in Reserve
      BY <1>1, <2>1, <2>2 DEF Reserve
    <3>2. reserves' = [reserves EXCEPT ![x.bot] =
                         [reserves[x.bot] EXCEPT !.balance = x.balance + x.row.contributed]]
      BY <1>1, <1>7 DEF Contribute
    <3> QED BY <1>1, <3>1, <3>2
  <2>6. Become(s, y) /\ UNCHANGED <<settled, failed>>
    BY <1>7 DEF Contribute, told
  <2> QED BY <1>1, <2>3, <2>4, <2>5, <2>6, CommitStep
<1>8. ASSUME NEW s \in Sessions, LoadMother(s)
      PROVE  IInv'
  <2> DEFINE x == [sess[s] EXCEPT !.pc = "crediting", !.mother = bots[Mother]]
             y == [sess[s] EXCEPT !.pc = "saving"]
  <2>1. bots[Mother] \in BotRow
    BY <1>1 DEF Bots
  <2>2. Parent(sess[s].bot) # NoBot => x \in Session /\ WellFormed(x)
    BY <1>1, <1>8, <2>1 DEF LoadMother, Parent, Session, Phases, WellFormed, Sharing
  <2>3. y \in Session /\ WellFormed(y)
    BY <1>1, <1>8 DEF LoadMother, Session, Phases, WellFormed, Sharing
  <2> QED BY <1>1, <1>8, <2>2, <2>3, SessionStep DEF LoadMother
<1>9. ASSUME NEW s \in Sessions, CommitDay(s)
      PROVE  IInv'
  <2> DEFINE x == sess[s]
  <2>1. CASE Taken(x.row)
    BY <1>1, <1>9, <2>1, IdleType, SessionStep DEF CommitDay
  <2>2. CASE ~Taken(x.row)
    <3>1. /\ x.bot \in Bots /\ x.row \in SettlementRow /\ x.now \in BotRow
          /\ x.loaded \in BotRow /\ x.mother \in BotRow
      BY <1>1, <1>9 DEF CommitDay, WellFormed, Sharing, Session
    <3>2. settled' \subseteq SettlementRow
      BY <1>1, <1>9, <2>2, <3>1 DEF CommitDay
    <3> DEFINE kept == [bots EXCEPT ![x.bot] = Flushed(x)]
               credited == Flush(bots[Mother], x.mother, Credited(x.mother, x.row))
    <3>3. kept \in [Bots -> BotRow]
      BY <1>1, <3>1, FlushBotType DEF Flushed
    <3>4. bots[Mother] \in BotRow
      BY <1>1 DEF Bots
    <3>5. credited \in BotRow
      BY <3>1, <3>4, FlushBotType, CreditedType
    <3>6. bots' = IF x.pc = "saving" THEN kept ELSE [kept EXCEPT ![Mother] = credited]
      BY <1>9, <2>2 DEF CommitDay
    <3> HIDE DEF kept, credited
    <3>7. bots' \in [Bots -> BotRow]
      BY <3>3, <3>5, <3>6
    <3> QED BY <1>1, <1>9, <2>2, <3>2, <3>7, IdleType, CommitStep DEF CommitDay
  <2> QED BY <2>1, <2>2
<1>10. ASSUME NEW s \in Sessions, Abort(s)
       PROVE  IInv'
  <2>1. sess[s].bot \in Bots
    BY <1>1, <1>10 DEF Abort, WellFormed
  <2>2. failed' \in [Bots -> 0..MaxFailures]
    BY <1>1, <1>10, <2>1, SettlementAssumption DEF Abort
  <2> QED BY <1>1, <1>10, <2>2, IdleType, SessionStep DEF Abort
<1>11. CASE UNCHANGED vars
  BY <1>11 DEF vars, IInv, TypeOK, WellFormed
<1> QED
  BY <1>2, <1>3, <1>4, <1>5, <1>6, <1>7, <1>8, <1>9, <1>10, <1>11 DEF Next

\* However many settlements overlap, and wherever they fail, the rows keep their
\* types: no bot's debt and no reserve is ever negative (settle, line 61;
\* contribute, line 30).
THEOREM TypeCorrect == Spec => []TypeOK
<1>1. IInv => TypeOK
  BY DEF IInv
<1> QED BY <1>1, InitIInv, StepIInv, PTL DEF Spec

(***************************************************************************)
(* One call at a time: the session's rows are those of the tables.         *)
(***************************************************************************)
Fresh(x, rows, kept) ==
  /\ x.pc # "idle" => /\ x.loaded.reserve = rows[x.bot].reserve
                      /\ x.now.reserve = rows[x.bot].reserve
  /\ x.pc \in {"creating", "contributing"} => x.balance = kept[x.bot].balance
  /\ x.pc = "contributing" => kept[x.bot].exists
  /\ x.pc = "crediting" => x.mother.reserve = rows[Mother].reserve

SoloInv ==
  /\ ReserveMirrored
  /\ \A b \in Bots : ~reserves[b].exists => reserves[b].balance = 0
  /\ \A s \in Sessions : Fresh(sess[s], bots, reserves)

LEMMA InitSolo == Init => SoloInv
BY DEF Init, SoloInv, ReserveMirrored, Fresh, NoReserve, Idle

\* A step after which every reserve and what the bots show of it are as before.
LEMMA SameReserves ==
  ASSUME SoloInv, IInv,
         \A b \in Bots : bots'[b].reserve = bots[b].reserve /\ reserves'[b] = reserves[b],
         \A s \in Sessions : Fresh(sess'[s], bots', reserves')
  PROVE  SoloInv'
BY DEF SoloInv, ReserveMirrored

LEMMA StepSolo ==
  ASSUME \A s, r \in Sessions : s = r, IInv, SoloInv, [Next]_vars
  PROVE  SoloInv'
<1>1. /\ bots \in [Bots -> BotRow] /\ reserves \in [Bots -> Reserve]
      /\ \A b \in Bots : bots[b] \in BotRow /\ reserves[b] \in Reserve
      /\ sess \in [Sessions -> Session] /\ Mother \in Bots
      /\ \A s \in Sessions : sess[s] \in Session /\ WellFormed(sess[s])
      /\ \A s \in Sessions : Fresh(sess[s], bots, reserves)
  BY DEF IInv, TypeOK, SoloInv, Bots
\* The call that moves is the only one.
<1>2. ASSUME NEW s \in Sessions, NEW x, Become(s, x), Fresh(x, bots', reserves')
      PROVE  \A r \in Sessions : Fresh(sess'[r], bots', reserves')
  <2>1. \A r \in Sessions : sess'[r] = x
    BY <1>1, <1>2 DEF Become
  <2> QED BY <1>2, <2>1 DEF Fresh
<1>3. Fresh(Idle, bots', reserves')
  BY DEF Fresh, Idle
<1>4. ASSUME NEW s \in Sessions, UNCHANGED tables, Become(s, Idle)
      PROVE  SoloInv'
  BY <1>2, <1>3, <1>4, SameReserves DEF tables
<1>5. ASSUME NEW s \in Sessions, NEW b \in Bots, LoadBot(s, b)
      PROVE  SoloInv'
  <2> DEFINE x == [Idle EXCEPT !.pc = "loaded", !.bot = b, !.loaded = bots[b],
                               !.now = bots[b]]
  <2>1. Fresh(x, bots', reserves')
    BY <1>5 DEF LoadBot, tables, Fresh, Idle
  <2> QED BY <1>2, <1>5, <2>1, SameReserves DEF LoadBot, tables
<1>6. ASSUME NEW s \in Sessions, NEW d \in Days, NEW c \in Calls, ShareDay(s, d, c)
      PROVE  SoloInv'
  <2> DEFINE row == Shares(sess[s].bot, d, c)
             now == Settling(sess[s].now, row)
             pc == IF row.contributed > 0 THEN "reserving" ELSE "returning"
             x == [sess[s] EXCEPT !.pc = pc, !.row = row, !.now = now]
  <2>1. sess[s].bot \in Bots /\ sess[s].now \in BotRow /\ sess[s].pc = "loaded"
    BY <1>1, <1>6 DEF ShareDay, WellFormed, Session
  <2>2. now.reserve = sess[s].now.reserve
    BY <2>1, SharesType, SettlingType
  <2>3. Become(s, x) /\ UNCHANGED tables
    BY <1>6 DEF ShareDay
  <2> HIDE DEF row, now
  <2>4. /\ x.pc \in {"reserving", "returning"} /\ x.bot = sess[s].bot
        /\ x.loaded = sess[s].loaded /\ x.now = now
    BY <1>1 DEF Session
  <2> HIDE DEF x
  <2>5. Fresh(x, bots', reserves')
    BY <1>1, <2>1, <2>2, <2>3, <2>4 DEF tables, Fresh
  <2> QED BY <1>2, <2>3, <2>5, SameReserves DEF tables
<1>7. ASSUME NEW s \in Sessions, LoadReserve(s)
      PROVE  SoloInv'
  <2> DEFINE reserve == reserves[sess[s].bot]
             pc == IF reserve.exists THEN "contributing" ELSE "creating"
             x == [sess[s] EXCEPT !.pc = pc, !.balance = reserve.balance]
  <2>1. Become(s, x) /\ UNCHANGED tables /\ sess[s].pc = "reserving"
    BY <1>7 DEF LoadReserve
  <2>2. /\ x.pc \in {"contributing", "creating"} /\ x.bot = sess[s].bot
        /\ x.loaded = sess[s].loaded /\ x.now = sess[s].now
        /\ x.balance = reserves[x.bot].balance
        /\ x.pc = "contributing" => reserves[x.bot].exists
    BY <1>1 DEF Session
  <2> HIDE DEF x
  <2>3. Fresh(x, bots', reserves')
    BY <1>1, <2>1, <2>2 DEF tables, Fresh
  <2> QED BY <1>2, <2>1, <2>3, SameReserves DEF tables
<1>8. ASSUME NEW s \in Sessions, CreateReserve(s), ~reserves[sess[s].bot].exists
      PROVE  SoloInv'
  <2> DEFINE x == sess[s]
             y == [x EXCEPT !.pc = "contributing", !.loaded = x.now]
             empty == [exists |-> TRUE, balance |-> 0]
  <2>1. /\ x.bot \in Bots /\ x.now \in BotRow /\ x.loaded \in BotRow
        /\ x.loaded.reserve = bots[x.bot].reserve /\ x.now.reserve = bots[x.bot].reserve
        /\ reserves[x.bot].balance = 0 /\ x.balance = 0
    BY <1>1, <1>8 DEF CreateReserve, WellFormed, Session, Fresh, SoloInv
  <2>2. \A b \in Bots : bots'[b].reserve = bots[b].reserve
    <3>1. Flushed(x).reserve = bots[x.bot].reserve
      BY <1>1, <2>1, FlushBotType DEF Flushed
    <3>2. bots' = [bots EXCEPT ![x.bot] = Flushed(x)]
      BY <1>8 DEF CreateReserve
    <3> QED BY <1>1, <3>1, <3>2
  <2>3. /\ Become(s, y) /\ reserves' = [reserves EXCEPT ![x.bot] = empty]
    BY <1>8 DEF CreateReserve
  <2>4. /\ reserves'[x.bot] = empty /\ empty.exists /\ empty.balance = 0
        /\ \A b \in Bots \ {x.bot} : reserves'[b] = reserves[b]
    BY <1>1, <2>1, <2>3
  <2>5. /\ y.pc = "contributing" /\ y.bot = x.bot /\ y.loaded = x.now /\ y.now = x.now
        /\ y.balance = x.balance
    BY <1>1 DEF Session
  <2> HIDE DEF y, empty
  <2>6. Fresh(y, bots', reserves')
    BY <2>1, <2>2, <2>4, <2>5 DEF Fresh
  <2>7. \A r \in Sessions : Fresh(sess'[r], bots', reserves')
    BY <1>2, <2>3, <2>6
  <2> QED BY <2>1, <2>2, <2>4, <2>7 DEF SoloInv, ReserveMirrored
<1>9. ASSUME NEW s \in Sessions, Contribute(s)
      PROVE  SoloInv'
  <2> DEFINE x == sess[s]
             sum == x.balance + x.row.contributed
             told == ToldTheBalance(x.now, x.balance, x.row.contributed)
             y == [x EXCEPT !.pc = "returning", !.loaded = told, !.now = told]
  <2>1. /\ x.bot \in Bots /\ x.row \in SettlementRow /\ x.now \in BotRow
        /\ x.loaded \in BotRow /\ x.balance \in Nat
        /\ x.row.contributed \in Nat /\ x.row.contributed > 0
        /\ x.loaded.reserve = bots[x.bot].reserve /\ x.balance = reserves[x.bot].balance
        /\ bots[x.bot].reserve = reserves[x.bot].balance
    BY <1>1, <1>9 DEF Contribute, WellFormed, Sharing, Session, SettlementRow, Fresh, SoloInv,
                      ReserveMirrored
  <2>2. told \in BotRow /\ told.reserve = sum
    BY <2>1, ToldType
  <2>3. sum # x.loaded.reserve /\ sum > 0
    BY <2>1
  <2>4. /\ bots' = [bots EXCEPT ![x.bot] = Flush(bots[x.bot], x.loaded, told)]
        /\ reserves' = [reserves EXCEPT ![x.bot] = [reserves[x.bot] EXCEPT !.balance = sum]]
        /\ Become(s, y)
    BY <1>1, <1>9 DEF Contribute
  <2> HIDE DEF told, sum
  <2>5. Flush(bots[x.bot], x.loaded, told).reserve = sum
    BY <1>1, <2>1, <2>2, <2>3, FlushBotType
  <2>6. /\ bots'[x.bot].reserve = sum /\ reserves'[x.bot].balance = sum
        /\ \A b \in Bots \ {x.bot} : bots'[b] = bots[b] /\ reserves'[b] = reserves[b]
        /\ reserves'[x.bot].exists = reserves[x.bot].exists
    BY <1>1, <2>1, <2>4, <2>5 DEF Reserve
  <2>7. /\ y.pc = "returning" /\ y.bot = x.bot /\ y.loaded = told /\ y.now = told
    BY <1>1 DEF Session
  <2> HIDE DEF y
  <2>8. Fresh(y, bots', reserves')
    BY <2>2, <2>6, <2>7 DEF Fresh
  <2>9. \A r \in Sessions : Fresh(sess'[r], bots', reserves')
    BY <1>2, <2>4, <2>8
  <2>10. reserves[x.bot].exists
    BY <1>1, <1>9 DEF Contribute, Fresh
  <2> QED BY <2>1, <2>6, <2>9, <2>10 DEF SoloInv, ReserveMirrored
<1>10. ASSUME NEW s \in Sessions, LoadMother(s)
       PROVE  SoloInv'
  <2> DEFINE x == [sess[s] EXCEPT !.pc = "crediting", !.mother = bots[Mother]]
             y == [sess[s] EXCEPT !.pc = "saving"]
  <2>1. /\ Become(s, x) \/ Become(s, y)
        /\ UNCHANGED tables /\ sess[s].pc = "returning"
    BY <1>10 DEF LoadMother
  <2>2. /\ x.pc = "crediting" /\ y.pc = "saving" /\ x.mother = bots[Mother]
        /\ x.bot = sess[s].bot /\ x.loaded = sess[s].loaded /\ x.now = sess[s].now
        /\ y.bot = sess[s].bot /\ y.loaded = sess[s].loaded /\ y.now = sess[s].now
    BY <1>1 DEF Session
  <2> HIDE DEF x, y
  <2>3. Fresh(x, bots', reserves') /\ Fresh(y, bots', reserves')
    BY <1>1, <2>1, <2>2 DEF tables, Fresh
  <2> QED BY <1>2, <2>1, <2>3, SameReserves DEF tables
<1>11. ASSUME NEW s \in Sessions, CommitDay(s), ~Taken(sess[s].row)
       PROVE  SoloInv'
  <2> DEFINE x == sess[s]
             kept == [bots EXCEPT ![x.bot] = Flushed(x)]
             credited == Flush(bots[Mother], x.mother, Credited(x.mother, x.row))
  <2>1. /\ x.bot \in Bots /\ x.row \in SettlementRow /\ x.now \in BotRow
        /\ x.loaded \in BotRow /\ x.mother \in BotRow
        /\ x.loaded.reserve = bots[x.bot].reserve /\ x.now.reserve = bots[x.bot].reserve
        /\ x.pc = "crediting" => x.mother.reserve = bots[Mother].reserve
        /\ x.pc \in {"saving", "crediting"}
    BY <1>1, <1>11 DEF CommitDay, WellFormed, Sharing, Session, Fresh
  <2>2. Flushed(x).reserve = bots[x.bot].reserve
    <3>1. bots[x.bot] \in BotRow /\ x.now.reserve = x.loaded.reserve
      BY <1>1, <2>1
    <3> QED BY <2>1, <3>1, FlushBotType DEF Flushed
  <2>3. x.pc = "crediting" => credited.reserve = bots[Mother].reserve
    <3>1. /\ bots[Mother] \in BotRow /\ Credited(x.mother, x.row) \in BotRow
          /\ Credited(x.mother, x.row).reserve = x.mother.reserve
      BY <1>1, <2>1, CreditedType
    <3> QED BY <2>1, <3>1, FlushBotType
  <2>4. /\ bots' = IF x.pc = "saving" THEN kept ELSE [kept EXCEPT ![Mother] = credited]
        /\ Become(s, Idle) /\ UNCHANGED reserves
    BY <1>11 DEF CommitDay
  <2>5. /\ kept \in [Bots -> {kept[b] : b \in Bots}]
        /\ \A b \in Bots : kept[b].reserve = bots[b].reserve
    BY <1>1, <2>1, <2>2
  <2> HIDE DEF kept, credited
  <2>6. \A b \in Bots : bots'[b].reserve = bots[b].reserve
    BY <1>1, <2>1, <2>3, <2>4, <2>5
  <2> QED BY <1>2, <1>3, <2>4, <2>6, SameReserves
<1>12. CASE UNCHANGED vars
  BY <1>12 DEF vars, SoloInv, ReserveMirrored, Fresh
<1>13. ASSUME NEW s \in Sessions, Abort(s)
       PROVE  SoloInv'
  BY <1>4, <1>13 DEF Abort
<1>14. ASSUME NEW s \in Sessions, NEW d \in Days, RefuseDay(s, d)
       PROVE  SoloInv'
  BY <1>4, <1>14 DEF RefuseDay
<1>15. ASSUME NEW s \in Sessions, CreateReserve(s)
       PROVE  SoloInv'
  BY <1>4, <1>8, <1>15 DEF CreateReserve
<1>16. ASSUME NEW s \in Sessions, CommitDay(s)
       PROVE  SoloInv'
  BY <1>4, <1>11, <1>16 DEF CommitDay
<1> QED
  BY <1>5, <1>6, <1>7, <1>9, <1>10, <1>12, <1>13, <1>14, <1>15, <1>16 DEF Next

\* With one call at a time, whatever it fails at and however often it is retried,
\* the reserve a bot shows is the balance of its reserve (contribute, lines 33-52).
THEOREM SerialReserve ==
  ASSUME \A s, r \in Sessions : s = r
  PROVE  Spec => []ReserveMirrored
<1>1. IInv /\ SoloInv /\ [Next]_vars => SoloInv'
  BY StepSolo
<1>2. SoloInv => ReserveMirrored
  BY DEF SoloInv
<1> QED BY <1>1, <1>2, InitIInv, InitSolo, StepIInv, PTL DEF Spec

(***************************************************************************)
(* The books: what the settled days leave a bot with.                      *)
(***************************************************************************)
Expected(b, rows) ==
  [capital |-> Capital + Total("retained", OwnRows(b, rows))
                       + Total("returned", SonsRows(b, rows)),
   borrowed |-> NotBelowZero(Borrowed - Total("repaid", OwnRows(b, rows))),
   reserve |-> Total("contributed", OwnRows(b, rows))]

\* The shares of a day are its result, but for what the percentages leave of a gain.
Split(r) == r.retained + r.contributed + r.returned
              = 100 * r.net - UnsplitPct * NotBelowZero(r.net)

LEMMA SharesSplit ==
  ASSUME NEW b \in Bots, NEW d \in Days, NEW c \in Calls
  PROVE  Split(Shares(b, d, c))
<1> DEFINE net == c.gross - c.charges - c.repayment
<1>1. /\ RetainPct \in Int /\ ReservePct \in Int /\ ReturnPct \in Int /\ net \in Int
  BY SettlementAssumption
<1> HIDE DEF net
<1>2. \A p, q, r, n \in Int : p * n + q * n + r * n = 100 * n - (100 - p - q - r) * n
  OBVIOUS
<1>3. RetainPct * net + ReservePct * net + ReturnPct * net = 100 * net - UnsplitPct * net
  BY <1>1, <1>2 DEF UnsplitPct
<1>4. UnsplitPct \in Int /\ UnsplitPct * 0 = 0 /\ 100 * net \in Int
  BY <1>1 DEF UnsplitPct
<1>5. Shares(b, d, c) =
        [bot |-> b, day |-> d, net |-> net, repaid |-> 100 * c.repayment,
         retained |-> IF net > 0 THEN RetainPct * net ELSE 100 * net,
         contributed |-> IF net > 0 THEN ReservePct * net ELSE 0,
         returned |-> IF net > 0 THEN ReturnPct * net ELSE 0]
  BY DEF Shares, net
<1>6. NotBelowZero(net) = IF net > 0 THEN net ELSE 0
  BY <1>1 DEF NotBelowZero
<1>7. CASE net > 0
  <2> DEFINE r == Shares(b, d, c)
  <2>1. /\ r.retained = RetainPct * net /\ r.contributed = ReservePct * net
        /\ r.returned = ReturnPct * net /\ r.net = net /\ NotBelowZero(net) = net
    BY <1>5, <1>6, <1>7
  <2> QED BY <1>3, <2>1 DEF Split
<1>8. CASE ~(net > 0)
  <2> DEFINE r == Shares(b, d, c)
  <2>1. /\ r.retained = 100 * net /\ r.contributed = 0
        /\ r.returned = 0 /\ r.net = net /\ NotBelowZero(net) = 0
    BY <1>5, <1>6, <1>8
  <2> QED BY <1>4, <2>1 DEF Split
<1> QED BY <1>7, <1>8

\* A row's columns.
LEMMA ColumnTypes ==
  ASSUME NEW r \in SettlementRow
  PROVE  /\ r["net"] = r.net /\ r["retained"] = r.retained
         /\ r["contributed"] = r.contributed /\ r["returned"] = r.returned
         /\ r["repaid"] = r.repaid
         /\ r.net \in Int /\ r.retained \in Int /\ r.contributed \in Nat
         /\ r.returned \in Nat /\ r.repaid \in Nat /\ r.bot \in Bots /\ r.day \in Days
BY DEF SettlementRow

LEMMA TotalType ==
  ASSUME NEW column, NEW rows, IsFiniteSet(rows)
  PROVE  /\ (\A r \in rows : r[column] \in Int) => Total(column, rows) \in Int
         /\ (\A r \in rows : r[column] \in Nat) => Total(column, rows) \in Nat
<1> DEFINE f == [r \in rows |-> r[column]]
<1>1. \A r \in rows : f[r] = r[column]
  OBVIOUS
<1>2. Total(column, rows) = SumFunctionOnSet(f, rows)
  BY DEF Total
<1> HIDE DEF f
<1>3. (\A r \in rows : r[column] \in Int) => SumFunctionOnSet(f, rows) \in Int
  BY <1>1, SumType
<1>4. (\A r \in rows : r[column] \in Nat) => SumFunctionOnSet(f, rows) \in Nat
  BY <1>1, SumNat
<1> QED BY <1>2, <1>3, <1>4

\* A new row adds its column.
LEMMA TotalGrows ==
  ASSUME NEW column, NEW rows, IsFiniteSet(rows), NEW row, row \notin rows,
         \A r \in rows \cup {row} : r[column] \in Int
  PROVE  Total(column, rows \cup {row}) = row[column] + Total(column, rows)
<1> DEFINE f == [r \in rows |-> r[column]]
           g == [r \in rows \cup {row} |-> r[column]]
<1>1. /\ g[row] = row[column] /\ \A r \in rows : f[r] = g[r] /\ f[r] \in Int
      /\ \A r \in rows \cup {row} : g[r] \in Int
  OBVIOUS
<1>2. /\ Total(column, rows) = SumFunctionOnSet(f, rows)
      /\ Total(column, rows \cup {row}) = SumFunctionOnSet(g, rows \cup {row})
  BY DEF Total
<1> HIDE DEF f, g
<1>3. SumFunctionOnSet(g, rows \cup {row}) = g[row] + SumFunctionOnSet(g, rows)
  BY <1>1, SumAdd
<1>4. SumFunctionOnSet(f, rows) = SumFunctionOnSet(g, rows)
  BY <1>1, SumSame
<1> QED BY <1>1, <1>2, <1>3, <1>4

\* A new row adds its gain.
LEMMA GainsGrow ==
  ASSUME NEW rows, IsFiniteSet(rows), rows \subseteq SettlementRow,
         NEW row \in SettlementRow, row \notin rows
  PROVE  /\ Gains(rows \cup {row}) = NotBelowZero(row.net) + Gains(rows)
         /\ Gains(rows) \in Int /\ NotBelowZero(row.net) \in Int
<1> DEFINE f == [r \in rows |-> NotBelowZero(r.net)]
           g == [r \in rows \cup {row} |-> NotBelowZero(r.net)]
<1>1. \A r \in rows \cup {row} : NotBelowZero(r.net) \in Int
  BY ColumnTypes DEF NotBelowZero
<1>2. /\ g[row] = NotBelowZero(row.net) /\ \A r \in rows : f[r] = g[r] /\ f[r] \in Int
      /\ \A r \in rows \cup {row} : g[r] \in Int
  BY <1>1
<1>3. /\ Gains(rows) = SumFunctionOnSet(f, rows)
      /\ Gains(rows \cup {row}) = SumFunctionOnSet(g, rows \cup {row})
  BY DEF Gains
<1> HIDE DEF f, g
<1>4. SumFunctionOnSet(g, rows \cup {row}) = g[row] + SumFunctionOnSet(g, rows)
  BY <1>2, SumAdd
<1>5. SumFunctionOnSet(f, rows) = SumFunctionOnSet(g, rows)
  BY <1>2, SumSame
<1>6. SumFunctionOnSet(f, rows) \in Int
  BY <1>2, SumType
<1> QED BY <1>1, <1>2, <1>3, <1>4, <1>5, <1>6

LEMMA RowsGrow ==
  ASSUME NEW b, NEW rows, NEW row
  PROVE  /\ OwnRows(b, rows \cup {row})
               = IF row.bot = b THEN OwnRows(b, rows) \cup {row} ELSE OwnRows(b, rows)
         /\ SonsRows(b, rows \cup {row})
               = IF Parent(row.bot) = b THEN SonsRows(b, rows) \cup {row} ELSE SonsRows(b, rows)
         /\ OwnRows(b, rows) \subseteq rows /\ SonsRows(b, rows) \subseteq rows
BY DEF OwnRows, SonsRows

LEMMA ExpectedType ==
  ASSUME NEW b, NEW rows, IsFiniteSet(rows), rows \subseteq SettlementRow
  PROVE  Expected(b, rows) \in BotRow
<1>1. /\ IsFiniteSet(OwnRows(b, rows)) /\ IsFiniteSet(SonsRows(b, rows))
      /\ OwnRows(b, rows) \subseteq SettlementRow /\ SonsRows(b, rows) \subseteq SettlementRow
  BY RowsGrow, FS_Subset
<1>2. /\ Total("retained", OwnRows(b, rows)) \in Int
      /\ Total("returned", SonsRows(b, rows)) \in Nat
      /\ Total("repaid", OwnRows(b, rows)) \in Nat
      /\ Total("contributed", OwnRows(b, rows)) \in Nat
  BY <1>1, TotalType, ColumnTypes
<1> QED BY <1>2, SettlementAssumption DEF Expected, BotRow, NotBelowZero

\* What one more settled day changes for each bot.
LEMMA ExpectedGrows ==
  ASSUME NEW b, NEW rows, IsFiniteSet(rows), rows \subseteq SettlementRow,
         NEW row \in SettlementRow, row \notin rows
  PROVE  LET before == Expected(b, rows)
             after == Expected(b, rows \cup {row})
         IN /\ after.capital = before.capital
                                + (IF row.bot = b THEN row.retained ELSE 0)
                                + (IF Parent(row.bot) = b THEN row.returned ELSE 0)
            /\ after.reserve = before.reserve + (IF row.bot = b THEN row.contributed ELSE 0)
            /\ after.borrowed = IF row.bot = b THEN NotBelowZero(before.borrowed - row.repaid)
                                               ELSE before.borrowed
<1> DEFINE own == OwnRows(b, rows)
           sons == SonsRows(b, rows)
           own2 == OwnRows(b, rows \cup {row})
           sons2 == SonsRows(b, rows \cup {row})
<1>1. /\ IsFiniteSet(own) /\ IsFiniteSet(sons)
      /\ own \subseteq SettlementRow /\ sons \subseteq SettlementRow
      /\ row \notin own /\ row \notin sons
  BY RowsGrow, FS_Subset
<1>2. /\ own2 = IF row.bot = b THEN own \cup {row} ELSE own
      /\ sons2 = IF Parent(row.bot) = b THEN sons \cup {row} ELSE sons
  BY RowsGrow
<1>3. /\ Total("retained", own) \in Int /\ Total("returned", sons) \in Int
      /\ Total("repaid", own) \in Nat /\ Total("contributed", own) \in Nat
  BY <1>1, TotalType, ColumnTypes
<1>4. /\ Expected(b, rows) =
            [capital |-> Capital + Total("retained", own) + Total("returned", sons),
             borrowed |-> NotBelowZero(Borrowed - Total("repaid", own)),
             reserve |-> Total("contributed", own)]
      /\ Expected(b, rows \cup {row}) =
            [capital |-> Capital + Total("retained", own2) + Total("returned", sons2),
             borrowed |-> NotBelowZero(Borrowed - Total("repaid", own2)),
             reserve |-> Total("contributed", own2)]
  BY DEF Expected
<1> HIDE DEF own, sons, own2, sons2
<1>5. /\ row.bot = b => /\ Total("retained", own2) = row.retained + Total("retained", own)
                        /\ Total("repaid", own2) = row.repaid + Total("repaid", own)
                        /\ Total("contributed", own2) = row.contributed + Total("contributed", own)
      /\ Parent(row.bot) = b => Total("returned", sons2) = row.returned + Total("returned", sons)
  BY <1>1, <1>2, TotalGrows, ColumnTypes
<1>6. NotBelowZero(Borrowed - (row.repaid + Total("repaid", own)))
        = NotBelowZero(NotBelowZero(Borrowed - Total("repaid", own)) - row.repaid)
  BY <1>3, ColumnTypes, SettlementAssumption DEF NotBelowZero
<1> QED BY <1>2, <1>3, <1>4, <1>5, <1>6, ColumnTypes, SettlementAssumption

(***************************************************************************)
(* One call at a time: what it has in hand is what the books will say once *)
(* its day is settled, and until it commits something of it, what the      *)
(* tables hold is what they say now.                                       *)
(***************************************************************************)
InHand(x) ==
  LET before == Expected(x.bot, settled)
      after == Expected(x.bot, settled \cup {x.row})
  IN /\ x.pc = "loaded" \/ ~HalfWay(x) => bots[x.bot] = before
     /\ x.pc \in Sharing => x.now.capital = after.capital /\ x.now.borrowed = after.borrowed
     /\ x.pc \in {"reserving", "creating", "contributing"} => x.now.reserve = before.reserve
     /\ x.pc \in {"returning", "saving", "crediting"} => x.now.reserve = after.reserve

Accounted(x) ==
  /\ x.pc = "idle" => x.bot = NoBot
  /\ x.pc # "idle" => x.loaded = bots[x.bot]
  /\ x.pc = "loaded" => x.now = bots[x.bot]
  /\ x.pc \in Sharing => x.row.bot = x.bot /\ ~IsSettled(x.bot, x.row.day) /\ Split(x.row)
  /\ x.pc = "saving" => x.row.returned = 0 \/ x.bot = Mother
  /\ x.pc = "crediting" => x.mother = bots[Mother]
  /\ x.pc # "idle" /\ failed[x.bot] = 0 => InHand(x)

Books ==
  /\ IsFiniteSet(settled) /\ \A r \in settled : Split(r)
  /\ \A b \in Bots : Untouched(b) => bots[b] = Expected(b, settled)
  /\ \A s \in Sessions : Accounted(sess[s])

LEMMA FlushSame ==
  ASSUME NEW row \in BotRow, NEW now \in BotRow
  PROVE  Flush(row, row, now) = now
BY DEF Flush, BotRow

LEMMA BotRowEqual ==
  ASSUME NEW x \in BotRow, NEW y \in BotRow, x.capital = y.capital,
         x.borrowed = y.borrowed, x.reserve = y.reserve
  PROVE  x = y
BY DEF BotRow

LEMMA ExpectedEmpty ==
  ASSUME NEW b \in Bots
  PROVE  Expected(b, {}) = [capital |-> Capital, borrowed |-> Borrowed, reserve |-> 0]
<1>1. OwnRows(b, {}) = {} /\ SonsRows(b, {}) = {}
  BY DEF OwnRows, SonsRows
<1>2. \A column : Total(column, {}) = 0
  BY SumEmpty DEF Total
<1>3. NotBelowZero(Borrowed - 0) = Borrowed /\ Capital + 0 + 0 = Capital
  BY SettlementAssumption DEF NotBelowZero
<1> QED BY <1>1, <1>2, <1>3 DEF Expected

LEMMA InitBooks == Init => Books
<1> SUFFICES ASSUME Init PROVE Books
  OBVIOUS
<1>1. IsFiniteSet(settled) /\ \A r \in settled : Split(r)
  BY FS_EmptySet DEF Init
<1>2. \A b \in Bots : bots[b] = Expected(b, settled)
  BY ExpectedEmpty DEF Init
<1>3. \A s \in Sessions : Accounted(sess[s])
  BY DEF Init, Accounted, Idle, Sharing
<1> QED BY <1>1, <1>2, <1>3 DEF Books

\* A step of the only call that settles nothing and fails nothing.
LEMMA BooksKept ==
  ASSUME \A s, r \in Sessions : s = r, IInv, Books, NEW s \in Sessions,
         UNCHANGED <<settled, failed>>,
         \A b \in Bots : bots'[b] # bots[b] => sess'[s].bot = b,
         sess[s].bot \in {sess'[s].bot, NoBot},
         Accounted(sess[s])'
  PROVE  Books'
<1>1. ASSUME NEW b \in Bots, Untouched(b)'
      PROVE  bots'[b] = Expected(b, settled)
  <2>1. Untouched(b) /\ bots'[b] = bots[b]
    BY <1>1, SettlementAssumption DEF Untouched
  <2> QED BY <2>1 DEF Books
<1>2. ASSUME NEW r \in Sessions PROVE Accounted(sess[r])'
  BY <1>2
<1>3. /\ IsFiniteSet(settled') /\ (\A r \in settled' : Split(r))
      /\ \A b \in Bots : Expected(b, settled') = Expected(b, settled)
  BY DEF Books
<1>4. \A b \in Bots : Untouched(b)' => bots'[b] = Expected(b, settled)'
  BY <1>1, <1>3
<1> QED BY <1>2, <1>3, <1>4 DEF Books

LEMMA StepBooks ==
  ASSUME \A s, r \in Sessions : s = r, IInv, SoloInv, Books, [Next]_vars
  PROVE  Books'
<1>1. /\ bots \in [Bots -> BotRow] /\ Mother \in Bots /\ bots[Mother] \in BotRow
      /\ settled \subseteq SettlementRow /\ IsFiniteSet(settled)
      /\ failed \in [Bots -> 0..MaxFailures] /\ sess \in [Sessions -> Session]
      /\ NoBot \notin Bots /\ Idle.pc = "idle" /\ Idle.bot = NoBot
      /\ \A s \in Sessions : /\ sess[s] \in Session /\ WellFormed(sess[s])
                              /\ Accounted(sess[s]) /\ Fresh(sess[s], bots, reserves)
  BY SettlementAssumption DEF IInv, TypeOK, Bots, Books, SoloInv, Idle
<1>2. \A b \in Bots : bots[b] \in BotRow /\ Expected(b, settled) \in BotRow /\ Parent(b) # b
  BY <1>1, ExpectedType, SettlementAssumption DEF Parent
\* What one more row of the call's bot changes for it.
<1>3. ASSUME NEW b \in Bots, NEW row \in SettlementRow, row.bot = b,
             ~IsSettled(b, row.day)
      PROVE  LET before == Expected(b, settled)
                 after == Expected(b, settled \cup {row})
             IN /\ row \notin settled
                /\ after.capital = before.capital + row.retained
                /\ after.reserve = before.reserve + row.contributed
                /\ after.borrowed = NotBelowZero(before.borrowed - row.repaid)
  <2>1. row \notin settled
    BY <1>3 DEF IsSettled
  <2>2. row.retained \in Int /\ Expected(b, settled).capital \in Int
    BY <1>2, ColumnTypes DEF BotRow
  <2> QED BY <1>1, <1>2, <1>3, <2>1, <2>2, ExpectedGrows
\* The call stops, and its bot's books are closed unless it failed half way.
<1>4. ASSUME NEW s \in Sessions, UNCHANGED tables, Become(s, Idle),
             \A b \in Bots : failed'[b] = 0 => failed[b] = 0,
             sess[s].pc # "idle" /\ failed'[sess[s].bot] = 0
                => sess[s].pc = "loaded" \/ ~HalfWay(sess[s])
      PROVE  Books'
  <2>1. /\ UNCHANGED <<bots, settled>> /\ sess'[s] = Idle /\ \A r \in Sessions : r = s
    BY <1>1, <1>4 DEF Become, tables
  <2>2. ASSUME NEW b \in Bots, failed'[b] = 0
        PROVE  bots[b] = Expected(b, settled)
    <3>1. failed[b] = 0
      BY <1>4, <2>2
    <3>2. CASE sess[s].pc # "idle" /\ sess[s].bot = b
      BY <1>1, <1>4, <2>2, <3>1, <3>2 DEF Accounted, InHand
    <3>3. CASE sess[s].bot # b
      BY <2>1, <3>1, <3>3 DEF Books, Untouched
    <3> QED BY <1>1, <3>2, <3>3 DEF Accounted
  <2>3. \A b \in Bots : Untouched(b)' => bots'[b] = Expected(b, settled)'
    BY <2>1, <2>2 DEF Untouched
  <2>4. \A r \in Sessions : Accounted(sess[r])'
    BY <1>1, <2>1 DEF Accounted, Sharing
  <2> QED BY <1>1, <2>1, <2>3, <2>4 DEF Books
<1>5. ASSUME NEW s \in Sessions, NEW b \in Bots, LoadBot(s, b)
      PROVE  Books'
  <2>1. /\ sess'[s].pc = "loaded" /\ sess'[s].bot = b /\ sess'[s].loaded = bots[b]
        /\ sess'[s].now = bots[b] /\ UNCHANGED <<bots, settled, failed>>
        /\ sess[s].bot = NoBot
    BY <1>1, <1>5 DEF LoadBot, Become, Idle, tables, Accounted
  <2>2. failed[b] = 0 => bots[b] = Expected(b, settled)
    BY <1>1, <2>1 DEF Books, Untouched
  <2>3. Accounted(sess[s])'
    BY <2>1, <2>2 DEF Accounted, InHand, Sharing
  <2> QED BY <2>1, <2>3, BooksKept
<1>6. ASSUME NEW s \in Sessions, NEW d \in Days, RefuseDay(s, d)
      PROVE  Books'
  BY <1>4, <1>6 DEF RefuseDay
<1>7. ASSUME NEW s \in Sessions, NEW d \in Days, NEW c \in Calls, ShareDay(s, d, c)
      PROVE  Books'
  <2> DEFINE x == sess[s]
             row == Shares(x.bot, d, c)
             now == Settling(x.now, row)
             pc == IF row.contributed > 0 THEN "reserving" ELSE "returning"
  <2>1. /\ x.bot \in Bots /\ x.now = bots[x.bot] /\ x.loaded = bots[x.bot]
        /\ x.pc = "loaded" /\ ~IsSettled(x.bot, d)
        /\ failed[x.bot] = 0 => bots[x.bot] = Expected(x.bot, settled)
    BY <1>1, <1>7 DEF ShareDay, WellFormed, Accounted, InHand
  <2>2. row \in SettlementRow /\ row.bot = x.bot /\ row.day = d /\ Split(row)
    BY <2>1, SharesType, SharesSplit DEF Shares
  <2>3. /\ now.capital = bots[x.bot].capital + row.retained
        /\ now.borrowed = NotBelowZero(bots[x.bot].borrowed - row.repaid)
        /\ now.reserve = bots[x.bot].reserve
    BY <1>2, <2>1 DEF Settling, BotRow
  <2>4. /\ sess'[s].pc = pc /\ sess'[s].row = row /\ sess'[s].now = now
        /\ sess'[s].bot = x.bot /\ sess'[s].loaded = x.loaded
        /\ UNCHANGED <<bots, settled, failed>>
    BY <1>1, <1>7 DEF ShareDay, Become, Session, tables
  <2>5. /\ row.contributed \in Nat /\ pc \in {"reserving", "returning"}
        /\ pc = "returning" => row.contributed = 0
    BY <2>2, ColumnTypes
  <2> HIDE DEF row, now, pc
  <2>6. failed[x.bot] = 0 =>
          /\ now.capital = Expected(x.bot, settled \cup {row}).capital
          /\ now.borrowed = Expected(x.bot, settled \cup {row}).borrowed
          /\ now.reserve = Expected(x.bot, settled).reserve
          /\ pc = "returning" => now.reserve = Expected(x.bot, settled \cup {row}).reserve
    <3>1. Expected(x.bot, settled).reserve \in Nat
      BY <1>2, <2>1 DEF BotRow
    <3> QED BY <1>3, <2>1, <2>2, <2>3, <2>5, <3>1
  <2>7. /\ sess'[s].pc # "idle" /\ sess'[s].loaded = bots'[sess'[s].bot]
        /\ sess'[s].pc \notin {"loaded", "saving", "crediting"}
        /\ sess'[s].row = row /\ sess'[s].bot = x.bot
    BY <2>1, <2>4, <2>5
  <2>8. failed'[sess'[s].bot] = 0 => InHand(sess[s])'
    BY <2>1, <2>4, <2>5, <2>6 DEF InHand, Sharing
  <2>9. Accounted(sess[s])'
    BY <2>1, <2>2, <2>4, <2>7, <2>8 DEF Accounted, IsSettled
  <2> QED BY <2>4, <2>9, BooksKept
<1>8. ASSUME NEW s \in Sessions, LoadReserve(s)
      PROVE  Books'
  <2> DEFINE x == sess[s]
  <2>1. /\ x.bot \in Bots /\ x.pc = "reserving" /\ x.pc \in Sharing
    BY <1>1, <1>8 DEF LoadReserve, WellFormed, Sharing
  <2>2. /\ sess'[s].pc \in {"creating", "contributing"} /\ sess'[s].row = x.row
        /\ sess'[s].bot = x.bot /\ sess'[s].loaded = x.loaded /\ sess'[s].now = x.now
        /\ UNCHANGED <<bots, settled, failed>>
    BY <1>1, <1>8 DEF LoadReserve, Become, Session, tables
  <2>3. ~HalfWay(x)
    BY <2>1 DEF HalfWay
  <2>4. Accounted(x) /\ (failed[x.bot] = 0 => InHand(x))
    BY <1>1, <2>1 DEF Accounted
  <2> HIDE DEF x
  <2>5. failed'[sess'[s].bot] = 0 => InHand(sess[s])'
    BY <2>1, <2>2, <2>3, <2>4 DEF InHand, Sharing
  <2>6. Accounted(sess[s])'
    BY <2>1, <2>2, <2>4, <2>5 DEF Accounted, Sharing, IsSettled
  <2> QED BY <2>2, <2>6, BooksKept DEF x
<1>9. ASSUME NEW s \in Sessions, CreateReserve(s)
      PROVE  Books'
  <2> DEFINE x == sess[s]
  <2>1. /\ x.bot \in Bots /\ x.pc = "creating" /\ x.pc \in Sharing
        /\ x.now \in BotRow /\ x.loaded = bots[x.bot] /\ x.row.contributed > 0
        /\ Accounted(x) /\ (failed[x.bot] = 0 => InHand(x)) /\ UNCHANGED failed
    BY <1>1, <1>9 DEF CreateReserve, WellFormed, Sharing, Session, Accounted
  <2>2. CASE reserves[x.bot].exists
    BY <1>4, <1>9, <2>1, <2>2 DEF CreateReserve, HalfWay
  <2>3. CASE ~reserves[x.bot].exists
    <3>1. Flushed(x) = x.now
      BY <1>2, <2>1, FlushSame DEF Flushed
    <3>2. /\ sess'[s].pc = "contributing" /\ sess'[s].row = x.row /\ sess'[s].bot = x.bot
          /\ sess'[s].loaded = x.now /\ sess'[s].now = x.now
          /\ bots' = [bots EXCEPT ![x.bot] = x.now] /\ UNCHANGED <<settled, failed>>
      <4>1. /\ sess' = [sess EXCEPT ![s] = [x EXCEPT !.pc = "contributing", !.loaded = x.now]]
            /\ bots' = [bots EXCEPT ![x.bot] = Flushed(x)] /\ UNCHANGED <<settled, failed>>
        BY <1>9, <2>3 DEF CreateReserve, Become
      <4>2. x \in Session /\ sess'[s] = [x EXCEPT !.pc = "contributing", !.loaded = x.now]
        BY <1>1, <4>1
      <4> HIDE DEF x
      <4> QED BY <3>1, <4>1, <4>2 DEF Session
    <3> HIDE DEF x
    <3>3. HalfWay(sess'[s])
      BY <2>1, <3>2 DEF HalfWay
    <3>4. failed'[sess'[s].bot] = 0 => InHand(sess[s])'
      BY <2>1, <3>2, <3>3 DEF InHand, Sharing
    <3>5. Accounted(sess[s])'
      BY <1>1, <2>1, <3>2, <3>4 DEF Accounted, Sharing, IsSettled
    <3>6. \A b \in Bots : bots'[b] # bots[b] => b = x.bot
      BY <1>1, <3>2
    <3> QED BY <3>2, <3>5, <3>6, BooksKept DEF x
  <2> QED BY <2>2, <2>3
<1>10. ASSUME NEW s \in Sessions, Contribute(s)
       PROVE  Books'
  <2> DEFINE x == sess[s]
             told == ToldTheBalance(x.now, x.balance, x.row.contributed)
  <2>1. /\ x.bot \in Bots /\ x.pc = "contributing" /\ x.pc \in Sharing
        /\ x.now \in BotRow /\ x.loaded = bots[x.bot] /\ x.row \in SettlementRow
        /\ x.row.contributed > 0 /\ x.row.contributed \in Nat /\ x.balance \in Nat
        /\ Accounted(x) /\ (failed[x.bot] = 0 => InHand(x)) /\ UNCHANGED failed
        /\ x.row.bot = x.bot /\ ~IsSettled(x.bot, x.row.day)
    BY <1>1, <1>10, ColumnTypes DEF Contribute, WellFormed, Sharing, Session, Accounted
  <2>2. x.balance = x.now.reserve
    BY <1>1, <2>1 DEF Fresh, SoloInv, ReserveMirrored
  <2>3. /\ told \in BotRow /\ told.reserve = x.now.reserve + x.row.contributed
        /\ told.capital = x.now.capital /\ told.borrowed = x.now.borrowed
    BY <2>1, <2>2, ToldType DEF ToldTheBalance, BotRow
  <2>4. /\ sess'[s].pc = "returning" /\ sess'[s].row = x.row /\ sess'[s].bot = x.bot
        /\ sess'[s].loaded = told /\ sess'[s].now = told
        /\ bots' = [bots EXCEPT ![x.bot] = Flush(bots[x.bot], x.loaded, told)]
        /\ UNCHANGED <<settled, failed>>
    BY <1>1, <1>10 DEF Contribute, Become, Session
  <2> HIDE DEF x, told
  <2>5. Flush(bots[x.bot], x.loaded, told) = told
    BY <1>2, <2>1, <2>3, FlushSame
  <2>6. bots'[x.bot] = told /\ \A b \in Bots : bots'[b] # bots[b] => b = x.bot
    BY <1>1, <2>1, <2>4, <2>5
  <2>7. HalfWay(sess'[s])
    BY <2>1, <2>4 DEF HalfWay
  <2>8. failed[x.bot] = 0 =>
          /\ told.capital = Expected(x.bot, settled \cup {x.row}).capital
          /\ told.borrowed = Expected(x.bot, settled \cup {x.row}).borrowed
          /\ told.reserve = Expected(x.bot, settled \cup {x.row}).reserve
    BY <1>3, <2>1, <2>3 DEF InHand
  <2>9. failed'[sess'[s].bot] = 0 => InHand(sess[s])'
    BY <2>4, <2>7, <2>8 DEF InHand, Sharing
  <2>10. Accounted(sess[s])'
    BY <2>1, <2>4, <2>6, <2>9 DEF Accounted, Sharing, IsSettled
  <2> QED BY <2>4, <2>6, <2>10, BooksKept DEF x
<1>11. ASSUME NEW s \in Sessions, LoadMother(s)
       PROVE  Books'
  <2> DEFINE x == sess[s]
  <2>1. /\ x.bot \in Bots /\ x.pc = "returning" /\ x.pc \in Sharing
        /\ x.row \in SettlementRow /\ x.row.returned \in Nat
        /\ Accounted(x) /\ (failed[x.bot] = 0 => InHand(x))
    BY <1>1, <1>11, ColumnTypes DEF LoadMother, WellFormed, Sharing, Accounted
  <2>2. /\ sess'[s].row = x.row /\ sess'[s].bot = x.bot
        /\ sess'[s].loaded = x.loaded /\ sess'[s].now = x.now
        /\ \/ sess'[s].pc = "crediting" /\ sess'[s].mother = bots[Mother]
           \/ sess'[s].pc = "saving" /\ ~(x.row.returned > 0 /\ Parent(x.bot) # NoBot)
        /\ UNCHANGED <<bots, settled, failed>>
    <3>1. /\ \/ sess' = [sess EXCEPT ![s] = [x EXCEPT !.pc = "crediting",
                                                     !.mother = bots[Mother]]]
             \/ /\ sess' = [sess EXCEPT ![s] = [x EXCEPT !.pc = "saving"]]
                /\ ~(x.row.returned > 0 /\ Parent(x.bot) # NoBot)
          /\ UNCHANGED <<bots, settled, failed>>
      BY <1>11 DEF LoadMother, Become, tables
    <3>2. /\ x \in Session
          /\ \/ sess'[s] = [x EXCEPT !.pc = "crediting", !.mother = bots[Mother]]
             \/ /\ sess'[s] = [x EXCEPT !.pc = "saving"]
                /\ ~(x.row.returned > 0 /\ Parent(x.bot) # NoBot)
      BY <1>1, <3>1
    <3> HIDE DEF x
    <3> QED BY <3>1, <3>2 DEF Session
  <2> HIDE DEF x
  <2>3. sess'[s].pc = "saving" => x.row.returned = 0 \/ x.bot = Mother
    BY <1>1, <2>1, <2>2 DEF Parent
  <2>4. HalfWay(sess'[s]) <=> HalfWay(x)
    BY <2>1, <2>2 DEF HalfWay
  <2>5. failed'[sess'[s].bot] = 0 => InHand(sess[s])'
    BY <2>1, <2>2, <2>4 DEF InHand, Sharing
  <2>6. Accounted(sess[s])'
    BY <2>1, <2>2, <2>3, <2>5 DEF Accounted, Sharing, IsSettled
  <2> QED BY <2>2, <2>6, BooksKept DEF x
<1>12. ASSUME NEW s \in Sessions, CommitDay(s)
       PROVE  Books'
  <2> DEFINE x == sess[s]
             row == x.row
  <2>1. /\ x.bot \in Bots /\ x.pc \in {"saving", "crediting"} /\ x.pc \in Sharing
        /\ row \in SettlementRow /\ x.now \in BotRow /\ x.loaded = bots[x.bot]
        /\ row.bot = x.bot /\ ~IsSettled(x.bot, row.day) /\ Split(row)
        /\ x.pc = "saving" => row.returned = 0 \/ x.bot = Mother
        /\ x.pc = "crediting" => x.mother = bots[Mother] /\ x.bot # Mother
        /\ failed[x.bot] = 0 => InHand(x)
    BY <1>1, <1>12 DEF CommitDay, WellFormed, Sharing, Session, Accounted
  <2>2. ~Taken(row)
    BY <2>1 DEF Taken, IsSettled
  <2> DEFINE kept == [bots EXCEPT ![x.bot] = x.now]
             credited == Credited(bots[Mother], row)
  <2>3. Flushed(x) = x.now
    BY <1>2, <2>1, FlushSame DEF Flushed
  <2>4. x.pc = "crediting" => Flush(bots[Mother], x.mother, Credited(x.mother, row)) = credited
    BY <1>1, <2>1, CreditedType, FlushSame
  <2>5. /\ settled' = settled \cup {row} /\ UNCHANGED failed
        /\ bots' = IF x.pc = "saving" THEN kept ELSE [kept EXCEPT ![Mother] = credited]
        /\ sess'[s] = Idle /\ \A r \in Sessions : r = s
    BY <1>1, <1>12, <2>1, <2>2, <2>3, <2>4 DEF CommitDay, Become
  <2>6. credited.capital = bots[Mother].capital + row.returned /\ credited \in BotRow
        /\ credited.borrowed = bots[Mother].borrowed /\ credited.reserve = bots[Mother].reserve
    BY <1>1, <2>1, CreditedType DEF Credited, BotRow
  <2>7. /\ row \notin settled /\ row.returned \in Nat
        /\ IsFiniteSet(settled') /\ settled' \subseteq SettlementRow
        /\ \A b \in Bots : Expected(b, settled \cup {row}) \in BotRow
    <3>1. row \notin settled /\ row.returned \in Nat
      BY <1>3, <2>1, ColumnTypes
    <3>2. IsFiniteSet(settled \cup {row}) /\ settled \cup {row} \subseteq SettlementRow
      BY <1>1, <2>1, FS_AddElement
    <3> QED BY <2>5, <3>1, <3>2, ExpectedType
  <2> HIDE DEF x, row, kept, credited
  <2>8. ASSUME failed[x.bot] = 0
        PROVE  x.now = Expected(x.bot, settled \cup {row})
    BY <2>1, <2>7, <2>8, BotRowEqual DEF InHand, row
  <2>9. ASSUME NEW b \in Bots, b # x.bot, failed[b] = 0
        PROVE  bots'[b] = Expected(b, settled \cup {row})
    <3>1. bots[b] = Expected(b, settled)
      BY <2>5, <2>9 DEF Books, Untouched, x
    <3>2. kept[b] = bots[b] /\ kept \in [Bots -> BotRow]
      BY <1>1, <2>1, <2>9 DEF kept
    <3>3. /\ Expected(b, settled \cup {row}).reserve = bots[b].reserve
          /\ Expected(b, settled \cup {row}).borrowed = bots[b].borrowed
          /\ Expected(b, settled \cup {row}).capital
                = bots[b].capital + (IF Parent(x.bot) = b THEN row.returned ELSE 0)
      <4>1. /\ bots[b].capital \in Int /\ bots[b].reserve \in Int
            /\ row.returned \in Int
        BY <1>2, <2>7 DEF BotRow
      <4> QED BY <1>1, <2>1, <2>7, <2>9, <3>1, <4>1, ExpectedGrows
    <3>4. CASE b = Mother /\ x.pc = "crediting"
      <4>1. bots'[b] = credited /\ Parent(x.bot) = b
        BY <2>5, <2>9, <3>2, <3>4 DEF Parent
      <4> QED BY <2>6, <2>7, <3>3, <3>4, <4>1, BotRowEqual
    <3>5. CASE b = Mother /\ x.pc = "saving"
      <4>1. bots'[b] = bots[b] /\ row.returned = 0
        BY <2>1, <2>5, <2>9, <3>2, <3>5
      <4>2. bots[b] \in BotRow /\ bots[b].capital + 0 = bots[b].capital
        BY <1>2 DEF BotRow
      <4> QED BY <2>7, <3>3, <4>1, <4>2, BotRowEqual
    <3>6. CASE b # Mother
      <4>1. bots'[b] = bots[b] /\ Parent(x.bot) # b
        BY <1>1, <2>1, <2>5, <3>2, <3>6 DEF Parent
      <4>2. bots[b] \in BotRow /\ bots[b].capital + 0 = bots[b].capital
        BY <1>2 DEF BotRow
      <4> QED BY <2>7, <3>3, <4>1, <4>2, BotRowEqual
    <3> QED BY <2>1, <3>4, <3>5, <3>6
  <2>10. bots'[x.bot] = x.now
    <3>1. kept[x.bot] = x.now /\ kept \in [Bots -> BotRow]
      BY <1>1, <2>1 DEF kept
    <3> QED BY <2>1, <2>5, <3>1
  <2>11. \A b \in Bots : Untouched(b)' => bots'[b] = Expected(b, settled)'
    BY <2>5, <2>8, <2>9, <2>10 DEF Untouched
  <2>12. \A r \in Sessions : Accounted(sess[r])'
    BY <1>1, <2>5 DEF Accounted, Sharing
  <2>13. \A r \in settled' : Split(r)
    BY <2>1, <2>5 DEF Books
  <2> QED BY <2>7, <2>11, <2>12, <2>13 DEF Books
<1>13. ASSUME NEW s \in Sessions, Abort(s)
       PROVE  Books'
  <2>1. sess[s].bot \in Bots /\ failed[sess[s].bot] \in Nat
    BY <1>1, <1>13, SettlementAssumption DEF Abort, WellFormed
  <2>2. \A b \in Bots : failed'[b] = 0 => failed[b] = 0
    BY <1>1, <1>13, <2>1 DEF Abort
  <2>3. failed'[sess[s].bot] = 0 => ~HalfWay(sess[s])
    BY <1>1, <1>13, <2>1 DEF Abort
  <2> QED BY <1>4, <1>13, <2>2, <2>3 DEF Abort
<1>14. CASE UNCHANGED vars
  BY <1>14 DEF vars, Books, Untouched, Accounted, InHand, IsSettled, Expected
<1> QED
  BY <1>5, <1>6, <1>7, <1>8, <1>9, <1>10, <1>11, <1>12, <1>13, <1>14 DEF Next

\* When calls do not overlap, a bot of which none runs or failed half way has
\* exactly what its settled days, and its sons', left it with: no share is retained,
\* reserved, returned or repaid twice or for a day that is not settled, wherever
\* the calls fail and however often they are made again (settle, lines 41-100).
THEOREM SerialSettlement ==
  ASSUME \A s, r \in Sessions : s = r
  PROVE  Spec => []BooksAgree
<1>1. IInv /\ SoloInv /\ [Next]_vars => SoloInv'
  BY StepSolo
<1>2. IInv /\ SoloInv /\ Books /\ [Next]_vars => Books'
  BY StepBooks
<1>3. Books => BooksAgree
  <2> SUFFICES ASSUME Books, NEW b \in Bots, Untouched(b)
               PROVE  LET own == OwnRows(b, settled)
                      IN /\ bots[b].capital = Capital + Total("retained", own)
                                                      + Total("returned", SonsRows(b, settled))
                         /\ bots[b].reserve = Total("contributed", own)
                         /\ bots[b].borrowed = NotBelowZero(Borrowed - Total("repaid", own))
    BY DEF BooksAgree
  <2>1. bots[b] = Expected(b, settled)
    BY DEF Books
  <2> QED BY <2>1 DEF Expected
<1> QED BY <1>1, <1>2, <1>3, InitIInv, InitSolo, InitBooks, StepIInv, PTL DEF Spec

(***************************************************************************)
(* The family's money.                                                     *)
(***************************************************************************)
Holdings(rows) == [b \in Bots |-> Expected(b, rows).capital + Expected(b, rows).reserve]

\* The days of some rows neither make nor lose money but by their results.
Conserved(rows) ==
  SumFunctionOnSet(Holdings(rows), Bots)
     = Capital * Cardinality(Bots) + 100 * Total("net", rows)
       - UnsplitPct * Gains(rows) - Total("returned", OwnRows(Mother, rows))

LEMMA ConservedEmpty == Conserved({})
<1>1. /\ IsFiniteSet(Bots) /\ Capital \in Int
      /\ \A b \in Bots : Holdings({})[b] = Capital
  BY ExpectedEmpty, SettlementAssumption DEF Holdings
<1>2. SumFunctionOnSet(Holdings({}), Bots) = Capital * Cardinality(Bots)
  BY <1>1, SumConstant
<1>3. Total("net", {}) = 0 /\ Total("returned", OwnRows(Mother, {})) = 0 /\ Gains({}) = 0
  <2>1. OwnRows(Mother, {}) = {}
    BY DEF OwnRows
  <2> QED BY <2>1, SumEmpty DEF Total, Gains
<1>4. Capital * Cardinality(Bots) \in Int /\ UnsplitPct * 0 = 0
  BY <1>1, FS_CardinalityType, SettlementAssumption DEF UnsplitPct
<1> QED BY <1>2, <1>3, <1>4 DEF Conserved

\* One more day moves its result to its bot and the Mother, but for the Mother's
\* own return.
LEMMA ConservedGrows ==
  ASSUME NEW rows, IsFiniteSet(rows), rows \subseteq SettlementRow, Conserved(rows),
         NEW row \in SettlementRow, row \notin rows, Split(row)
  PROVE  Conserved(rows \cup {row})
<1> DEFINE f == Holdings(rows)
           g == Holdings(rows \cup {row})
           h == [f EXCEPT ![row.bot] = @ + row.retained + row.contributed]
           lost == IF row.bot = Mother THEN row.returned ELSE 0
<1>1. /\ IsFiniteSet(Bots) /\ Mother \in Bots /\ NoBot \notin Bots /\ row.bot \in Bots
      /\ IsFiniteSet(rows \cup {row}) /\ rows \cup {row} \subseteq SettlementRow
      /\ row.retained \in Int /\ row.contributed \in Int /\ row.returned \in Int
      /\ row.net \in Int
  BY ColumnTypes, FS_AddElement, SettlementAssumption DEF Bots
<1>2. \A b \in Bots : f[b] \in Int /\ g[b] \in Int
  BY <1>1, ExpectedType DEF Holdings, BotRow
<1>3. \A b \in Bots :
        g[b] = f[b] + (IF row.bot = b THEN row.retained + row.contributed ELSE 0)
                    + (IF Parent(row.bot) = b THEN row.returned ELSE 0)
  <2> SUFFICES ASSUME NEW b \in Bots
               PROVE  g[b] = f[b] + (IF row.bot = b THEN row.retained + row.contributed ELSE 0)
                                  + (IF Parent(row.bot) = b THEN row.returned ELSE 0)
    OBVIOUS
  <2> DEFINE before == Expected(b, rows)
             after == Expected(b, rows \cup {row})
  <2>1. f[b] = before.capital + before.reserve /\ g[b] = after.capital + after.reserve
    BY DEF Holdings
  <2>2. before.capital \in Int /\ before.reserve \in Int
    BY ExpectedType DEF BotRow
  <2>3. /\ after.capital = before.capital + (IF row.bot = b THEN row.retained ELSE 0)
                            + (IF Parent(row.bot) = b THEN row.returned ELSE 0)
        /\ after.reserve = before.reserve + (IF row.bot = b THEN row.contributed ELSE 0)
    BY ExpectedGrows
  <2> HIDE DEF before, after, f, g
  <2> QED BY <1>1, <2>1, <2>2, <2>3
<1>4. /\ h[row.bot] = f[row.bot] + row.retained + row.contributed
      /\ \A b \in Bots : h[b] \in Int
      /\ \A b \in Bots \ {row.bot} : f[b] = h[b]
  BY <1>1, <1>2 DEF Holdings
<1> HIDE DEF f, g, h
<1>5. SumFunctionOnSet(h, Bots) = SumFunctionOnSet(f, Bots) - f[row.bot] + h[row.bot]
  BY <1>1, <1>2, <1>4, SumChange
<1>6. SumFunctionOnSet(g, Bots) = SumFunctionOnSet(h, Bots) + row.returned - lost
  <2>1. CASE row.bot = Mother
    <3>1. \A b \in Bots : g[b] = h[b]
      BY <1>1, <1>2, <1>3, <1>4, <2>1 DEF Parent
    <3>2. SumFunctionOnSet(g, Bots) = SumFunctionOnSet(h, Bots)
      BY <1>1, <1>4, <3>1, SumSame
    <3> QED BY <1>1, <1>4, <2>1, <3>2, SumType
  <2>2. CASE row.bot # Mother
    <3>1. g[Mother] = h[Mother] + row.returned /\ \A b \in Bots \ {Mother} : h[b] = g[b]
      BY <1>1, <1>2, <1>3, <1>4, <2>2 DEF Parent
    <3>2. SumFunctionOnSet(g, Bots) = SumFunctionOnSet(h, Bots) - h[Mother] + g[Mother]
      BY <1>1, <1>2, <1>4, <3>1, SumChange
    <3>3. SumFunctionOnSet(h, Bots) \in Int /\ h[Mother] \in Int
      BY <1>1, <1>4, SumType
    <3> QED BY <1>1, <2>2, <3>1, <3>2, <3>3
  <2> QED BY <2>1, <2>2
<1> DEFINE out == UnsplitPct * NotBelowZero(row.net)
<1>o. UnsplitPct \in Int /\ NotBelowZero(row.net) \in Int /\ Gains(rows) \in Int
      /\ out \in Int /\ UnsplitPct * Gains(rows) \in Int
  <2>1. UnsplitPct \in Int
    BY SettlementAssumption DEF UnsplitPct
  <2>2. NotBelowZero(row.net) \in Int /\ Gains(rows) \in Int
    BY GainsGrow
  <2> QED BY <2>1, <2>2
<1>s. row.retained + row.contributed + row.returned = 100 * row.net - out
  BY DEF Split
<1>g. UnsplitPct * Gains(rows \cup {row}) = out + UnsplitPct * Gains(rows)
  <2>1. \A u, m, n \in Int : u * (m + n) = u * m + u * n
    OBVIOUS
  <2>2. Gains(rows \cup {row}) = NotBelowZero(row.net) + Gains(rows)
    BY GainsGrow
  <2> QED BY <1>o, <2>1, <2>2
<1> HIDE DEF out
<1>7. SumFunctionOnSet(g, Bots) = SumFunctionOnSet(f, Bots) + 100 * row.net - out - lost
  <2>1. /\ SumFunctionOnSet(f, Bots) \in Int /\ SumFunctionOnSet(h, Bots) \in Int
        /\ f[row.bot] \in Int /\ lost \in Int
    BY <1>1, <1>2, <1>4, SumType
  <2> HIDE DEF lost
  <2> QED BY <1>1, <1>4, <1>5, <1>6, <1>o, <1>s, <2>1
<1>8. Total("net", rows \cup {row}) = row.net + Total("net", rows)
  BY <1>1, TotalGrows, ColumnTypes
<1>9. /\ Total("returned", OwnRows(Mother, rows \cup {row}))
            = lost + Total("returned", OwnRows(Mother, rows))
      /\ Total("returned", OwnRows(Mother, rows)) \in Int
  <2>1. /\ IsFiniteSet(OwnRows(Mother, rows)) /\ row \notin OwnRows(Mother, rows)
        /\ OwnRows(Mother, rows) \subseteq SettlementRow
    BY RowsGrow, FS_Subset
  <2>2. Total("returned", OwnRows(Mother, rows)) \in Int
    BY <2>1, TotalType, ColumnTypes
  <2>3. CASE row.bot = Mother
    <3>1. OwnRows(Mother, rows \cup {row}) = OwnRows(Mother, rows) \cup {row}
      BY <2>3, RowsGrow
    <3>2. Total("returned", OwnRows(Mother, rows) \cup {row})
            = row.returned + Total("returned", OwnRows(Mother, rows))
      BY <2>1, TotalGrows, ColumnTypes
    <3> QED BY <2>2, <2>3, <3>1, <3>2
  <2>4. CASE row.bot # Mother
    <3>1. OwnRows(Mother, rows \cup {row}) = OwnRows(Mother, rows)
      BY <2>4, RowsGrow
    <3> HIDE DEF lost
    <3>2. lost = 0
      BY <2>4 DEF lost
    <3> QED BY <2>2, <3>1, <3>2
  <2> QED BY <2>3, <2>4
<1>10. Total("net", rows) \in Int /\ Capital * Cardinality(Bots) \in Int /\ lost \in Int
  BY <1>1, TotalType, ColumnTypes, FS_CardinalityType, SettlementAssumption
<1>11. SumFunctionOnSet(f, Bots)
         = Capital * Cardinality(Bots) + 100 * Total("net", rows)
           - UnsplitPct * Gains(rows) - Total("returned", OwnRows(Mother, rows))
  BY DEF Conserved, f
<1> HIDE DEF lost
<1>12. SumFunctionOnSet(g, Bots)
         = Capital * Cardinality(Bots) + 100 * Total("net", rows \cup {row})
           - UnsplitPct * Gains(rows \cup {row})
           - Total("returned", OwnRows(Mother, rows \cup {row}))
  BY <1>1, <1>7, <1>8, <1>9, <1>10, <1>11, <1>o, <1>g
<1> QED BY <1>12 DEF Conserved, g

LEMMA SettledGrows ==
  ASSUME IInv, \A s \in Sessions : Accounted(sess[s]), [Next]_vars
  PROVE  \/ settled' = settled
         \/ \E row \in SettlementRow : /\ row \notin settled /\ Split(row)
                                       /\ settled' = settled \cup {row}
<1>1. ASSUME NEW s \in Sessions, CommitDay(s), settled' # settled
      PROVE  \E row \in SettlementRow : /\ row \notin settled /\ Split(row)
                                        /\ settled' = settled \cup {row}
  <2>1. /\ sess[s].row \in SettlementRow /\ Split(sess[s].row)
        /\ settled' = settled \cup {sess[s].row}
    BY <1>1 DEF CommitDay, IInv, TypeOK, WellFormed, Accounted, Sharing, tables
  <2>2. sess[s].row \notin settled
    BY <1>1, <2>1
  <2> QED BY <2>1, <2>2
<1> QED BY <1>1 DEF Next, LoadBot, RefuseDay, ShareDay, LoadReserve, CreateReserve, Contribute,
            LoadMother, Abort, tables, vars

\* When calls do not overlap and none has failed half way, what the family holds
\* is what it began with and what the settled days won and lost, but for what the
\* percentages, whatever they are, leave of the good days and for the return of a
\* root's own days, which has no parent to go to (settle, lines 41-76).
THEOREM SerialMoney ==
  ASSUME \A s, r \in Sessions : s = r
  PROVE  Spec => []MoneyConserved
<1> DEFINE Kept == Conserved(settled)
<1>1. IInv /\ SoloInv /\ [Next]_vars => SoloInv'
  BY StepSolo
<1>2. IInv /\ SoloInv /\ Books /\ [Next]_vars => Books'
  BY StepBooks
<1>3. Init => Kept
  BY ConservedEmpty DEF Init
<1>4. IInv /\ Books /\ Kept /\ [Next]_vars => Kept'
  <2> SUFFICES ASSUME IInv, Books, Kept, [Next]_vars PROVE Conserved(settled')
    BY DEF Conserved, Holdings, Expected
  <2>1. IsFiniteSet(settled) /\ settled \subseteq SettlementRow
    BY DEF Books, IInv, TypeOK
  <2> QED BY <2>1, SettledGrows, ConservedGrows DEF Books
<1>5. IInv /\ Books /\ Kept => MoneyConserved
  <2> SUFFICES ASSUME IInv, Books, Kept, \A b \in Bots : Untouched(b)
               PROVE  SumFunctionOnSet([b \in Bots |-> bots[b].capital + bots[b].reserve], Bots)
                        = Capital * Cardinality(Bots) + 100 * Total("net", settled)
                          - UnsplitPct * Gains(settled)
                          - Total("returned", OwnRows(Mother, settled))
    BY DEF MoneyConserved
  <2>1. [b \in Bots |-> bots[b].capital + bots[b].reserve] = Holdings(settled)
    BY DEF Books, Holdings
  <2> QED BY <2>1 DEF Conserved
<1> HIDE DEF Kept
<1> QED BY <1>1, <1>2, <1>3, <1>4, <1>5, InitIInv, InitSolo, InitBooks, StepIInv, PTL DEF Spec
=============================================================================
