------------------------ MODULE PaperExecutorProofs ------------------------
EXTENDS PaperExecutor, Sums

LEMMA FlushBotType ==
  ASSUME NEW row \in BotRow, NEW loaded \in BotRow, NEW now \in BotRow
  PROVE  Flush(row, loaded, now) \in BotRow
BY DEF Flush, BotRow, BotStates

LEMMA FlushSame ==
  ASSUME NEW row \in BotRow, NEW now \in BotRow
  PROVE  Flush(row, row, now) = now
BY DEF Flush, BotRow, BotStates

\* What changed in a copy is written over a row that had the same value there.
LEMMA FlushAccount ==
  ASSUME NEW row \in BotRow, NEW loaded \in BotRow, NEW now \in BotRow,
         row.capital = loaded.capital, row.pnl = loaded.pnl, row.count = loaded.count,
         now.state = loaded.state
  PROVE  Flush(row, loaded, now)
           = [capital |-> now.capital, pnl |-> now.pnl, count |-> now.count,
              state |-> row.state]
BY DEF Flush, BotRow, BotStates

LEMMA FlushState ==
  ASSUME NEW row \in BotRow, NEW loaded \in BotRow, NEW now \in BotRow,
         now.state = loaded.state
  PROVE  Flush(row, loaded, now).state = row.state
BY DEF Flush, BotRow, BotStates

LEMMA FlushPositionType ==
  ASSUME NEW row \in Position, NEW loaded \in Position, NEW now \in Position
  PROVE  Flush(row, loaded, now) \in Position
BY DEF Flush, Position

LEMMA FillTypes ==
  ASSUME NEW o \in Order, NEW avg \in Int
  PROVE  /\ Gross(o) \in Int /\ FillPrice(o) \in Int
         /\ Fee(o) \in Int
         /\ Cash(o) \in Int
         /\ Realized(o, avg) \in Int
<1>1. FillPrice(o) \in Int
  BY AmountsAssumption DEF FillPrice, Order
<1>2. Gross(o) \in Int
  BY <1>1 DEF Gross, Order
<1>3. Fee(o) \in Int
  BY <1>2, AmountsAssumption DEF Fee
<1>4. Cash(o) \in Int
  BY <1>2, <1>3 DEF Cash
<1>5. Realized(o, avg) \in Int
  BY <1>1, <1>3 DEF Realized, Order
<1> QED BY <1>1, <1>2, <1>3, <1>4, <1>5

(***************************************************************************)
(* What a session knows at each point of a call.                           *)
(***************************************************************************)
SessionOK(x) ==
  /\ x.pc # "idle" => /\ x.key \in Keys /\ x.order \in Orders
                      /\ x.cached[x.order.bot] \in BotRow
  /\ x.pc \in {"loaded", "approved", "priced", "committed"}
        => x.cached[x.order.bot].state # "DEAD"
  /\ x.pc \in {"approved", "priced"} => x.order.qty > 0
  /\ (x.pc = "priced" /\ x.order.side = "SELL")
        => x.pos # NoPosition /\ x.pos.qty >= x.order.qty

GoodSession == {x \in Session : SessionOK(x)}

IInv == TypeOK /\ sess \in [Sessions -> GoodSession]

LEMMA AnsweredGood ==
  ASSUME NEW r \in Results, NEW c \in [Bots -> BotRow \cup {NotLoaded}]
  PROVE  Answered(r, c) \in GoodSession
BY DEF Answered, GoodSession, Session, SessionOK, Phases

LEMMA EmptyCacheType == EmptyCache \in [Bots -> BotRow \cup {NotLoaded}]
BY DEF EmptyCache

LEMMA LoadedType ==
  ASSUME IInv, NEW s \in Sessions, NEW b \in Bots
  PROVE  /\ Row(s, b) \in BotRow
         /\ Loaded(s, b) \in [Bots -> BotRow \cup {NotLoaded}]
         /\ Loaded(s, b)[b] = Row(s, b)
BY DEF IInv, TypeOK, Row, Loaded, Session

LEMMA InitIInv == Init => IInv
<1> SUFFICES ASSUME Init PROVE IInv
  OBVIOUS
<1>1. [pc |-> "idle", key |-> NoKey, order |-> NoOrder, cached |-> EmptyCache,
       pos |-> NoPosition, day |-> 0, result |-> "none"] \in GoodSession
  BY EmptyCacheType DEF GoodSession, Session, SessionOK, Phases, Results
<1>2. sess \in [Sessions -> GoodSession]
  BY <1>1 DEF Init
<1>3. bots \in [Bots -> BotRow] /\ ledger \in [Bots -> Ledger]
  BY AmountsAssumption DEF Init, BotRow, BotStates, Ledger
<1>4. trades \in Seq(Trade)
  BY DEF Init
<1>5. system \in SystemStates
  BY OnlineAssumption DEF Init
<1> QED BY <1>2, <1>3, <1>4, <1>5 DEF IInv, TypeOK, Init, GoodSession

\* A step that changes one session, to a good one, and no table.
LEMMA SessionStep ==
  ASSUME IInv, NEW s \in Sessions, NEW x \in GoodSession,
         sess' = [sess EXCEPT ![s] = x], UNCHANGED <<tables, system, today>>
  PROVE  IInv'
BY DEF IInv, TypeOK, tables, GoodSession

LEMMA OrderTypes ==
  ASSUME NEW x \in GoodSession, x.pc # "idle"
  PROVE  /\ x.key \in Keys /\ x.order \in Orders /\ x.order \in Order
         /\ x.order.bot \in Bots /\ x.cached[x.order.bot] \in BotRow
         /\ x.cached \in [Bots -> BotRow \cup {NotLoaded}]
BY OrdersAssumption DEF GoodSession, SessionOK, Session, Order

LEMMA FilledType ==
  ASSUME NEW row \in BotRow, NEW o \in Order, NEW avg \in Int
  PROVE  Filled(row, o, avg) \in BotRow /\ Filled(row, o, avg).state = row.state
<1>1. Cash(o) \in Int /\ Realized(o, avg) \in Int
  BY FillTypes
<1>2. row.capital + Cash(o) \in Int /\ row.pnl + Realized(o, avg) \in Int
      /\ row.count + 1 \in Nat
  BY <1>1 DEF BotRow
<1> QED BY <1>2 DEF Filled, BotRow

\* The price of the position a fill is measured against, and the trade row.
LEMMA TradeType ==
  ASSUME NEW x \in GoodSession, x.pc = "priced"
  PROVE  EntryPrice(x) \in Int /\ TradeOf(x) \in Trade
<1>1. EntryPrice(x) \in Int
  BY DEF EntryPrice, GoodSession, SessionOK, Session, Position
<1>2. Realized(x.order, EntryPrice(x)) \in Int
  BY <1>1, OrderTypes, FillTypes
<1> QED BY <1>1, <1>2, OrderTypes DEF TradeOf, Trade, Order, Sides, GoodSession, Session

LEMMA PositionsType ==
  ASSUME IInv, NEW s \in Sessions, sess[s].pc = "priced"
  PROVE  PositionsAfter(sess[s]) \subseteq Position
<1> DEFINE x == sess[s]
           o == x.order
<1>1. x \in GoodSession /\ o \in Order /\ x.key \in Keys /\ o.qty \in Nat /\ o.qty > 0
  BY OrderTypes DEF IInv, GoodSession, SessionOK, Order
<1>2. CASE o.token = NoToken
  BY <1>2 DEF PositionsAfter, IInv, TypeOK
<1>3. CASE o.token # NoToken /\ x.pos = NoPosition
  <2>1. Opened(x.key, o) \in Position
    BY <1>1, <1>3, FillTypes, 0 \in Int DEF Opened, Position, Order
  <2> QED BY <1>3, <2>1 DEF PositionsAfter, IInv, TypeOK
<1>4. CASE o.token # NoToken /\ x.pos # NoPosition
  <2>1. x.pos \in Position
    BY <1>1, <1>4 DEF GoodSession, Session
  <2>2. Increased(x.pos, o) \in Position
    <3>1. Gross(o) \in Int
      BY <1>1, FillTypes, 0 \in Int
    <3>2. /\ x.pos.avg * x.pos.qty + Gross(o) \in Int
          /\ x.pos.qty + o.qty \in Nat /\ x.pos.qty + o.qty > 0
      BY <1>1, <2>1, <3>1 DEF Position
    <3>3. (x.pos.avg * x.pos.qty + Gross(o)) \div (x.pos.qty + o.qty) \in Int
      BY <3>2
    <3> QED BY <2>1, <3>2, <3>3 DEF Increased, Position
  <2>3. ASSUME o.side # "BUY" PROVE Reduced(x.pos, o) \in Position
    <3>1. x.pos.qty >= o.qty
      BY <1>1, <2>3 DEF GoodSession, SessionOK, Order, Sides
    <3>2. x.pos.qty - o.qty \in Nat
      BY <1>1, <2>1, <3>1 DEF Position
    <3>3. (x.pos.qty - o.qty > 0) \in BOOLEAN
      OBVIOUS
    <3> QED BY <2>1, <3>2, <3>3 DEF Reduced, Position
  <2>4. \A p \in positions :
          Flush(p, x.pos, IF o.side = "BUY" THEN Increased(x.pos, o)
                                            ELSE Reduced(x.pos, o)) \in Position
    BY <2>1, <2>2, <2>3, FlushPositionType DEF IInv, TypeOK
  <2> QED BY <1>4, <2>4 DEF PositionsAfter, IInv, TypeOK
<1> QED BY <1>2, <1>3, <1>4

LEMMA CallStepsIInv ==
  ASSUME IInv, NEW s \in Sessions,
         \/ \E k \in Keys : Replay(s, k)
         \/ \E k \in Keys, o \in Orders : RefuseDead(s, k, o) \/ Begin(s, k, o)
         \/ Evaluate(s) \/ Price(s) \/ PriceFails(s)
         \/ CommitConflict(s) \/ Answer(s) \/ Close(s) \/ Abort(s)
  PROVE  IInv'
<1>s. sess[s] \in GoodSession /\ sess[s] \in Session
      /\ sess[s].cached \in [Bots -> BotRow \cup {NotLoaded}]
  BY DEF IInv, GoodSession, Session
<1>r. {"none", "duplicate", "rejected", "error", "executed", "died"} \subseteq Results
  BY DEF Results
<1>1. CASE \E k \in Keys : Replay(s, k)
  BY <1>1, <1>s, <1>r, AnsweredGood, SessionStep DEF Replay
<1>2. CASE \E k \in Keys, o \in Orders : RefuseDead(s, k, o)
  <2>1. PICK k \in Keys, o \in Orders : RefuseDead(s, k, o)
    BY <1>2
  <2>2. o.bot \in Bots
    BY OrdersAssumption DEF Order
  <2>3. Answered("rejected", Loaded(s, o.bot)) \in GoodSession
    BY <2>2, <1>r, LoadedType, AnsweredGood
  <2> QED BY <2>1, <2>3, SessionStep DEF RefuseDead
<1>3. CASE \E k \in Keys, o \in Orders : Begin(s, k, o)
  <2>1. PICK k \in Keys, o \in Orders : Begin(s, k, o)
    BY <1>3
  <2>2. o.bot \in Bots
    BY OrdersAssumption DEF Order
  <2> DEFINE x == [Answered("none", Loaded(s, o.bot)) EXCEPT
                     !.pc = "loaded", !.key = k, !.order = o]
  <2>3. /\ Answered("none", Loaded(s, o.bot)) \in GoodSession
        /\ Loaded(s, o.bot)[o.bot] \in BotRow
        /\ Loaded(s, o.bot)[o.bot].state # "DEAD"
    BY <2>1, <2>2, <1>r, LoadedType, AnsweredGood DEF Begin, RefusesBot
  <2>4. x \in Session /\ x.pc = "loaded" /\ x.key = k /\ x.order = o
        /\ x.cached = Loaded(s, o.bot)
    BY <2>3 DEF GoodSession, Session, Phases, Answered
  <2>5. x \in GoodSession
    BY <2>3, <2>4 DEF GoodSession, SessionOK
  <2>6. sess' = [sess EXCEPT ![s] = x] /\ UNCHANGED <<tables, system, today>>
    BY <2>1 DEF Begin
  <2> QED BY <2>5, <2>6, SessionStep
<1>4. CASE Evaluate(s)
  <2> DEFINE o == sess[s].order
             approved == [sess[s] EXCEPT !.pc = "approved"]
             rejected == Answered("rejected", sess[s].cached)
  <2>1. sess[s].pc = "loaded" /\ UNCHANGED <<tables, system, today>>
        /\ sess' = [sess EXCEPT ![s] = IF RiskApproves(o, sess[s].cached[o.bot])
                                       THEN approved ELSE rejected]
    BY <1>4, <1>s DEF Evaluate, IInv
  <2>2. rejected \in GoodSession
    BY <1>s, <1>r, AnsweredGood
  <2>3. ASSUME RiskApproves(o, sess[s].cached[o.bot]) PROVE approved \in GoodSession
    <3>1. o.qty > 0
      BY <2>3 DEF RiskApproves
    <3>2. approved \in Session /\ approved.pc = "approved" /\ approved.key = sess[s].key
          /\ approved.order = o /\ approved.cached = sess[s].cached
      BY <1>s DEF Session, Phases
    <3> QED BY <2>1, <3>1, <3>2, <1>s DEF GoodSession, SessionOK
  <2> QED BY <2>1, <2>2, <2>3, SessionStep
<1>5. CASE Price(s)
  <2> DEFINE o == sess[s].order
             found == OpenPositions(o.bot, o.token)
  <2>1. PICK p \in IF found = {} THEN {NoPosition} ELSE found :
          sess' = [sess EXCEPT ![s].pc = "priced", ![s].pos = p, ![s].day = today]
    BY <1>5 DEF Price
  <2>2. sess[s].pc = "approved" /\ UNCHANGED <<tables, system, today>>
        /\ ~Ambiguous(o) /\ ~Insufficient(o)
    BY <1>5 DEF Price
  <2>3. found \subseteq Position
    BY DEF IInv, TypeOK, OpenPositions
  <2> DEFINE x == [sess[s] EXCEPT !.pc = "priced", !.pos = p, !.day = today]
  <2>4. sess' = [sess EXCEPT ![s] = x]
    BY <2>1, <1>s DEF IInv
  <2>5. p \in Position \cup {NoPosition} /\ today \in Nat
    BY <2>1, <2>3 DEF IInv, TypeOK
  <2>6. x \in Session /\ x.pc = "priced" /\ x.pos = p /\ x.key = sess[s].key
        /\ x.order = o /\ x.cached = sess[s].cached
    BY <1>s, <2>5 DEF Session, Phases
  <2>7. ASSUME o.side = "SELL" PROVE p # NoPosition /\ p.qty >= o.qty
    <3>1. PICK q \in found : ~(q.qty < o.qty)
      BY <2>2, <2>7 DEF Insufficient
    <3>2. p = q
      BY <2>1, <2>2, <3>1 DEF Ambiguous
    <3>3. q \in Position /\ o.qty \in Nat
      BY <2>2, <2>3, <3>1, <1>s, OrderTypes DEF Order
    <3>4. q \in Position => q.qty \in Nat
      BY DEF Position
    <3>5. q # NoPosition
      BY <3>3, SentinelsAssumption
    <3> QED BY <3>1, <3>2, <3>3, <3>4, <3>5
  <2>8. x \in GoodSession
    BY <2>2, <2>6, <2>7, <1>s DEF GoodSession, SessionOK
  <2> QED BY <2>2, <2>4, <2>8, SessionStep
<1>6. CASE PriceFails(s)
  BY <1>6, <1>s, <1>r, AnsweredGood, SessionStep DEF PriceFails, IInv
<1>7. CASE CommitConflict(s)
  BY <1>7, <1>s, <1>r, AnsweredGood, EmptyCacheType, SessionStep DEF CommitConflict, IInv
<1>8. CASE Answer(s)
  <2>1. sess[s].result \in Results
    BY <1>s DEF Session
  <2> QED BY <1>8, <2>1, <1>s, AnsweredGood, SessionStep DEF Answer, IInv
<1>9. CASE Close(s)
  BY <1>9, <1>s, <1>r, AnsweredGood, EmptyCacheType, SessionStep DEF Close
<1>10. CASE Abort(s)
  BY <1>10, <1>s, <1>r, AnsweredGood, EmptyCacheType, SessionStep DEF Abort
<1> QED
  BY <1>1, <1>2, <1>3, <1>4, <1>5, <1>6, <1>7, <1>8, <1>9, <1>10

LEMMA CommitIInv ==
  ASSUME IInv, NEW s \in Sessions, Commit(s)
  PROVE  IInv'
<1> DEFINE x == sess[s]
           b == x.order.bot
           now == Filled(x.cached[b], x.order, EntryPrice(x))
<1>1. /\ x \in GoodSession /\ x \in Session /\ x.pc = "priced"
      /\ bots' = [bots EXCEPT ![b] = Flush(@, x.cached[b], now)]
      /\ positions' = PositionsAfter(x)
      /\ trades' = Append(trades, TradeOf(x))
      /\ ledger' = [ledger EXCEPT ![b] = [cash |-> @.cash + Cash(x.order),
                                          pnl |-> @.pnl + TradeOf(x).pnl,
                                          rows |-> @.rows + 1]]
      /\ sess' = [sess EXCEPT ![s].pc = "committed", ![s].cached[b] = now]
      /\ UNCHANGED <<deaths, system, today>>
  BY DEF IInv, GoodSession, Commit
<1>2. /\ x.order \in Order /\ b \in Bots /\ x.cached[b] \in BotRow /\ x.key \in Keys
      /\ x.order \in Orders /\ x.cached \in [Bots -> BotRow \cup {NotLoaded}]
  BY <1>1, OrderTypes
<1>3. EntryPrice(x) \in Int /\ TradeOf(x) \in Trade
  BY <1>1, TradeType
<1>4. now \in BotRow /\ now.state # "DEAD"
  BY <1>1, <1>2, <1>3, FilledType DEF GoodSession, SessionOK
<1>5. bots' \in [Bots -> BotRow]
  BY <1>1, <1>2, <1>4, FlushBotType DEF IInv, TypeOK
<1>6. positions' \subseteq Position
  BY <1>1, PositionsType
<1>7. trades' \in Seq(Trade)
  BY <1>1, <1>3 DEF IInv, TypeOK
<1>8. ledger' \in [Bots -> Ledger]
  <2>1. Cash(x.order) \in Int /\ TradeOf(x).pnl \in Int
    BY <1>2, <1>3, FillTypes DEF Trade
  <2>2. ledger[b].cash \in Int /\ ledger[b].pnl \in Int /\ ledger[b].rows \in Nat
    BY <1>2 DEF IInv, TypeOK, Ledger
  <2>3. [cash |-> ledger[b].cash + Cash(x.order), pnl |-> ledger[b].pnl + TradeOf(x).pnl,
         rows |-> ledger[b].rows + 1] \in Ledger
    BY <2>1, <2>2 DEF Ledger
  <2>4. ledger' = [ledger EXCEPT ![b] =
          [cash |-> ledger[b].cash + Cash(x.order),
           pnl |-> ledger[b].pnl + TradeOf(x).pnl, rows |-> ledger[b].rows + 1]]
    BY <1>1, <1>2 DEF IInv, TypeOK
  <2> QED BY <2>3, <2>4 DEF IInv, TypeOK
<1>9. sess' \in [Sessions -> GoodSession]
  <2> DEFINE y == [x EXCEPT !.pc = "committed", !.cached[b] = now]
  <2>1. sess' = [sess EXCEPT ![s] = y]
    BY <1>1 DEF IInv, GoodSession, Session
  <2>2. /\ y \in Session /\ y.pc = "committed" /\ y.key = x.key
        /\ y.order = x.order /\ y.cached = [x.cached EXCEPT ![b] = now]
    BY <1>1, <1>2, <1>4 DEF Session, Phases
  <2>3. y.cached[y.order.bot] \in BotRow /\ y.cached[y.order.bot].state # "DEAD"
    BY <1>2, <1>4, <2>2
  <2>4. y \in GoodSession
    BY <1>2, <2>2, <2>3 DEF GoodSession, SessionOK
  <2> QED BY <2>1, <2>4 DEF IInv
<1> QED BY <1>1, <1>5, <1>6, <1>7, <1>8, <1>9 DEF IInv, TypeOK, GoodSession

LEMMA EnforceIInv ==
  ASSUME IInv, NEW s \in Sessions, Enforce(s)
  PROVE  IInv'
<1> DEFINE x == sess[s]
           b == x.order.bot
           died == Dies(x.cached[b])
<1>1. /\ x \in GoodSession /\ x \in Session /\ x.pc = "committed"
      /\ bots' = [bots EXCEPT ![b].state = IF died THEN "DEAD" ELSE @]
      /\ deaths' = [deaths EXCEPT ![b] = IF died THEN @ + 1 ELSE @]
      /\ sess' = [sess EXCEPT ![s].pc = "enforced",
                     ![s].cached[b].state = IF died THEN "DEAD" ELSE @,
                     ![s].result = IF died THEN "died" ELSE "executed"]
      /\ UNCHANGED <<positions, trades, ledger, system, today>>
  BY DEF IInv, GoodSession, Enforce
<1>2. /\ b \in Bots /\ x.cached[b] \in BotRow /\ x.key \in Keys
      /\ x.order \in Orders /\ x.cached \in [Bots -> BotRow \cup {NotLoaded}]
  BY <1>1, OrderTypes
<1>3. bots' \in [Bots -> BotRow]
  BY <1>1, <1>2 DEF IInv, TypeOK, BotRow, BotStates
<1>4. deaths' \in [Bots -> Nat]
  BY <1>1, <1>2 DEF IInv, TypeOK
<1>5. sess' \in [Sessions -> GoodSession]
  <2> DEFINE row == [x.cached[b] EXCEPT !.state = IF died THEN "DEAD" ELSE @]
             y == [x EXCEPT !.pc = "enforced", !.cached[b] = row,
                            !.result = IF died THEN "died" ELSE "executed"]
  <2>1. sess' = [sess EXCEPT ![s] = y]
    BY <1>1 DEF IInv, GoodSession, Session
  <2>2. row \in BotRow
    BY <1>2 DEF BotRow, BotStates
  <2>3. /\ y \in Session /\ y.pc = "enforced" /\ y.key = x.key
        /\ y.order = x.order /\ y.cached = [x.cached EXCEPT ![b] = row]
    BY <1>1, <1>2, <2>2 DEF Session, Phases, Results
  <2>4. y.cached[y.order.bot] \in BotRow
    BY <1>2, <2>2, <2>3
  <2>5. y \in GoodSession
    BY <1>2, <2>3, <2>4 DEF GoodSession, SessionOK
  <2> QED BY <2>1, <2>5 DEF IInv
<1> QED BY <1>1, <1>3, <1>4, <1>5 DEF IInv, TypeOK, GoodSession

LEMMA NextIInv == IInv /\ [Next]_vars => IInv'
<1> SUFFICES ASSUME IInv, [Next]_vars PROVE IInv'
  OBVIOUS
<1>1. ASSUME NEW s \in Sessions, Step(s) \/ Abort(s) PROVE IInv'
  BY <1>1, CallStepsIInv, CommitIInv, EnforceIInv DEF Step
<1>2. CASE ChangeSystem
  BY <1>2 DEF ChangeSystem, IInv, TypeOK, tables, GoodSession
<1>3. CASE NewDay
  BY <1>3 DEF NewDay, IInv, TypeOK, tables, GoodSession
<1>4. CASE UNCHANGED vars
  BY <1>4 DEF vars, IInv, TypeOK, GoodSession
<1> QED BY <1>1, <1>2, <1>3, <1>4 DEF Next, NextReliable

\* Every reachable state is well typed, and every call in flight holds the
\* bot row, the order and the position its next step needs.
THEOREM Invariance == Spec => []IInv
BY InitIInv, NextIInv, PTL DEF Spec

\* Type correctness, for any callers, orders, prices and limits.
THEOREM TypeCorrect == Spec => []TypeOK
<1>1. IInv => TypeOK
  BY DEF IInv
<1> QED BY <1>1, Invariance, PTL

(***************************************************************************)
(* Death is final, whatever rows the callers hold.                         *)
(***************************************************************************)
LEMMA CommitKeepsStates ==
  ASSUME IInv, NEW s \in Sessions, Commit(s), NEW b \in Bots
  PROVE  bots'[b].state = bots[b].state
<1> DEFINE x == sess[s]
           c == x.order.bot
           now == Filled(x.cached[c], x.order, EntryPrice(x))
<1>1. /\ x \in GoodSession /\ x.pc = "priced"
      /\ bots' = [bots EXCEPT ![c] = Flush(@, x.cached[c], now)]
  BY DEF IInv, GoodSession, Commit
<1>2. c \in Bots /\ x.cached[c] \in BotRow /\ now \in BotRow
      /\ now.state = x.cached[c].state /\ bots[c] \in BotRow
  BY <1>1, OrderTypes, TradeType, FilledType DEF IInv, TypeOK
<1>3. Flush(bots[c], x.cached[c], now).state = bots[c].state
  BY <1>2, FlushState
<1> QED BY <1>1, <1>2, <1>3 DEF IInv, TypeOK

\* The steps of a call that change no table.
LEMMA CallStepsKeepTables ==
  ASSUME NEW s \in Sessions, Step(s) \/ Abort(s), ~Commit(s), ~Enforce(s)
  PROVE  UNCHANGED <<tables, system, today>>
BY DEF Step, Replay, RefuseDead, Begin, Evaluate, Price, PriceFails,
       CommitConflict, Answer, Close, Abort

LEMMA StepKeepsDead ==
  ASSUME IInv, [Next]_vars, NEW b \in Bots, bots[b].state = "DEAD"
  PROVE  bots'[b].state = "DEAD"
<1>1. ASSUME NEW s \in Sessions, Step(s) \/ Abort(s) PROVE bots'[b].state = "DEAD"
  <2>1. CASE Commit(s)
    BY <2>1, CommitKeepsStates
  <2>2. CASE Enforce(s)
    BY <2>2 DEF Enforce, IInv, TypeOK, BotRow
  <2>3. CASE ~Commit(s) /\ ~Enforce(s)
    BY <1>1, <2>3, CallStepsKeepTables DEF tables
  <2> QED BY <2>1, <2>2, <2>3
<1>2. CASE ChangeSystem \/ NewDay \/ UNCHANGED vars
  BY <1>2 DEF ChangeSystem, NewDay, tables, vars
<1> QED BY <1>1, <1>2 DEF Next, NextReliable

\* Nobody is brought to death but by a death that is counted.
LEMMA StepCountsDeaths ==
  ASSUME IInv, [Next]_vars, NEW b \in Bots
  PROVE  /\ deaths'[b] >= deaths[b]
         /\ bots'[b].state = "DEAD" => bots[b].state = "DEAD" \/ deaths'[b] > deaths[b]
<1>t. deaths \in [Bots -> Nat] /\ bots \in [Bots -> BotRow]
  BY DEF IInv, TypeOK
<1>1. ASSUME NEW s \in Sessions, Commit(s)
      PROVE  deaths' = deaths /\ bots'[b].state = bots[b].state
  BY <1>1, CommitKeepsStates DEF Commit
<1>2. ASSUME NEW s \in Sessions, Enforce(s)
      PROVE  /\ deaths'[b] >= deaths[b]
             /\ bots'[b].state = "DEAD" => bots[b].state = "DEAD" \/ deaths'[b] > deaths[b]
  BY <1>2, <1>t DEF Enforce, BotRow
<1>3. ASSUME NEW s \in Sessions, Step(s) \/ Abort(s), ~Commit(s), ~Enforce(s)
      PROVE  UNCHANGED <<deaths, bots>>
  BY <1>3, CallStepsKeepTables DEF tables
<1>4. CASE ChangeSystem \/ NewDay \/ UNCHANGED vars
  BY <1>4, <1>t DEF ChangeSystem, NewDay, tables, vars
<1> QED BY <1>t, <1>1, <1>2, <1>3, <1>4 DEF Next, NextReliable

\* A dead bot stays dead under any number of overlapping callers, failures and
\* stale rows: no flush writes a state the session did not change.
THEOREM DeathIsFinal == Spec => DeadForever
<1>1. IInv /\ [Next]_vars =>
        [\A b \in Bots : bots[b].state = "DEAD" => bots'[b].state = "DEAD"]_vars
  BY StepKeepsDead
<1> QED BY <1>1, Invariance, PTL DEF Spec, DeadForever

(***************************************************************************)
(* The trades of a day.                                                    *)
(***************************************************************************)

\* The sessions whose order for b has been approved and may still become a
\* trade of day d: the day is stamped when the order is priced.
Pending(b, d) ==
  {s \in Sessions : /\ sess[s].order.bot = b
                    /\ \/ sess[s].pc = "approved" /\ today <= d
                       \/ sess[s].pc = "priced" /\ sess[s].day = d}

\* The day's trades and the orders still to come are counted together, for
\* the trades alone say nothing of the calls that were approved beside them.
\* On a day to come there are orders only, and somebody approved them.
RoomLeft ==
  \A b \in Bots, d \in Nat :
    Cardinality(RowsOn(b, d)) + Cardinality(Pending(b, d))
      <= MaxTrades + Cardinality(Sessions) - 1
Dated ==
  /\ \A i \in DOMAIN trades : trades[i].day <= today
  /\ \A s \in Sessions :
       /\ sess[s].pc \in {"approved", "priced"} => MaxTrades > 0
       /\ sess[s].pc = "priced" => sess[s].day <= today
CountsInv == Dated /\ RoomLeft

LEMMA RowsTyped ==
  ASSUME IInv, NEW i \in DOMAIN trades
  PROVE  trades[i] \in Trade /\ trades[i].day \in Nat /\ trades[i].pnl \in Int
<1>1. trades[i] \in Trade
  BY DEF IInv, TypeOK
<1> QED BY <1>1 DEF Trade

LEMMA RowsOnFinite ==
  ASSUME IInv, NEW b, NEW d
  PROVE  IsFiniteSet(RowsOn(b, d)) /\ Cardinality(RowsOn(b, d)) \in Nat
<1>1. DOMAIN trades = 1..Len(trades) /\ Len(trades) \in Nat
  BY DEF IInv, TypeOK
<1>2. IsFiniteSet(DOMAIN trades)
  BY <1>1, FS_Interval, 1 \in Int
<1>3. RowsOn(b, d) \in SUBSET DOMAIN trades
  BY DEF RowsOn, RowsOf
<1> QED BY <1>2, <1>3, FS_Subset, FS_CardinalityType

LEMMA PendingFinite ==
  ASSUME IsFiniteSet(Sessions), NEW b, NEW d
  PROVE  /\ IsFiniteSet(Pending(b, d)) /\ Cardinality(Pending(b, d)) \in Nat
         /\ Cardinality(Pending(b, d)) <= Cardinality(Sessions)
         /\ Cardinality(Sessions) \in Nat
<1>1. Pending(b, d) \in SUBSET Sessions
  BY DEF Pending
<1> QED BY <1>1, FS_Subset, FS_CardinalityType

\* No row is added, no day goes back, and no order comes nearer to a trade.
LEMMA CountsKept ==
  ASSUME IInv, CountsInv, IsFiniteSet(Sessions), trades' = trades,
         today' \in Nat, today <= today',
         \A s \in Sessions :
            \/ sess'[s].pc \notin {"approved", "priced"}
            \/ sess'[s] = sess[s]
            \/ /\ sess[s].pc = "approved" /\ sess'[s].pc = "priced"
               /\ sess'[s].order = sess[s].order
               /\ sess'[s].day = today /\ today' = today
  PROVE  CountsInv'
<1>t. today \in Nat /\ sess \in [Sessions -> Session] /\ MaxTrades \in Nat
  BY AmountsAssumption DEF IInv, TypeOK
<1>1. Dated'
  <2>1. \A i \in DOMAIN trades : trades[i].day \in Nat
    BY RowsTyped
  <2>2. \A i \in DOMAIN trades' : trades'[i].day <= today'
    BY <1>t, <2>1 DEF CountsInv, Dated
  <2>3. ASSUME NEW s \in Sessions
        PROVE  /\ sess'[s].pc \in {"approved", "priced"} => MaxTrades > 0
               /\ sess'[s].pc = "priced" => sess'[s].day <= today'
    <3>1. sess[s].day \in Nat
      BY <1>t DEF Session
    <3> QED BY <1>t, <3>1 DEF CountsInv, Dated
  <2> QED BY <2>2, <2>3 DEF Dated
<1>2. RoomLeft'
  <2>1. ASSUME NEW b \in Bots, NEW d \in Nat
        PROVE  Cardinality(RowsOn(b, d)') + Cardinality(Pending(b, d)')
                 <= MaxTrades + Cardinality(Sessions) - 1
    <3>1. RowsOn(b, d)' = RowsOn(b, d)
      BY DEF RowsOn, RowsOf
    <3>2. Pending(b, d)' \in SUBSET Pending(b, d)
      BY <1>t DEF Pending
    <3>3. Cardinality(Pending(b, d)') \in Nat
          /\ Cardinality(Pending(b, d)') <= Cardinality(Pending(b, d))
      BY <3>2, PendingFinite, FS_Subset, FS_CardinalityType
    <3>4. Cardinality(RowsOn(b, d)) + Cardinality(Pending(b, d))
            <= MaxTrades + Cardinality(Sessions) - 1
      BY DEF CountsInv, RoomLeft
    <3> QED BY <1>t, <3>1, <3>3, <3>4, RowsOnFinite, PendingFinite
  <2> QED BY <2>1 DEF RoomLeft
<1> QED BY <1>1, <1>2 DEF CountsInv

\* An approval finds room for one more trade of today beside those of all the
\* other callers.
LEMMA CountsApproved ==
  ASSUME IInv, CountsInv, IsFiniteSet(Sessions), NEW s \in Sessions,
         sess[s].pc = "loaded", RiskApproves(sess[s].order, sess[s].cached[sess[s].order.bot]),
         sess' = [sess EXCEPT ![s].pc = "approved"], UNCHANGED <<tables, today>>
  PROVE  CountsInv'
<1> DEFINE o == sess[s].order
<1>t. today \in Nat /\ sess \in [Sessions -> Session] /\ MaxTrades \in Nat /\ o.bot \in Bots
  BY AmountsAssumption, OrderTypes DEF IInv, TypeOK
<1>a. Cardinality(RowsOn(o.bot, today)) < MaxTrades
  BY DEF RiskApproves
<1>b. MaxTrades > 0
  BY <1>t, <1>a, RowsOnFinite
<1>s. /\ sess'[s].pc = "approved" /\ sess'[s].order = o
      /\ \A r \in Sessions : r # s => sess'[r] = sess[r]
  BY <1>t DEF Session
<1>1. Dated'
  BY <1>b, <1>s, <1>t DEF CountsInv, Dated, tables
<1>2. ASSUME NEW b \in Bots, NEW d \in Nat
      PROVE  Cardinality(RowsOn(b, d)') + Cardinality(Pending(b, d)')
               <= MaxTrades + Cardinality(Sessions) - 1
  <2>1. RowsOn(b, d)' = RowsOn(b, d)
    BY DEF RowsOn, RowsOf, tables
  <2>2. Pending(b, d)' \in SUBSET Sessions
    BY DEF Pending
  <2>3. /\ Cardinality(Pending(b, d)') \in Nat
        /\ Cardinality(Pending(b, d)') <= Cardinality(Sessions)
        /\ Cardinality(Sessions) \in Nat /\ Cardinality(RowsOn(b, d)) \in Nat
    BY <2>2, FS_Subset, FS_CardinalityType, RowsOnFinite
  <2>4. CASE b = o.bot /\ d = today
    BY <1>t, <1>a, <2>1, <2>3, <2>4
  <2>5. CASE d > today
    <3>1. RowsOn(b, d) = {}
      <4>1. \A i \in DOMAIN trades : trades[i].day \in Nat
        BY RowsTyped
      <4> QED BY <1>t, <2>5, <4>1 DEF RowsOn, RowsOf, CountsInv, Dated
    <3> QED BY <1>t, <1>b, <2>1, <2>3, <3>1, FS_EmptySet
  <2>6. CASE d < today \/ b # o.bot
    <3>1. Pending(b, d)' \in SUBSET Pending(b, d)
      BY <1>s, <1>t, <2>6 DEF Pending
    <3>2. Cardinality(Pending(b, d)') <= Cardinality(Pending(b, d))
      BY <3>1, PendingFinite, FS_Subset
    <3>3. Cardinality(RowsOn(b, d)) + Cardinality(Pending(b, d))
            <= MaxTrades + Cardinality(Sessions) - 1
      BY DEF CountsInv, RoomLeft
    <3> QED BY <1>t, <2>1, <2>3, <3>2, <3>3, PendingFinite
  <2> QED BY <1>t, <2>4, <2>5, <2>6
<1> QED BY <1>1, <1>2 DEF CountsInv, RoomLeft

\* A trade takes the place of the order that was to become it.
LEMMA CountsCommitted ==
  ASSUME IInv, CountsInv, IsFiniteSet(Sessions), NEW s \in Sessions, Commit(s)
  PROVE  CountsInv'
<1> DEFINE x == sess[s]
           row == TradeOf(x)
           n == Len(trades) + 1
<1>t. today \in Nat /\ sess \in [Sessions -> Session] /\ MaxTrades \in Nat
      /\ trades \in Seq(Trade)
  BY AmountsAssumption DEF IInv, TypeOK
<1>1. /\ x \in GoodSession /\ x.pc = "priced" /\ trades' = Append(trades, row)
      /\ today' = today /\ row \in Trade /\ x.day \in Nat
      /\ row.bot = x.order.bot /\ row.day = x.day
  BY TradeType DEF Commit, IInv, TradeOf, GoodSession, Session
<1>s. /\ sess'[s].pc = "committed"
      /\ \A r \in Sessions : r # s => sess'[r] = sess[r]
  BY <1>t DEF Commit, Session
<1>2. /\ DOMAIN trades' = (DOMAIN trades) \cup {n} /\ n \notin DOMAIN trades
      /\ trades'[n] = row /\ \A i \in DOMAIN trades : trades'[i] = trades[i]
  BY <1>t, <1>1
<1>3. Dated'
  BY <1>1, <1>2, <1>s DEF CountsInv, Dated
<1>4. ASSUME NEW b \in Bots, NEW d \in Nat
      PROVE  Cardinality(RowsOn(b, d)') + Cardinality(Pending(b, d)')
               <= MaxTrades + Cardinality(Sessions) - 1
  <2>1. Cardinality(RowsOn(b, d)) + Cardinality(Pending(b, d))
          <= MaxTrades + Cardinality(Sessions) - 1
    BY DEF CountsInv, RoomLeft
  <2>2. CASE b = row.bot /\ d = row.day
    <3>1. RowsOn(b, d)' = RowsOn(b, d) \cup {n} /\ n \notin RowsOn(b, d)
      BY <1>2, <2>2 DEF RowsOn, RowsOf
    <3>2. Pending(b, d)' = Pending(b, d) \ {s} /\ s \in Pending(b, d)
      BY <1>1, <1>s, <2>2 DEF Pending
    <3>3. Cardinality(RowsOn(b, d)') = Cardinality(RowsOn(b, d)) + 1
      BY <3>1, RowsOnFinite, FS_AddElement
    <3>4. Cardinality(Pending(b, d)') = Cardinality(Pending(b, d)) - 1
      BY <3>2, PendingFinite, FS_RemoveElement
    <3> QED BY <1>t, <2>1, <3>3, <3>4, RowsOnFinite, PendingFinite
  <2>3. CASE ~(b = row.bot /\ d = row.day)
    <3>1. RowsOn(b, d)' = RowsOn(b, d)
      BY <1>2, <2>3 DEF RowsOn, RowsOf
    <3>2. Pending(b, d)' = Pending(b, d)
      BY <1>1, <1>s, <2>3 DEF Pending
    <3> QED BY <2>1, <3>1, <3>2
  <2> QED BY <2>2, <2>3
<1> QED BY <1>3, <1>4, <1>1 DEF CountsInv, RoomLeft

LEMMA InitCounts ==
  ASSUME Init, IsFiniteSet(Sessions), Sessions # {}
  PROVE  CountsInv
<1>1. Dated
  BY DEF Init, Dated
<1>2. ASSUME NEW b \in Bots, NEW d \in Nat
      PROVE  Cardinality(RowsOn(b, d)) + Cardinality(Pending(b, d))
               <= MaxTrades + Cardinality(Sessions) - 1
  <2>1. RowsOn(b, d) = {} /\ Pending(b, d) = {}
    BY DEF Init, RowsOn, RowsOf, Pending
  <2>2. Cardinality(Sessions) \in Nat /\ Cardinality(Sessions) # 0
    BY FS_EmptySet, FS_CardinalityType
  <2> QED BY <2>1, <2>2, FS_EmptySet, AmountsAssumption
<1> QED BY <1>1, <1>2 DEF CountsInv, RoomLeft

LEMMA NextCounts ==
  ASSUME IInv, CountsInv, IsFiniteSet(Sessions), [Next]_vars
  PROVE  CountsInv'
<1>t. today \in Nat /\ sess \in [Sessions -> Session]
  BY DEF IInv, TypeOK
<1>1. ASSUME NEW s \in Sessions, Evaluate(s) PROVE CountsInv'
  <2>1. CASE RiskApproves(sess[s].order, sess[s].cached[sess[s].order.bot])
    <3>1. sess' = [sess EXCEPT ![s].pc = "approved"] /\ sess[s].pc = "loaded"
          /\ UNCHANGED <<tables, today>>
      BY <1>1, <1>t, <2>1 DEF Evaluate
    <3> QED BY <2>1, <3>1, CountsApproved
  <2>2. CASE ~RiskApproves(sess[s].order, sess[s].cached[sess[s].order.bot])
    BY <1>1, <1>t, <2>2, CountsKept DEF Evaluate, Answered, tables
  <2> QED BY <2>1, <2>2
<1>2. ASSUME NEW s \in Sessions, Price(s) PROVE CountsInv'
  <2>1. /\ sess[s].pc = "approved" /\ sess'[s].pc = "priced"
        /\ sess'[s].order = sess[s].order /\ sess'[s].day = today
        /\ \A r \in Sessions : r # s => sess'[r] = sess[r]
        /\ trades' = trades /\ today' = today
    BY <1>2, <1>t DEF Price, Session, tables
  <2> QED BY <1>t, <2>1, CountsKept
<1>3. ASSUME NEW s \in Sessions, Step(s) \/ Abort(s),
             ~Evaluate(s), ~Price(s), ~Commit(s)
      PROVE  CountsInv'
  <2>1. /\ trades' = trades /\ today' = today
        /\ sess'[s].pc \notin {"approved", "priced"}
        /\ \A r \in Sessions : r # s => sess'[r] = sess[r]
    <3>1. CASE Enforce(s)
      BY <3>1, <1>t DEF Enforce, Session
    <3>2. CASE \E k \in Keys, o \in Orders : Begin(s, k, o)
      BY <3>2, <1>t DEF Begin, Answered, tables
    <3>3. CASE \/ \E k \in Keys : Replay(s, k)
               \/ \E k \in Keys, o \in Orders : RefuseDead(s, k, o)
               \/ PriceFails(s) \/ CommitConflict(s) \/ Answer(s) \/ Close(s)
               \/ Abort(s)
      BY <3>3, <1>t DEF Replay, RefuseDead, PriceFails, CommitConflict, Answer,
                        Close, Abort, Answered, tables
    <3> QED BY <1>3, <3>1, <3>2, <3>3 DEF Step
  <2> QED BY <1>t, <2>1, CountsKept
<1>4. CASE ChangeSystem \/ NewDay \/ UNCHANGED vars
  BY <1>4, <1>t, CountsKept DEF ChangeSystem, NewDay, tables, vars
<1> QED BY <1>1, <1>2, <1>3, <1>4, CountsCommitted DEF Next, NextReliable, Step

LEMMA CountsBound ==
  ASSUME IInv, CountsInv, IsFiniteSet(Sessions)
  PROVE  TradesPerDayBounded
<1>1. ASSUME NEW b \in Bots, NEW d \in 0..MaxDay
      PROVE  Cardinality(RowsOn(b, d)) <= MaxTrades + Cardinality(Sessions) - 1
  <2>1. d \in Nat /\ MaxTrades \in Nat
    BY AmountsAssumption
  <2>2. Cardinality(RowsOn(b, d)) + Cardinality(Pending(b, d))
          <= MaxTrades + Cardinality(Sessions) - 1
    BY <2>1 DEF CountsInv, RoomLeft
  <2> QED BY <2>1, <2>2, RowsOnFinite, PendingFinite
<1> QED BY <1>1 DEF TradesPerDayBounded

\* However many callers overlap, on whatever days, a bot makes at most the
\* limit of trades and one more for each other caller.
THEOREM TradesBounded ==
  ASSUME IsFiniteSet(Sessions), Sessions # {}
  PROVE  Spec => []TradesPerDayBounded
<1>1. Init => CountsInv
  BY InitCounts
<1>2. IInv /\ CountsInv /\ [Next]_vars => CountsInv'
  BY NextCounts
<1>3. IInv /\ CountsInv => TradesPerDayBounded
  BY CountsBound
<1> QED BY <1>1, <1>2, <1>3, Invariance, PTL DEF Spec

(***************************************************************************)
(* Callers that run one after another.                                     *)
(***************************************************************************)

\* What a lone session holds is what the tables hold, except that it may not
\* know of a pause or a resume, one that undid a death among them; a bot it
\* takes for alive is alive.
SameAccount(row, table) ==
  /\ row.capital = table.capital /\ row.pnl = table.pnl /\ row.count = table.count
  /\ row.state # "DEAD" => table.state # "DEAD"
Fresh == \A s \in Sessions, b \in Bots :
            sess[s].cached[b] # NotLoaded => SameAccount(sess[s].cached[b], bots[b])

SoloInv == IInv /\ Fresh /\ LedgerAgrees

LEMMA InitSoloInv == Init => SoloInv
<1> SUFFICES ASSUME Init PROVE SoloInv
  OBVIOUS
<1>1. Fresh /\ LedgerAgrees
  BY AmountsAssumption DEF Init, Fresh, LedgerAgrees, EmptyCache
<1> QED BY <1>1, InitIInv DEF SoloInv

LEMMA SoloCommit ==
  ASSUME \A s, t \in Sessions : s = t, SoloInv, NEW s \in Sessions, Commit(s)
  PROVE  LET x == sess[s]
             b == x.order.bot
             now == Filled(bots[b], x.order, EntryPrice(x))
         IN /\ b \in Bots /\ bots[b] \in BotRow /\ bots[b].state # "DEAD"
            /\ x \in GoodSession /\ x.pc = "priced" /\ x.key \in Keys \ KeysUsed
            /\ now \in BotRow /\ bots' = [bots EXCEPT ![b] = now]
            /\ SameAccount(Filled(x.cached[b], x.order, EntryPrice(x)), now)
            /\ sess'[s].cached =
                 [x.cached EXCEPT ![b] = Filled(x.cached[b], x.order, EntryPrice(x))]
<1> DEFINE x == sess[s]
           b == x.order.bot
           now == Filled(bots[b], x.order, EntryPrice(x))
           own == Filled(x.cached[b], x.order, EntryPrice(x))
<1>1. x \in GoodSession /\ x.pc = "priced" /\ x.key \notin KeysUsed
  BY DEF SoloInv, IInv, Commit, UniqueKey
<1>2. b \in Bots /\ x.key \in Keys /\ bots[b] \in BotRow /\ x.cached[b] \in BotRow
  BY <1>1, OrderTypes DEF SoloInv, IInv, TypeOK
<1>3. SameAccount(x.cached[b], bots[b])
  BY <1>2, SentinelsAssumption DEF SoloInv, Fresh
<1>4. bots[b].state # "DEAD"
  BY <1>1, <1>3 DEF GoodSession, SessionOK, SameAccount
<1>5. now \in BotRow /\ own \in BotRow /\ own.state = x.cached[b].state
      /\ now.state = bots[b].state
  BY <1>1, <1>2, OrderTypes, TradeType, FilledType
<1>6. own.capital = now.capital /\ own.pnl = now.pnl /\ own.count = now.count
  BY <1>2, <1>3 DEF Filled, SameAccount, BotRow
<1>7. Flush(bots[b], x.cached[b], own) = now
  <2>1. Flush(bots[b], x.cached[b], own)
          = [capital |-> own.capital, pnl |-> own.pnl, count |-> own.count,
             state |-> bots[b].state]
    <3> DEFINE loaded == x.cached[b]
               row == bots[b]
    <3>1. /\ row.capital = loaded.capital /\ row.pnl = loaded.pnl
          /\ row.count = loaded.count /\ own.state = loaded.state
          /\ row \in BotRow /\ loaded \in BotRow /\ own \in BotRow
      BY <1>2, <1>3, <1>5 DEF SameAccount
    <3> HIDE DEF own, loaded, row
    <3>2. Flush(row, loaded, own)
            = [capital |-> own.capital, pnl |-> own.pnl, count |-> own.count,
               state |-> row.state]
      BY <3>1, FlushAccount
    <3> QED BY <3>2 DEF loaded, row
  <2>2. now = [capital |-> now.capital, pnl |-> now.pnl, count |-> now.count,
               state |-> bots[b].state]
    <3> HIDE DEF now
    <3> QED BY <1>5 DEF BotRow
  <2> HIDE DEF own, now
  <2> QED BY <1>6, <2>1, <2>2
<1>8. bots' = [bots EXCEPT ![b] = now]
  BY <1>2, <1>7 DEF Commit, SoloInv, IInv, TypeOK
<1>9. sess'[s].cached = [x.cached EXCEPT ![b] = own]
  BY <1>1 DEF Commit, SoloInv, IInv, GoodSession, Session
<1>10. SameAccount(own, now)
  BY <1>3, <1>5, <1>6 DEF SameAccount
<1> QED BY <1>1, <1>2, <1>4, <1>5, <1>8, <1>9, <1>10

LEMMA SoloEnforce ==
  ASSUME \A s, t \in Sessions : s = t, SoloInv, NEW s \in Sessions, Enforce(s)
  PROVE  LET b == sess[s].order.bot
             died == Dies(bots[b])
             now == [bots[b] EXCEPT !.state = IF died THEN "DEAD" ELSE @]
             own == [sess[s].cached[b] EXCEPT !.state = IF died THEN "DEAD" ELSE @]
         IN /\ b \in Bots /\ bots[b] \in BotRow
            /\ SameAccount(own, now)
            /\ bots' = [bots EXCEPT ![b] = now]
            /\ deaths' = [deaths EXCEPT ![b] = IF died THEN @ + 1 ELSE @]
            /\ sess'[s].cached = [sess[s].cached EXCEPT ![b] = own]
            /\ sess'[s].result = IF died THEN "died" ELSE "executed"
            /\ UNCHANGED <<trades, ledger, positions>>
<1> DEFINE x == sess[s]
           b == x.order.bot
           died == Dies(bots[b])
           now == [bots[b] EXCEPT !.state = IF died THEN "DEAD" ELSE @]
           own == [x.cached[b] EXCEPT !.state = IF died THEN "DEAD" ELSE @]
<1>1. x \in GoodSession /\ x.pc = "committed"
  BY DEF SoloInv, IInv, Enforce
<1>2. b \in Bots /\ bots[b] \in BotRow /\ x.cached[b] \in BotRow
  BY <1>1, OrderTypes DEF SoloInv, IInv, TypeOK
<1>3. SameAccount(x.cached[b], bots[b])
  BY <1>2, SentinelsAssumption DEF SoloInv, Fresh
<1>4. Dies(x.cached[b]) = died
  <2>1. x.cached[b].state # "DEAD"
    BY <1>1 DEF GoodSession, SessionOK
  <2> QED BY <1>3, <2>1 DEF SameAccount, Dies, HasBreached
<1>5. SameAccount(own, now)
  BY <1>2, <1>3 DEF SameAccount, BotRow
<1>6. /\ bots' = [bots EXCEPT ![b] = now]
      /\ deaths' = [deaths EXCEPT ![b] = IF died THEN @ + 1 ELSE @]
      /\ sess'[s].cached = [sess[s].cached EXCEPT ![b] = own]
      /\ sess'[s].result = IF died THEN "died" ELSE "executed"
      /\ UNCHANGED <<trades, ledger, positions>>
  <2> HIDE DEF died
  <2> QED BY <1>1, <1>2, <1>4 DEF Enforce, SoloInv, IInv, TypeOK, GoodSession, Session
<1> QED BY <1>2, <1>5, <1>6

\* A step of the session that leaves the tables alone leaves in its cache rows
\* it had or has just read.
LEMMA CallStepsCache ==
  ASSUME IInv, NEW s \in Sessions, Step(s) \/ Abort(s), ~Commit(s), ~Enforce(s),
         NEW b \in Bots
  PROVE  sess'[s].cached[b] \in {NotLoaded, sess[s].cached[b], bots[b]}
<1>s. sess[s] \in Session /\ sess \in [Sessions -> Session]
  BY DEF IInv, TypeOK
<1>1. CASE \E k \in Keys : Replay(s, k)
  BY <1>1, <1>s DEF Replay, Answered
<1>2. CASE \E k \in Keys, o \in Orders : RefuseDead(s, k, o)
  BY <1>2, <1>s DEF RefuseDead, Answered, Loaded, Row, Session
<1>3. CASE \E k \in Keys, o \in Orders : Begin(s, k, o)
  BY <1>3, <1>s DEF Begin, Answered, Loaded, Row, Session
<1>4. CASE Evaluate(s)
  BY <1>4, <1>s DEF Evaluate, Answered, Session
<1>5. CASE Price(s)
  BY <1>5, <1>s DEF Price, Session
<1>6. CASE PriceFails(s) \/ Answer(s)
  BY <1>6, <1>s DEF PriceFails, Answer, Answered
<1>7. CASE CommitConflict(s) \/ Close(s) \/ Abort(s)
  BY <1>7, <1>s DEF CommitConflict, Close, Abort, Answered, EmptyCache
<1> QED BY <1>1, <1>2, <1>3, <1>4, <1>5, <1>6, <1>7 DEF Step

LEMMA CallStepsFresh ==
  ASSUME SoloInv, NEW s \in Sessions, Step(s) \/ Abort(s), ~Commit(s), ~Enforce(s),
         NEW b \in Bots, sess'[s].cached[b] # NotLoaded
  PROVE  SameAccount(sess'[s].cached[b], bots[b])
<1>1. sess'[s].cached[b] \in {sess[s].cached[b], bots[b]}
  BY CallStepsCache DEF SoloInv
<1> QED BY <1>1 DEF SoloInv, Fresh, SameAccount

LEMMA SoloNext ==
  ASSUME \A s, t \in Sessions : s = t, SoloInv, [Next]_vars
  PROVE  SoloInv'
<1>1. IInv'
  BY NextIInv DEF SoloInv
<1>2. ASSUME NEW s \in Sessions, Commit(s) PROVE (Fresh /\ LedgerAgrees)'
  <2> DEFINE x == sess[s]
             c == x.order.bot
             now == Filled(bots[c], x.order, EntryPrice(x))
             own == Filled(x.cached[c], x.order, EntryPrice(x))
  <2>1. /\ c \in Bots /\ bots[c] \in BotRow /\ now \in BotRow
        /\ x \in GoodSession /\ x.pc = "priced"
        /\ bots' = [bots EXCEPT ![c] = now]
        /\ SameAccount(own, now) /\ sess'[s].cached = [x.cached EXCEPT ![c] = own]
    BY <1>2, SoloCommit
  <2>2. x.cached \in [Bots -> BotRow \cup {NotLoaded}]
    BY <2>1 DEF GoodSession, Session
  <2>3. Fresh'
    <3> HIDE DEF now, own
    <3> QED BY <2>1, <2>2 DEF SoloInv, Fresh, IInv, TypeOK
  <2>4. ledger' = [ledger EXCEPT ![c] = [cash |-> ledger[c].cash + Cash(x.order),
                                         pnl |-> ledger[c].pnl + TradeOf(x).pnl,
                                         rows |-> ledger[c].rows + 1]]
    BY <1>2, <2>1 DEF Commit, SoloInv, IInv, TypeOK
  <2>5. /\ now.capital = bots[c].capital + Cash(x.order)
        /\ now.pnl = bots[c].pnl + TradeOf(x).pnl
        /\ now.count = bots[c].count + 1
    BY <2>1 DEF Filled, TradeOf, BotRow
  <2>6. Cash(x.order) \in Int
    BY <2>1, OrderTypes, FillTypes, 0 \in Int
  <2>7. ASSUME NEW b \in Bots
        PROVE  /\ bots'[b].capital = InitialCapital + ledger'[b].cash
               /\ bots'[b].pnl = ledger'[b].pnl
               /\ bots'[b].count = ledger'[b].rows
    <3>1. /\ bots[b].capital = InitialCapital + ledger[b].cash
          /\ bots[b].pnl = ledger[b].pnl /\ bots[b].count = ledger[b].rows
          /\ ledger[b].cash \in Int
      BY DEF SoloInv, LedgerAgrees, IInv, TypeOK, Ledger
    <3>2. CASE b # c
      BY <2>1, <2>4, <3>1, <3>2 DEF SoloInv, IInv, TypeOK
    <3>3. CASE b = c
      <4>1. bots'[b] = now
        BY <2>1, <3>3 DEF SoloInv, IInv, TypeOK
      <4>2. ledger'[b] = [cash |-> ledger[b].cash + Cash(x.order),
                          pnl |-> ledger[b].pnl + TradeOf(x).pnl,
                          rows |-> ledger[b].rows + 1]
        BY <2>1, <2>4, <3>3 DEF SoloInv, IInv, TypeOK
      <4> QED BY <4>1, <4>2, <2>5, <2>6, <3>1, <3>3, AmountsAssumption
    <3> QED BY <3>2, <3>3
  <2> QED BY <2>3, <2>7 DEF LedgerAgrees
<1>3. ASSUME NEW s \in Sessions, Enforce(s) PROVE (Fresh /\ LedgerAgrees)'
  <2> DEFINE c == sess[s].order.bot
             died == Dies(bots[c])
             now == [bots[c] EXCEPT !.state = IF died THEN "DEAD" ELSE @]
             own == [sess[s].cached[c] EXCEPT !.state = IF died THEN "DEAD" ELSE @]
  <2>1. /\ c \in Bots /\ bots[c] \in BotRow
        /\ bots' = [bots EXCEPT ![c] = now] /\ SameAccount(own, now)
        /\ sess'[s].cached = [sess[s].cached EXCEPT ![c] = own]
        /\ UNCHANGED <<trades, ledger>>
    BY <1>3, SoloEnforce
  <2>2. sess[s].cached \in [Bots -> BotRow \cup {NotLoaded}]
    BY DEF SoloInv, IInv, TypeOK, Session
  <2>3. Fresh'
    <3> HIDE DEF now, own
    <3> QED BY <2>1, <2>2 DEF SoloInv, Fresh, IInv, TypeOK
  <2>4. now.capital = bots[c].capital /\ now.pnl = bots[c].pnl
        /\ now.count = bots[c].count
    BY <2>1 DEF BotRow
  <2>5. LedgerAgrees'
    BY <2>1, <2>4 DEF SoloInv, LedgerAgrees, IInv, TypeOK
  <2> QED BY <2>3, <2>5
<1>4. ASSUME NEW s \in Sessions, Step(s) \/ Abort(s), ~Commit(s), ~Enforce(s)
      PROVE  (Fresh /\ LedgerAgrees)'
  <2>1. UNCHANGED <<tables, system, today>>
    BY <1>4, CallStepsKeepTables
  <2>2. Fresh'
    BY <1>4, <2>1, CallStepsFresh DEF Fresh, tables
  <2> QED BY <2>1, <2>2 DEF SoloInv, LedgerAgrees, tables
<1>5. CASE ChangeSystem \/ NewDay \/ UNCHANGED vars
  BY <1>1, <1>5 DEF ChangeSystem, NewDay, tables, vars, SoloInv, Fresh, LedgerAgrees
<1> QED BY <1>1, <1>2, <1>3, <1>4, <1>5 DEF Next, NextReliable, SoloInv

THEOREM SoloInvariance ==
  ASSUME \A s, t \in Sessions : s = t
  PROVE  Spec => []SoloInv
<1>1. SoloInv /\ [Next]_vars => SoloInv'
  BY SoloNext
<1> QED BY <1>1, InitSoloInv, PTL DEF Spec

\* With one caller at a time the balance, the profit and the count of every
\* bot are those of its trade rows, whatever fails or is retried.
THEOREM SerialLedger ==
  ASSUME \A s, t \in Sessions : s = t
  PROVE  Spec => []LedgerAgrees
<1>1. SoloInv => LedgerAgrees
  BY DEF SoloInv
<1> QED BY <1>1, SoloInvariance, PTL

LEMMA SoloFrozen ==
  ASSUME \A s, t \in Sessions : s = t, SoloInv, [Next]_vars,
         NEW b \in Bots, bots[b].state = "DEAD"
  PROVE  bots'[b] = bots[b] /\ ledger'[b] = ledger[b]
<1>1. ASSUME NEW s \in Sessions, Commit(s)
      PROVE  bots'[b] = bots[b] /\ ledger'[b] = ledger[b]
  <2>1. sess[s].order.bot # b
    BY <1>1, SoloCommit
  <2> QED BY <1>1, <2>1 DEF Commit, SoloInv, IInv, TypeOK
<1>2. ASSUME NEW s \in Sessions, Enforce(s)
      PROVE  bots'[b] = bots[b] /\ ledger'[b] = ledger[b]
  <2> DEFINE c == sess[s].order.bot
             now == [bots[c] EXCEPT !.state = IF Dies(bots[c]) THEN "DEAD" ELSE @]
  <2>1. /\ c \in Bots /\ bots[c] \in BotRow /\ bots' = [bots EXCEPT ![c] = now]
        /\ ledger' = ledger
    BY <1>2, SoloEnforce
  <2>2. CASE b = c
    <3>1. now = bots[c]
      BY <2>1, <2>2 DEF Dies, BotRow
    <3> QED BY <2>1, <2>2, <3>1 DEF SoloInv, IInv, TypeOK
  <2>3. CASE b # c
    BY <2>1, <2>3 DEF SoloInv, IInv, TypeOK
  <2> QED BY <2>2, <2>3
<1>3. ASSUME NEW s \in Sessions, Step(s) \/ Abort(s), ~Commit(s), ~Enforce(s)
      PROVE  bots'[b] = bots[b] /\ ledger'[b] = ledger[b]
  BY <1>3, CallStepsKeepTables DEF tables
<1>4. CASE ChangeSystem \/ NewDay \/ UNCHANGED vars
  BY <1>4 DEF ChangeSystem, NewDay, tables, vars
<1> QED BY <1>1, <1>2, <1>3, <1>4 DEF Next, NextReliable

\* With one caller at a time nothing moves on the account of a dead bot.
THEOREM SerialFrozen ==
  ASSUME \A s, t \in Sessions : s = t
  PROVE  Spec => DeadBotFrozen
<1>1. SoloInv /\ [Next]_vars =>
        [\A b \in Bots : bots[b].state = "DEAD" =>
           /\ bots'[b] = bots[b]
           /\ ledger'[b] = ledger[b]]_vars
  BY SoloFrozen
<1> QED BY <1>1, SoloInvariance, PTL DEF Spec, DeadBotFrozen

(***************************************************************************)
(* The executor keeps the promise of OrderLedger.                          *)
(***************************************************************************)
LEMMA KeysAfterAppend ==
  ASSUME IInv, NEW t \in Trade, trades' = Append(trades, t)
  PROVE  KeysUsed' = KeysUsed \cup {t.key}
<1>1. trades \in Seq(Trade)
  BY DEF IInv, TypeOK
<1>2. /\ DOMAIN trades' = (DOMAIN trades) \cup {Len(trades) + 1}
      /\ trades'[Len(trades) + 1] = t
      /\ \A i \in DOMAIN trades : trades'[i] = trades[i]
  BY <1>1
<1> QED BY <1>2 DEF KeysUsed

LEMMA InitBook == Init => Book!Init
<1> SUFFICES ASSUME Init PROVE Book!Init
  OBVIOUS
<1>1. KeysUsed = {}
  BY DEF Init, KeysUsed
<1> QED BY <1>1, AmountsAssumption DEF Init, Book!Init

LEMMA StepBook ==
  ASSUME \A s, t \in Sessions : s = t, SoloInv, [Next]_vars
  PROVE  [Book!Next]_(Book!vars)
<1>t. bots \in [Bots -> BotRow] /\ IInv
  BY DEF SoloInv, IInv, TypeOK
<1>1. ASSUME NEW s \in Sessions, Commit(s) PROVE Book!Next
  <2> DEFINE x == sess[s]
             c == x.order.bot
             now == Filled(bots[c], x.order, EntryPrice(x))
  <2>1. /\ c \in Bots /\ bots[c] \in BotRow /\ bots[c].state # "DEAD"
        /\ x \in GoodSession /\ x.pc = "priced" /\ x.key \in Keys \ KeysUsed
        /\ now \in BotRow /\ bots' = [bots EXCEPT ![c] = now]
    BY <1>1, SoloCommit
  <2>2. KeysUsed' = KeysUsed \cup {x.key}
    <3>1. TradeOf(x) \in Trade /\ TradeOf(x).key = x.key
      BY <2>1, TradeType DEF TradeOf
    <3>2. trades' = Append(trades, TradeOf(x))
      BY <1>1 DEF Commit
    <3> QED BY <1>t, <3>1, <3>2, KeysAfterAppend
  <2>3. bots' \in [Bots -> BotRow] /\ bots'[c] = now
        /\ \A b \in Bots \ {c} : bots'[b] = bots[b]
    BY <1>t, <2>1
  <2>4. now.count = bots[c].count + 1 /\ now.state = bots[c].state
    BY <2>1 DEF Filled, BotRow
  <2>5. PICK k \in Keys, b \in Bots : k = x.key /\ b = c
    BY <2>1
  <2>6. Book!Execute(k, b)
    <3>1. b \in {d \in Bots : bots[d].state # "DEAD"}
      BY <2>1, <2>5 DEF BotRow, BotStates
    <3>2. {d \in Bots : bots'[d].state # "DEAD"} = {d \in Bots : bots[d].state # "DEAD"}
      BY <2>3, <2>4
    <3>3. \A d \in Bots : [cash |-> bots'[d].capital - InitialCapital,
                           pnl |-> bots'[d].pnl, rows |-> bots'[d].count] \in Book!Account
      BY <2>3, AmountsAssumption DEF BotRow, Book!Account
    <3> HIDE DEF x, c, now
    <3> QED BY <2>1, <2>2, <2>3, <2>4, <2>5, <3>1, <3>2, <3>3 DEF Book!Execute
  <2> QED BY <2>6 DEF Book!Next
<1>2. ASSUME NEW s \in Sessions, Enforce(s) PROVE Book!Next \/ UNCHANGED Book!vars
  <2> DEFINE c == sess[s].order.bot
             died == Dies(bots[c])
             now == [bots[c] EXCEPT !.state = IF died THEN "DEAD" ELSE @]
  <2>1. /\ c \in Bots /\ bots[c] \in BotRow
        /\ bots' = [bots EXCEPT ![c] = now] /\ trades' = trades
    BY <1>2, SoloEnforce
  <2>2. KeysUsed' = KeysUsed
    BY <2>1 DEF KeysUsed
  <2>3. /\ now.capital = bots[c].capital /\ now.pnl = bots[c].pnl
        /\ now.count = bots[c].count
        /\ now.state = IF died THEN "DEAD" ELSE bots[c].state
    BY <2>1 DEF BotRow
  <2>4. \A b \in Bots : /\ bots'[b].capital = bots[b].capital
                        /\ bots'[b].pnl = bots[b].pnl
                        /\ bots'[b].count = bots[b].count
                        /\ b # c => bots'[b].state = bots[b].state
    BY <1>t, <2>1, <2>3
  <2>5. CASE ~died
    <3>1. \A b \in Bots : bots'[b].state = bots[b].state
      BY <1>t, <2>1, <2>3, <2>5
    <3> QED BY <2>2, <2>4, <3>1 DEF Book!vars
  <2>6. CASE died
    <3>1. bots[c].state # "DEAD" /\ bots'[c].state = "DEAD"
      BY <1>t, <2>1, <2>3, <2>6 DEF Dies, BotRow, BotStates
    <3>2. PICK b \in Bots : b = c
      BY <2>1
    <3>3. Book!Die(b)
      <4> HIDE DEF c, now, died
      <4> QED BY <2>1, <2>2, <2>4, <3>1, <3>2 DEF Book!Die
    <3> QED BY <3>3 DEF Book!Next
  <2> QED BY <2>5, <2>6
<1>3. ASSUME NEW s \in Sessions, Step(s) \/ Abort(s), ~Commit(s), ~Enforce(s)
      PROVE  UNCHANGED Book!vars
  BY <1>3, CallStepsKeepTables DEF tables, Book!vars, KeysUsed
<1>4. CASE ChangeSystem \/ NewDay \/ UNCHANGED vars
  BY <1>4 DEF ChangeSystem, NewDay, tables, vars, Book!vars, KeysUsed
<1> QED BY <1>1, <1>2, <1>3, <1>4 DEF Next, NextReliable

\* With one caller at a time, every run of the executor is a run of
\* OrderLedger: at most one effect per key, none on a dead bot, one death.
THEOREM SerialPromise ==
  ASSUME \A s, t \in Sessions : s = t
  PROVE  Spec => Promise
<1>1. SoloInv /\ [Next]_vars => [Book!Next]_(Book!vars)
  BY StepBook
<1> QED BY <1>1, InitBook, SoloInvariance, PTL DEF Spec, Promise, Book!Spec

(***************************************************************************)
(* The positions of callers that run one after another.                    *)
(***************************************************************************)

\* A row inserted keeps the key of the trade that opened it; no two OPEN rows
\* are of one bot and token; and a priced order still faces the row it found.
RowsOK ==
  /\ IsFiniteSet(positions)
  /\ \A p \in positions : p.id \in KeysUsed /\ (p.open <=> p.qty > 0)
  /\ \A p, q \in positions : p.id = q.id => p = q
  /\ \A p, q \in positions :
        p.open /\ q.open /\ p.bot = q.bot /\ p.token = q.token => p = q
Booked ==
  \A b \in Bots, t \in Tokens :
    HeldIn(b, t) = Moved(b, t, "BUY") - Moved(b, t, "SELL")
Chosen ==
  \A s \in Sessions : sess[s].pc = "priced" =>
    LET open == OpenPositions(sess[s].order.bot, sess[s].order.token)
    IN IF sess[s].pos = NoPosition THEN open = {} ELSE sess[s].pos \in open
PosInv == RowsOK /\ Booked /\ Chosen

Quantity == [p \in Position |-> p.qty]
RowsIn(P, b, t) == {p \in P : p.bot = b /\ p.token = t}

LEMMA HeldIs ==
  ASSUME NEW P \in SUBSET Position, IsFiniteSet(P), NEW b, NEW t
  PROVE  /\ SumFunctionOnSet([p \in P |-> p.qty], RowsIn(P, b, t))
              = SumFunctionOnSet(Quantity, RowsIn(P, b, t))
         /\ IsFiniteSet(RowsIn(P, b, t))
         /\ \A p \in RowsIn(P, b, t) : Quantity[p] = p.qty /\ p.qty \in Int
         /\ SumFunctionOnSet(Quantity, RowsIn(P, b, t)) \in Int
<1> DEFINE S == RowsIn(P, b, t)
           f == [p \in P |-> p.qty]
<1>1. S \in SUBSET P
  BY DEF RowsIn
<1>2. IsFiniteSet(S)
  BY <1>1, FS_Subset
<1>3. \A p \in S : f[p] = p.qty /\ Quantity[p] = p.qty /\ p.qty \in Int
  BY <1>1 DEF Quantity, Position
<1> HIDE DEF S, f
<1>4. SumFunctionOnSet(f, S) = SumFunctionOnSet(Quantity, S)
  BY <1>2, <1>3, SumSame
<1>5. SumFunctionOnSet(Quantity, S) \in Int
  BY <1>2, <1>3, SumType
<1> QED BY <1>2, <1>3, <1>4, <1>5 DEF S, f

\* A row of position inserted, or replaced by its new version.
LEMMA HeldAfterInsert ==
  ASSUME NEW P \in SUBSET Position, IsFiniteSet(P), NEW b, NEW t,
         NEW new \in Position, new \notin P
  PROVE  SumFunctionOnSet(Quantity, RowsIn(P \cup {new}, b, t))
           = SumFunctionOnSet(Quantity, RowsIn(P, b, t))
               + IF new.bot = b /\ new.token = t THEN new.qty ELSE 0
<1>1. CASE new.bot = b /\ new.token = t
  <2> DEFINE S == RowsIn(P, b, t)
  <2>1. RowsIn(P \cup {new}, b, t) = S \cup {new} /\ new \notin S
    BY <1>1 DEF RowsIn
  <2>a. /\ IsFiniteSet(S) /\ SumFunctionOnSet(Quantity, S) \in Int
        /\ \A p \in S : Quantity[p] = p.qty /\ p.qty \in Int
    BY HeldIs
  <2>b. Quantity[new] = new.qty /\ new.qty \in Int
    BY DEF Quantity, Position
  <2>2. /\ IsFiniteSet(S) /\ \A p \in S : Quantity[p] \in Int
        /\ Quantity[new] = new.qty /\ new.qty \in Int
        /\ SumFunctionOnSet(Quantity, S) \in Int
    <3> HIDE DEF S
    <3> QED BY <2>a, <2>b
  <2> HIDE DEF S
  <2>3. \A p \in S \cup {new} : Quantity[p] \in Int
    BY <2>2
  <2>4. SumFunctionOnSet(Quantity, S \cup {new}) = Quantity[new] + SumFunctionOnSet(Quantity, S)
    BY <2>1, <2>2, <2>3, SumAdd
  <2>5. SumFunctionOnSet(Quantity, S \cup {new}) = SumFunctionOnSet(Quantity, S) + new.qty
    BY <2>2, <2>4
  <2>6. SumFunctionOnSet(Quantity, RowsIn(P \cup {new}, b, t))
          = SumFunctionOnSet(Quantity, S) + new.qty
    BY <2>1, <2>5
  <2> QED BY <1>1, <2>6 DEF S
<1>2. CASE ~(new.bot = b /\ new.token = t)
  <2>1. RowsIn(P \cup {new}, b, t) = RowsIn(P, b, t)
    BY <1>2 DEF RowsIn
  <2>2. SumFunctionOnSet(Quantity, RowsIn(P, b, t)) \in Int
    BY HeldIs
  <2> QED BY <1>2, <2>1, <2>2
<1> QED BY <1>1, <1>2

LEMMA HeldAfterUpdate ==
  ASSUME NEW P \in SUBSET Position, IsFiniteSet(P), NEW b, NEW t,
         NEW old \in P, NEW new \in Position, new \notin P \ {old},
         new.bot = old.bot, new.token = old.token
  PROVE  SumFunctionOnSet(Quantity, RowsIn((P \ {old}) \cup {new}, b, t))
           = SumFunctionOnSet(Quantity, RowsIn(P, b, t))
               + IF new.bot = b /\ new.token = t THEN new.qty - old.qty ELSE 0
<1> DEFINE rest == P \ {old}
<1>1. /\ rest \in SUBSET Position /\ IsFiniteSet(rest) /\ old \in Position
      /\ P = rest \cup {old} /\ old \notin rest /\ new \notin rest
      /\ old.qty \in Int /\ new.qty \in Int
  BY FS_Subset DEF Position
<1> HIDE DEF rest
<1>i. ASSUME NEW x \in Position, x \notin rest
      PROVE  SumFunctionOnSet(Quantity, RowsIn(rest \cup {x}, b, t))
               = SumFunctionOnSet(Quantity, RowsIn(rest, b, t))
                   + IF x.bot = b /\ x.token = t THEN x.qty ELSE 0
  <2>1. rest \in SUBSET Position /\ IsFiniteSet(rest)
    BY <1>1
  <2> QED BY <2>1, <1>i, HeldAfterInsert
<1>2. SumFunctionOnSet(Quantity, RowsIn(rest \cup {old}, b, t))
        = SumFunctionOnSet(Quantity, RowsIn(rest, b, t))
            + IF old.bot = b /\ old.token = t THEN old.qty ELSE 0
  BY <1>1, <1>i
<1>3. SumFunctionOnSet(Quantity, RowsIn(rest \cup {new}, b, t))
        = SumFunctionOnSet(Quantity, RowsIn(rest, b, t))
            + IF new.bot = b /\ new.token = t THEN new.qty ELSE 0
  BY <1>1, <1>i
<1>4. SumFunctionOnSet(Quantity, RowsIn(rest, b, t)) \in Int
  BY <1>1, HeldIs
<1>5. SumFunctionOnSet(Quantity, RowsIn(rest \cup {new}, b, t))
        = SumFunctionOnSet(Quantity, RowsIn(P, b, t))
            + IF new.bot = b /\ new.token = t THEN new.qty - old.qty ELSE 0
  BY <1>1, <1>2, <1>3, <1>4
<1> QED BY <1>5 DEF rest

\* What the trade rows moved, one row later.
LEMMA MovedAfterAppend ==
  ASSUME IInv, NEW row \in Trade, trades' = Append(trades, row),
         NEW b \in Bots, NEW t \in Tokens, NEW side
  PROVE  /\ Moved(b, t, side) \in Int
         /\ Moved(b, t, side)'
              = Moved(b, t, side)
                  + IF row.bot = b /\ row.token = t /\ row.side = side THEN row.qty ELSE 0
<1> DEFINE n == Len(trades) + 1
           S == {i \in RowsOf(b) : trades[i].token = t /\ trades[i].side = side}
           f == [i \in DOMAIN trades |-> trades[i].qty]
           g == [i \in DOMAIN trades' |-> trades'[i].qty]
           hit == row.bot = b /\ row.token = t /\ row.side = side
<1>1. /\ DOMAIN trades' = (DOMAIN trades) \cup {n} /\ n \notin DOMAIN trades
      /\ trades'[n] = row /\ \A i \in DOMAIN trades : trades'[i] = trades[i]
      /\ DOMAIN trades = 1..Len(trades) /\ Len(trades) \in Nat
  BY DEF IInv, TypeOK
<1>2. /\ \A i \in DOMAIN trades : f[i] = trades[i].qty /\ g[i] = f[i] /\ f[i] \in Int
      /\ g[n] = row.qty /\ row.qty \in Int
  <2>1. \A i \in DOMAIN trades : trades[i] \in Trade
    BY RowsTyped
  <2> QED BY <1>1, <2>1 DEF Trade
<1>3. S \in SUBSET DOMAIN trades /\ IsFiniteSet(S) /\ n \notin S
  <2>1. S \in SUBSET DOMAIN trades
    BY DEF RowsOf
  <2>2. IsFiniteSet(DOMAIN trades)
    BY <1>1, FS_Interval, 1 \in Int
  <2> HIDE DEF S
  <2> QED BY <1>1, <2>1, <2>2, FS_Subset
<1>4. {i \in RowsOf(b) : trades[i].token = t /\ trades[i].side = side}'
        = IF hit THEN S \cup {n} ELSE S
  BY <1>1 DEF RowsOf
<1>5. Moved(b, t, side) = SumFunctionOnSet(f, S)
      /\ Moved(b, t, side)' = SumFunctionOnSet(g, IF hit THEN S \cup {n} ELSE S)
  BY <1>4, Zenon DEF Moved
<1> HIDE DEF S, f, g, n, hit
<1>6. SumFunctionOnSet(f, S) \in Int /\ SumFunctionOnSet(g, S) = SumFunctionOnSet(f, S)
  BY <1>2, <1>3, SumType, SumSame
<1>7. SumFunctionOnSet(g, S \cup {n}) = g[n] + SumFunctionOnSet(g, S)
  BY <1>2, <1>3, SumAdd
<1>8. Moved(b, t, side)' = Moved(b, t, side) + IF hit THEN row.qty ELSE 0
  BY <1>2, <1>5, <1>6, <1>7
<1> QED BY <1>5, <1>6, <1>8 DEF hit

\* What a commit does to the rows of positions: none, one inserted, or the one
\* that was found replaced by its new version.
LEMMA CommitPositions ==
  ASSUME IInv, RowsOK, Chosen, NEW s \in Sessions, Commit(s)
  PROVE  LET x == sess[s]
             o == x.order
         IN \/ o.token = NoToken /\ positions' = positions
            \/ \E new \in Position :
                 /\ o.token \in Tokens /\ o.side = "BUY"
                 /\ OpenPositions(o.bot, o.token) = {}
                 /\ new = Opened(x.key, o) /\ new \notin positions
                 /\ positions' = positions \cup {new}
            \/ \E old \in positions, new \in Position :
                 /\ old \in OpenPositions(o.bot, o.token)
                 /\ new = IF o.side = "BUY" THEN Increased(old, o) ELSE Reduced(old, o)
                 /\ o.side = "SELL" => old.qty >= o.qty
                 /\ positions' = (positions \ {old}) \cup {new}
<1> DEFINE x == sess[s]
           o == x.order
           now == IF o.side = "BUY" THEN Increased(x.pos, o) ELSE Reduced(x.pos, o)
<1>1. /\ x \in GoodSession /\ x.pc = "priced" /\ positions' = PositionsAfter(x)
      /\ x.key \notin KeysUsed /\ positions \subseteq Position
  BY DEF Commit, IInv, TypeOK, UniqueKey
<1>2. /\ x.key \in Keys /\ o \in Order /\ o.bot \in Bots /\ o.qty \in Nat /\ o.qty > 0
      /\ o.token \in Tokens \cup {NoToken} /\ o.side \in {"BUY", "SELL"}
  BY <1>1, OrderTypes DEF Order, Sides, GoodSession, SessionOK
<1>3. CASE o.token = NoToken
  BY <1>1, <1>3 DEF PositionsAfter
<1>4. CASE o.token # NoToken /\ x.pos = NoPosition
  <2> DEFINE new == Opened(x.key, o)
  <2>1. positions' = positions \cup {new}
    BY <1>1, <1>4 DEF PositionsAfter
  <2>2. OpenPositions(o.bot, o.token) = {}
    BY <1>1, <1>4 DEF Chosen
  <2>3. o.side = "BUY"
    BY <1>1, <1>2, <1>4 DEF GoodSession, SessionOK
  <2>4. new \in Position
    BY <1>2, <1>4, FillTypes, 0 \in Int DEF Opened, Position
  <2>5. new \notin positions
    BY <1>1 DEF RowsOK, Opened
  <2> QED BY <1>2, <1>4, <2>1, <2>2, <2>3, <2>4, <2>5
<1>5. CASE o.token # NoToken /\ x.pos # NoPosition
  <2>1. x.pos \in OpenPositions(o.bot, o.token) /\ x.pos \in positions /\ x.pos \in Position
    BY <1>1, <1>5 DEF Chosen, OpenPositions
  <2>2. o.side = "SELL" => x.pos.qty >= o.qty
    BY <1>1 DEF GoodSession, SessionOK
  <2>3. now \in Position
    <3>1. Gross(o) \in Int /\ x.pos.qty \in Nat /\ x.pos.avg \in Int
      BY <1>2, <2>1, FillTypes, 0 \in Int DEF Position
    <3>2. CASE o.side = "BUY"
      <4>1. x.pos.qty + o.qty \in Nat /\ x.pos.qty + o.qty > 0
            /\ x.pos.avg * x.pos.qty + Gross(o) \in Int
        BY <1>2, <3>1
      <4>2. (x.pos.avg * x.pos.qty + Gross(o)) \div (x.pos.qty + o.qty) \in Int
        BY <4>1
      <4> QED BY <2>1, <3>2, <4>1, <4>2 DEF Increased, Position
    <3>3. CASE o.side = "SELL"
      <4>1. x.pos.qty - o.qty \in Nat /\ (x.pos.qty - o.qty > 0) \in BOOLEAN
        BY <1>2, <2>2, <3>1, <3>3
      <4> QED BY <2>1, <3>3, <4>1 DEF Reduced, Position
    <3> QED BY <1>2, <3>2, <3>3
  <2>4. positions' = {IF p.id = x.pos.id THEN Flush(p, x.pos, now) ELSE p : p \in positions}
    BY <1>1, <1>5, Zenon DEF PositionsAfter
  <2>5. \A p \in positions : p.id = x.pos.id => p = x.pos
    BY <2>1 DEF RowsOK
  <2>6. Flush(x.pos, x.pos, now) = now
    <3> HIDE DEF now
    <3> QED BY <2>1, <2>3 DEF Flush, Position
  <2> HIDE DEF now
  <2>7. positions' = (positions \ {x.pos}) \cup {now}
    BY <2>1, <2>4, <2>5, <2>6
  <2> QED BY <2>1, <2>2, <2>3, <2>7 DEF now
<1> QED BY <1>3, <1>4, <1>5

\* The balance of a bot and token: a BUY adds to both sides, a SELL takes from
\* both.
LEMMA CommitBooked ==
  ASSUME IInv, PosInv, NEW s \in Sessions, Commit(s)
  PROVE  Booked'
<1> DEFINE x == sess[s]
           o == x.order
           row == TradeOf(x)
<1>1. /\ x \in GoodSession /\ x.pc = "priced" /\ trades' = Append(trades, row)
      /\ row \in Trade /\ row.bot = o.bot /\ row.token = o.token
      /\ row.side = o.side /\ row.qty = o.qty
      /\ o.qty \in Nat /\ o.side \in {"BUY", "SELL"}
  BY TradeType, OrderTypes DEF Commit, IInv, TradeOf, Order, Sides
<1>p. /\ positions \in SUBSET Position /\ IsFiniteSet(positions)
  BY DEF IInv, TypeOK, PosInv, RowsOK
<1>n. IInv'
  BY CommitIInv
<1> SUFFICES ASSUME NEW b \in Bots, NEW t \in Tokens
             PROVE  HeldIn(b, t)' = Moved(b, t, "BUY")' - Moved(b, t, "SELL")'
  BY DEF Booked
<1>h. HeldIn(b, t) = SumFunctionOnSet([p \in positions |-> p.qty], RowsIn(positions, b, t))
  BY DEF HeldIn, RowsIn
<1>2. /\ HeldIn(b, t) = Moved(b, t, "BUY") - Moved(b, t, "SELL")
      /\ HeldIn(b, t) = SumFunctionOnSet(Quantity, RowsIn(positions, b, t))
      /\ HeldIn(b, t) \in Int
  BY <1>p, <1>h, HeldIs DEF PosInv, Booked
<1>3. ASSUME IsFiniteSet(positions')
      PROVE  HeldIn(b, t)' = SumFunctionOnSet(Quantity, RowsIn(positions', b, t))
  <2>1. positions' \in SUBSET Position
    BY <1>n DEF IInv, TypeOK
  <2>2. HeldIn(b, t)'
          = SumFunctionOnSet([p \in positions' |-> p.qty], RowsIn(positions', b, t))
    BY DEF HeldIn, RowsIn
  <2> QED BY <1>3, <2>1, <2>2, HeldIs
<1> DEFINE hit == o.bot = b /\ o.token = t
<1>4. /\ Moved(b, t, "BUY") \in Int /\ Moved(b, t, "SELL") \in Int
      /\ Moved(b, t, "BUY")' = Moved(b, t, "BUY")
           + IF hit /\ o.side = "BUY" THEN o.qty ELSE 0
      /\ Moved(b, t, "SELL")' = Moved(b, t, "SELL")
           + IF hit /\ o.side = "SELL" THEN o.qty ELSE 0
  BY <1>1, MovedAfterAppend
<1>5. HeldIn(b, t)' = HeldIn(b, t) + IF hit THEN IF o.side = "BUY" THEN o.qty ELSE -o.qty
                                          ELSE 0
  <2>1. CASE o.token = NoToken /\ positions' = positions
    <3>1. ~hit
      BY <2>1, SentinelsAssumption
    <3> QED BY <1>p, <1>2, <1>3, <2>1, <3>1
  <2>2. ASSUME NEW new \in Position, new = Opened(x.key, o), new \notin positions,
               o.side = "BUY", positions' = positions \cup {new}
        PROVE  HeldIn(b, t)' = HeldIn(b, t) + IF hit THEN o.qty ELSE 0
    <3>1. IsFiniteSet(positions')
      BY <1>p, <2>2, FS_AddElement
    <3>2. new.bot = o.bot /\ new.token = o.token /\ new.qty = o.qty
      BY <2>2 DEF Opened
    <3>3. SumFunctionOnSet(Quantity, RowsIn(positions \cup {new}, b, t))
            = SumFunctionOnSet(Quantity, RowsIn(positions, b, t))
                + IF new.bot = b /\ new.token = t THEN new.qty ELSE 0
      BY <1>p, <2>2, HeldAfterInsert
    <3> QED BY <1>2, <1>3, <2>2, <3>1, <3>2, <3>3
  <2>3. ASSUME NEW old \in positions, NEW new \in Position,
               old \in OpenPositions(o.bot, o.token),
               new = IF o.side = "BUY" THEN Increased(old, o) ELSE Reduced(old, o),
               positions' = (positions \ {old}) \cup {new}
        PROVE  HeldIn(b, t)' = HeldIn(b, t)
                 + IF hit THEN IF o.side = "BUY" THEN o.qty ELSE -o.qty ELSE 0
    <3>1. IsFiniteSet(positions')
      BY <1>p, <2>3, FS_AddElement, FS_RemoveElement
    <3>2. /\ old \in Position /\ old.bot = o.bot /\ old.token = o.token
          /\ old.qty \in Nat
      BY <1>p, <2>3 DEF OpenPositions, Position
    <3>3. /\ new.bot = old.bot /\ new.token = old.token /\ new.id = old.id
          /\ new.qty = IF o.side = "BUY" THEN old.qty + o.qty ELSE old.qty - o.qty
      BY <2>3, <3>2 DEF Increased, Reduced, Position
    <3>4. new \notin positions \ {old}
      BY <3>3 DEF PosInv, RowsOK
    <3>5. SumFunctionOnSet(Quantity, RowsIn((positions \ {old}) \cup {new}, b, t))
            = SumFunctionOnSet(Quantity, RowsIn(positions, b, t))
                + IF new.bot = b /\ new.token = t THEN new.qty - old.qty ELSE 0
      BY <1>p, <3>3, <3>4, HeldAfterUpdate
    <3> QED BY <1>1, <1>2, <1>3, <2>3, <3>1, <3>2, <3>3, <3>5
  <2> QED BY <2>1, <2>2, <2>3, CommitPositions DEF PosInv
<1> HIDE DEF hit
<1>6. CASE ~hit
  BY <1>2, <1>4, <1>5, <1>6
<1>7. CASE hit /\ o.side = "BUY"
  BY <1>1, <1>2, <1>4, <1>5, <1>7
<1>8. CASE hit /\ o.side = "SELL"
  BY <1>1, <1>2, <1>4, <1>5, <1>8
<1> QED BY <1>1, <1>6, <1>7, <1>8

LEMMA CommitRows ==
  ASSUME IInv, RowsOK, Chosen, NEW s \in Sessions, Commit(s)
  PROVE  RowsOK'
<1> DEFINE x == sess[s]
           o == x.order
           row == TradeOf(x)
<1>1. /\ x \in GoodSession /\ x.pc = "priced" /\ trades' = Append(trades, row)
      /\ row \in Trade /\ row.key = x.key /\ x.key \notin KeysUsed
      /\ o \in Order /\ o.qty \in Nat /\ o.qty > 0 /\ o.side \in {"BUY", "SELL"}
      /\ positions \subseteq Position
  BY TradeType, OrderTypes
     DEF Commit, UniqueKey, IInv, TypeOK, TradeOf, Order, Sides, GoodSession, SessionOK
<1>2. KeysUsed' = KeysUsed \cup {x.key}
  BY <1>1, KeysAfterAppend
<1>3. CASE positions' = positions
  BY <1>2, <1>3 DEF RowsOK
<1>4. ASSUME NEW new \in Position, new = Opened(x.key, o),
             OpenPositions(o.bot, o.token) = {}, positions' = positions \cup {new}
      PROVE  RowsOK'
  <2>1. /\ new.id = x.key /\ new.open /\ new.qty > 0
        /\ new.bot = o.bot /\ new.token = o.token
    BY <1>1, <1>4 DEF Opened
  <2>2. \A p \in positions : p.id # new.id
    BY <1>1, <2>1 DEF RowsOK
  <2>3. \A p \in positions : ~(p.open /\ p.bot = new.bot /\ p.token = new.token)
    BY <1>4, <2>1 DEF OpenPositions
  <2>4. IsFiniteSet(positions')
    BY <1>4, FS_AddElement DEF RowsOK
  <2>5. \A p \in positions' : p.id \in KeysUsed' /\ (p.open <=> p.qty > 0)
    BY <1>2, <1>4, <2>1 DEF RowsOK
  <2>6. \A p, q \in positions' : p.id = q.id => p = q
    BY <1>4, <2>2 DEF RowsOK
  <2>7. \A p, q \in positions' :
          p.open /\ q.open /\ p.bot = q.bot /\ p.token = q.token => p = q
    BY <1>4, <2>3 DEF RowsOK
  <2> QED BY <2>4, <2>5, <2>6, <2>7 DEF RowsOK
<1>5. ASSUME NEW old \in positions, NEW new \in Position,
             old \in OpenPositions(o.bot, o.token),
             new = IF o.side = "BUY" THEN Increased(old, o) ELSE Reduced(old, o),
             positions' = (positions \ {old}) \cup {new}
      PROVE  RowsOK'
  <2>1. old \in Position /\ old.open /\ old.qty \in Nat
    BY <1>1, <1>5 DEF OpenPositions, Position
  <2>2. /\ new.id = old.id /\ new.bot = old.bot /\ new.token = old.token
        /\ new.open <=> new.qty > 0
    <3>1. CASE o.side = "BUY"
      <4>1. /\ new.id = old.id /\ new.bot = old.bot /\ new.token = old.token
            /\ new.open = old.open /\ new.qty = old.qty + o.qty
        BY <1>5, <2>1, <3>1 DEF Increased, Position
      <4> QED BY <1>1, <2>1, <4>1
    <3>2. CASE o.side = "SELL"
      <4>1. /\ new.id = old.id /\ new.bot = old.bot /\ new.token = old.token
            /\ new.open = (old.qty - o.qty > 0) /\ new.qty = old.qty - o.qty
        BY <1>5, <2>1, <3>2 DEF Reduced, Position
      <4> QED BY <4>1
    <3> QED BY <1>1, <3>1, <3>2
  <2>3. IsFiniteSet(positions')
    BY <1>5, FS_AddElement, FS_RemoveElement DEF RowsOK
  <2>4. \A p \in positions' : p.id \in KeysUsed' /\ (p.open <=> p.qty > 0)
    BY <1>2, <1>5, <2>2 DEF RowsOK
  <2>5. \A p, q \in positions' : p.id = q.id => p = q
    BY <1>5, <2>2 DEF RowsOK
  <2>6. \A p, q \in positions' :
          p.open /\ q.open /\ p.bot = q.bot /\ p.token = q.token => p = q
    BY <1>5, <2>1, <2>2 DEF RowsOK
  <2> QED BY <2>3, <2>4, <2>5, <2>6 DEF RowsOK
<1> QED BY <1>3, <1>4, <1>5, CommitPositions

LEMMA SoloPositions ==
  ASSUME \A s, t \in Sessions : s = t, IInv, PosInv, [Next]_vars
  PROVE  PosInv'
<1>t. sess \in [Sessions -> Session]
  BY DEF IInv, TypeOK
<1>1. ASSUME NEW s \in Sessions, Commit(s) PROVE PosInv'
  <2>1. sess'[s].pc = "committed"
    BY <1>1, <1>t DEF Commit, Session
  <2>2. Chosen'
    BY <2>1 DEF Chosen
  <2> QED BY <1>1, <2>2, CommitRows, CommitBooked DEF PosInv
<1>2. ASSUME UNCHANGED <<positions, trades>>, Chosen' PROVE PosInv'
  <2>1. RowsOK'
    BY <1>2 DEF PosInv, RowsOK, KeysUsed
  <2>2. Booked'
    BY <1>2 DEF PosInv, Booked, HeldIn, Moved, RowsOf
  <2> QED BY <1>2, <2>1, <2>2 DEF PosInv
<1>3. ASSUME NEW s \in Sessions, Price(s) PROVE PosInv'
  <2> DEFINE o == sess[s].order
  <2>1. /\ UNCHANGED <<positions, trades>> /\ sess'[s].order = o
        /\ sess'[s].pos \in IF OpenPositions(o.bot, o.token) = {} THEN {NoPosition}
                            ELSE OpenPositions(o.bot, o.token)
    BY <1>3, <1>t DEF Price, Session, tables
  <2>2. OpenPositions(o.bot, o.token)' = OpenPositions(o.bot, o.token)
        /\ OpenPositions(o.bot, o.token) \subseteq Position
    BY <2>1 DEF OpenPositions, IInv, TypeOK
  <2>3. Chosen'
    BY <2>1, <2>2, SentinelsAssumption DEF Chosen, OpenPositions
  <2> QED BY <1>2, <2>1, <2>3
<1>4. ASSUME NEW s \in Sessions, Step(s) \/ Abort(s), ~Price(s), ~Commit(s)
      PROVE  PosInv'
  <2>1. UNCHANGED <<positions, trades>>
    BY <1>4, CallStepsKeepTables DEF Enforce, tables
  <2>2. sess'[s].pc # "priced"
    <3>1. CASE Enforce(s) \/ Evaluate(s)
      BY <3>1, <1>t DEF Enforce, Evaluate, Answered, Session
    <3>2. CASE \E k \in Keys, o \in Orders : Begin(s, k, o)
      BY <3>2, <1>t DEF Begin, Answered
    <3>3. CASE \/ \E k \in Keys : Replay(s, k)
               \/ \E k \in Keys, o \in Orders : RefuseDead(s, k, o)
               \/ PriceFails(s) \/ CommitConflict(s) \/ Answer(s) \/ Close(s)
               \/ Abort(s)
      BY <3>3, <1>t DEF Replay, RefuseDead, PriceFails, CommitConflict, Answer,
                        Close, Abort, Answered
    <3> QED BY <1>4, <3>1, <3>2, <3>3 DEF Step
  <2>3. Chosen'
    BY <2>2 DEF Chosen
  <2> QED BY <1>2, <2>1, <2>3
<1>5. CASE ChangeSystem \/ NewDay \/ UNCHANGED vars
  BY <1>2, <1>5 DEF ChangeSystem, NewDay, tables, vars, PosInv, Chosen, OpenPositions
<1> QED BY <1>1, <1>3, <1>4, <1>5 DEF Next, NextReliable

LEMMA InitPositions == Init => PosInv
<1> SUFFICES ASSUME Init PROVE PosInv
  OBVIOUS
<1>1. RowsOK /\ Chosen
  BY FS_EmptySet DEF Init, RowsOK, Chosen
<1>2. ASSUME NEW b \in Bots, NEW t \in Tokens
      PROVE  HeldIn(b, t) = Moved(b, t, "BUY") - Moved(b, t, "SELL")
  <2>1. {p \in positions : p.bot = b /\ p.token = t} = {}
    BY DEF Init
  <2>2. \A side : {i \in RowsOf(b) : trades[i].token = t /\ trades[i].side = side} = {}
    BY DEF Init, RowsOf
  <2>3. HeldIn(b, t) = 0
    BY <2>1, SumEmpty DEF HeldIn
  <2>4. \A side : Moved(b, t, side) = 0
    BY <2>2, SumEmpty DEF Moved
  <2> QED BY <2>3, <2>4
<1> QED BY <1>1, <1>2 DEF PosInv, Booked

LEMMA PositionsOK ==
  ASSUME PosInv
  PROVE  PositionsAgree
<1>1. ASSUME NEW b \in Bots, NEW t \in Tokens
      PROVE  Cardinality(OpenPositions(b, t)) <= 1
  <2>1. \A p, q \in OpenPositions(b, t) : p = q
    BY DEF PosInv, RowsOK, OpenPositions
  <2>2. CASE OpenPositions(b, t) = {}
    BY <2>2, FS_EmptySet
  <2>3. ASSUME NEW p \in OpenPositions(b, t)
        PROVE  Cardinality(OpenPositions(b, t)) <= 1
    <3>1. OpenPositions(b, t) = {p}
      BY <2>1, <2>3
    <3> QED BY <3>1, FS_Singleton
  <2> QED BY <2>2, <2>3
<1> QED BY <1>1 DEF PositionsAgree, PosInv, RowsOK, Booked

\* With one caller at a time, whatever fails or is retried, a bot and a token
\* have one OPEN position at most, and its quantity is what the trades bought
\* and did not sell.
THEOREM SerialPositions ==
  ASSUME \A s, t \in Sessions : s = t
  PROVE  Spec => []PositionsAgree
<1>1. IInv /\ PosInv /\ [Next]_vars => PosInv'
  BY SoloPositions
<1>2. PosInv => PositionsAgree
  BY PositionsOK
<1> QED BY <1>1, <1>2, InitPositions, Invariance, PTL DEF Spec

(***************************************************************************)
(* Deaths, for callers that run one after another and do not fail.  What   *)
(* the executor does to the deaths is the same whether or not others have  *)
(* brought dead bots back: "back" is how often they did.                   *)
(***************************************************************************)

\* A bot past its ceiling is dead, or was once brought back, unless the SELL that
\* took it there has just committed and the policy is about to look; a BUY
\* realises nothing.
Selling(b) == \E s \in Sessions : /\ sess[s].pc = "committed" /\ sess[s].order.bot = b
                                  /\ sess[s].order.side = "SELL"
Judged(back) ==
  \A b \in Bots : Selling(b) \/ (bots[b].pnl <= -MaxLoss => bots[b].state = "DEAD" \/ back[b] > 0)
Counted(back) == \A b \in Bots : deaths[b] = back[b] + IF bots[b].state = "DEAD" THEN 1 ELSE 0
DeathInv(back) == Counted(back) /\ Judged(back)

LEMMA DeathsKept ==
  ASSUME NEW back \in [Bots -> Nat], DeathInv(back), UNCHANGED deaths,
         \A s \in Sessions : sess'[s] = sess[s] \/ sess[s].pc # "committed",
         \A b \in Bots : /\ bots'[b].pnl = bots[b].pnl
                         /\ bots'[b].state = "DEAD" <=> bots[b].state = "DEAD"
  PROVE  DeathInv(back)'
BY DEF DeathInv, Counted, Judged, Selling

LEMMA CommitDeaths ==
  ASSUME \A s, t \in Sessions : s = t, NEW back \in [Bots -> Nat], SoloInv, DeathInv(back),
         NEW s \in Sessions, Commit(s)
  PROVE  DeathInv(back)'
<1> DEFINE x == sess[s]
           c == x.order.bot
           now == Filled(bots[c], x.order, EntryPrice(x))
<1>1. /\ c \in Bots /\ bots[c] \in BotRow /\ now \in BotRow
      /\ bots' = [bots EXCEPT ![c] = now] /\ x \in GoodSession /\ x.pc = "priced"
  BY SoloCommit
<1>2. /\ sess'[s].pc = "committed" /\ sess'[s].order = x.order
      /\ deaths' = deaths /\ bots \in [Bots -> BotRow]
  BY DEF Commit, SoloInv, IInv, TypeOK, Session
<1>3. now.state = bots[c].state
      /\ now.pnl = bots[c].pnl + Realized(x.order, EntryPrice(x))
  BY <1>1 DEF Filled, BotRow
<1>4. \A b \in Bots : bots[b].pnl <= -MaxLoss => bots[b].state = "DEAD" \/ back[b] > 0
  BY <1>1 DEF DeathInv, Judged, Selling
<1>c. Counted(back)'
  <2> HIDE DEF now
  <2> QED BY <1>1, <1>2, <1>3 DEF DeathInv, Counted
<1>5. CASE x.order.side = "SELL"
  <2> HIDE DEF now
  <2> QED BY <1>1, <1>2, <1>3, <1>4, <1>5, <1>c DEF DeathInv, Judged, Selling
<1>6. CASE x.order.side # "SELL"
  <2>1. x.order.side = "BUY"
    BY <1>1, <1>6, OrderTypes DEF Order, Sides
  <2>2. now.pnl = bots[c].pnl
    BY <1>1, <1>3, <2>1 DEF Realized, BotRow
  <2> HIDE DEF now
  <2> QED BY <1>1, <1>2, <1>3, <1>4, <1>c, <2>2 DEF DeathInv, Judged
<1> QED BY <1>5, <1>6

LEMMA EnforceDeaths ==
  ASSUME \A s, t \in Sessions : s = t, NEW back \in [Bots -> Nat], SoloInv, DeathInv(back),
         NEW s \in Sessions, Enforce(s)
  PROVE  DeathInv(back)'
<1> DEFINE c == sess[s].order.bot
           died == Dies(bots[c])
           now == [bots[c] EXCEPT !.state = IF died THEN "DEAD" ELSE @]
<1>1. /\ c \in Bots /\ bots[c] \in BotRow /\ bots' = [bots EXCEPT ![c] = now]
      /\ deaths' = [deaths EXCEPT ![c] = IF died THEN @ + 1 ELSE @]
      /\ bots \in [Bots -> BotRow] /\ deaths \in [Bots -> Nat]
  BY SoloEnforce DEF SoloInv, IInv, TypeOK
<1>2. /\ now.pnl = bots[c].pnl
      /\ now.state = IF died THEN "DEAD" ELSE bots[c].state
  BY <1>1 DEF BotRow
<1>3. /\ died => bots[c].state # "DEAD"
      /\ bots[c].pnl <= -MaxLoss /\ bots[c].state # "DEAD" => died
  BY DEF Dies, HasBreached
<1>4. \A b \in Bots \ {c} : bots[b].pnl <= -MaxLoss => bots[b].state = "DEAD" \/ back[b] > 0
  BY DEF DeathInv, Judged, Selling
<1> HIDE DEF died, now, c
<1>5. \A b \in Bots : bots'[b].pnl <= -MaxLoss => bots'[b].state = "DEAD" \/ back[b] > 0
  BY <1>1, <1>2, <1>3, <1>4
<1>6. \A b \in Bots : deaths'[b] = back[b] + IF bots'[b].state = "DEAD" THEN 1 ELSE 0
  BY <1>1, <1>2, <1>3 DEF DeathInv, Counted
<1> QED BY <1>5, <1>6 DEF DeathInv, Counted, Judged

LEMMA StepDeaths ==
  ASSUME \A s, t \in Sessions : s = t, NEW back \in [Bots -> Nat], SoloInv, DeathInv(back),
         NEW s \in Sessions, Step(s)
  PROVE  DeathInv(back)'
<1>1. CASE ~Commit(s) /\ ~Enforce(s)
  <2>1. UNCHANGED <<bots, deaths>>
    BY <1>1, CallStepsKeepTables DEF tables
  <2>2. sess[s].pc # "committed"
    BY <1>1 DEF Step, Replay, RefuseDead, Begin, Evaluate, Price, PriceFails,
                CommitConflict, Answer, Close
  <2>3. \A r \in Sessions : sess[r].pc # "committed"
    BY <2>2
  <2> QED BY <2>1, <2>3, DeathsKept
<1> QED BY <1>1, CommitDeaths, EnforceDeaths

LEMMA InitDeaths ==
  ASSUME MaxLoss > 0, Init, NEW back, back = [b \in Bots |-> 0]
  PROVE  DeathInv(back)
BY AmountsAssumption DEF Init, DeathInv, Counted, Judged, Selling

LEMMA NextDeaths ==
  ASSUME \A s, t \in Sessions : s = t, NEW back \in [Bots -> Nat], SoloInv, DeathInv(back),
         [NextReliable]_vars
  PROVE  DeathInv(back)'
<1>1. CASE ChangeSystem \/ NewDay \/ UNCHANGED vars
  BY <1>1, DeathsKept DEF ChangeSystem, NewDay, tables, vars
<1> QED BY <1>1, StepDeaths DEF NextReliable

\* With one caller at a time and no failure between the two commits, a bot that
\* reaches a ceiling other than zero is dead when the call ends, once.
THEOREM SerialDeaths ==
  ASSUME \A s, t \in Sessions : s = t, MaxLoss > 0
  PROVE  SpecReliable => []DeathFollowsBreach
<1>n. PICK back \in [Bots -> Nat] : back = [b \in Bots |-> 0]
  OBVIOUS
<1>1. Init => DeathInv(back) /\ SoloInv
  BY <1>n, InitDeaths, InitSoloInv
<1>2. SoloInv /\ DeathInv(back) /\ [NextReliable]_vars => DeathInv(back)' /\ SoloInv'
  BY NextDeaths, SoloNext DEF Next
<1>3. DeathInv(back) => DeathFollowsBreach
  BY <1>n DEF DeathInv, Counted, Judged, Selling, DeathFollowsBreach, AtRest
<1> QED BY <1>1, <1>2, <1>3, PTL DEF SpecReliable
=============================================================================
