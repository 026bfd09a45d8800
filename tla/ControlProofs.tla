---------------------------- MODULE ControlProofs ----------------------------
(***************************************************************************)
(* Proofs about SystemControl, for any number of request threads and any   *)
(* bound on the clock, and about TelegramControl, for any chats, users and *)
(* roles.                                                                  *)
(***************************************************************************)
EXTENDS TelegramControl, FiniteSetTheorems, TLAPS

(***************************************************************************)
(* SystemControl.  The inductive invariant says that created_at values are *)
(* distinct and no greater than the clock, and that a request past its     *)
(* check remembers a row that is in the table and that did not make it     *)
(* give up.                                                                *)
(***************************************************************************)
LatestExists == \E e \in events : IsLatest(e)

StampsBounded == /\ \A e \in events : e.stamp <= clock
                 /\ \A r \in Requests : req[r].stamp <= clock

StampsDistinct ==
    /\ \A e, f \in events : e.stamp = f.stamp => e = f
    /\ \A r \in Requests : req[r].pc = "stamped"
          => \A e \in events : e.stamp # req[r].stamp
    /\ \A r, q \in Requests :
          req[r].pc = "stamped" /\ req[q].pc = "stamped" /\ r # q
             => req[r].stamp # req[q].stamp

ChecksPassed ==
    \A r \in Requests : req[r].pc # "idle" =>
        /\ req[r].seen \in events
        /\ req[r].op \in Operations
        /\ ~Refuses(req[r].op, req[r].seen)
        /\ ~AlreadyEngaged(req[r].op, req[r].seen)
        /\ req[r].pc = "stamped" => req[r].op \in Controls

IInv == TypeOK /\ LatestExists /\ StampsBounded /\ StampsDistinct /\ ChecksPassed

\* The row get_system_state returns is a committed one that no other exceeds.
LEMMA LatestIsLatest == LatestExists => IsLatest(Latest)
  BY DEF LatestExists, Latest

\* A row newer than every committed one becomes the row in force.
LEMMA NewestIsLatest ==
  ASSUME IInv, NEW x \in Event, events' = events \cup {x},
         \A e \in events : e.stamp < x.stamp
  PROVE  Latest' = x
<1>1. IsLatest(x)'
  BY DEF IsLatest, IInv, TypeOK, Event
<1>2. ASSUME NEW y, IsLatest(y)'
      PROVE  y = x
  <2>1. y \in events \cup {x} /\ x.stamp <= y.stamp
    BY <1>2 DEF IsLatest
  <2>2. QED
    BY <2>1 DEF IInv, TypeOK, Event
<1>3. QED
  BY <1>1, <1>2 DEF Latest

\* The type invariant and its strengthening hold initially.
LEMMA InitIInv == Init => IInv
  BY DEF Init, IInv, TypeOK, LatestExists, IsLatest, StampsBounded, StampsDistinct,
         ChecksPassed, NoEvent, Event, Kinds, Operations, Controls, Request, Phases,
         Idle

\* Adding a row keeps a row in force.
LEMMA LatestKept ==
  ASSUME IInv, NEW x \in Event, events' = events \cup {x}
  PROVE  LatestExists'
<1>1. PICK e \in events : IsLatest(e)
  BY DEF IInv, LatestExists
<1>2. CASE x.stamp <= e.stamp
  BY <1>1, <1>2 DEF IsLatest, LatestExists
<1>3. CASE ~(x.stamp <= e.stamp)
  <2>1. \A f \in events : f \in Event
    BY DEF IInv, TypeOK
  <2>2. IsLatest(x)'
    BY <1>1, <1>3, <2>1 DEF IsLatest, Event
  <2>3. QED
    BY <2>2 DEF LatestExists, IsLatest
<1>4. QED
  BY <1>2, <1>3

\* Every step preserves the strengthened invariant.
LEMMA NextIInv == IInv /\ [Next]_vars => IInv'
<1> SUFFICES ASSUME IInv, [Next]_vars
             PROVE  IInv'
  OBVIOUS
<1> USE DEF IInv
<1>1. ASSUME NEW r \in Requests, NEW op \in Operations, ReadState(r, op)
      PROVE  IInv'
  <2>1. Latest \in events
    BY LatestIsLatest DEF IsLatest
  <2>2. Latest \in Event /\ op \in Kinds /\ op # "none"
    BY <2>1 DEF TypeOK, Operations, Kinds, Controls
  <2>3. TypeOK'
    BY <1>1, <2>2 DEF TypeOK, ReadState, Request, Phases, Idle, NoEvent, Event, Kinds
  <2>4. LatestExists'
    BY <1>1 DEF ReadState, LatestExists, IsLatest
  <2>5. StampsBounded'
    BY <1>1 DEF TypeOK, ReadState, StampsBounded, Idle
  <2>6. StampsDistinct'
    BY <1>1 DEF TypeOK, ReadState, StampsDistinct, Idle
  <2>7. ChecksPassed'
    BY <1>1, <2>1 DEF TypeOK, ReadState, ChecksPassed, Idle
  <2>8. QED
    BY <2>3, <2>4, <2>5, <2>6, <2>7
<1>2. ASSUME NEW r \in Requests, Stamp(r)
      PROVE  IInv'
  <2>1. req[r] \in Request /\ clock + 1 \in Nat
    BY DEF TypeOK
  <2>2. [req[r] EXCEPT !.pc = "stamped", !.stamp = clock + 1] \in Request
    BY <2>1 DEF Request, Phases
  <2>3. TypeOK'
    BY <1>2, <2>1, <2>2 DEF TypeOK, Stamp
  <2>4. LatestExists'
    BY <1>2 DEF Stamp, LatestExists, IsLatest
  <2>5. StampsBounded'
    BY <1>2 DEF TypeOK, Stamp, StampsBounded, Event, Request
  <2>6. StampsDistinct'
    BY <1>2 DEF TypeOK, Stamp, StampsDistinct, StampsBounded, Event, Request
  <2>7. ChecksPassed'
    BY <1>2 DEF TypeOK, Stamp, ChecksPassed, StampsEarly
  <2>8. QED
    BY <2>3, <2>4, <2>5, <2>6, <2>7
<1>3. ASSUME NEW r \in Requests, CommitStamped(r)
      PROVE  IInv'
  <2>1. [stamp |-> req[r].stamp, kind |-> req[r].op] \in Event
    BY <1>3 DEF CommitStamped, TypeOK, Request, Event, Kinds
  <2>3. TypeOK'
    BY <1>3, <2>1 DEF TypeOK, CommitStamped, Request, Phases, Idle, NoEvent, Event, Kinds
  <2>4. LatestExists'
    BY <1>3, <2>1, LatestKept DEF CommitStamped
  <2>5. StampsBounded'
    BY <1>3 DEF TypeOK, CommitStamped, StampsBounded, Idle
  <2>6. StampsDistinct'
    BY <1>3 DEF TypeOK, CommitStamped, StampsDistinct, Idle
  <2>7. ChecksPassed'
    BY <1>3 DEF TypeOK, CommitStamped, ChecksPassed, Idle
  <2>8. QED
    BY <2>3, <2>4, <2>5, <2>6, <2>7
<1>4. ASSUME NEW kind \in Kinds, Append(kind), UNCHANGED req
      PROVE  IInv'
  <2>1. [stamp |-> clock + 1, kind |-> kind] \in Event
    BY DEF TypeOK, Event
  <2>3. TypeOK'
    BY <1>4, <2>1 DEF TypeOK, Append
  <2>4. LatestExists'
    BY <1>4, <2>1, LatestKept DEF Append
  <2>5. StampsBounded'
    BY <1>4 DEF TypeOK, Append, StampsBounded, Event, Request
  <2>6. StampsDistinct'
    BY <1>4 DEF TypeOK, Append, StampsDistinct, StampsBounded, Event, Request
  <2>7. ChecksPassed'
    BY <1>4 DEF TypeOK, Append, ChecksPassed
  <2>8. QED
    BY <2>3, <2>4, <2>5, <2>6, <2>7
<1>5. ASSUME NEW r \in Requests, CommitUnderLock(r)
      PROVE  IInv'
  <2>1. [stamp |-> clock + 1, kind |-> req[r].op] \in Event
    BY <1>5 DEF TypeOK, Event, CommitUnderLock, Request, Kinds
  <2>3. TypeOK'
    BY <1>5, <2>1 DEF TypeOK, CommitUnderLock, Append, Request, Phases, Idle, NoEvent,
                      Event, Kinds
  <2>4. LatestExists'
    BY <1>5, <2>1, LatestKept DEF CommitUnderLock, Append
  <2>5. StampsBounded'
    BY <1>5 DEF TypeOK, CommitUnderLock, Append, StampsBounded, Event, Request, Idle
  <2>6. StampsDistinct'
    BY <1>5 DEF TypeOK, CommitUnderLock, Append, StampsDistinct, StampsBounded, Event,
                Request, Idle
  <2>7. ChecksPassed'
    BY <1>5 DEF TypeOK, CommitUnderLock, Append, ChecksPassed, Idle
  <2>8. QED
    BY <2>3, <2>4, <2>5, <2>6, <2>7
<1>6. ASSUME NEW r \in Requests, FailWrite(r)
      PROVE  IInv'
  <2>1. TypeOK'
    BY <1>6 DEF TypeOK, FailWrite, Failed, Idle, NoEvent, Request, Phases, Event, Kinds
  <2>2. LatestExists'
    BY <1>6 DEF FailWrite, LatestExists, IsLatest
  <2>3. StampsBounded'
    BY <1>6 DEF TypeOK, FailWrite, StampsBounded, Failed, Idle
  <2>4. StampsDistinct'
    BY <1>6 DEF TypeOK, FailWrite, StampsDistinct, Failed, Idle
  <2>5. ChecksPassed'
    BY <1>6 DEF TypeOK, FailWrite, ChecksPassed, Failed, Idle
  <2>6. QED
    BY <2>1, <2>2, <2>3, <2>4, <2>5
<1>7. CASE Crash
  <2>1. TypeOK'
    BY <1>7 DEF TypeOK, Crash, Failed, Idle, NoEvent, Request, Phases, Event, Kinds
  <2>2. LatestExists'
    BY <1>7 DEF Crash, LatestExists, IsLatest
  <2>3. StampsBounded'
    BY <1>7 DEF TypeOK, Crash, StampsBounded, Failed, Idle
  <2>4. StampsDistinct'
    BY <1>7 DEF TypeOK, Crash, StampsDistinct, Failed, Idle
  <2>5. ChecksPassed'
    BY <1>7 DEF TypeOK, Crash, ChecksPassed, Failed, Idle
  <2>6. QED
    BY <2>1, <2>2, <2>3, <2>4, <2>5
<1>8. CASE UNCHANGED vars
  BY <1>8 DEF TypeOK, vars, LatestExists, IsLatest, StampsBounded, StampsDistinct,
              ChecksPassed
<1>9. QED
  BY <1>1, <1>2, <1>3, <1>4, <1>5, <1>6, <1>7, <1>8
     DEF Next, Finish, Halt, ClearHalt, ResetKillSwitch, Kinds

THEOREM Invariance == Spec => []IInv
  BY InitIInv, NextIInv, PTL DEF Spec

\* Every reachable state is well typed: rows, clock and request records.
THEOREM TypeCorrect == Spec => []TypeOK
  BY Invariance, PTL DEF IInv

\* The row a committing request adds is new, and is the one that names it.
LEMMA CommitAdds ==
  ASSUME IInv, NEW r \in Requests, CommitStamped(r)
  PROVE  LET x == [stamp |-> req[r].stamp, kind |-> req[r].op]
         IN  x \in NewRows /\ NewRows = {x} /\ x.kind \in Controls
<1>1. req[r].pc = "stamped" /\ req[r] \in Request
  BY DEF CommitStamped, IInv, TypeOK
<1>2. [stamp |-> req[r].stamp, kind |-> req[r].op] \notin events
  BY <1>1 DEF IInv, StampsDistinct
<1>3. req[r].op \in Controls
  BY <1>1 DEF IInv, ChecksPassed
<1>4. QED
  BY <1>2, <1>3 DEF CommitStamped, NewRows

\* A request that read the row in force and was let through did not read an
\* emergency stop if it kills, nor any stop if it starts, resumes or pauses.
LEMMA OlderUnlessLetThrough ==
  ASSUME IInv, NEW r \in Requests, req[r].pc # "idle",
         \/ Refuses(req[r].op, Latest)
         \/ AlreadyEngaged(req[r].op, Latest)
  PROVE  req[r].seen.stamp < Latest.stamp
<1>1. IsLatest(Latest)
  BY LatestIsLatest DEF IInv
<1>2. req[r].seen \in events /\ req[r].seen # Latest
  BY DEF IInv, ChecksPassed
<1>3. req[r].seen.stamp <= Latest.stamp /\ req[r].seen.stamp # Latest.stamp
  BY <1>1, <1>2 DEF IsLatest, IInv, StampsDistinct
<1>4. req[r].seen \in Event /\ Latest \in Event
  BY <1>1, <1>2 DEF IsLatest, IInv, TypeOK
<1>5. QED
  BY <1>3, <1>4 DEF Event

\* A row stamped under the lock is new, and is in force once committed.
LEMMA AppendAdds ==
  ASSUME IInv, NEW kind \in Kinds, Append(kind)
  PROVE  LET x == [stamp |-> clock + 1, kind |-> kind]
         IN  x \in NewRows /\ NewRows = {x} /\ Latest' = x
<1> DEFINE x == [stamp |-> clock + 1, kind |-> kind]
<1>1. x \in Event
  BY DEF IInv, TypeOK, Event
<1>2. \A e \in events : e.stamp < x.stamp
  BY DEF IInv, TypeOK, StampsBounded, Event
<1>3. x \notin events
  BY <1>2 DEF IInv, TypeOK, Event
<1>4. Latest' = x
  BY <1>1, <1>2, NewestIsLatest DEF Append
<1>5. QED
  BY <1>3, <1>4 DEF Append, NewRows

\* Steps that add no row leave the state and the set of new rows alone.
LEMMA NoRowNoChange ==
  ASSUME events' = events
  PROVE  Latest' = Latest /\ SystemState' = SystemState /\ NewRows = {}
  BY DEF Latest, IsLatest, SystemState, NewRows

\* The four ways a step can go, as far as rows are concerned.
LEMMA StepKinds ==
  ASSUME [Next]_vars
  PROVE  \/ events' = events
         \/ \E r \in Requests : CommitStamped(r) \/ CommitUnderLock(r)
         \/ \E kind \in {"halt", "clear", "reset"} : Append(kind)
  BY DEF Next, Finish, ReadState, Stamp, FailWrite, Crash, vars, Halt, ClearHalt,
         ResetKillSwitch

\* A stop in force is lifted only by a reset or clear row, or by a request
\* whose decision was read before the stop: whatever the number of requests.
THEOREM StopLifted == Spec => StopLiftedOnlyByReleaseOrRace
<1>1. ASSUME IInv, [Next]_vars, SystemState \in Stopped, SystemState' \notin Stopped
      PROVE  \E e \in NewRows : e.kind \in {"reset", "clear"} \/ DecidedOnOlderState(e)
  <2>1. events' # events
    BY <1>1, NoRowNoChange
  <2>2. ASSUME NEW r \in Requests, CommitStamped(r)
        PROVE  \E e \in NewRows : DecidedOnOlderState(e)
    <3> DEFINE x == [stamp |-> req[r].stamp, kind |-> req[r].op]
    <3>1. x \in NewRows /\ req[r].op \in Controls
      BY <1>1, <2>2, CommitAdds
    <3>2. req[r].pc # "idle" /\ Refuses(req[r].op, Latest)
      BY <1>1, <2>2, <3>1 DEF CommitStamped, Refuses, SystemState
    <3>3. req[r].seen.stamp < Latest.stamp
      BY <1>1, <3>2, OlderUnlessLetThrough
    <3>4. req'[r].pc = "idle"
      BY <1>1, <2>2 DEF CommitStamped, Idle, IInv, TypeOK
    <3>5. QED
      BY <3>1, <3>2, <3>3, <3>4 DEF DecidedOnOlderState
  <2>3. ASSUME NEW r \in Requests, CommitUnderLock(r)
        PROVE  FALSE
    <3>1. req[r].op = "kill" /\ Append("kill")
      BY <1>1, <2>3 DEF CommitUnderLock, StampsEarly, IInv, ChecksPassed, Operations
    <3>2. Latest' = [stamp |-> clock + 1, kind |-> "kill"]
      BY <1>1, <3>1, AppendAdds DEF Kinds, Operations
    <3>3. QED
      BY <1>1, <3>2 DEF SystemState, StateOf, Stopped
  <2>4. ASSUME NEW kind \in {"halt", "clear", "reset"}, Append(kind)
        PROVE  \E e \in NewRows : e.kind \in {"reset", "clear"}
    <3>1. kind \in Kinds
      BY DEF Kinds
    <3>2. /\ [stamp |-> clock + 1, kind |-> kind] \in NewRows
          /\ Latest'.kind = kind
      BY <1>1, <2>4, <3>1, AppendAdds
    <3>3. kind # "halt"
      BY <1>1, <3>2 DEF SystemState, StateOf, Stopped
    <3>4. QED
      BY <3>2, <3>3
  <2>5. QED
    BY <1>1, <2>1, <2>2, <2>3, <2>4, StepKinds
<1>2. IInv /\ [Next]_vars =>
        [(SystemState \in Stopped /\ SystemState' \notin Stopped)
           => \E e \in NewRows :
                e.kind \in {"reset", "clear"} \/ DecidedOnOlderState(e)]_vars
  BY <1>1
<1>3. QED
  BY <1>2, Invariance, PTL DEF Spec, StopLiftedOnlyByReleaseOrRace

\* The kill switch's row is in force from the moment it is committed.
THEOREM KillIsImmediate == Spec => KillTakesEffect
<1>1. ASSUME IInv, [Next]_vars, NEW e \in NewRows, e.kind = "kill"
      PROVE  SystemState' = "EMERGENCY_STOP"
  <2>1. events' # events
    BY <1>1, NoRowNoChange
  <2>2. ASSUME NEW r \in Requests, CommitStamped(r)
        PROVE  FALSE
    BY <1>1, <2>2, CommitAdds DEF Controls
  <2>3. ASSUME NEW r \in Requests, CommitUnderLock(r)
        PROVE  SystemState' = "EMERGENCY_STOP"
    <3>1. req[r].op = "kill" /\ Append("kill")
      BY <1>1, <2>3 DEF CommitUnderLock, StampsEarly, IInv, ChecksPassed, Operations
    <3>2. Latest' = [stamp |-> clock + 1, kind |-> "kill"]
      BY <1>1, <3>1, AppendAdds DEF Kinds, Operations
    <3>3. QED
      BY <3>2 DEF SystemState, StateOf
  <2>4. ASSUME NEW kind \in {"halt", "clear", "reset"}, Append(kind)
        PROVE  FALSE
    <3>1. kind \in Kinds /\ kind # "kill"
      BY DEF Kinds
    <3>2. NewRows = {[stamp |-> clock + 1, kind |-> kind]}
      BY <1>1, <2>4, <3>1, AppendAdds
    <3>3. QED
      BY <1>1, <3>1, <3>2
  <2>5. QED
    BY <1>1, <2>1, <2>2, <2>3, <2>4, StepKinds
<1>2. IInv /\ [Next]_vars =>
        [(\E e \in NewRows : e.kind = "kill") => SystemState' = "EMERGENCY_STOP"]_vars
  BY <1>1
<1>3. QED
  BY <1>2, Invariance, PTL DEF Spec, KillTakesEffect

\* A kill row over an emergency stop comes only from a request that had
\* checked before that stop: pressing the switch again later adds nothing.
THEOREM KillIsIdempotent == Spec => DuplicateKillOnlyByRace
<1>1. ASSUME IInv, [Next]_vars, SystemState = "EMERGENCY_STOP",
             NEW e \in NewRows, e.kind = "kill"
      PROVE  DecidedOnOlderState(e)
  <2>1. events' # events
    BY <1>1, NoRowNoChange
  <2>2. ASSUME NEW r \in Requests, CommitStamped(r)
        PROVE  FALSE
    BY <1>1, <2>2, CommitAdds DEF Controls
  <2>3. ASSUME NEW r \in Requests, CommitUnderLock(r)
        PROVE  DecidedOnOlderState(e)
    <3>1. req[r].op = "kill" /\ req[r].pc # "idle"
      BY <1>1, <2>3 DEF CommitUnderLock, StampsEarly, IInv, ChecksPassed, Operations
    <3>2. AlreadyEngaged(req[r].op, Latest)
      BY <1>1, <3>1 DEF AlreadyEngaged, SystemState
    <3>3. req[r].seen.stamp < Latest.stamp
      BY <1>1, <3>1, <3>2, OlderUnlessLetThrough
    <3>4. req'[r].pc = "idle"
      BY <1>1, <2>3 DEF CommitUnderLock, Idle, IInv, TypeOK
    <3>5. QED
      BY <1>1, <3>1, <3>3, <3>4 DEF DecidedOnOlderState
  <2>4. ASSUME NEW kind \in {"halt", "clear", "reset"}, Append(kind)
        PROVE  FALSE
    <3>1. kind \in Kinds /\ kind # "kill"
      BY DEF Kinds
    <3>2. NewRows = {[stamp |-> clock + 1, kind |-> kind]}
      BY <1>1, <2>4, <3>1, AppendAdds
    <3>3. QED
      BY <1>1, <3>1, <3>2
  <2>5. QED
    BY <1>1, <2>1, <2>2, <2>3, <2>4, StepKinds
<1>2. IInv /\ [Next]_vars =>
        [\A e \in NewRows : e.kind = "kill" /\ SystemState = "EMERGENCY_STOP"
                             => DecidedOnOlderState(e)]_vars
  BY <1>1
<1>3. QED
  BY <1>2, Invariance, PTL DEF Spec, DuplicateKillOnlyByRace

(***************************************************************************)
(* TelegramControl.  First, that it implements SystemControl, so that      *)
(* every theorem about the system state holds with Telegram as well; then, *)
(* that the audit trail tells the truth.  The invariant follows a command  *)
(* from its arrival to its audit row: what a chat is about to log is       *)
(* already as sound as what has been logged.                               *)
(***************************************************************************)
\* Every step of the composition is a step of SystemControl or a stutter.
LEMMA StepRefines == [TelegramNext]_telegramVars => [Next]_vars
<1> SUFFICES ASSUME [TelegramNext]_telegramVars
             PROVE  [Next]_vars
  OBVIOUS
<1> USE TelegramAssumption
<1>1. ASSUME NEW c \in Chats, NEW user \in Users, NEW attempt \in Attempts,
             Receive(c, user, attempt)
      PROVE  UNCHANGED vars
  BY <1>1 DEF Receive
<1>2. ASSUME NEW c \in Chats, Command(c)
      PROVE  [Next]_vars
  <2>1. CASE Act(c)
    BY <2>1 DEF Act, Next
  <2>2. CASE StampRow(c)
    BY <2>2 DEF StampRow, Next, Finish
  <2>3. CASE CommitRow(c)
    BY <2>3 DEF CommitRow, Next, Finish
  <2>4. CASE Refuse(c) \/ Report(c) \/ AskConfirmation(c) \/ AskReason(c) \/ WriteLog(c)
    BY <2>4 DEF Refuse, Report, AskConfirmation, AskReason, WriteLog
  <2>5. QED
    BY <1>2, <2>1, <2>2, <2>3, <2>4 DEF Command
<1>3. ASSUME NEW c \in Chats, FailCommand(c)
      PROVE  [Next]_vars
  BY <1>3 DEF FailCommand, Next
<1>4. ASSUME NEW r \in Requests, HttpRequest(r)
      PROVE  [Next]_vars
  BY <1>4 DEF HttpRequest, Next
<1>5. CASE Engines
  BY <1>5 DEF Engines, Next
<1>6. CASE CrashAll
  BY <1>6 DEF CrashAll, Next
<1>7. CASE UNCHANGED telegramVars
  BY <1>7 DEF telegramVars
<1>8. QED
  BY <1>1, <1>2, <1>3, <1>4, <1>5, <1>6, <1>7 DEF TelegramNext

\* Telegram adds no way to change the system state: the composition implements
\* SystemControl, whatever the chats, their users and the roles.
THEOREM TelegramRefines == TelegramSpec => ImplementsSystemControl
  BY StepRefines, PTL DEF TelegramSpec, TelegramInit, Spec, ImplementsSystemControl

(***************************************************************************)
(* The audit trail.                                                        *)
(***************************************************************************)

Entitled(x) ==
    Role[x.user] \in (IF x.attempt = "kill" THEN {"OWNER"} ELSE {"OPERATOR", "OWNER"})

\* What a row, or a chat about to write one, says is so.
Sound(x) ==
    /\ x.attempt \in {"pause", "resume"} /\ x.confirmed =>
          \E e \in events : e.stamp = x.wrote /\ e.kind = x.attempt
    /\ x.attempt = "kill" /\ x.confirmed =>
          \E e \in events : e.stamp >= x.since /\ e.kind = "kill"
    /\ x.wrote # 0 => x.authorized /\ x.confirmed /\ Entitled(x)

\* Stamp zero is that of the empty table.
StampsPositive ==
    /\ \A e \in events : e.stamp = 0 => e.kind = "none"
    /\ \A r \in Requests : req[r].pc = "stamped" => req[r].stamp # 0

\* A chat holds its thread while it acts; the state it saw on arrival is that
\* of a committed row.
ChatFollows(c) ==
    /\ chat[c].pc = "acting" =>
          /\ chat[c].attempt \in Operations /\ Entitled(chat[c])
          /\ req[c].pc # "idle" /\ req[c].op = chat[c].attempt
    /\ chat[c].pc # "acting" => req[c].pc = "idle"
    /\ chat[c].pc # "idle" => \E e \in events : e.stamp = chat[c].since
    /\ chat[c].pc = "logging" => Sound(chat[c])

AInv == /\ IInv
        /\ TelegramTypeOK /\ IsFiniteSet(audits)
        /\ StampsPositive
        /\ \A c \in Chats : ChatFollows(c)
        /\ \A a \in audits : Sound(a)

\* The invariant holds initially.
LEMMA InitAInv == TelegramInit => AInv
<1> SUFFICES ASSUME TelegramInit
             PROVE  AInv
  OBVIOUS
<1>1. IInv
  BY InitIInv DEF TelegramInit
<1>2. Silent \in Chat
  BY TelegramAssumption DEF Silent, Chat, Attempts
<1>3. TelegramTypeOK /\ IsFiniteSet(audits)
  BY <1>1, <1>2, FS_EmptySet DEF TelegramInit, TelegramTypeOK, IInv
<1>4. StampsPositive
  BY DEF TelegramInit, Init, StampsPositive, NoEvent, Idle
<1>5. \A c \in Chats : ChatFollows(c)
  BY TelegramAssumption DEF TelegramInit, Init, ChatFollows, Silent, Idle
<1>6. QED
  BY <1>1, <1>3, <1>4, <1>5 DEF AInv, TelegramInit

\* A sound row stays sound while rows of system_events are only added.
LEMMA SoundKept ==
  ASSUME NEW x, Sound(x), events \subseteq events'
  PROVE  Sound(x)'
  BY DEF Sound, Entitled

\* No step of SystemControl removes a row or writes one with stamp zero.
LEMMA SystemStep ==
  ASSUME IInv, StampsPositive, [Next]_vars
  PROVE  events \subseteq events' /\ StampsPositive'
<1>1. ASSUME NEW kind \in Kinds, Append(kind), req' = req
      PROVE  events \subseteq events' /\ StampsPositive'
  BY <1>1 DEF Append, StampsPositive, IInv, TypeOK, Event
<1>2. ASSUME NEW r \in Requests, CommitUnderLock(r)
      PROVE  events \subseteq events' /\ StampsPositive'
  BY <1>2 DEF CommitUnderLock, Append, StampsPositive, IInv, TypeOK, Event, Idle
<1>3. ASSUME NEW r \in Requests, CommitStamped(r)
      PROVE  events \subseteq events' /\ StampsPositive'
  BY <1>3 DEF CommitStamped, StampsPositive, IInv, TypeOK, Idle
<1>4. ASSUME NEW r \in Requests, Stamp(r)
      PROVE  events \subseteq events' /\ StampsPositive'
  BY <1>4 DEF Stamp, StampsPositive, IInv, TypeOK
<1>5. ASSUME NEW r \in Requests, NEW op \in Operations, ReadState(r, op)
      PROVE  events \subseteq events' /\ StampsPositive'
  BY <1>5 DEF ReadState, StampsPositive, IInv, TypeOK, Idle
<1>6. ASSUME NEW r \in Requests, FailWrite(r)
      PROVE  events \subseteq events' /\ StampsPositive'
  BY <1>6 DEF FailWrite, StampsPositive, IInv, TypeOK, Failed, Idle
<1>7. CASE Crash
  BY <1>7 DEF Crash, StampsPositive, IInv, TypeOK, Failed, Idle
<1>8. CASE UNCHANGED vars
  BY <1>8 DEF vars, StampsPositive
<1>9. QED
  BY <1>1, <1>2, <1>3, <1>4, <1>5, <1>6, <1>7, <1>8
     DEF Next, Finish, Halt, ClearHalt, ResetKillSwitch, Kinds

\* A chat a step does not touch keeps following its thread.
LEMMA OthersFollow ==
  ASSUME NEW d \in Chats, ChatFollows(d), events \subseteq events',
         chat'[d] = chat[d], req'[d] = req[d]
  PROVE  ChatFollows(d)'
  BY SoundKept DEF ChatFollows, Entitled, Sound

\* So does one that has nothing to do.
LEMMA QuietFollows ==
  ASSUME NEW d \in Chats, chat'[d].pc = "idle", req'[d].pc = "idle"
  PROVE  ChatFollows(d)'
  BY DEF ChatFollows

\* The record of a chat that is going to log.
LEMMA LoggingFields ==
  ASSUME AInv, NEW c \in Chats, NEW authorized \in BOOLEAN,
         NEW confirmed \in BOOLEAN, NEW wrote \in Nat,
         Logging(c, authorized, confirmed, wrote)
  PROVE  /\ chat' \in [Chats -> Chat]
         /\ \A d \in Chats \ {c} : chat'[d] = chat[d]
         /\ chat'[c].pc = "logging" /\ chat'[c].since = chat[c].since
         /\ chat'[c].user = chat[c].user /\ chat'[c].attempt = chat[c].attempt
         /\ chat'[c].authorized = authorized /\ chat'[c].confirmed = confirmed
         /\ chat'[c].wrote = wrote
<1> DEFINE x == [chat[c] EXCEPT !.pc = "logging", !.authorized = authorized,
                                !.confirmed = confirmed, !.wrote = wrote]
<1>1. chat[c] \in Chat
  BY DEF AInv, TelegramTypeOK
<1>2. x \in Chat
  BY <1>1 DEF Chat
<1>3. chat' = [chat EXCEPT ![c] = x]
  BY DEF Logging, AInv, TelegramTypeOK
<1>4. QED
  BY <1>1, <1>2, <1>3 DEF AInv, TelegramTypeOK, Chat

\* What a step has to show: where it leaves chats and audit rows.
LEMMA AInvFromParts ==
  ASSUME AInv, [TelegramNext]_telegramVars,
         chat' \in [Chats -> Chat],
         audits' = audits,
         \A d \in Chats : ChatFollows(d)'
  PROVE  AInv'
<1>1. IInv' /\ events \subseteq events' /\ StampsPositive'
  BY StepRefines, NextIInv, SystemStep DEF AInv
<1>2. \A a \in audits : Sound(a)'
  BY <1>1, SoundKept DEF AInv
<1>3. QED
  BY <1>1, <1>2 DEF AInv, TelegramTypeOK, IInv

\* A step that changes neither chats, audit rows nor the thread of any chat.
LEMMA OutsideStep ==
  ASSUME AInv, [TelegramNext]_telegramVars, UNCHANGED <<audits, chat>>,
         \A d \in Chats : req'[d] = req[d]
  PROVE  AInv'
<1>1. events \subseteq events'
  BY StepRefines, SystemStep DEF AInv
<1>2. \A d \in Chats : ChatFollows(d)'
  BY <1>1, OthersFollow DEF AInv
<1>3. QED
  BY <1>2, AInvFromParts DEF AInv, TelegramTypeOK

\* A step of the chat c alone.
LEMMA ChatStep ==
  ASSUME AInv, [TelegramNext]_telegramVars, audits' = audits, NEW c \in Chats,
         \A d \in Chats \ {c} : chat'[d] = chat[d] /\ req'[d] = req[d],
         chat' \in [Chats -> Chat], ChatFollows(c)'
  PROVE  AInv'
<1>1. events \subseteq events'
  BY StepRefines, SystemStep DEF AInv
<1>2. \A d \in Chats \ {c} : ChatFollows(d)'
  BY <1>1, OthersFollow DEF AInv
<1>3. QED
  BY <1>2, AInvFromParts

\* The type of a command that has arrived, and what it saw.
LEMMA Arrived ==
  ASSUME AInv, NEW c \in Chats, chat[c].pc = "received"
  PROVE  /\ chat[c] \in Chat /\ req[c].pc = "idle"
         /\ \E e \in events : e.stamp = chat[c].since
  BY DEF AInv, TelegramTypeOK, ChatFollows

\* A command that changes nothing and is going to be logged.
LEMMA LogOnly ==
  ASSUME AInv, [TelegramNext]_telegramVars, NEW c \in Chats, chat[c].pc = "received",
         NEW authorized \in BOOLEAN, NEW confirmed \in BOOLEAN,
         Logging(c, authorized, confirmed, 0), audits' = audits,
         req'[c].pc = "idle", \A d \in Chats \ {c} : req'[d] = req[d],
         confirmed => /\ chat[c].attempt \notin {"pause", "resume"}
                      /\ chat[c].attempt = "kill" =>
                           \E e \in events : e.stamp >= chat[c].since /\ e.kind = "kill"
  PROVE  AInv'
<1>1. events \subseteq events'
  BY StepRefines, SystemStep DEF AInv
<1>2. /\ chat' \in [Chats -> Chat]
      /\ \A d \in Chats \ {c} : chat'[d] = chat[d]
      /\ chat'[c].pc = "logging" /\ chat'[c].since = chat[c].since
      /\ chat'[c].attempt = chat[c].attempt
      /\ chat'[c].confirmed = confirmed /\ chat'[c].wrote = 0
  BY LoggingFields
<1>3. Sound(chat[c])'
  BY <1>1, <1>2 DEF Sound
<1>4. ChatFollows(c)'
  BY <1>1, <1>2, <1>3, Arrived DEF ChatFollows
<1>5. QED
  BY <1>2, <1>4, ChatStep

\* Every step preserves the invariant.
LEMMA NextAInv == AInv /\ [TelegramNext]_telegramVars => AInv'
<1> SUFFICES ASSUME AInv, [TelegramNext]_telegramVars
             PROVE  AInv'
  OBVIOUS
<1>0. Latest \in events /\ \A e \in events : e.stamp <= Latest.stamp
  BY LatestIsLatest DEF AInv, IInv, IsLatest
<1>1. ASSUME NEW c \in Chats, NEW user \in Users, NEW attempt \in Attempts,
             Receive(c, user, attempt)
      PROVE  AInv'
  <2> DEFINE x == [Silent EXCEPT !.pc = "received", !.user = user,
                                 !.attempt = attempt, !.since = Latest.stamp]
  <2>1. Latest.stamp \in Nat
    BY <1>0 DEF AInv, IInv, TypeOK, Event
  <2>2. x \in Chat
    BY <2>1, TelegramAssumption DEF Silent, Chat, Attempts
  <2>3. /\ chat' \in [Chats -> Chat] /\ chat'[c] = x
        /\ \A d \in Chats \ {c} : chat'[d] = chat[d]
    BY <1>1, <2>2 DEF Receive, AInv, TelegramTypeOK
  <2>4. chat[c].pc = "idle" /\ events' = events /\ req' = req
    BY <1>1 DEF Receive, vars
  <2>5. ChatFollows(c)'
    BY <1>0, <2>3, <2>4 DEF ChatFollows, AInv, Silent
  <2>6. QED
    BY <1>1, <2>3, <2>4, <2>5, ChatStep DEF Receive
<1>2. ASSUME NEW c \in Chats, Refuse(c)
      PROVE  AInv'
  BY <1>2, Arrived, LogOnly DEF Refuse, vars
<1>3. ASSUME NEW c \in Chats, Report(c)
      PROVE  AInv'
  BY <1>3, Arrived, LogOnly DEF Report, vars
<1>4. ASSUME NEW c \in Chats, AskConfirmation(c)
      PROVE  AInv'
  BY <1>4, Arrived, LogOnly DEF AskConfirmation, vars
<1>5. ASSUME NEW c \in Chats, AskReason(c)
      PROVE  AInv'
  <2>1. Silent \in Chat /\ Silent.pc = "idle"
    BY TelegramAssumption DEF Silent, Chat, Attempts
  <2>2. /\ chat' \in [Chats -> Chat] /\ chat'[c].pc = "idle"
        /\ \A d \in Chats \ {c} : chat'[d] = chat[d]
    BY <1>5, <2>1 DEF AskReason, AInv, TelegramTypeOK
  <2>3. req' = req /\ req[c].pc = "idle"
    BY <1>5, Arrived DEF AskReason, vars
  <2>4. QED
    BY <1>5, <2>2, <2>3, QuietFollows, ChatStep DEF AskReason
<1>6. ASSUME NEW c \in Chats, Act(c)
      PROVE  AInv'
  <2>1. /\ chat[c].pc = "received" /\ chat[c].attempt \in Operations
        /\ Permits(chat[c].user, chat[c].attempt)
        /\ ReadState(c, chat[c].attempt) /\ audits' = audits
    BY <1>6 DEF Act
  <2>2. c \in Requests /\ req[c].pc = "idle"
    BY <2>1, Arrived, TelegramAssumption
  <2>3. /\ events' = events
        /\ \A d \in Chats \ {c} : req'[d] = req[d]
        /\ Refuses(chat[c].attempt, Latest) \/ AlreadyEngaged(chat[c].attempt, Latest)
             => req'[c].pc = "idle"
        /\ ~(Refuses(chat[c].attempt, Latest) \/ AlreadyEngaged(chat[c].attempt, Latest))
             => req'[c].pc = "checked" /\ req'[c].op = chat[c].attempt
    BY <2>1, <2>2, TelegramAssumption DEF ReadState, AInv, IInv, TypeOK, Idle
  <2>4. CASE Refuses(chat[c].attempt, Latest)
    <3>1. Logging(c, TRUE, FALSE, 0)
      BY <1>6, <2>4 DEF Act, Refuses, AlreadyEngaged, Controls
    <3>2. QED
      BY <2>1, <2>3, <2>4, <3>1, LogOnly
  <2>5. CASE AlreadyEngaged(chat[c].attempt, Latest)
    <3>1. Logging(c, TRUE, TRUE, 0)
      BY <1>6, <2>5 DEF Act, Refuses, AlreadyEngaged, Controls
    <3>2. chat[c].attempt = "kill" /\ Latest.kind = "kill"
      BY <1>0, <2>5 DEF AlreadyEngaged, StateOf, AInv, IInv, TypeOK, Event, Kinds, Operations,
                        Controls
    <3>3. \E e \in events : e.stamp >= chat[c].since /\ e.kind = "kill"
      BY <1>0, <2>1, <3>2, Arrived DEF AInv, IInv, TypeOK, Event
    <3>4. QED
      BY <2>1, <2>3, <2>5, <3>1, <3>2, <3>3, LogOnly
  <2>6. CASE ~Refuses(chat[c].attempt, Latest) /\ ~AlreadyEngaged(chat[c].attempt, Latest)
    <3>1. chat' = [chat EXCEPT ![c].pc = "acting"]
      BY <1>6, <2>6 DEF Act
    <3>2. /\ chat' \in [Chats -> Chat] /\ chat'[c].pc = "acting"
          /\ chat'[c].attempt = chat[c].attempt /\ chat'[c].since = chat[c].since
          /\ chat'[c].user = chat[c].user
          /\ \A d \in Chats \ {c} : chat'[d] = chat[d]
      BY <3>1, Arrived, <2>1 DEF AInv, TelegramTypeOK, Chat
    <3>3. Entitled(chat[c])
      BY <2>1 DEF Permits, Entitled, Operations, Controls
    <3>4. ChatFollows(c)'
      BY <2>1, <2>3, <2>6, <3>2, <3>3, Arrived DEF ChatFollows, Entitled
    <3>5. QED
      BY <2>1, <2>3, <3>2, <3>4, ChatStep
  <2>7. QED
    BY <2>4, <2>5, <2>6
<1>7. ASSUME NEW c \in Chats, StampRow(c)
      PROVE  AInv'
  <2>1. /\ chat' = chat /\ audits' = audits /\ events' = events /\ c \in Requests
        /\ req' = [req EXCEPT ![c].pc = "stamped", ![c].stamp = clock + 1]
    BY <1>7, TelegramAssumption DEF StampRow, Stamp
  <2>2. req'[c].pc = "stamped" /\ req'[c].op = req[c].op
    BY <2>1 DEF AInv, IInv, TypeOK, Request
  <2>3. ChatFollows(c)'
    BY <1>7, <2>1, <2>2 DEF StampRow, ChatFollows, AInv, Entitled
  <2>4. QED
    <3>1. \A d \in Chats \ {c} : chat'[d] = chat[d] /\ req'[d] = req[d]
      BY <2>1, TelegramAssumption DEF AInv, IInv, TypeOK
    <3>2. chat' \in [Chats -> Chat]
      BY <2>1 DEF AInv, TelegramTypeOK
    <3>3. QED
      BY <2>1, <2>3, <3>1, <3>2, ChatStep
<1>8. ASSUME NEW c \in Chats, CommitRow(c)
      PROVE  AInv'
  <2>1. /\ chat[c].pc = "acting" /\ audits' = audits /\ c \in Requests
        /\ chat[c].attempt = req[c].op /\ Entitled(chat[c])
        /\ req[c].pc # "idle" /\ chat[c] \in Chat /\ req[c] \in Request
    BY <1>8, TelegramAssumption DEF CommitRow, AInv, ChatFollows, TelegramTypeOK, IInv, TypeOK
  <2>2. PICK e0 \in events : e0.stamp = chat[c].since
    BY <2>1 DEF AInv, ChatFollows
  <2>3. PICK n \in Nat : /\ Logging(c, TRUE, TRUE, n) /\ n # 0
                         /\ events' = events \cup {[stamp |-> n, kind |-> req[c].op]}
                         /\ req[c].op = "kill" => n >= e0.stamp
    <3>1. CASE CommitStamped(c) /\ Logging(c, TRUE, TRUE, req[c].stamp)
      BY <2>1, <3>1 DEF CommitStamped, AInv, StampsPositive, IInv, ChecksPassed, Controls, Request
    <3>2. CASE CommitUnderLock(c) /\ Logging(c, TRUE, TRUE, clock')
      <4>1. /\ clock' = clock + 1 /\ clock \in Nat
            /\ events' = events \cup {[stamp |-> clock + 1, kind |-> req[c].op]}
        BY <3>2 DEF CommitUnderLock, Append, AInv, IInv, TypeOK
      <4>2. e0.stamp \in Nat /\ e0.stamp <= clock
        BY DEF AInv, IInv, TypeOK, StampsBounded, Event
      <4>3. clock + 1 \in Nat /\ clock + 1 # 0 /\ clock + 1 >= e0.stamp
        BY <4>1, <4>2
      <4>4. QED
        BY <3>2, <4>1, <4>3
    <3>3. QED
      BY <1>8, <3>1, <3>2 DEF CommitRow
  <2>4. req'[c].pc = "idle" /\ \A d \in Chats \ {c} : req'[d] = req[d]
    <3>1. req' = [req EXCEPT ![c] = Idle]
      BY <1>8 DEF CommitRow, CommitStamped, CommitUnderLock
    <3>2. QED
      BY <2>1, <3>1, TelegramAssumption DEF AInv, IInv, TypeOK, Idle
  <2>5. /\ chat' \in [Chats -> Chat]
        /\ \A d \in Chats \ {c} : chat'[d] = chat[d]
        /\ chat'[c].pc = "logging" /\ chat'[c].since = chat[c].since
        /\ chat'[c].user = chat[c].user /\ chat'[c].attempt = chat[c].attempt
        /\ chat'[c].authorized = TRUE /\ chat'[c].confirmed = TRUE
        /\ chat'[c].wrote = n
    BY <2>3, LoggingFields
  <2>6. Sound(chat[c])'
    <3> DEFINE x == [stamp |-> n, kind |-> req[c].op]
    <3>1. x \in events' /\ x.stamp = n /\ x.kind = chat'[c].attempt
      BY <2>1, <2>3, <2>5
    <3>2. chat'[c].attempt = "kill" => x.stamp >= chat'[c].since
      BY <2>1, <2>2, <2>3, <2>5
    <3>3. Entitled(chat[c])'
      BY <2>1, <2>5 DEF Entitled
    <3>4. QED
      BY <2>5, <3>1, <3>2, <3>3 DEF Sound
  <2>7. ChatFollows(c)'
    BY <2>2, <2>3, <2>4, <2>5, <2>6 DEF ChatFollows
  <2>8. QED
    BY <2>1, <2>4, <2>5, <2>7, ChatStep
<1>9. ASSUME NEW c \in Chats, WriteLog(c)
      PROVE  AInv'
  <2>1. chat[c] \in Chat /\ chat[c].pc = "logging" /\ Sound(chat[c]) /\ req[c].pc = "idle"
    BY <1>9 DEF WriteLog, AInv, ChatFollows, TelegramTypeOK
  <2>2. AuditRow(c) \in Audit
    BY <2>1, FS_CardinalityType DEF AuditRow, Audit, Chat, AInv
  <2>3. Sound(AuditRow(c))
    BY <2>1 DEF AuditRow, Sound, Entitled
  <2>4. audits' = audits \cup {AuditRow(c)} /\ UNCHANGED vars
    BY <1>9 DEF WriteLog
  <2>5. Silent \in Chat /\ Silent.pc = "idle"
    BY TelegramAssumption DEF Silent, Chat, Attempts
  <2>6. /\ chat' \in [Chats -> Chat] /\ chat'[c].pc = "idle"
        /\ \A d \in Chats \ {c} : chat'[d] = chat[d]
    BY <1>9, <2>5 DEF WriteLog, AInv, TelegramTypeOK
  <2>7. IInv' /\ StampsPositive'
    BY StepRefines, NextIInv, SystemStep DEF AInv
  <2>8. IsFiniteSet(audits)' /\ audits' \subseteq Audit
    BY <2>2, <2>4, FS_AddElement DEF AInv, TelegramTypeOK
  <2>9. \A d \in Chats : ChatFollows(d)'
    BY <2>1, <2>4, <2>6, OthersFollow, QuietFollows DEF vars, AInv
  <2>10. \A a \in audits' : Sound(a)'
    BY <2>3, <2>4, SoundKept DEF vars, AInv
  <2>11. QED
    BY <2>6, <2>7, <2>8, <2>9, <2>10 DEF AInv, TelegramTypeOK, IInv
<1>10. ASSUME NEW c \in Chats, FailCommand(c)
      PROVE  AInv'
  <2>1. Broken \in Chat /\ Broken.pc = "idle" /\ c \in Requests
    BY TelegramAssumption DEF Broken, Silent, Chat, Attempts
  <2>2. /\ chat' \in [Chats -> Chat] /\ chat'[c].pc = "idle"
        /\ \A d \in Chats \ {c} : chat'[d] = chat[d]
    BY <1>10, <2>1 DEF FailCommand, AInv, TelegramTypeOK
  <2>3. req'[c].pc = "idle" /\ \A d \in Chats \ {c} : req'[d] = req[d]
    BY <1>10, <2>1, TelegramAssumption
       DEF FailCommand, FailWrite, Failed, Idle, AInv, ChatFollows, IInv, TypeOK, vars
  <2>4. QED
    BY <1>10, <2>2, <2>3, QuietFollows, ChatStep DEF FailCommand
<1>11. ASSUME NEW r \in Requests \ Chats, HttpRequest(r)
      PROVE  AInv'
  <2>1. \A d \in Chats : req'[d] = req[d]
    BY <1>11, TelegramAssumption
       DEF HttpRequest, Finish, ReadState, Stamp, CommitStamped, CommitUnderLock,
           FailWrite, AInv, IInv, TypeOK
  <2>2. QED
    BY <1>11, <2>1, OutsideStep DEF HttpRequest
<1>12. CASE Engines
  BY <1>12, OutsideStep DEF Engines, Halt, ClearHalt, ResetKillSwitch
<1>13. CASE CrashAll
  <2>1. Broken \in Chat /\ Broken.pc = "idle"
    BY TelegramAssumption DEF Broken, Silent, Chat, Attempts
  <2>2. /\ chat' \in [Chats -> Chat] /\ \A d \in Chats : chat'[d].pc = "idle"
        /\ audits' = audits
    BY <1>13, <2>1 DEF CrashAll, AInv, TelegramTypeOK
  <2>3. \A d \in Chats : req'[d].pc = "idle"
    BY <1>13, TelegramAssumption DEF CrashAll, Crash, Failed, Idle, vars
  <2>4. QED
    BY <2>2, <2>3, QuietFollows, AInvFromParts
<1>14. CASE UNCHANGED telegramVars
  BY <1>14, OutsideStep DEF telegramVars, vars
<1>15. QED
  BY <1>1, <1>2, <1>3, <1>4, <1>5, <1>6, <1>7, <1>8, <1>9, <1>10, <1>11, <1>12, <1>13, <1>14
     DEF TelegramNext, Command

LEMMA TelegramInvariance == TelegramSpec => []AInv
  BY InitAInv, NextAInv, PTL DEF TelegramSpec

\* Rows, clock, requests, audit rows and chats are well typed.
THEOREM TelegramTypeCorrect == TelegramSpec => []TelegramTypeOK
  BY TelegramInvariance, PTL DEF AInv

\* However chats, requests, halts, failed commits and crashes interleave, an
\* audit row says what its command did.
THEOREM AuditIsTrue == TelegramSpec => []AuditTellsTheTruth
<1>1. AInv => AuditTellsTheTruth
  <2> SUFFICES ASSUME AInv, NEW a \in audits
               PROVE  /\ a.attempt \in {"pause", "resume"} =>
                            (a.confirmed <=> \E e \in events : e.stamp = a.wrote /\ e.kind = a.attempt)
                      /\ a.attempt = "kill" /\ a.confirmed =>
                            \E e \in events : e.stamp >= a.since /\ e.kind = "kill"
                      /\ a.wrote # 0 => a.authorized /\ Entitled(a)
    BY DEF AuditTellsTheTruth, Entitled
  <2>1. Sound(a) /\ a \in Audit
    BY DEF AInv, TelegramTypeOK
  <2>2. ASSUME a.attempt \in {"pause", "resume"}, ~a.confirmed
        PROVE  ~\E e \in events : e.stamp = a.wrote /\ e.kind = a.attempt
    BY <2>1, <2>2 DEF Sound, AInv, StampsPositive
  <2>3. QED
    BY <2>1, <2>2 DEF Sound, Audit
<1>2. QED
  BY <1>1, TelegramInvariance, PTL

=============================================================================
