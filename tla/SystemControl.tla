--------------------------- MODULE SystemControl ---------------------------
(***************************************************************************)
(* The global system state of broker_sakuma: the append-only table         *)
(* system_events, the kill switch, the safe halt, and the concurrent       *)
(* requests behind /api/system/{start,pause,resume,kill-switch}.           *)
(*                                                                         *)
(* The state is never stored: it is the state of the row with the greatest *)
(* created_at.  A request reads that row, decides, and later commits a row *)
(* of its own; several requests run at the same time, each in its thread   *)
(* and its database session.  The two moments that matter inside a write   *)
(* are when created_at is computed and when the row is committed:          *)
(*   - _record writes one system_events row, so its created_at is computed *)
(*     when the INSERT is prepared, before SQLite's write lock is taken;   *)
(*   - engage, reset, halt and clear write an audit_logs row (and alerts)  *)
(*     in the same flush, and the unit of work emits these mappers first,  *)
(*     so their created_at is computed with the write lock already held.   *)
(***************************************************************************)
EXTENDS Naturals, FiniteSets

CONSTANTS Requests,   \* request threads of the server
          MaxClock    \* bound on the number of created_at values

ASSUME ClockAssumption == MaxClock \in Nat

VARIABLES events,     \* committed rows of system_events
          clock,      \* greatest created_at computed so far
          req         \* what each request thread is doing

vars == <<events, clock, req>>

Stopped == {"EMERGENCY_STOP", "SAFE_HALT"}
Controls == {"start", "resume", "pause"}
Operations == Controls \cup {"kill"}
Kinds == Operations \cup {"none", "halt", "reset", "clear"}

\* The state column each kind of event is written with; "none" stands for
\* the empty table, which reads as ONLINE.
StateOf(kind) ==
    CASE kind \in {"none", "start", "resume"} -> "ONLINE"
      [] kind \in {"pause", "reset", "clear"} -> "PAUSED"
      [] kind = "kill" -> "EMERGENCY_STOP"
      [] kind = "halt" -> "SAFE_HALT"

Event == [stamp : Nat, kind : Kinds]
NoEvent == [stamp |-> 0, kind |-> "none"]

IsLatest(e) == e \in events /\ \A f \in events : f.stamp <= e.stamp

\* get_system_state: ORDER BY created_at DESC LIMIT 1.
Latest == CHOOSE e \in events : IsLatest(e)
SystemState == StateOf(Latest.kind)

Phases == {"idle", "checked", "stamped"}
Request == [pc : Phases, op : Operations \cup {"none"}, seen : Event,
            stamp : Nat, failed : BOOLEAN]

\* An answered request: with an error, or with 200 or 409.
Idle == [pc |-> "idle", op |-> "none", seen |-> NoEvent, stamp |-> 0,
         failed |-> FALSE]
Failed == [Idle EXCEPT !.failed = TRUE]

Init == /\ events = {NoEvent}
        /\ clock = 0
        /\ req = [r \in Requests |-> Idle]

(***************************************************************************)
(* Plausible mistakes in the operations below, used to show that the       *)
(* properties would notice them.                                           *)
(***************************************************************************)
RefusesIgnoringHalt(op, e) == op \in Controls /\ StateOf(e.kind) = "EMERGENCY_STOP"
StampsEarlyAlways(op) == TRUE
EngagedNever(op, e) == FALSE

(***************************************************************************)
(* Requests.                                                               *)
(***************************************************************************)

\* start, resume and pause raise SystemTransitionError from a stopped state.
Refuses(op, e) == op \in Controls /\ StateOf(e.kind) \in Stopped

\* engage_kill_switch returns at once when the switch is already engaged.
AlreadyEngaged(op, e) == op = "kill" /\ StateOf(e.kind) = "EMERGENCY_STOP"

\* Only _record computes created_at before it holds the write lock.
StampsEarly(op) == op \in Controls

ReadState(r, op) ==
    /\ req[r].pc = "idle"
    /\ req' = [req EXCEPT ![r] =
                 IF Refuses(op, Latest) \/ AlreadyEngaged(op, Latest) THEN Idle
                 ELSE [pc |-> "checked", op |-> op, seen |-> Latest,
                       stamp |-> 0, failed |-> FALSE]]
    /\ UNCHANGED <<events, clock>>

\* The INSERT's parameters, created_at among them, are computed.
Stamp(r) ==
    /\ req[r].pc = "checked" /\ StampsEarly(req[r].op)
    /\ clock < MaxClock
    /\ clock' = clock + 1
    /\ req' = [req EXCEPT ![r].pc = "stamped", ![r].stamp = clock + 1]
    /\ UNCHANGED events

CommitStamped(r) ==
    /\ req[r].pc = "stamped"
    /\ events' = events \cup {[stamp |-> req[r].stamp, kind |-> req[r].op]}
    /\ req' = [req EXCEPT ![r] = Idle]
    /\ UNCHANGED clock

\* A row whose created_at is computed under the write lock.
Append(kind) ==
    /\ clock < MaxClock
    /\ clock' = clock + 1
    /\ events' = events \cup {[stamp |-> clock + 1, kind |-> kind]}

CommitUnderLock(r) ==
    /\ req[r].pc = "checked" /\ ~StampsEarly(req[r].op)
    /\ Append(req[r].op)
    /\ req' = [req EXCEPT ![r] = Idle]

\* "database is locked": the transaction is rolled back, nothing is written.
FailWrite(r) ==
    /\ req[r].pc # "idle"
    /\ req' = [req EXCEPT ![r] = Failed]
    /\ UNCHANGED <<events, clock>>

(***************************************************************************)
(* Engines called directly, without reading the state first, and the       *)
(* server process dying with requests in flight.                           *)
(***************************************************************************)
Halt == Append("halt") /\ UNCHANGED req
ClearHalt == Append("clear") /\ UNCHANGED req
ResetKillSwitch == Append("reset") /\ UNCHANGED req

Crash == /\ \E r \in Requests : req[r].pc # "idle"
         /\ req' = [r \in Requests |-> IF req[r].pc = "idle" THEN req[r]
                                      ELSE Failed]
         /\ UNCHANGED <<events, clock>>

Finish(r) == Stamp(r) \/ CommitStamped(r) \/ CommitUnderLock(r)

Next == \/ \E r \in Requests, op \in Operations : ReadState(r, op)
        \/ \E r \in Requests : Finish(r) \/ FailWrite(r)
        \/ Halt \/ ClearHalt \/ ResetKillSwitch
        \/ Crash

\* A thread that has passed its check runs to its end.
Fairness == \A r \in Requests : WF_vars(Finish(r))

Spec == Init /\ [][Next]_vars
FairSpec == Spec /\ Fairness

(***************************************************************************)
(* Properties.                                                             *)
(***************************************************************************)

\* Type invariant.
TypeOK == /\ events \subseteq Event
          /\ clock \in Nat
          /\ req \in [Requests -> Request]

\* The rows one step adds.
NewRows == events' \ events

\* The row e is written by a request whose decision was taken on a row
\* older than the one in force when e is committed.
DecidedOnOlderState(e) ==
    \E r \in Requests : /\ req[r].pc # "idle" /\ req'[r].pc = "idle"
                        /\ req[r].op = e.kind
                        /\ req[r].seen.stamp < Latest.stamp

\* An emergency stop or safe halt in force is lifted only by an explicit
\* reset or clear, or by a start, resume or pause that had read the state
\* before the stop: a request that begins after the stop never lifts it
\* (the guards of _to_online and pause, whatever order rows commit in).
StopLiftedOnlyByReleaseOrRace ==
    [][(SystemState \in Stopped /\ SystemState' \notin Stopped)
         => \E e \in NewRows :
               e.kind \in {"reset", "clear"} \/ DecidedOnOlderState(e)]_vars

\* When the kill switch's row commits it is the row in force, although
\* other requests may hold a created_at they have not committed yet.
KillTakesEffect ==
    [][(\E e \in NewRows : e.kind = "kill") => SystemState' = "EMERGENCY_STOP"]_vars

\* A second kill row, and with it a second alert, appears over an emergency
\* stop in force only when its request had checked before that stop
\* (engage_kill_switch's idempotence for requests that do not overlap).
DuplicateKillOnlyByRace ==
    [][\A e \in NewRows : e.kind = "kill" /\ SystemState = "EMERGENCY_STOP"
                            => DecidedOnOlderState(e)]_vars

\* A kill request past its check ends with the emergency stop in force, or its
\* client is told that it failed; the last case is the bound on created_at.
KillLands ==
    \A r \in Requests :
        (req[r].pc = "checked" /\ req[r].op = "kill")
           ~> \/ SystemState = "EMERGENCY_STOP"
              \/ req[r].failed
              \/ clock = MaxClock /\ req[r].pc = "checked"

\* "a generic /resume must never be the thing that clears an emergency
\* stop" (services/system_control_service.py:7-9), read literally.
ResumeNeverClearsEmergencyStop ==
    [][SystemState = "EMERGENCY_STOP" /\ SystemState' # "EMERGENCY_STOP"
         => \A e \in NewRows : e.kind \notin {"start", "resume"}]_vars
=============================================================================
