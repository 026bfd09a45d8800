--------------------------- MODULE TelegramControl ---------------------------
(***************************************************************************)
(* TelegramControlService.handle_command on top of SystemControl: a chat   *)
(* is a caller with its own thread and session, whose /pause, /resume and  *)
(* /kill go through the same SystemControlService as an HTTP request, and  *)
(* whose audit row is a second commit after the first.                     *)
(*                                                                         *)
(* The text of a report, of an answer and of a reason is left out; of the  *)
(* arguments of /kill it is kept whether CONFIRM and a reason are there.   *)
(***************************************************************************)
EXTENDS SystemControl

CONSTANTS Chats,         \* the requests that are Telegram commands
          Users,         \* values of telegram_user_id
          Role,          \* User.telegram_role, "none" without row or role
          MaxAudits      \* bound on the number of audit rows

Roles == {"VIEWER", "OPERATOR", "OWNER"}

ASSUME TelegramAssumption ==
    /\ Chats \subseteq Requests /\ Users # {}
    /\ Role \in [Users -> Roles \cup {"none"}]
    /\ MaxAudits \in Nat

VARIABLES audits,    \* committed TELEGRAM_COMMAND rows of audit_logs
          chat       \* what handle_command is doing for each chat

telegramVars == <<vars, audits, chat>>

\* What a chat may send: an unknown command, one of the reports, /pause,
\* /resume, and /kill without CONFIRM, without reason, or with both.
Attempts == {"unknown", "report", "pause", "resume", "kill?", "kill!", "kill"}

\* An audit row; id, since and wrote are not columns: they say which row it is,
\* how recent the system state was that the command saw on arrival, and the
\* created_at of the system_events row the command wrote, 0 when it wrote none.
Audit == [id : Nat, user : Users, attempt : Attempts, authorized : BOOLEAN,
          confirmed : BOOLEAN, since : Nat, wrote : Nat]

Chat == [pc : {"idle", "received", "acting", "logging"}, user : Users,
         attempt : Attempts, since : Nat, authorized : BOOLEAN,
         confirmed : BOOLEAN, wrote : Nat, failed : BOOLEAN]

Silent == [pc |-> "idle", user |-> CHOOSE u \in Users : TRUE,
           attempt |-> "unknown", since |-> 0, authorized |-> FALSE,
           confirmed |-> FALSE, wrote |-> 0, failed |-> FALSE]
Broken == [Silent EXCEPT !.failed = TRUE]

TelegramInit ==
    /\ Init
    /\ audits = {}
    /\ chat = [c \in Chats |-> Silent]

Busy == {c \in Chats : chat[c].pc # "idle"}

Logging(c, authorized, confirmed, wrote) ==
    chat' = [chat EXCEPT ![c].pc = "logging", ![c].authorized = authorized,
                         ![c].confirmed = confirmed, ![c].wrote = wrote]

(***************************************************************************)
(* Commands.                                                               *)
(***************************************************************************)

\* COMMAND_PERMISSIONS; nobody may use a command outside the enumeration.
PermitsEveryOperator(user, attempt) ==
    CASE attempt = "unknown" -> FALSE
      [] attempt = "report" -> Role[user] \in Roles
      [] OTHER -> Role[user] \in {"OPERATOR", "OWNER"}
Permits(user, attempt) ==
    CASE attempt = "unknown" -> FALSE
      [] attempt = "report" -> Role[user] \in Roles
      [] attempt \in {"pause", "resume"} -> Role[user] \in {"OPERATOR", "OWNER"}
      [] OTHER -> Role[user] = "OWNER"

Receive(c, user, attempt) ==
    /\ chat[c].pc = "idle"
    /\ Cardinality(audits) + Cardinality(Busy) < MaxAudits
    /\ chat' = [chat EXCEPT ![c] = [Silent EXCEPT
                  !.pc = "received", !.user = user, !.attempt = attempt,
                  !.since = Latest.stamp]]
    /\ UNCHANGED <<vars, audits>>

Refuse(c) ==
    /\ chat[c].pc = "received"
    /\ ~Permits(chat[c].user, chat[c].attempt)
    /\ Logging(c, FALSE, FALSE, 0)
    /\ UNCHANGED <<vars, audits>>

Report(c) ==
    /\ chat[c].pc = "received" /\ chat[c].attempt = "report"
    /\ Permits(chat[c].user, "report")
    /\ Logging(c, TRUE, TRUE, 0)
    /\ UNCHANGED <<vars, audits>>

AskConfirmation(c) ==
    /\ chat[c].pc = "received" /\ chat[c].attempt = "kill?"
    /\ Permits(chat[c].user, "kill?")
    /\ Logging(c, TRUE, FALSE, 0)
    /\ UNCHANGED <<vars, audits>>

\* CONFIRM without a reason is answered and nothing is logged.
AskReason(c) ==
    /\ chat[c].pc = "received" /\ chat[c].attempt = "kill!"
    /\ Permits(chat[c].user, "kill!")
    /\ chat' = [chat EXCEPT ![c] = Silent]
    /\ UNCHANGED <<vars, audits>>

\* The call of SystemControlService, which reads the state again: the command
\* is refused and logged as not confirmed, has nothing to do, or will write.
ActUnchecked(c) ==
    /\ chat[c].pc = "received" /\ chat[c].attempt \in Operations
    /\ Permits(chat[c].user, chat[c].attempt)
    /\ req[c].pc = "idle"
    /\ req' = [req EXCEPT ![c] = [Idle EXCEPT !.pc = "checked", !.seen = Latest,
                                              !.op = chat[c].attempt]]
    /\ chat' = [chat EXCEPT ![c].pc = "acting"]
    /\ UNCHANGED <<events, clock, audits>>
Act(c) ==
    /\ chat[c].pc = "received" /\ chat[c].attempt \in Operations
    /\ Permits(chat[c].user, chat[c].attempt)
    /\ ReadState(c, chat[c].attempt)
    /\ CASE Refuses(chat[c].attempt, Latest) -> Logging(c, TRUE, FALSE, 0)
         [] AlreadyEngaged(chat[c].attempt, Latest) -> Logging(c, TRUE, TRUE, 0)
         [] OTHER -> chat' = [chat EXCEPT ![c].pc = "acting"]
    /\ UNCHANGED audits

StampRow(c) ==
    /\ chat[c].pc = "acting"
    /\ Stamp(c)
    /\ UNCHANGED <<audits, chat>>

CommitRow(c) ==
    /\ chat[c].pc = "acting"
    /\ \/ CommitStamped(c) /\ Logging(c, TRUE, TRUE, req[c].stamp)
       \/ CommitUnderLock(c) /\ Logging(c, TRUE, TRUE, clock')
    /\ UNCHANGED audits

\* _log, a commit of its own after the command has taken effect.
AuditRow(c) ==
    [id |-> Cardinality(audits) + 1, user |-> chat[c].user,
     attempt |-> chat[c].attempt, authorized |-> chat[c].authorized,
     confirmed |-> chat[c].confirmed, since |-> chat[c].since,
     wrote |-> chat[c].wrote]

WriteLog(c) ==
    /\ chat[c].pc = "logging"
    /\ audits' = audits \cup {AuditRow(c)}
    /\ chat' = [chat EXCEPT ![c] = Silent]
    /\ UNCHANGED vars

\* The database is locked when the command writes its row, or its log.
FailCommand(c) ==
    /\ \/ chat[c].pc = "acting" /\ FailWrite(c)
       \/ chat[c].pc = "logging" /\ UNCHANGED vars
    /\ chat' = [chat EXCEPT ![c] = Broken]
    /\ UNCHANGED audits

Command(c) ==
    \/ Refuse(c) \/ Report(c) \/ AskConfirmation(c) \/ AskReason(c)
    \/ Act(c) \/ StampRow(c) \/ CommitRow(c) \/ WriteLog(c)

(***************************************************************************)
(* The HTTP requests and engines of SystemControl, and a crash of both.    *)
(***************************************************************************)
HttpRequest(r) ==
    /\ (\E op \in Operations : ReadState(r, op)) \/ Finish(r) \/ FailWrite(r)
    /\ UNCHANGED <<audits, chat>>

Engines == (Halt \/ ClearHalt \/ ResetKillSwitch) /\ UNCHANGED <<audits, chat>>

CrashAll ==
    /\ Crash \/ (Busy # {} /\ (\A r \in Requests : req[r].pc = "idle") /\ UNCHANGED vars)
    /\ chat' = [c \in Chats |-> IF chat[c].pc = "idle" THEN chat[c] ELSE Broken]
    /\ UNCHANGED audits

TelegramNext ==
    \/ \E c \in Chats, user \in Users, attempt \in Attempts : Receive(c, user, attempt)
    \/ \E c \in Chats : Command(c) \/ FailCommand(c)
    \/ \E r \in Requests \ Chats : HttpRequest(r)
    \/ Engines
    \/ CrashAll

\* Threads run to their end: a request past its check, a command received.
TelegramFairness ==
    /\ \A r \in Requests \ Chats : WF_telegramVars(HttpRequest(r) /\ Finish(r))
    /\ \A c \in Chats : WF_telegramVars(Command(c))

TelegramSpec == TelegramInit /\ [][TelegramNext]_telegramVars
FairTelegramSpec == TelegramSpec /\ TelegramFairness

(***************************************************************************)
(* Properties.                                                             *)
(***************************************************************************)

\* Type invariant.
TelegramTypeOK ==
    /\ TypeOK
    /\ audits \subseteq Audit
    /\ chat \in [Chats -> Chat]

\* The audit trail tells what happened, whatever else runs and whatever fails:
\* a row says that /pause or /resume was confirmed exactly when the command
\* wrote its event, that /kill was confirmed only when a kill row was written
\* or in force since the command arrived, and no row with an event behind it
\* belongs to somebody whose role does not entitle him (the order of
\* authorization, transition and _log in handle_command).
AuditTellsTheTruth ==
    \A a \in audits :
       LET Wrote(e) == e.stamp = a.wrote /\ e.kind = a.attempt
           Killed(e) == e.stamp >= a.since /\ e.kind = "kill"
       IN  /\ a.attempt \in {"pause", "resume"} =>
                 (a.confirmed <=> \E e \in events : Wrote(e))
           /\ a.attempt = "kill" /\ a.confirmed => \E e \in events : Killed(e)
           /\ a.wrote # 0 =>
                 /\ a.authorized
                 /\ Role[a.user] \in (IF a.attempt = "kill" THEN {"OWNER"}
                                      ELSE {"OPERATOR", "OWNER"})

\* A chat cannot change the system state in a way an HTTP request cannot:
\* every behaviour with chats is one of SystemControl, checks and races
\* included (handle_command calls SystemControlService and nothing below it).
ImplementsSystemControl == Spec
=============================================================================
