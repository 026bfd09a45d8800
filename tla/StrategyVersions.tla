-------------------------- MODULE StrategyVersions --------------------------
(***************************************************************************)
(* BacktestEngine: strategy versions, the backtests on record, and the     *)
(* stages from RESEARCH to APPROVED.                                       *)
(*                                                                         *)
(* A dataset is its split; windows, prices, parameters and metrics are     *)
(* left out.                                                               *)
(***************************************************************************)
EXTENDS Integers, SessionCopies

CONSTANT Versions

Splits == {"TRAIN", "VALIDATION", "TEST"}

StrategyStates == {"RESEARCH", "BACKTEST", "PAPER", "REVIEW", "APPROVED", "DISABLED"}

\* A version that has not been created has no state.
VersionRow == [state : StrategyStates \cup {"ABSENT"}]
Backtest == [version : Versions, split : Splits]

ASSUME VersionCopyAssumption == NoCopy \notin VersionRow

VARIABLES versions,         \* rows of strategy_versions
          backtests,        \* rows of backtests
          disabledVersions, \* audit rows STRATEGY_VERSION_DISABLED
          versionCopies     \* what each session holds

svars == <<versions, backtests, disabledVersions, versionCopies>>

\* _ALLOWED_TRANSITIONS.
NextStages ==
    [RESEARCH |-> {"BACKTEST", "DISABLED"},
     BACKTEST |-> {"PAPER", "DISABLED"},
     PAPER |-> {"REVIEW", "DISABLED"},
     REVIEW |-> {"APPROVED", "BACKTEST", "DISABLED"},
     APPROVED |-> {"DISABLED"},
     DISABLED |-> {}]

\* Mistake: a disabled version may go back to the research desk.
MayMoveReopening(from, to) ==
    to \in NextStages[from] \cup (IF from = "DISABLED" THEN {"REVIEW"} ELSE {})

\* _transition.
MayMove(from, to) == to \in NextStages[from]

(***************************************************************************)
(* The methods, one commit each.                                           *)
(***************************************************************************)
VersionsInit ==
    /\ versions = [v \in Versions |-> [state |-> "ABSENT"]]
    /\ backtests = {}
    /\ disabledVersions = {}
    /\ versionCopies = NoCopies(Versions)

CreateVersion(s, v) ==
    /\ versions[v].state = "ABSENT"
    /\ versions' = [versions EXCEPT ![v].state = "RESEARCH"]
    /\ versionCopies' = Keep(versionCopies, s, v, [state |-> "RESEARCH"])
    /\ UNCHANGED <<backtests, disabledVersions>>

LoadVersion(s, v) ==
    /\ versions[v].state # "ABSENT"
    /\ ~Holds(versionCopies, s, v)
    /\ versionCopies' = Keep(versionCopies, s, v, versions[v])
    /\ UNCHANGED <<versions, backtests, disabledVersions>>

CommitStage(s, v, to) ==
    /\ versions' = Write(versions, versionCopies, s, v, [state |-> to])
    /\ versionCopies' = Keep(versionCopies, s, v, [state |-> to])

\* The copy decides.
MoveStage(s, v, to) ==
    /\ Holds(versionCopies, s, v)
    /\ MayMove(versionCopies[s][v].state, to)
    /\ CommitStage(s, v, to)

RunBacktest(s, v, split) ==
    /\ Holds(versionCopies, s, v)
    /\ versionCopies[s][v].state \in {"RESEARCH", "BACKTEST"}
    /\ backtests' = backtests \cup {[version |-> v, split |-> split]}
    /\ CommitStage(s, v, "BACKTEST")
    /\ UNCHANGED disabledVersions

AnyBacktest(v) == \E b \in backtests : b.version = v

\* The query of promote_to_paper, answered from the table.
TestOnRecord(v) == \E b \in backtests : b.version = v /\ b.split = "TEST"

PromoteToPaper(s, v) ==
    /\ TestOnRecord(v)
    /\ MoveStage(s, v, "PAPER")
    /\ UNCHANGED <<backtests, disabledVersions>>

SendToReview(s, v) ==
    /\ MoveStage(s, v, "REVIEW")
    /\ UNCHANGED <<backtests, disabledVersions>>

ApproveVersion(s, v) ==
    /\ MoveStage(s, v, "APPROVED")
    /\ UNCHANGED <<backtests, disabledVersions>>

\* From any state, the copy's included.
DisableVersion(s, v) ==
    /\ Holds(versionCopies, s, v)
    /\ CommitStage(s, v, "DISABLED")
    /\ disabledVersions' = disabledVersions \cup {v}
    /\ UNCHANGED backtests

ForgetVersions(s) ==
    /\ versionCopies' = Forget(versionCopies, s)
    /\ UNCHANGED <<versions, backtests, disabledVersions>>

VersionsNext ==
    \E s \in Sessions :
        \/ ForgetVersions(s)
        \/ \E v \in Versions :
              \/ CreateVersion(s, v) \/ LoadVersion(s, v)
              \/ \E split \in Splits : RunBacktest(s, v, split)
              \/ PromoteToPaper(s, v) \/ SendToReview(s, v)
              \/ ApproveVersion(s, v) \/ DisableVersion(s, v)

VersionsSpec == VersionsInit /\ [][VersionsNext]_svars

(***************************************************************************)
(* Properties.                                                             *)
(***************************************************************************)
VersionsTypeOK ==
    /\ versions \in [Versions -> VersionRow]
    /\ backtests \subseteq Backtest
    /\ disabledVersions \subseteq Versions
    /\ versionCopies \in [Sessions -> [Versions -> [state : StrategyStates] \cup {NoCopy}]]

\* However many sessions work on a version from rows they loaded at different
\* times, it is never in PAPER or beyond without a TEST backtest on record
\* ("evidence, not vibes", engines/backtest_engine.py:124), and what ended
\* DISABLED has its audit row.
EvidenceOnRecord ==
    \A v \in Versions :
        /\ versions[v].state \in {"PAPER", "REVIEW", "APPROVED"} =>
              \E b \in backtests : b.version = v /\ b.split = "TEST"
        /\ versions[v].state = "DISABLED" => v \in disabledVersions

\* A disabled version comes back only at the hand of a session whose copy was
\* out of date: no method leads out of DISABLED.
VersionDisableStands ==
    [][\A v \in Versions :
         versions[v].state = "DISABLED" /\ versions'[v].state # "DISABLED"
            => ByStaleCopy(versionCopies, versionCopies', versions, v)]_svars
=============================================================================
