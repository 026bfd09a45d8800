---------------------------- MODULE ThesisLadder ----------------------------
(***************************************************************************)
(* ThesisEngine over the whole life of a thesis, and                       *)
(* LearningEngine.propose_new_test, which may begin one.  Treasury has the *)
(* loan that an activation adds to the first steps.                        *)
(*                                                                         *)
(* The theses belong to one bot.  Its count of tested theses, which no     *)
(* rule reads, is left out.                                                *)
(***************************************************************************)
EXTENDS Integers, Sequences, FiniteSetsExt, SessionCopies

CONSTANTS Theses,
          TestCapital, Ladder, MinOperations, MaxDrawdown,
          Reports,            \* [operations, drawdown] pairs a caller may bring
          MaxStarts           \* bound on the funding events of one thesis

ASSUME LadderAssumption ==
    /\ TestCapital \in Nat \ {0}
    /\ Ladder \in Seq(Nat) /\ Ladder # <<>>
    /\ MinOperations \in Int /\ MaxDrawdown \in Int /\ MaxStarts \in Nat
    /\ Reports \subseteq [operations : Int, drawdown : Int]

ThesisStates == {"RESEARCH", "BACKTEST", "PAPER", "INITIAL_TEST", "VALIDATION",
                 "REVIEW", "APPROVED", "DISABLED"}
ThesisRow == [state : ThesisStates \cup {"ABSENT"}, capital : Nat]

ASSUME ThesisCopyAssumption == NoCopy \notin ThesisRow /\ NoCopy \notin BOOLEAN

VARIABLES theses,         \* rows of theses
          ownerDead,      \* whether the bot's row says DEAD
          starts,         \* FundingEvent rows of each thesis
          hypotheses,     \* HYPOTHESIS rows of learning_events, one per thesis
          disabledTheses, \* REAL_RESULT rows of learning_events
          thesisCopies,   \* the theses each session holds
          ownerCopies,    \* what each session holds of the bot
          accepted,       \* history: reports that passed, per thesis
          advised         \* history: escalations answered, per thesis

tvars == <<theses, ownerDead, starts, hypotheses, disabledTheses, thesisCopies,
           ownerCopies, accepted, advised>>

\* _ALLOWED_TRANSITIONS.  No method moves a thesis to REVIEW.
NextStates ==
    [RESEARCH |-> {"BACKTEST", "DISABLED"},
     BACKTEST |-> {"PAPER", "DISABLED"},
     PAPER |-> {"INITIAL_TEST", "DISABLED"},
     INITIAL_TEST |-> {"VALIDATION", "REVIEW", "DISABLED"},
     VALIDATION |-> {"REVIEW", "APPROVED", "DISABLED"},
     REVIEW |-> {"VALIDATION", "APPROVED", "DISABLED"},
     APPROVED |-> {"DISABLED"},
     DISABLED |-> {}]

\* The rung after the thesis's capital: the first for an amount that is not a
\* rung, the last again at the top.
NextRung(capital) ==
    LET At == {i \in DOMAIN Ladder : Ladder[i] = capital}
        here == IF At = {} THEN 0 ELSE Min(At)
    IN IF here = Len(Ladder) THEN Ladder[here] ELSE Ladder[here + 1]

(***************************************************************************)
(* The methods.                                                            *)
(***************************************************************************)
LadderInit ==
    /\ theses = [t \in Theses |-> [state |-> "ABSENT", capital |-> 0]]
    /\ ownerDead = FALSE
    /\ starts = [t \in Theses |-> 0]
    /\ hypotheses = {}
    /\ disabledTheses = {}
    /\ thesisCopies = NoCopies(Theses)
    /\ ownerCopies = [s \in Sessions |-> NoCopy]
    /\ accepted = {}
    /\ advised = [t \in Theses |-> {}]

records == <<starts, hypotheses, disabledTheses, accepted, advised>>

LoadOwner(s) ==
    /\ ownerCopies[s] = NoCopy
    /\ ownerCopies' = [ownerCopies EXCEPT ![s] = ownerDead]
    /\ UNCHANGED <<theses, ownerDead, thesisCopies, records>>

LoadThesis(s, t) ==
    /\ theses[t].state # "ABSENT"
    /\ ~Holds(thesisCopies, s, t)
    /\ thesisCopies' = Keep(thesisCopies, s, t, theses[t])
    /\ UNCHANGED <<theses, ownerDead, ownerCopies, records>>

\* The first commit of propose_new_test; create_thesis is the second.
ProposeNewTest(s, t) ==
    /\ ownerCopies[s] # NoCopy
    /\ theses[t].state = "ABSENT" /\ t \notin hypotheses
    /\ hypotheses' = hypotheses \cup {t}
    /\ UNCHANGED <<theses, ownerDead, thesisCopies, ownerCopies,
                   starts, disabledTheses, accepted, advised>>

CreateThesis(s, t) ==
    /\ ownerCopies[s] = FALSE
    /\ theses[t].state = "ABSENT"
    /\ LET row == [state |-> "RESEARCH", capital |-> 0]
       IN /\ theses' = [theses EXCEPT ![t] = row]
          /\ thesisCopies' = Keep(thesisCopies, s, t, row)
    /\ UNCHANGED <<ownerDead, ownerCopies, records>>

CommitThesis(s, t, now) ==
    /\ theses' = Write(theses, thesisCopies, s, t, now)
    /\ thesisCopies' = Keep(thesisCopies, s, t, now)
    /\ UNCHANGED <<ownerDead, ownerCopies>>

\* _transition of the copy, with what else the method writes to it.
MoveThesis(s, t, to, capital) ==
    /\ Holds(thesisCopies, s, t)
    /\ to \in NextStates[thesisCopies[s][t].state]
    /\ CommitThesis(s, t, [state |-> to, capital |-> capital])

SameCapital(s, t) == thesisCopies[s][t].capital

AdvanceToBacktest(s, t) ==
    /\ MoveThesis(s, t, "BACKTEST", SameCapital(s, t))
    /\ UNCHANGED records

AdvanceToPaper(s, t) ==
    /\ MoveThesis(s, t, "PAPER", SameCapital(s, t))
    /\ UNCHANGED records

StartInitialTest(s, t) ==
    /\ ownerCopies[s] = FALSE
    /\ starts[t] < MaxStarts
    /\ MoveThesis(s, t, "INITIAL_TEST", TestCapital)
    /\ starts' = [starts EXCEPT ![t] = @ + 1]
    /\ UNCHANGED <<hypotheses, disabledTheses, accepted, advised>>

PassesEither(r) == r.operations >= MinOperations \/ r.drawdown <= MaxDrawdown
Passes(r) == r.operations >= MinOperations /\ r.drawdown <= MaxDrawdown

EvaluateForValidation(s, t, r) ==
    /\ Holds(thesisCopies, s, t)
    /\ thesisCopies[s][t].state = "INITIAL_TEST"
    /\ Passes(r)
    /\ MoveThesis(s, t, "VALIDATION", SameCapital(s, t))
    /\ accepted' = accepted \cup {<<t, r>>}
    /\ UNCHANGED <<starts, hypotheses, disabledTheses, advised>>

ApproveThesis(s, t) ==
    /\ MoveThesis(s, t, "APPROVED", SameCapital(s, t))
    /\ UNCHANGED records

\* From any state.
DisableThesis(s, t) ==
    /\ Holds(thesisCopies, s, t)
    /\ CommitThesis(s, t, [thesisCopies[s][t] EXCEPT !.state = "DISABLED"])
    /\ disabledTheses' = disabledTheses \cup {t}
    /\ UNCHANGED <<starts, hypotheses, accepted, advised>>

\* next_escalation_amount: an answer, nothing is written.
AskEscalation(s, t) ==
    /\ Holds(thesisCopies, s, t)
    /\ thesisCopies[s][t].state = "APPROVED"
    /\ advised' = [advised EXCEPT ![t] = @ \cup {NextRung(SameCapital(s, t))}]
    /\ UNCHANGED <<theses, ownerDead, thesisCopies, ownerCopies,
                   starts, hypotheses, disabledTheses, accepted>>

\* The loss ceiling, in some other session.
OwnerDies ==
    /\ ownerDead' = TRUE
    /\ UNCHANGED <<theses, thesisCopies, ownerCopies, records>>

ForgetTheses(s) ==
    /\ thesisCopies' = Forget(thesisCopies, s)
    /\ ownerCopies' = [ownerCopies EXCEPT ![s] = NoCopy]
    /\ UNCHANGED <<theses, ownerDead, records>>

LadderNext ==
    \/ OwnerDies
    \/ \E s \in Sessions :
        \/ LoadOwner(s) \/ ForgetTheses(s)
        \/ \E t \in Theses :
              \/ LoadThesis(s, t) \/ ProposeNewTest(s, t) \/ CreateThesis(s, t)
              \/ AdvanceToBacktest(s, t) \/ AdvanceToPaper(s, t)
              \/ StartInitialTest(s, t)
              \/ \E r \in Reports : EvaluateForValidation(s, t, r)
              \/ ApproveThesis(s, t) \/ DisableThesis(s, t)
              \/ AskEscalation(s, t)

LadderSpec == LadderInit /\ [][LadderNext]_tvars

(***************************************************************************)
(* Properties.                                                             *)
(***************************************************************************)
LadderTypeOK ==
    /\ theses \in [Theses -> ThesisRow]
    /\ ownerDead \in BOOLEAN
    /\ starts \in [Theses -> Nat]
    /\ hypotheses \subseteq Theses
    /\ disabledTheses \subseteq Theses
    /\ thesisCopies \in [Sessions -> [Theses -> ThesisRow \cup {NoCopy}]]
    /\ ownerCopies \in [Sessions -> BOOLEAN \cup {NoCopy}]
    /\ accepted \subseteq Theses \X Reports
    /\ advised \in [Theses -> SUBSET {NextRung(c) : c \in {0, TestCapital}}]

\* However stale the rows of those who move it, a thesis that is validated or
\* approved was funded with exactly the test capital and has a report with
\* enough operations and little drawdown behind it; and whoever asked was told
\* the rung above the test capital, never a higher one ("never from a single
\* lucky trade", "one rung at a time", engines/thesis_engine.py:9-11).
ApprovedWasTested ==
    \A t \in Theses :
        /\ theses[t].state \in {"VALIDATION", "APPROVED"} =>
              /\ theses[t].capital = TestCapital
              /\ starts[t] > 0
              /\ \E a \in accepted : a[1] = t /\ a[2].operations >= MinOperations
                                              /\ a[2].drawdown <= MaxDrawdown
        /\ advised[t] \subseteq {NextRung(TestCapital)}

\* A disabled thesis comes back only at the hand of a session whose copy was
\* out of date: no method leads out of DISABLED.
ThesisDisableStands ==
    [][\A t \in Theses :
         theses[t].state = "DISABLED" /\ theses'[t].state # "DISABLED"
            => ByStaleCopy(thesisCopies, thesisCopies', theses, t)]_tvars
=============================================================================
