--------------------------- MODULE ProtocolReview ---------------------------
(***************************************************************************)
(* ProtocolDiscoveryAgent: registering a protocol, the evidence about it,  *)
(* the risk score computed from that evidence, and its status.             *)
(*                                                                         *)
(* All rows are about one name on one blockchain: what registering must    *)
(* keep unique.  Evidence is a number of audits, of incidents, of days and *)
(* of dollars; a missing field counts as zero does.  The traded volume,    *)
(* which the score ignores, is left out.                                   *)
(***************************************************************************)
EXTENDS Integers, FiniteSetsExt, SessionCopies

CONSTANTS Protocols, Updates, NotGiven, NoScore,
          Baseline, PerAudit, MaxAudit, PerIncident,
          FullAge, MaxAge, FullTvl, MaxTvl, EligibleMax

Fields == {"audits", "incidents", "age", "tvl"}
Evidence == [Fields -> Nat]

ASSUME ScoreAssumption ==
    /\ {Baseline, PerAudit, MaxAudit, PerIncident, MaxAge, MaxTvl, EligibleMax} \subseteq Nat
    /\ FullAge \in Nat \ {0} /\ FullTvl \in Nat \ {0}
    /\ Updates \subseteq [Fields -> Nat \cup {NotGiven}]
    /\ NoScore \notin Int /\ NotGiven \notin Nat

Statuses == {"RESEARCH_ONLY", "PAPER_ELIGIBLE", "REVIEW_REQUIRED", "DISABLED"}
ProtocolRow == [status : Statuses \cup {"ABSENT"}, score : 0..100 \cup {NoScore},
                audits : Nat, incidents : Nat, age : Nat, tvl : Nat]

ASSUME ProtocolCopyAssumption == NoCopy \notin ProtocolRow

VARIABLES protocols,         \* rows of protocols
          flagged,           \* audit rows PROTOCOL_FLAGGED_FOR_REVIEW
          disabledProtocols, \* audit rows PROTOCOL_DISABLED
          protocolCopies,    \* what each session holds
          registering        \* sessions past the look of register_protocol

pvars == <<protocols, flagged, disabledProtocols, protocolCopies, registering>>
audit == <<flagged, disabledProtocols>>

(***************************************************************************)
(* compute_risk_score, in whole points.                                    *)
(***************************************************************************)
Credit(amount, full, most) == (Min({amount, full}) * most) \div full
Clamped(n) == Max({0, Min({100, n})})

RiskScore(e) ==
    Clamped(Baseline - Min({e.audits * PerAudit, MaxAudit})
                     + e.incidents * PerIncident
                     - Credit(e.age, FullAge, MaxAge)
                     - Credit(e.tvl, FullTvl, MaxTvl))

\* The fields given replace those of the row; the score follows the row.
Given(row, u) == [f \in DOMAIN row |-> IF f \in Fields /\ u[f] # NotGiven
                                       THEN u[f] ELSE row[f]]
UpdatedScoredBefore(row, u) == [Given(row, u) EXCEPT !.score = RiskScore(row)]
Updated(row, u) == [Given(row, u) EXCEPT !.score = RiskScore(Given(row, u))]

(***************************************************************************)
(* The methods.                                                            *)
(***************************************************************************)
NoRow == [status |-> "ABSENT", score |-> NoScore,
          audits |-> 0, incidents |-> 0, age |-> 0, tvl |-> 0]
Registered == [NoRow EXCEPT !.status = "RESEARCH_ONLY"]
Known == {p \in Protocols : protocols[p].status # "ABSENT"}

ProtocolsInit ==
    /\ protocols = [p \in Protocols |-> NoRow]
    /\ flagged = {} /\ disabledProtocols = {}
    /\ protocolCopies = NoCopies(Protocols)
    /\ registering = {}

\* register_protocol finds the row, or finds none and goes on to insert one;
\* scalar_one_or_none raises when two rows match.
FindProtocol(s, p) ==
    /\ Known = {p}
    /\ ~Holds(protocolCopies, s, p)
    /\ protocolCopies' = Keep(protocolCopies, s, p, protocols[p])
    /\ UNCHANGED <<protocols, audit, registering>>

LookForProtocol(s) ==
    /\ Known = {}
    /\ registering' = registering \cup {s}
    /\ UNCHANGED <<protocols, audit, protocolCopies>>

InsertProtocol(s, p) ==
    /\ s \in registering
    /\ p \notin Known
    /\ protocols' = [protocols EXCEPT ![p] = Registered]
    /\ protocolCopies' = Keep(protocolCopies, s, p, Registered)
    /\ registering' = registering \ {s}
    /\ UNCHANGED audit

\* A row reached by its id.
LoadProtocol(s, p) ==
    /\ p \in Known
    /\ ~Holds(protocolCopies, s, p)
    /\ protocolCopies' = Keep(protocolCopies, s, p, protocols[p])
    /\ UNCHANGED <<protocols, audit, registering>>

CommitProtocol(s, p, now) ==
    /\ protocols' = Write(protocols, protocolCopies, s, p, now)
    /\ protocolCopies' = Keep(protocolCopies, s, p, now)
    /\ UNCHANGED registering

UpdateEvidence(s, p, u) ==
    /\ Holds(protocolCopies, s, p)
    /\ CommitProtocol(s, p, Updated(protocolCopies[s][p], u))
    /\ UNCHANGED audit

EligibleUnscored(row) == row.status = "RESEARCH_ONLY"
MayBecomeEligible(row) ==
    /\ row.status = "RESEARCH_ONLY"
    /\ row.score # NoScore
    /\ row.score <= EligibleMax

EvaluateForPaperEligibility(s, p) ==
    /\ Holds(protocolCopies, s, p)
    /\ MayBecomeEligible(protocolCopies[s][p])
    /\ CommitProtocol(s, p, [protocolCopies[s][p] EXCEPT !.status = "PAPER_ELIGIBLE"])
    /\ UNCHANGED audit

FlagForReview(s, p) ==
    /\ Holds(protocolCopies, s, p)
    /\ protocolCopies[s][p].status # "DISABLED"
    /\ CommitProtocol(s, p, [protocolCopies[s][p] EXCEPT !.status = "REVIEW_REQUIRED"])
    /\ flagged' = flagged \cup {p}
    /\ UNCHANGED disabledProtocols

\* Eligible again, whatever its score, or without one.
ClearReview(s, p) ==
    /\ Holds(protocolCopies, s, p)
    /\ protocolCopies[s][p].status = "REVIEW_REQUIRED"
    /\ CommitProtocol(s, p, [protocolCopies[s][p] EXCEPT !.status = "PAPER_ELIGIBLE"])
    /\ UNCHANGED audit

\* From any status.
DisableProtocol(s, p) ==
    /\ Holds(protocolCopies, s, p)
    /\ CommitProtocol(s, p, [protocolCopies[s][p] EXCEPT !.status = "DISABLED"])
    /\ disabledProtocols' = disabledProtocols \cup {p}
    /\ UNCHANGED flagged

ForgetProtocols(s) ==
    /\ protocolCopies' = Forget(protocolCopies, s)
    /\ registering' = registering \ {s}
    /\ UNCHANGED <<protocols, audit>>

ProtocolsNext ==
    \E s \in Sessions :
        \/ LookForProtocol(s) \/ ForgetProtocols(s)
        \/ \E p \in Protocols :
              \/ FindProtocol(s, p) \/ InsertProtocol(s, p) \/ LoadProtocol(s, p)
              \/ \E u \in Updates : UpdateEvidence(s, p, u)
              \/ EvaluateForPaperEligibility(s, p)
              \/ FlagForReview(s, p) \/ ClearReview(s, p) \/ DisableProtocol(s, p)

ProtocolsSpec == ProtocolsInit /\ [][ProtocolsNext]_pvars

(***************************************************************************)
(* Properties.                                                             *)
(***************************************************************************)
ProtocolsTypeOK ==
    /\ protocols \in [Protocols -> ProtocolRow]
    /\ flagged \subseteq Protocols /\ disabledProtocols \subseteq Protocols
    /\ protocolCopies \in [Sessions -> [Protocols -> ProtocolRow \cup {NoCopy}]]
    /\ registering \subseteq Sessions

\* However stale the rows of those who work on it, a protocol is eligible for
\* paper trading only with a risk score or after a review, and every review or
\* disabling has its audit row ("call update_evidence first",
\* engines/protocol_discovery.py:121).
EligibleWasVetted ==
    \A p \in Protocols :
        /\ protocols[p].status = "PAPER_ELIGIBLE"
             => protocols[p].score # NoScore \/ p \in flagged
        /\ protocols[p].status = "REVIEW_REQUIRED" => p \in flagged
        /\ protocols[p].status = "DISABLED" => p \in disabledProtocols

\* The score is that of the evidence in the same row, unless a session that
\* held an older row wrote one of them (update_evidence computes the score
\* from the copy, and the flush writes what changed).
ScoreStaleOnlyByRace ==
    [][\A p \in Protocols :
         LET Agrees(row) == row.score \in {NoScore, RiskScore(row)}
         IN Agrees(protocols[p]) /\ ~Agrees(protocols'[p])
              => ByStaleCopy(protocolCopies, protocolCopies', protocols, p)]_pvars

\* A disabled protocol comes back only at the hand of a session whose copy was
\* out of date.
ProtocolDisableStands ==
    [][\A p \in Protocols :
         protocols[p].status = "DISABLED" /\ protocols'[p].status # "DISABLED"
            => ByStaleCopy(protocolCopies, protocolCopies', protocols, p)]_pvars
=============================================================================
