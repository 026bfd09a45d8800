------------------------------ MODULE Research ------------------------------
(***************************************************************************)
(* The engines that share no rows with each other: strategy versions,      *)
(* theses, protocols, wallets and the launch monitor.  A behaviour is      *)
(* about one of them, its focus, while the others rest: since no step      *)
(* reads or writes the rows of two, nothing is lost, and the states are    *)
(* the sum of theirs.                                                      *)
(***************************************************************************)
EXTENDS StrategyVersions, ThesisLadder, ProtocolReview, Wallets, LaunchMonitor

VARIABLE focus

rvars == <<svars, tvars, pvars, wvars, mvars, focus>>

ResearchInit ==
    /\ focus \in {"versions", "theses", "protocols", "wallets", "launches"}
    /\ VersionsInit /\ LadderInit /\ ProtocolsInit /\ WalletsInit /\ MonitorInit

ResearchNext ==
    /\ UNCHANGED focus
    /\ \/ focus = "versions" /\ VersionsNext /\ UNCHANGED <<tvars, pvars, wvars, mvars>>
       \/ focus = "theses" /\ LadderNext /\ UNCHANGED <<svars, pvars, wvars, mvars>>
       \/ focus = "protocols" /\ ProtocolsNext /\ UNCHANGED <<svars, tvars, wvars, mvars>>
       \/ focus = "wallets" /\ WalletsNext /\ UNCHANGED <<svars, tvars, pvars, mvars>>
       \/ focus = "launches" /\ MonitorNext /\ UNCHANGED <<svars, tvars, pvars, wvars>>

ResearchSpec == ResearchInit /\ [][ResearchNext]_rvars

\* Nothing stands higher than its evidence: a version in PAPER or beyond has a
\* TEST backtest, a validated thesis was funded with the test capital and
\* judged, an eligible protocol has a score or a review, however stale the
\* rows of those who moved them (backtest_engine.py:122-140,
\* thesis_engine.py:112-140, protocol_discovery.py:114-156).
EarnedStanding == EvidenceOnRecord /\ ApprovedWasTested /\ EligibleWasVetted

\* What has been disabled stays so, except for a session whose copy was older
\* (the disable methods of the three engines).
DisabledStands ==
    VersionDisableStands /\ ThesisDisableStands /\ ProtocolDisableStands
=============================================================================
