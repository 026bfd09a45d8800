--------------------------- MODULE ResearchProofs ---------------------------
(***************************************************************************)
(* Each of the five parts has an inductive invariant of its own, over its  *)
(* own variables; Research's steps are those of one part while the others  *)
(* stutter.  The invariants say of the rows sessions hold what the         *)
(* properties say of the tables.                                           *)
(***************************************************************************)
EXTENDS Research, FiniteSetTheorems, TLAPS

(***************************************************************************)
(* Strategy versions.                                                      *)
(***************************************************************************)

Judged == {"PAPER", "REVIEW", "APPROVED"}
Tests == {b \in backtests : b.split = "TEST"}

\* What a state of v may be, in the table or in a session, by the backtests
\* and the audit rows there are.
VersionSound(v, state, tests, disabled) ==
  /\ state \in Judged => \E b \in tests : b.version = v
  /\ state = "DISABLED" => v \in disabled

VersionsInv ==
  /\ VersionsTypeOK
  /\ \A v \in Versions : VersionSound(v, versions[v].state, Tests, disabledVersions)
  /\ \A s \in Sessions, v \in Versions :
        versionCopies[s][v] # NoCopy =>
            VersionSound(v, versionCopies[s][v].state, Tests, disabledVersions)

LEMMA VersionsInitInv == VersionsInit => VersionsInv
BY DEF VersionsInit, VersionsInv, VersionsTypeOK, VersionSound, VersionRow,
       StrategyStates, NoCopies, Judged

LEMMA VersionFlush ==
  ASSUME NEW row \in VersionRow, NEW loaded \in VersionRow, NEW now \in VersionRow
  PROVE  /\ Flush(row, loaded, now) \in VersionRow
         /\ Flush(row, loaded, now).state =
               IF now.state # loaded.state THEN now.state ELSE row.state
BY DEF Flush, VersionRow

LEMMA VersionSoundGrows ==
  ASSUME NEW v, NEW state, NEW tests, NEW disabled, NEW more, NEW others,
         tests \subseteq more, disabled \subseteq others,
         VersionSound(v, state, tests, disabled)
  PROVE  VersionSound(v, state, more, others)
BY DEF VersionSound

\* A commit of a sound row by a session, whatever it held.
LEMMA VersionCommit ==
  ASSUME VersionsInv, NEW s \in Sessions, NEW v \in Versions,
         Holds(versionCopies, s, v),
         NEW to \in StrategyStates, CommitStage(s, v, to),
         backtests \subseteq backtests', disabledVersions \subseteq disabledVersions',
         backtests' \subseteq Backtest, disabledVersions' \subseteq Versions,
         VersionSound(v, to, Tests', disabledVersions')
  PROVE  VersionsInv'
<1> DEFINE old == versionCopies[s][v]
           now == [state |-> to]
           Sound(w, state) == VersionSound(w, state, Tests', disabledVersions')
<1>1. /\ old \in VersionRow /\ now \in VersionRow /\ versions[v] \in VersionRow
      /\ now \in [state : StrategyStates]
  BY DEF VersionsInv, VersionsTypeOK, Holds, VersionRow
<1>2. /\ versions' = [versions EXCEPT ![v] = Flush(versions[v], old, now)]
      /\ versionCopies' = [versionCopies EXCEPT ![s][v] = now]
  BY DEF CommitStage, Write, Keep
<1>3. VersionsTypeOK'
  BY <1>1, <1>2, VersionFlush DEF VersionsInv, VersionsTypeOK
<1>4. \A w \in Versions : \A state :
         VersionSound(w, state, Tests, disabledVersions) => Sound(w, state)
  <2>1. Tests \subseteq Tests'
    BY DEF Tests
  <2> QED BY <2>1, VersionSoundGrows
<1>5. Sound(v, Flush(versions[v], old, now).state)
  BY <1>1, <1>4, VersionFlush DEF VersionsInv
<1>6. \A w \in Versions : Sound(w, versions'[w].state)
  BY <1>2, <1>4, <1>5 DEF VersionsInv, VersionsTypeOK
<1>7. ASSUME NEW q \in Sessions, NEW w \in Versions, versionCopies'[q][w] # NoCopy
      PROVE  Sound(w, versionCopies'[q][w].state)
  <2>1. CASE q = s /\ w = v
    BY <1>2, <2>1 DEF VersionsInv, VersionsTypeOK
  <2>2. CASE ~(q = s /\ w = v)
    <3>1. versionCopies'[q][w] = versionCopies[q][w]
      BY <1>2, <2>2 DEF VersionsInv, VersionsTypeOK
    <3> QED BY <1>4, <1>7, <3>1 DEF VersionsInv
  <2> QED BY <2>1, <2>2
<1> QED BY <1>3, <1>6, <1>7 DEF VersionsInv

\* MoveStage is such a commit when the state it moves to is sound.
LEMMA VersionMove ==
  ASSUME VersionsInv, NEW s \in Sessions, NEW v \in Versions,
         NEW to \in StrategyStates, MoveStage(s, v, to),
         UNCHANGED <<backtests, disabledVersions>>,
         to # "DISABLED", to \in Judged => \E b \in Tests : b.version = v
  PROVE  VersionsInv'
<1>1. Tests' = Tests
  BY DEF Tests
<1>2. VersionSound(v, to, Tests', disabledVersions')
  BY <1>1 DEF VersionSound
<1>3. backtests' \subseteq Backtest /\ disabledVersions' \subseteq Versions
  BY DEF VersionsInv, VersionsTypeOK
<1> QED BY <1>2, <1>3, VersionCommit DEF MoveStage

LEMMA VersionsStepInv == VersionsInv /\ [VersionsNext]_svars => VersionsInv'
<1> SUFFICES ASSUME VersionsInv, [VersionsNext]_svars PROVE VersionsInv'
  OBVIOUS
<1> DEFINE Sound(v, state) == VersionSound(v, state, Tests, disabledVersions)
<1>1. CASE UNCHANGED svars
  BY <1>1 DEF svars, VersionsInv, VersionsTypeOK, VersionSound, Tests
<1>2. ASSUME NEW s \in Sessions, ForgetVersions(s) PROVE VersionsInv'
  BY <1>2 DEF ForgetVersions, Forget, VersionsInv, VersionsTypeOK, VersionSound, Tests
<1>3. ASSUME NEW s \in Sessions, NEW v \in Versions, CreateVersion(s, v) PROVE VersionsInv'
  <2>1. [state |-> "RESEARCH"] \in VersionRow \cap [state : StrategyStates]
    BY DEF VersionRow, StrategyStates
  <2>2. Sound(v, "RESEARCH")
    BY DEF VersionSound, Judged
  <2>3. /\ versions' = [versions EXCEPT ![v] = [versions[v] EXCEPT !.state = "RESEARCH"]]
        /\ [versions[v] EXCEPT !.state = "RESEARCH"] = [state |-> "RESEARCH"]
    BY <1>3 DEF CreateVersion, VersionsInv, VersionsTypeOK, VersionRow
  <2>4. /\ versionCopies' = [versionCopies EXCEPT ![s][v] = [state |-> "RESEARCH"]]
        /\ Tests' = Tests /\ disabledVersions' = disabledVersions /\ backtests' = backtests
    BY <1>3 DEF CreateVersion, Keep, Tests
  <2>5. VersionsTypeOK'
    BY <2>1, <2>3, <2>4 DEF VersionsInv, VersionsTypeOK
  <2>6. \A w \in Versions : Sound(w, versions'[w].state)
    BY <2>2, <2>3 DEF VersionsInv, VersionsTypeOK
  <2>7. \A q \in Sessions, w \in Versions :
           versionCopies'[q][w] # NoCopy => Sound(w, versionCopies'[q][w].state)
    BY <2>2, <2>4 DEF VersionsInv, VersionsTypeOK
  <2> QED BY <2>4, <2>5, <2>6, <2>7 DEF VersionsInv
<1>4. ASSUME NEW s \in Sessions, NEW v \in Versions, LoadVersion(s, v) PROVE VersionsInv'
  <2>1. /\ versionCopies' = [versionCopies EXCEPT ![s][v] = versions[v]]
        /\ Tests' = Tests
        /\ UNCHANGED <<versions, backtests, disabledVersions>>
    BY <1>4 DEF LoadVersion, Keep, Tests
  <2>2. VersionsTypeOK'
    BY <1>4, <2>1 DEF LoadVersion, VersionsInv, VersionsTypeOK, VersionRow
  <2>3. \A q \in Sessions, w \in Versions :
           versionCopies'[q][w] # NoCopy => Sound(w, versionCopies'[q][w].state)
    BY <2>1 DEF VersionsInv, VersionsTypeOK
  <2> QED BY <2>1, <2>2, <2>3 DEF VersionsInv
<1>5. ASSUME NEW s \in Sessions, NEW v \in Versions, NEW split \in Splits,
             RunBacktest(s, v, split)
      PROVE  VersionsInv'
  <2>1. [version |-> v, split |-> split] \in Backtest
    BY DEF Backtest
  <2>2. VersionSound(v, "BACKTEST", Tests', disabledVersions')
    BY DEF VersionSound, Judged
  <2>3. backtests' \subseteq Backtest /\ backtests \subseteq backtests'
    BY <1>5, <2>1 DEF RunBacktest, VersionsInv, VersionsTypeOK
  <2>4. disabledVersions' = disabledVersions /\ disabledVersions \subseteq Versions
    BY <1>5 DEF RunBacktest, VersionsInv, VersionsTypeOK
  <2>5. Holds(versionCopies, s, v) /\ CommitStage(s, v, "BACKTEST")
    BY <1>5 DEF RunBacktest
  <2> QED BY <2>2, <2>3, <2>4, <2>5, VersionCommit DEF StrategyStates
<1>6. ASSUME NEW s \in Sessions, NEW v \in Versions, PromoteToPaper(s, v) PROVE VersionsInv'
  <2>1. \E b \in Tests : b.version = v
    BY <1>6 DEF PromoteToPaper, TestOnRecord, Tests
  <2> QED BY <1>6, <2>1, VersionMove DEF PromoteToPaper, StrategyStates
<1>7. ASSUME NEW s \in Sessions, NEW v \in Versions,
             SendToReview(s, v) \/ ApproveVersion(s, v)
      PROVE  VersionsInv'
  <2>1. PICK to \in {"REVIEW", "APPROVED"} :
           MoveStage(s, v, to) /\ UNCHANGED <<backtests, disabledVersions>>
    BY <1>7 DEF SendToReview, ApproveVersion
  <2>2. /\ versionCopies[s][v] # NoCopy /\ versionCopies[s][v].state \in StrategyStates
        /\ to \in NextStages[versionCopies[s][v].state]
    BY <2>1 DEF MoveStage, MayMove, Holds, VersionsInv, VersionsTypeOK, VersionRow
  <2>3. versionCopies[s][v].state \in Judged
    BY <2>1, <2>2 DEF NextStages, Judged, StrategyStates
  <2>4. \E b \in Tests : b.version = v
    BY <2>2, <2>3 DEF VersionsInv, VersionSound
  <2> QED BY <2>1, <2>4, VersionMove DEF StrategyStates
<1>8. ASSUME NEW s \in Sessions, NEW v \in Versions, DisableVersion(s, v) PROVE VersionsInv'
  <2>1. VersionSound(v, "DISABLED", Tests', disabledVersions')
    BY <1>8 DEF DisableVersion, VersionSound, Judged
  <2>2. /\ disabledVersions \subseteq disabledVersions' /\ disabledVersions' \subseteq Versions
        /\ backtests' = backtests /\ backtests \subseteq Backtest
    BY <1>8 DEF DisableVersion, VersionsInv, VersionsTypeOK
  <2> QED BY <1>8, <2>1, <2>2, VersionCommit DEF DisableVersion, StrategyStates
<1> QED BY <1>1, <1>2, <1>3, <1>4, <1>5, <1>6, <1>7, <1>8 DEF VersionsNext

\* A commit that takes a version out of DISABLED is that of a stale copy.
LEMMA VersionReopened ==
  ASSUME VersionsInv, NEW s \in Sessions, NEW w \in Versions, NEW v \in Versions,
         Holds(versionCopies, s, w), NEW to \in StrategyStates, CommitStage(s, w, to),
         to # "DISABLED" => versionCopies[s][w].state # "DISABLED",
         versions[v].state = "DISABLED", versions'[v].state # "DISABLED"
  PROVE  ByStaleCopy(versionCopies, versionCopies', versions, v)
<1> DEFINE old == versionCopies[s][w]
           now == [state |-> to]
<1>1. old \in VersionRow /\ now \in VersionRow /\ versions[w] \in VersionRow
  BY DEF VersionsInv, VersionsTypeOK, Holds, VersionRow
<1>2. /\ versions' = [versions EXCEPT ![w] = Flush(versions[w], old, now)]
      /\ versionCopies' = [versionCopies EXCEPT ![s][w] = now]
  BY DEF CommitStage, Write, Keep
<1>3. v = w
  BY <1>2 DEF VersionsInv, VersionsTypeOK
<1>4. to # old.state /\ to # "DISABLED" /\ old.state # "DISABLED"
  BY <1>1, <1>2, <1>3, VersionFlush DEF VersionsInv, VersionsTypeOK
<1>5. versionCopies[s][v] \notin {NoCopy, versions[v]}
  BY <1>3, <1>4 DEF Holds
<1>6. versionCopies'[s][v] = now
  BY <1>2, <1>3 DEF VersionsInv, VersionsTypeOK
<1>7. now \notin {NoCopy, versionCopies[s][v]}
  BY <1>1, <1>3, <1>4, VersionCopyAssumption
<1> QED BY <1>5, <1>6, <1>7 DEF ByStaleCopy

LEMMA VersionDisableStep ==
  ASSUME VersionsInv, [VersionsNext]_svars, NEW v \in Versions,
         versions[v].state = "DISABLED", versions'[v].state # "DISABLED"
  PROVE  ByStaleCopy(versionCopies, versionCopies', versions, v)
<1> DEFINE Stale == ByStaleCopy(versionCopies, versionCopies', versions, v)
<1>1. CASE versions' = versions
  BY <1>1
<1>2. ASSUME NEW s \in Sessions, NEW w \in Versions, CreateVersion(s, w) PROVE Stale
  BY <1>2 DEF CreateVersion, VersionsInv, VersionsTypeOK, VersionRow
<1>3. ASSUME NEW s \in Sessions, NEW w \in Versions, NEW to \in StrategyStates,
             MoveStage(s, w, to)
      PROVE  Stale
  <2>1. versionCopies[s][w].state \in StrategyStates
    BY <1>3 DEF MoveStage, Holds, VersionsInv, VersionsTypeOK
  <2>2. versionCopies[s][w].state # "DISABLED"
    BY <1>3, <2>1 DEF MoveStage, MayMove, NextStages, StrategyStates
  <2> QED BY <1>3, <2>2, VersionReopened DEF MoveStage
<1>4. ASSUME NEW s \in Sessions, NEW w \in Versions, NEW split \in Splits,
             RunBacktest(s, w, split)
      PROVE  Stale
  BY <1>4, VersionReopened DEF RunBacktest, StrategyStates
<1>5. ASSUME NEW s \in Sessions, NEW w \in Versions, DisableVersion(s, w) PROVE Stale
  BY <1>5, VersionReopened DEF DisableVersion, StrategyStates
<1> QED
  BY <1>1, <1>2, <1>3, <1>4, <1>5
  DEF VersionsNext, svars, ForgetVersions, LoadVersion, PromoteToPaper, SendToReview,
      ApproveVersion, StrategyStates

(***************************************************************************)
(* Theses.                                                                 *)
(***************************************************************************)
Funded == {"INITIAL_TEST", "VALIDATION", "REVIEW", "APPROVED"}

\* What a row of t may say, by the funding events and reports there are.
ThesisSound(t, state, capital, funded, reports) ==
  /\ state \in Funded => capital = TestCapital /\ funded[t] > 0
  /\ state \in Funded \ {"INITIAL_TEST"} =>
        \E a \in reports : a[1] = t /\ a[2].operations >= MinOperations
                                    /\ a[2].drawdown <= MaxDrawdown

\* Capital is attached once and for all: no session holds a funded row of a
\* thesis that the table has without capital.
LadderInv ==
  /\ LadderTypeOK
  /\ \A t \in Theses :
        /\ ThesisSound(t, theses[t].state, theses[t].capital, starts, accepted)
        /\ theses[t].state = "ABSENT" => theses[t].capital = 0
        /\ theses[t].capital \in {0, TestCapital}
        /\ advised[t] \subseteq {NextRung(TestCapital)}
  /\ \A s \in Sessions, t \in Theses :
        thesisCopies[s][t] # NoCopy =>
           /\ ThesisSound(t, thesisCopies[s][t].state, thesisCopies[s][t].capital,
                          starts, accepted)
           /\ thesisCopies[s][t].state # "ABSENT" /\ theses[t].state # "ABSENT"
           /\ thesisCopies[s][t].capital \in {0, theses[t].capital}
           /\ thesisCopies[s][t].capital \in {0, TestCapital}

LEMMA LadderInitInv == LadderInit => LadderInv
<1> SUFFICES ASSUME LadderInit PROVE LadderInv
  OBVIOUS
<1>1. LadderTypeOK
  BY DEF LadderInit, LadderTypeOK, ThesisRow, NoCopies
<1>2. \A t \in Theses : ThesisSound(t, theses[t].state, theses[t].capital, starts, accepted)
  BY DEF LadderInit, ThesisSound, Funded
<1> QED BY <1>1, <1>2 DEF LadderInit, LadderInv, NoCopies

LEMMA ThesisFlush ==
  ASSUME NEW row \in ThesisRow, NEW loaded \in ThesisRow, NEW now \in ThesisRow
  PROVE  /\ Flush(row, loaded, now) \in ThesisRow
         /\ Flush(row, loaded, now).state =
               IF now.state # loaded.state THEN now.state ELSE row.state
         /\ Flush(row, loaded, now).capital =
               IF now.capital # loaded.capital THEN now.capital ELSE row.capital
BY DEF Flush, ThesisRow

LEMMA ThesisSoundGrows ==
  ASSUME NEW t \in Theses, NEW state, NEW capital, NEW funded \in [Theses -> Nat],
         NEW more \in [Theses -> Nat], funded[t] <= more[t],
         NEW reports, NEW others, reports \subseteq others,
         ThesisSound(t, state, capital, funded, reports)
  PROVE  ThesisSound(t, state, capital, more, others)
BY DEF ThesisSound

\* A commit of a sound row by a session that keeps its copy's capital or
\* attaches the test capital.
LEMMA ThesisCommit ==
  ASSUME LadderInv, NEW s \in Sessions, NEW t \in Theses, Holds(thesisCopies, s, t),
         NEW to \in ThesisStates, NEW capital \in {thesisCopies[s][t].capital, TestCapital},
         CommitThesis(s, t, [state |-> to, capital |-> capital]),
         starts' \in [Theses -> Nat], \A u \in Theses : starts[u] <= starts'[u],
         accepted \subseteq accepted', accepted' \subseteq Theses \X Reports,
         hypotheses' \subseteq Theses, disabledTheses' \subseteq Theses,
         advised' = advised,
         ThesisSound(t, to, capital, starts', accepted')
  PROVE  LadderInv'
<1> USE LadderAssumption, ThesisCopyAssumption
<1> DEFINE old == thesisCopies[s][t]
           now == [state |-> to, capital |-> capital]
           row == Flush(theses[t], old, now)
           Sound(u, state, c) == ThesisSound(u, state, c, starts', accepted')
<1>1. old \in ThesisRow /\ now \in ThesisRow /\ theses[t] \in ThesisRow
  BY DEF LadderInv, LadderTypeOK, Holds, ThesisRow
<1>2. /\ theses' = [theses EXCEPT ![t] = row]
      /\ thesisCopies' = [thesisCopies EXCEPT ![s][t] = now]
      /\ ownerDead' = ownerDead /\ ownerCopies' = ownerCopies
  BY DEF CommitThesis, Write, Keep
<1>3. LadderTypeOK'
  BY <1>1, <1>2, ThesisFlush DEF LadderInv, LadderTypeOK
<1>4. \A u \in Theses : \A state, c :
         ThesisSound(u, state, c, starts, accepted) => Sound(u, state, c)
  BY ThesisSoundGrows DEF LadderInv, LadderTypeOK
<1>5. capital \in {0, TestCapital} /\ old.capital \in {0, TestCapital}
      /\ old.capital \in {0, theses[t].capital} /\ old.state # "ABSENT"
      /\ theses[t].state # "ABSENT"
  BY DEF LadderInv, Holds
<1>6. /\ row.state = IF to # old.state THEN to ELSE theses[t].state
      /\ row.capital = IF capital # old.capital THEN TestCapital ELSE theses[t].capital
  BY <1>1, ThesisFlush
<1>7. /\ capital \in {0, row.capital}
      /\ theses[t].capital = TestCapital => row.capital = TestCapital
  BY <1>5, <1>6
<1>8. Sound(t, row.state, row.capital)
  <2>1. Sound(t, theses[t].state, theses[t].capital)
    BY <1>4 DEF LadderInv
  <2>2. CASE row.state = theses[t].state
    BY <1>7, <2>1, <2>2 DEF ThesisSound
  <2>3. CASE row.state = to
    BY <1>7, <2>3 DEF ThesisSound
  <2> QED BY <1>6, <2>2, <2>3
<1>9. row.state # "ABSENT"
  BY <1>5, <1>6 DEF ThesisStates
<1>10. \A u \in Theses :
          /\ Sound(u, theses'[u].state, theses'[u].capital)
          /\ theses'[u].state = "ABSENT" => theses'[u].capital = 0
          /\ theses'[u].capital \in {0, TestCapital}
          /\ advised'[u] \subseteq {NextRung(TestCapital)}
  BY <1>2, <1>4, <1>6, <1>8, <1>9 DEF LadderInv, LadderTypeOK
<1>11. ASSUME NEW q \in Sessions, NEW u \in Theses, thesisCopies'[q][u] # NoCopy
       PROVE  /\ Sound(u, thesisCopies'[q][u].state, thesisCopies'[q][u].capital)
              /\ thesisCopies'[q][u].state # "ABSENT" /\ theses'[u].state # "ABSENT"
              /\ thesisCopies'[q][u].capital \in {0, theses'[u].capital}
              /\ thesisCopies'[q][u].capital \in {0, TestCapital}
  <2>1. CASE q = s /\ u = t
    <3>1. thesisCopies'[q][u] = now /\ theses'[u] = row
      BY <1>2, <2>1 DEF LadderInv, LadderTypeOK
    <3> QED BY <1>5, <1>7, <1>9, <2>1, <3>1 DEF ThesisStates
  <2>2. CASE ~(q = s /\ u = t)
    <3>1. thesisCopies'[q][u] = thesisCopies[q][u]
      BY <1>2, <2>2 DEF LadderInv, LadderTypeOK
    <3>2. /\ thesisCopies[q][u].capital \in {0, theses'[u].capital}
          /\ theses'[u].state # "ABSENT"
      BY <1>2, <1>7, <1>9, <1>11, <3>1 DEF LadderInv, LadderTypeOK
    <3> QED BY <1>4, <1>11, <3>1, <3>2 DEF LadderInv
  <2> QED BY <2>1, <2>2
<1> QED BY <1>3, <1>10, <1>11 DEF LadderInv

\* Steps that leave the theses, their copies and the evidence alone.
LEMMA LadderKept ==
  ASSUME LadderInv, UNCHANGED <<theses, starts, accepted, advised, thesisCopies>>,
         hypotheses' \subseteq Theses, disabledTheses' \subseteq Theses,
         ownerDead' \in BOOLEAN, ownerCopies' \in [Sessions -> BOOLEAN \cup {NoCopy}]
  PROVE  LadderInv'
<1>1. LadderTypeOK'
  BY DEF LadderInv, LadderTypeOK
<1> QED BY <1>1 DEF LadderInv

\* Steps that read or drop copies, or add a thesis.
LEMMA LadderCopies ==
  ASSUME LadderInv,
         \/ \E s \in Sessions : ForgetTheses(s)
         \/ \E s \in Sessions, t \in Theses : LoadThesis(s, t) \/ CreateThesis(s, t)
  PROVE  LadderInv'
<1> USE LadderAssumption
<1>1. ASSUME NEW s \in Sessions, ForgetTheses(s) PROVE LadderInv'
  <2>1. /\ UNCHANGED <<theses, ownerDead, starts, hypotheses, disabledTheses, accepted, advised>>
        /\ thesisCopies' = [thesisCopies EXCEPT ![s] = [r \in DOMAIN thesisCopies[s] |-> NoCopy]]
        /\ ownerCopies' = [ownerCopies EXCEPT ![s] = NoCopy]
    BY <1>1 DEF ForgetTheses, Forget, records
  <2>2. LadderTypeOK'
    BY <2>1 DEF LadderInv, LadderTypeOK
  <2>3. \A q \in Sessions, u \in Theses :
           thesisCopies'[q][u] # NoCopy => thesisCopies'[q][u] = thesisCopies[q][u]
    BY <2>1 DEF LadderInv, LadderTypeOK
  <2> QED BY <2>1, <2>2, <2>3 DEF LadderInv
<1>2. ASSUME NEW s \in Sessions, NEW t \in Theses, LoadThesis(s, t) PROVE LadderInv'
  <2>1. /\ UNCHANGED <<theses, ownerDead, ownerCopies, starts, hypotheses, disabledTheses,
                       accepted, advised>>
        /\ thesisCopies' = [thesisCopies EXCEPT ![s][t] = theses[t]]
        /\ theses[t].state # "ABSENT"
    BY <1>2 DEF LoadThesis, Keep, records
  <2>2. LadderTypeOK'
    BY <2>1 DEF LadderInv, LadderTypeOK
  <2>3. ASSUME NEW q \in Sessions, NEW u \in Theses, thesisCopies'[q][u] # NoCopy
        PROVE  thesisCopies'[q][u] = IF q = s /\ u = t THEN theses[t] ELSE thesisCopies[q][u]
    BY <2>1 DEF LadderInv, LadderTypeOK
  <2> QED BY <2>1, <2>2, <2>3 DEF LadderInv
<1>3. ASSUME NEW s \in Sessions, NEW t \in Theses, CreateThesis(s, t) PROVE LadderInv'
  <2> DEFINE row == [state |-> "RESEARCH", capital |-> 0]
  <2>1. /\ UNCHANGED <<ownerDead, ownerCopies, starts, hypotheses, disabledTheses,
                       accepted, advised>>
        /\ theses' = [theses EXCEPT ![t] = row]
        /\ thesisCopies' = [thesisCopies EXCEPT ![s][t] = row]
        /\ theses[t].state = "ABSENT"
    BY <1>3 DEF CreateThesis, Keep, records
  <2>2. row \in ThesisRow
    BY DEF ThesisRow, ThesisStates
  <2>3. ThesisSound(t, row.state, row.capital, starts, accepted)
    BY DEF ThesisSound, Funded
  <2>4. LadderTypeOK'
    BY <2>1, <2>2 DEF LadderInv, LadderTypeOK
  <2>5. \A u \in Theses : theses'[u] = IF u = t THEN row ELSE theses[u]
    BY <2>1 DEF LadderInv, LadderTypeOK
  <2>6. \A q \in Sessions, u \in Theses : thesisCopies'[q][u] # NoCopy =>
           thesisCopies'[q][u] = IF q = s /\ u = t THEN row ELSE thesisCopies[q][u]
    BY <2>1 DEF LadderInv, LadderTypeOK
  <2>7. \A q \in Sessions : thesisCopies[q][t] = NoCopy
    BY <2>1 DEF LadderInv
  <2>8. \A u \in Theses :
           /\ ThesisSound(u, theses'[u].state, theses'[u].capital, starts', accepted')
           /\ theses'[u].state = "ABSENT" => theses'[u].capital = 0
           /\ theses'[u].capital \in {0, TestCapital}
           /\ advised'[u] \subseteq {NextRung(TestCapital)}
    BY <2>1, <2>3, <2>5 DEF LadderInv
  <2>9. ASSUME NEW q \in Sessions, NEW u \in Theses, thesisCopies'[q][u] # NoCopy
        PROVE  /\ ThesisSound(u, thesisCopies'[q][u].state, thesisCopies'[q][u].capital,
                              starts', accepted')
               /\ thesisCopies'[q][u].state # "ABSENT" /\ theses'[u].state # "ABSENT"
               /\ thesisCopies'[q][u].capital \in {0, theses'[u].capital}
               /\ thesisCopies'[q][u].capital \in {0, TestCapital}
    <3>1. CASE q = s /\ u = t
      BY <2>1, <2>3, <2>5, <2>6, <2>9, <3>1
    <3>2. CASE ~(q = s /\ u = t)
      BY <2>1, <2>5, <2>6, <2>7, <2>9, <3>2 DEF LadderInv
    <3> QED BY <3>1, <3>2
  <2> QED BY <2>4, <2>8, <2>9 DEF LadderInv
<1> QED BY <1>1, <1>2, <1>3

LEMMA ApprovedFrom ==
  ASSUME NEW state \in ThesisStates, "APPROVED" \in NextStates[state]
  PROVE  state \in {"VALIDATION", "REVIEW"}
<1>1. NextStates[state] = CASE state = "RESEARCH" -> {"BACKTEST", "DISABLED"}
                            [] state = "BACKTEST" -> {"PAPER", "DISABLED"}
                            [] state = "PAPER" -> {"INITIAL_TEST", "DISABLED"}
                            [] state = "INITIAL_TEST" -> {"VALIDATION", "REVIEW", "DISABLED"}
                            [] state = "VALIDATION" -> {"REVIEW", "APPROVED", "DISABLED"}
                            [] state = "REVIEW" -> {"VALIDATION", "APPROVED", "DISABLED"}
                            [] state = "APPROVED" -> {"DISABLED"}
                            [] state = "DISABLED" -> {}
  BY DEF NextStates, ThesisStates
<1> QED BY <1>1 DEF ThesisStates

\* The steps up the ladder and out of it.
LEMMA LadderMoves ==
  ASSUME LadderInv, NEW s \in Sessions, NEW t \in Theses,
         \/ AdvanceToBacktest(s, t) \/ AdvanceToPaper(s, t) \/ StartInitialTest(s, t)
         \/ ApproveThesis(s, t) \/ DisableThesis(s, t)
         \/ \E r \in Reports : EvaluateForValidation(s, t, r)
  PROVE  LadderInv'
<1> USE LadderAssumption
<1> DEFINE copy == thesisCopies[s][t]
<1>1. Holds(thesisCopies, s, t) /\ copy # NoCopy
  BY DEF AdvanceToBacktest, AdvanceToPaper, StartInitialTest, ApproveThesis, DisableThesis,
         EvaluateForValidation, MoveThesis, Holds
<1>2. copy \in ThesisRow /\ copy.state \in ThesisStates
  BY <1>1 DEF LadderInv, LadderTypeOK, ThesisRow
<1>3. ThesisSound(t, copy.state, copy.capital, starts, accepted)
  BY <1>1 DEF LadderInv
<1>4. /\ starts \in [Theses -> Nat] /\ \A u \in Theses : starts[u] <= starts[u]
      /\ accepted \subseteq Theses \X Reports
      /\ hypotheses \subseteq Theses /\ disabledTheses \subseteq Theses
  BY DEF LadderInv, LadderTypeOK
<1>5. CASE AdvanceToBacktest(s, t) \/ AdvanceToPaper(s, t)
  <2>1. PICK to \in {"BACKTEST", "PAPER"} :
           CommitThesis(s, t, [state |-> to, capital |-> copy.capital]) /\ UNCHANGED records
    BY <1>5 DEF AdvanceToBacktest, AdvanceToPaper, MoveThesis, SameCapital
  <2>2. ThesisSound(t, to, copy.capital, starts, accepted)
    BY DEF ThesisSound, Funded
  <2> QED BY <1>1, <1>4, <2>1, <2>2, ThesisCommit DEF records, ThesisStates
<1>6. CASE StartInitialTest(s, t)
  <2>1. /\ CommitThesis(s, t, [state |-> "INITIAL_TEST", capital |-> TestCapital])
        /\ starts' = [starts EXCEPT ![t] = @ + 1]
        /\ UNCHANGED <<hypotheses, disabledTheses, accepted, advised>>
    BY <1>6 DEF StartInitialTest, MoveThesis
  <2>2. /\ starts' \in [Theses -> Nat] /\ starts'[t] > 0
        /\ \A u \in Theses : starts[u] <= starts'[u]
    BY <1>4, <2>1
  <2>3. ThesisSound(t, "INITIAL_TEST", TestCapital, starts', accepted')
    BY <2>2 DEF ThesisSound
  <2> QED BY <1>1, <1>4, <2>1, <2>2, <2>3, ThesisCommit DEF ThesisStates
<1>7. CASE ApproveThesis(s, t)
  <2>1. /\ CommitThesis(s, t, [state |-> "APPROVED", capital |-> copy.capital])
        /\ "APPROVED" \in NextStates[copy.state] /\ UNCHANGED records
    BY <1>7 DEF ApproveThesis, MoveThesis, SameCapital
  <2>2. copy.state \in {"VALIDATION", "REVIEW"}
    BY <1>2, <2>1, ApprovedFrom
  <2>3. ThesisSound(t, "APPROVED", copy.capital, starts, accepted)
    BY <1>3, <2>2 DEF ThesisSound, Funded
  <2> QED BY <1>1, <1>4, <2>1, <2>3, ThesisCommit DEF records, ThesisStates
<1>8. CASE DisableThesis(s, t)
  <2>1. /\ CommitThesis(s, t, [state |-> "DISABLED", capital |-> copy.capital])
        /\ disabledTheses' = disabledTheses \cup {t}
        /\ UNCHANGED <<starts, hypotheses, accepted, advised>>
    BY <1>2, <1>8 DEF DisableThesis, ThesisRow
  <2>2. ThesisSound(t, "DISABLED", copy.capital, starts, accepted)
    BY DEF ThesisSound, Funded
  <2> QED BY <1>1, <1>4, <2>1, <2>2, ThesisCommit DEF ThesisStates
<1>9. ASSUME NEW r \in Reports, EvaluateForValidation(s, t, r) PROVE LadderInv'
  <2>1. /\ CommitThesis(s, t, [state |-> "VALIDATION", capital |-> copy.capital])
        /\ copy.state = "INITIAL_TEST" /\ Passes(r)
        /\ accepted' = accepted \cup {<<t, r>>}
        /\ UNCHANGED <<starts, hypotheses, disabledTheses, advised>>
    BY <1>9 DEF EvaluateForValidation, MoveThesis, SameCapital
  <2>2. ThesisSound(t, "VALIDATION", copy.capital, starts', accepted')
    <3>1. copy.capital = TestCapital /\ starts'[t] > 0
      BY <1>3, <2>1 DEF ThesisSound, Funded
    <3>2. <<t, r>> \in accepted' /\ r.operations >= MinOperations /\ r.drawdown <= MaxDrawdown
      BY <2>1 DEF Passes
    <3>3. \E a \in accepted' : a[1] = t /\ a[2].operations >= MinOperations
                                         /\ a[2].drawdown <= MaxDrawdown
      <4>1. <<t, r>>[1] = t /\ <<t, r>>[2] = r
        OBVIOUS
      <4>2. PICK a \in accepted' : a = <<t, r>>
        BY <3>2
      <4> QED BY <3>2, <4>1, <4>2
    <3> QED BY <3>1, <3>3 DEF ThesisSound
  <2>3. accepted' \subseteq Theses \X Reports /\ accepted \subseteq accepted'
    BY <1>4, <2>1
  <2> QED BY <1>1, <1>4, <2>1, <2>2, <2>3, ThesisCommit DEF ThesisStates
<1> QED BY <1>5, <1>6, <1>7, <1>8, <1>9

LEMMA LadderStepInv == LadderInv /\ [LadderNext]_tvars => LadderInv'
<1> SUFFICES ASSUME LadderInv, [LadderNext]_tvars PROVE LadderInv'
  OBVIOUS
<1>1. /\ hypotheses \subseteq Theses /\ disabledTheses \subseteq Theses
      /\ ownerDead \in BOOLEAN /\ ownerCopies \in [Sessions -> BOOLEAN \cup {NoCopy}]
  BY DEF LadderInv, LadderTypeOK
<1>2. CASE UNCHANGED tvars
  BY <1>1, <1>2, LadderKept DEF tvars
<1>3. CASE OwnerDies
  BY <1>1, <1>3, LadderKept DEF OwnerDies, records
<1>4. ASSUME NEW s \in Sessions, LoadOwner(s) PROVE LadderInv'
  <2>1. ownerCopies' \in [Sessions -> BOOLEAN \cup {NoCopy}]
    BY <1>1, <1>4 DEF LoadOwner
  <2> QED BY <1>1, <1>4, <2>1, LadderKept DEF LoadOwner, records
<1>5. ASSUME NEW s \in Sessions, NEW t \in Theses, ProposeNewTest(s, t) PROVE LadderInv'
  <2>1. hypotheses' \subseteq Theses
    BY <1>1, <1>5 DEF ProposeNewTest
  <2> QED BY <1>1, <1>5, <2>1, LadderKept DEF ProposeNewTest
<1>6. ASSUME NEW s \in Sessions, NEW t \in Theses, AskEscalation(s, t) PROVE LadderInv'
  <2> DEFINE copy == thesisCopies[s][t]
  <2>1. /\ copy # NoCopy /\ copy.state = "APPROVED"
        /\ advised' = [advised EXCEPT ![t] = @ \cup {NextRung(copy.capital)}]
        /\ UNCHANGED <<theses, ownerDead, thesisCopies, ownerCopies, starts, hypotheses,
                       disabledTheses, accepted>>
    BY <1>6 DEF AskEscalation, Holds, SameCapital
  <2>2. copy.capital = TestCapital
    BY <2>1 DEF LadderInv, ThesisSound, Funded
  <2>3. LadderTypeOK'
    BY <2>1, <2>2 DEF LadderInv, LadderTypeOK
  <2>4. \A u \in Theses : advised'[u] \subseteq {NextRung(TestCapital)}
    BY <2>1, <2>2 DEF LadderInv, LadderTypeOK
  <2> QED BY <2>1, <2>3, <2>4 DEF LadderInv
<1> QED
  BY <1>2, <1>3, <1>4, <1>5, <1>6, LadderCopies, LadderMoves DEF LadderNext

\* A commit that takes a thesis out of DISABLED is that of a stale copy.
LEMMA ThesisReopened ==
  ASSUME LadderInv, NEW s \in Sessions, NEW u \in Theses, NEW t \in Theses,
         Holds(thesisCopies, s, u), NEW now \in ThesisRow, CommitThesis(s, u, now),
         now.state # "DISABLED" => thesisCopies[s][u].state # "DISABLED",
         theses[t].state = "DISABLED", theses'[t].state # "DISABLED"
  PROVE  ByStaleCopy(thesisCopies, thesisCopies', theses, t)
<1> DEFINE old == thesisCopies[s][u]
<1>1. old \in ThesisRow /\ theses[u] \in ThesisRow
  BY DEF LadderInv, LadderTypeOK, Holds
<1>2. /\ theses' = [theses EXCEPT ![u] = Flush(theses[u], old, now)]
      /\ thesisCopies' = [thesisCopies EXCEPT ![s][u] = now]
  BY DEF CommitThesis, Write, Keep
<1>3. t = u
  BY <1>2 DEF LadderInv, LadderTypeOK
<1>4. now.state # old.state /\ now.state # "DISABLED" /\ old.state # "DISABLED"
  BY <1>1, <1>2, <1>3, ThesisFlush DEF LadderInv, LadderTypeOK
<1>5. thesisCopies[s][t] \notin {NoCopy, theses[t]}
  BY <1>3, <1>4 DEF Holds
<1>6. thesisCopies'[s][t] = now
  BY <1>2, <1>3 DEF LadderInv, LadderTypeOK
<1>7. now \notin {NoCopy, thesisCopies[s][t]}
  BY <1>1, <1>3, <1>4, ThesisCopyAssumption
<1> QED BY <1>5, <1>6, <1>7 DEF ByStaleCopy

LEMMA ThesisDisableStep ==
  ASSUME LadderInv, [LadderNext]_tvars, NEW t \in Theses,
         theses[t].state = "DISABLED", theses'[t].state # "DISABLED"
  PROVE  ByStaleCopy(thesisCopies, thesisCopies', theses, t)
<1> USE LadderAssumption
<1> DEFINE Stale == ByStaleCopy(thesisCopies, thesisCopies', theses, t)
<1>1. CASE theses' = theses
  BY <1>1
<1>2. ASSUME NEW s \in Sessions, NEW u \in Theses, CreateThesis(s, u) PROVE Stale
  BY <1>2 DEF CreateThesis, LadderInv, LadderTypeOK
<1>3. ASSUME NEW s \in Sessions, NEW u \in Theses, NEW to \in ThesisStates,
             NEW capital \in Nat, MoveThesis(s, u, to, capital)
      PROVE  Stale
  <2>1. thesisCopies[s][u].state # "DISABLED"
    BY <1>3 DEF MoveThesis, NextStates
  <2>2. [state |-> to, capital |-> capital] \in ThesisRow
    BY DEF ThesisRow
  <2> QED BY <1>3, <2>1, <2>2, ThesisReopened DEF MoveThesis
<1>4. ASSUME NEW s \in Sessions, NEW u \in Theses,
             \/ AdvanceToBacktest(s, u) \/ AdvanceToPaper(s, u) \/ StartInitialTest(s, u)
             \/ ApproveThesis(s, u) \/ \E r \in Reports : EvaluateForValidation(s, u, r)
      PROVE  Stale
  <2>1. thesisCopies[s][u] # NoCopy => SameCapital(s, u) \in Nat
    BY DEF SameCapital, LadderInv, LadderTypeOK, ThesisRow
  <2>2. thesisCopies[s][u] # NoCopy
    BY <1>4 DEF AdvanceToBacktest, AdvanceToPaper, StartInitialTest, ApproveThesis,
                EvaluateForValidation, MoveThesis, Holds
  <2> QED
    BY <1>3, <1>4, <2>1, <2>2
    DEF AdvanceToBacktest, AdvanceToPaper, StartInitialTest, ApproveThesis,
        EvaluateForValidation, ThesisStates
<1>5. ASSUME NEW s \in Sessions, NEW u \in Theses, DisableThesis(s, u) PROVE Stale
  <2> DEFINE now == [thesisCopies[s][u] EXCEPT !.state = "DISABLED"]
  <2>1. Holds(thesisCopies, s, u) /\ CommitThesis(s, u, now)
    BY <1>5 DEF DisableThesis
  <2>2. thesisCopies[s][u] \in ThesisRow
    BY <2>1 DEF Holds, LadderInv, LadderTypeOK
  <2>3. now \in ThesisRow /\ now.state = "DISABLED"
    BY <2>2 DEF ThesisRow, ThesisStates
  <2> HIDE DEF now
  <2> QED BY <2>1, <2>3, ThesisReopened
<1> QED
  BY <1>1, <1>2, <1>4, <1>5
  DEF LadderNext, tvars, OwnerDies, LoadOwner, ForgetTheses, LoadThesis, ProposeNewTest,
      AskEscalation

(***************************************************************************)
(* Protocols.                                                              *)
(***************************************************************************)
LEMMA MinOfTwo ==
  ASSUME NEW a \in Int, NEW b \in Int
  PROVE  Min({a, b}) \in Int /\ Min({a, b}) <= a /\ Min({a, b}) <= b
<1>1. \E x \in {a, b} : \A y \in {a, b} : x <= y
  <2>1. CASE a <= b
    BY <2>1
  <2>2. CASE b <= a
    BY <2>2
  <2> QED BY <2>1, <2>2
<1> QED BY <1>1 DEF Min

LEMMA MaxOfZero ==
  ASSUME NEW b \in Int, b <= 100
  PROVE  Max({0, b}) \in 0..100
<1>1. \E x \in {0, b} : \A y \in {0, b} : x >= y
  <2>1. CASE 0 >= b
    BY <2>1
  <2>2. CASE b >= 0
    BY <2>2
  <2> QED BY <2>1, <2>2
<1> QED BY <1>1 DEF Max

\* The score is a percentage, whatever the evidence and the weights.
LEMMA ScoreRange ==
  ASSUME NEW e, e.audits \in Nat, e.incidents \in Nat, e.age \in Nat, e.tvl \in Nat
  PROVE  RiskScore(e) \in 0..100
<1> USE ScoreAssumption
<1>1. /\ Baseline \in Nat /\ PerAudit \in Nat /\ MaxAudit \in Nat /\ PerIncident \in Nat
      /\ MaxAge \in Nat /\ MaxTvl \in Nat
      /\ FullAge \in Nat \ {0} /\ FullTvl \in Nat \ {0}
  OBVIOUS
<1>2. /\ e.audits * PerAudit \in Int /\ e.incidents * PerIncident \in Int
      /\ MaxAudit \in Int
  BY <1>1
<1>3. Min({e.audits * PerAudit, MaxAudit}) \in Int
  BY <1>2, MinOfTwo, Zenon
<1>4. ASSUME NEW x \in Nat, NEW full \in Nat \ {0}, NEW most \in Nat
      PROVE  Credit(x, full, most) \in Int
  <2>1. x \in Int /\ full \in Int
    OBVIOUS
  <2>2. Min({x, full}) \in Int
    BY <2>1, MinOfTwo, Zenon
  <2> DEFINE least == Min({x, full})
  <2>3. least \in Int
    BY <2>2
  <2> HIDE DEF least
  <2>4. (least * most) \div full \in Int
    BY <2>3
  <2> QED BY <2>4 DEF Credit, least
<1>5. Credit(e.age, FullAge, MaxAge) \in Int /\ Credit(e.tvl, FullTvl, MaxTvl) \in Int
  BY <1>1, <1>4
<1> DEFINE n == Baseline - Min({e.audits * PerAudit, MaxAudit}) + e.incidents * PerIncident
                  - Credit(e.age, FullAge, MaxAge) - Credit(e.tvl, FullTvl, MaxTvl)
<1>6. n \in Int
  BY <1>1, <1>2, <1>3, <1>5
<1> HIDE DEF n
<1>7. Min({100, n}) \in Int /\ Min({100, n}) <= 100
  <2>1. 100 \in Int
    OBVIOUS
  <2> QED BY <1>6, <2>1, MinOfTwo, Zenon
<1>8. Clamped(n) \in 0..100
  BY <1>7, MaxOfZero, Zenon DEF Clamped
<1> QED BY <1>8 DEF RiskScore, n

LEMMA GivenRow ==
  ASSUME NEW row \in ProtocolRow, NEW u \in Updates
  PROVE  /\ Given(row, u) \in ProtocolRow
         /\ Given(row, u).status = row.status
BY ScoreAssumption DEF Given, ProtocolRow, Fields

LEMMA UpdatedRow ==
  ASSUME NEW row \in ProtocolRow, NEW u \in Updates
  PROVE  /\ Updated(row, u) \in ProtocolRow
         /\ Updated(row, u).status = row.status
         /\ Updated(row, u).score # NoScore
         /\ Updated(row, u).score = RiskScore(Updated(row, u))
<1> DEFINE g == Given(row, u)
<1>1. g \in ProtocolRow /\ g.status = row.status
  BY GivenRow
<1> HIDE DEF g
<1>2. RiskScore(g) \in 0..100
  <2>1. g.audits \in Nat /\ g.incidents \in Nat /\ g.age \in Nat /\ g.tvl \in Nat
    BY <1>1 DEF ProtocolRow
  <2> QED BY <2>1, ScoreRange
<1> DEFINE now == [g EXCEPT !.score = RiskScore(g)]
<1>3. /\ now \in ProtocolRow /\ now.status = g.status /\ now.score = RiskScore(g)
      /\ now.audits = g.audits /\ now.incidents = g.incidents
      /\ now.age = g.age /\ now.tvl = g.tvl
  BY <1>1, <1>2 DEF ProtocolRow
<1>4. RiskScore(now) = RiskScore(g)
  BY <1>3 DEF RiskScore
<1>5. NoScore \notin Int
  BY ScoreAssumption
<1>6. Updated(row, u) = now
  BY DEF Updated, g
<1> QED BY <1>1, <1>2, <1>3, <1>4, <1>5, <1>6

LEMMA ProtocolFlush ==
  ASSUME NEW row \in ProtocolRow, NEW loaded \in ProtocolRow, NEW now \in ProtocolRow
  PROVE  /\ Flush(row, loaded, now) \in ProtocolRow
         /\ \A f \in {"status", "score", "audits", "incidents", "age", "tvl"} :
               Flush(row, loaded, now)[f] = IF now[f] # loaded[f] THEN now[f] ELSE row[f]
BY DEF Flush, ProtocolRow

LEMMA ProtocolFlushSame ==
  ASSUME NEW row \in ProtocolRow, NEW now \in ProtocolRow
  PROVE  Flush(row, row, now) = now
BY DEF Flush, ProtocolRow

\* What a row of p may say, by the audit rows there are.
ProtocolSound(p, status, score, flags, disabled) ==
  /\ status = "PAPER_ELIGIBLE" => score # NoScore \/ p \in flags
  /\ status = "REVIEW_REQUIRED" => p \in flags
  /\ status = "DISABLED" => p \in disabled

\* A score is never taken back: no session holds a scored row of a protocol
\* that the table has without a score.
ProtocolsInv ==
  /\ ProtocolsTypeOK
  /\ \A p \in Protocols :
        /\ ProtocolSound(p, protocols[p].status, protocols[p].score, flagged, disabledProtocols)
        /\ protocols[p].status = "ABSENT" => protocols[p].score = NoScore
  /\ \A s \in Sessions, p \in Protocols :
        protocolCopies[s][p] # NoCopy =>
           /\ ProtocolSound(p, protocolCopies[s][p].status, protocolCopies[s][p].score,
                            flagged, disabledProtocols)
           /\ protocols[p].status # "ABSENT" /\ protocolCopies[s][p].status # "ABSENT"
           /\ protocolCopies[s][p].score # NoScore => protocols[p].score # NoScore

LEMMA NoRowType ==
  /\ NoRow \in ProtocolRow /\ Registered \in ProtocolRow
  /\ NoRow.status = "ABSENT" /\ NoRow.score = NoScore
  /\ Registered.status = "RESEARCH_ONLY" /\ Registered.score = NoScore
BY DEF NoRow, Registered, ProtocolRow, Statuses

LEMMA ProtocolsInitInv == ProtocolsInit => ProtocolsInv
<1> SUFFICES ASSUME ProtocolsInit PROVE ProtocolsInv
  OBVIOUS
<1>1. ProtocolsTypeOK
  BY NoRowType DEF ProtocolsInit, ProtocolsTypeOK, NoCopies
<1>2. \A p \in Protocols : protocols[p] = NoRow
  BY DEF ProtocolsInit
<1>3. \A s \in Sessions, p \in Protocols : protocolCopies[s][p] = NoCopy
  BY DEF ProtocolsInit, NoCopies
<1> QED BY <1>1, <1>2, <1>3, NoRowType DEF ProtocolsInv, ProtocolSound

\* A commit of a sound row by a session that never takes a score back.
LEMMA ProtocolCommit ==
  ASSUME ProtocolsInv, NEW s \in Sessions, NEW p \in Protocols,
         Holds(protocolCopies, s, p), NEW now \in ProtocolRow, now.status # "ABSENT",
         now.score # protocolCopies[s][p].score => now.score # NoScore,
         CommitProtocol(s, p, now),
         flagged \subseteq flagged', disabledProtocols \subseteq disabledProtocols',
         flagged' \subseteq Protocols, disabledProtocols' \subseteq Protocols,
         ProtocolSound(p, now.status, now.score, flagged', disabledProtocols')
  PROVE  ProtocolsInv'
<1> DEFINE old == protocolCopies[s][p]
           row == Flush(protocols[p], old, now)
           Sound(q, status, score) == ProtocolSound(q, status, score, flagged', disabledProtocols')
<1>1. old \in ProtocolRow /\ protocols[p] \in ProtocolRow
  BY DEF ProtocolsInv, ProtocolsTypeOK, Holds
<1>2. /\ protocols' = [protocols EXCEPT ![p] = row]
      /\ protocolCopies' = [protocolCopies EXCEPT ![s][p] = now]
      /\ registering' = registering
  BY DEF CommitProtocol, Write, Keep
<1>3. /\ row \in ProtocolRow
      /\ row.status = IF now.status # old.status THEN now.status ELSE protocols[p].status
      /\ row.score = IF now.score # old.score THEN now.score ELSE protocols[p].score
  BY <1>1, ProtocolFlush
<1>4. ProtocolsTypeOK'
  BY <1>2, <1>3 DEF ProtocolsInv, ProtocolsTypeOK
<1>5. \A q \in Protocols : \A status, score :
         ProtocolSound(q, status, score, flagged, disabledProtocols) => Sound(q, status, score)
  BY DEF ProtocolSound
<1>6. /\ protocols[p].status # "ABSENT"
      /\ old.score # NoScore => protocols[p].score # NoScore
  BY DEF ProtocolsInv, Holds
<1>7. /\ row.status # "ABSENT"
      /\ now.score # NoScore => row.score # NoScore
      /\ protocols[p].score # NoScore => row.score # NoScore
  BY <1>3, <1>6
<1>8. Sound(p, row.status, row.score)
  <2>1. Sound(p, protocols[p].status, protocols[p].score)
    BY <1>5 DEF ProtocolsInv
  <2> QED BY <1>3, <1>7, <2>1 DEF ProtocolSound
<1>9. \A q \in Protocols :
         /\ Sound(q, protocols'[q].status, protocols'[q].score)
         /\ protocols'[q].status = "ABSENT" => protocols'[q].score = NoScore
  BY <1>2, <1>5, <1>7, <1>8 DEF ProtocolsInv, ProtocolsTypeOK
<1>10. ASSUME NEW r \in Sessions, NEW q \in Protocols, protocolCopies'[r][q] # NoCopy
       PROVE  /\ Sound(q, protocolCopies'[r][q].status, protocolCopies'[r][q].score)
              /\ protocols'[q].status # "ABSENT" /\ protocolCopies'[r][q].status # "ABSENT"
              /\ protocolCopies'[r][q].score # NoScore => protocols'[q].score # NoScore
  <2>1. CASE r = s /\ q = p
    <3>1. protocolCopies'[r][q] = now /\ protocols'[q] = row
      BY <1>2, <2>1 DEF ProtocolsInv, ProtocolsTypeOK
    <3> QED BY <1>7, <2>1, <3>1
  <2>2. CASE ~(r = s /\ q = p)
    <3>1. protocolCopies'[r][q] = protocolCopies[r][q]
      BY <1>2, <2>2 DEF ProtocolsInv, ProtocolsTypeOK
    <3>2. /\ protocols'[q].status # "ABSENT"
          /\ protocolCopies[r][q].score # NoScore => protocols'[q].score # NoScore
      BY <1>2, <1>7, <1>10, <3>1 DEF ProtocolsInv, ProtocolsTypeOK
    <3> QED BY <1>5, <1>10, <3>1, <3>2 DEF ProtocolsInv
  <2> QED BY <2>1, <2>2
<1> QED BY <1>4, <1>9, <1>10 DEF ProtocolsInv

\* Reading a row keeps a sound copy of it; so does registering one.
LEMMA ProtocolReads ==
  ASSUME ProtocolsInv, NEW s \in Sessions, NEW p \in Protocols,
         FindProtocol(s, p) \/ LoadProtocol(s, p) \/ InsertProtocol(s, p)
  PROVE  ProtocolsInv'
<1>1. CASE FindProtocol(s, p) \/ LoadProtocol(s, p)
  <2>1. /\ protocolCopies' = [protocolCopies EXCEPT ![s][p] = protocols[p]]
        /\ UNCHANGED <<protocols, flagged, disabledProtocols, registering>>
        /\ protocols[p].status # "ABSENT"
    BY <1>1 DEF FindProtocol, LoadProtocol, Keep, Known, audit
  <2>2. ProtocolsTypeOK'
    BY <2>1 DEF ProtocolsInv, ProtocolsTypeOK
  <2>3. \A r \in Sessions, q \in Protocols : protocolCopies'[r][q] # NoCopy =>
           protocolCopies'[r][q] = IF r = s /\ q = p THEN protocols[p] ELSE protocolCopies[r][q]
    BY <2>1 DEF ProtocolsInv, ProtocolsTypeOK
  <2> QED BY <2>1, <2>2, <2>3 DEF ProtocolsInv
<1>2. CASE InsertProtocol(s, p)
  <2>1. /\ protocols' = [protocols EXCEPT ![p] = Registered]
        /\ protocolCopies' = [protocolCopies EXCEPT ![s][p] = Registered]
        /\ registering' = registering \ {s}
        /\ UNCHANGED <<flagged, disabledProtocols>>
        /\ protocols[p].status = "ABSENT"
    BY <1>2 DEF InsertProtocol, Keep, Known, audit
  <2>2. ProtocolsTypeOK'
    BY <2>1, NoRowType DEF ProtocolsInv, ProtocolsTypeOK
  <2>3. \A q \in Protocols : protocols'[q] = IF q = p THEN Registered ELSE protocols[q]
    BY <2>1 DEF ProtocolsInv, ProtocolsTypeOK
  <2>4. \A r \in Sessions, q \in Protocols : protocolCopies'[r][q] # NoCopy =>
           protocolCopies'[r][q] = IF r = s /\ q = p THEN Registered ELSE protocolCopies[r][q]
    BY <2>1 DEF ProtocolsInv, ProtocolsTypeOK
  <2>5. \A r \in Sessions : protocolCopies[r][p] = NoCopy
    BY <2>1 DEF ProtocolsInv
  <2>6. ProtocolSound(p, Registered.status, Registered.score, flagged, disabledProtocols)
    BY NoRowType DEF ProtocolSound
  <2>7. \A q \in Protocols :
           /\ ProtocolSound(q, protocols'[q].status, protocols'[q].score, flagged', disabledProtocols')
           /\ protocols'[q].status = "ABSENT" => protocols'[q].score = NoScore
    BY <2>1, <2>3, <2>6, NoRowType DEF ProtocolsInv
  <2>8. ASSUME NEW r \in Sessions, NEW q \in Protocols, protocolCopies'[r][q] # NoCopy
        PROVE  /\ ProtocolSound(q, protocolCopies'[r][q].status, protocolCopies'[r][q].score,
                                flagged', disabledProtocols')
               /\ protocols'[q].status # "ABSENT" /\ protocolCopies'[r][q].status # "ABSENT"
               /\ protocolCopies'[r][q].score # NoScore => protocols'[q].score # NoScore
    <3>1. CASE r = s /\ q = p
      BY <2>1, <2>3, <2>4, <2>6, <2>8, <3>1, NoRowType
    <3>2. CASE ~(r = s /\ q = p)
      BY <2>1, <2>3, <2>4, <2>5, <2>8, <3>2 DEF ProtocolsInv
    <3> QED BY <3>1, <3>2
  <2> QED BY <2>2, <2>7, <2>8 DEF ProtocolsInv
<1> QED BY <1>1, <1>2

LEMMA ProtocolsStepInv == ProtocolsInv /\ [ProtocolsNext]_pvars => ProtocolsInv'
<1> SUFFICES ASSUME ProtocolsInv, [ProtocolsNext]_pvars PROVE ProtocolsInv'
  OBVIOUS
<1>1. CASE UNCHANGED pvars
  BY <1>1 DEF pvars, ProtocolsInv, ProtocolsTypeOK
<1>2. ASSUME NEW s \in Sessions, LookForProtocol(s) PROVE ProtocolsInv'
  BY <1>2 DEF LookForProtocol, audit, ProtocolsInv, ProtocolsTypeOK
<1>3. ASSUME NEW s \in Sessions, ForgetProtocols(s) PROVE ProtocolsInv'
  BY <1>3 DEF ForgetProtocols, Forget, audit, ProtocolsInv, ProtocolsTypeOK
<1>4. ASSUME NEW s \in Sessions, NEW p \in Protocols,
             FindProtocol(s, p) \/ LoadProtocol(s, p) \/ InsertProtocol(s, p)
      PROVE  ProtocolsInv'
  BY <1>4, ProtocolReads
<1>5. ASSUME NEW s \in Sessions, NEW p \in Protocols, Holds(protocolCopies, s, p)
      PROVE  /\ protocolCopies[s][p] \in ProtocolRow
             /\ protocolCopies[s][p].status # "ABSENT"
             /\ ProtocolSound(p, protocolCopies[s][p].status, protocolCopies[s][p].score,
                              flagged, disabledProtocols)
             /\ flagged \subseteq Protocols /\ disabledProtocols \subseteq Protocols
  BY <1>5 DEF Holds, ProtocolsInv, ProtocolsTypeOK
<1>6. ASSUME NEW s \in Sessions, NEW p \in Protocols, NEW u \in Updates,
             UpdateEvidence(s, p, u)
      PROVE  ProtocolsInv'
  <2> DEFINE now == Updated(protocolCopies[s][p], u)
  <2>1. /\ Holds(protocolCopies, s, p) /\ CommitProtocol(s, p, now)
        /\ flagged' = flagged /\ disabledProtocols' = disabledProtocols
    BY <1>6 DEF UpdateEvidence, audit
  <2>2. /\ now \in ProtocolRow /\ now.score # NoScore
        /\ now.status = protocolCopies[s][p].status
    BY <1>5, <2>1, UpdatedRow
  <2> HIDE DEF now
  <2>3. ProtocolSound(p, now.status, now.score, flagged', disabledProtocols')
    BY <1>5, <2>1, <2>2 DEF ProtocolSound
  <2> QED BY <1>5, <2>1, <2>2, <2>3, ProtocolCommit
<1>7. ASSUME NEW s \in Sessions, NEW p \in Protocols, NEW status \in Statuses,
             Holds(protocolCopies, s, p),
             CommitProtocol(s, p, [protocolCopies[s][p] EXCEPT !.status = status]),
             flagged \subseteq flagged', disabledProtocols \subseteq disabledProtocols',
             flagged' \subseteq Protocols, disabledProtocols' \subseteq Protocols,
             ProtocolSound(p, status, protocolCopies[s][p].score, flagged', disabledProtocols')
      PROVE  ProtocolsInv'
  <2> DEFINE now == [protocolCopies[s][p] EXCEPT !.status = status]
  <2>1. /\ now \in ProtocolRow /\ now.status = status /\ status # "ABSENT"
        /\ now.score = protocolCopies[s][p].score
    BY <1>5, <1>7 DEF ProtocolRow, Statuses
  <2>2. CommitProtocol(s, p, now)
    BY <1>7
  <2> HIDE DEF now
  <2> QED BY <1>7, <2>1, <2>2, ProtocolCommit
<1>8. ASSUME NEW s \in Sessions, NEW p \in Protocols,
             EvaluateForPaperEligibility(s, p) \/ ClearReview(s, p)
      PROVE  ProtocolsInv'
  <2>1. /\ Holds(protocolCopies, s, p)
        /\ CommitProtocol(s, p, [protocolCopies[s][p] EXCEPT !.status = "PAPER_ELIGIBLE"])
        /\ flagged' = flagged /\ disabledProtocols' = disabledProtocols
        /\ \/ protocolCopies[s][p].score # NoScore
           \/ protocolCopies[s][p].status = "REVIEW_REQUIRED"
    BY <1>8 DEF EvaluateForPaperEligibility, ClearReview, MayBecomeEligible, audit
  <2>2. ProtocolSound(p, "PAPER_ELIGIBLE", protocolCopies[s][p].score,
                      flagged', disabledProtocols')
    BY <1>5, <2>1 DEF ProtocolSound
  <2> QED BY <1>5, <1>7, <2>1, <2>2 DEF Statuses
<1>9. ASSUME NEW s \in Sessions, NEW p \in Protocols, FlagForReview(s, p)
      PROVE  ProtocolsInv'
  <2>1. /\ Holds(protocolCopies, s, p)
        /\ CommitProtocol(s, p, [protocolCopies[s][p] EXCEPT !.status = "REVIEW_REQUIRED"])
        /\ flagged' = flagged \cup {p} /\ disabledProtocols' = disabledProtocols
    BY <1>9 DEF FlagForReview
  <2>2. ProtocolSound(p, "REVIEW_REQUIRED", protocolCopies[s][p].score,
                      flagged', disabledProtocols')
    BY <2>1 DEF ProtocolSound
  <2> QED BY <1>5, <1>7, <2>1, <2>2 DEF Statuses
<1>10. ASSUME NEW s \in Sessions, NEW p \in Protocols, DisableProtocol(s, p)
       PROVE  ProtocolsInv'
  <2>1. /\ Holds(protocolCopies, s, p)
        /\ CommitProtocol(s, p, [protocolCopies[s][p] EXCEPT !.status = "DISABLED"])
        /\ flagged' = flagged /\ disabledProtocols' = disabledProtocols \cup {p}
    BY <1>10 DEF DisableProtocol
  <2>2. ProtocolSound(p, "DISABLED", protocolCopies[s][p].score,
                      flagged', disabledProtocols')
    BY <2>1 DEF ProtocolSound
  <2> QED BY <1>5, <1>7, <2>1, <2>2 DEF Statuses
<1> QED
  BY <1>1, <1>2, <1>3, <1>4, <1>6, <1>8, <1>9, <1>10 DEF ProtocolsNext

\* What every commit of a row has in common: one row and one copy change.
LEMMA ProtocolCommitted ==
  ASSUME ProtocolsInv, NEW s \in Sessions, NEW q \in Protocols,
         Holds(protocolCopies, s, q), NEW now \in ProtocolRow, CommitProtocol(s, q, now),
         NEW p \in Protocols, protocols'[p] # protocols[p]
  PROVE  /\ p = q /\ protocolCopies[s][p] \in ProtocolRow /\ protocols[p] \in ProtocolRow
         /\ protocols'[p] = Flush(protocols[p], protocolCopies[s][p], now)
         /\ protocolCopies[s][p] # protocols[p] /\ protocolCopies[s][p] # now
               => ByStaleCopy(protocolCopies, protocolCopies', protocols, p)
<1>1. /\ protocols' = [protocols EXCEPT ![q] = Flush(protocols[q], protocolCopies[s][q], now)]
      /\ protocolCopies' = [protocolCopies EXCEPT ![s][q] = now]
  BY DEF CommitProtocol, Write, Keep
<1>2. p = q
  BY <1>1 DEF ProtocolsInv, ProtocolsTypeOK
<1>3. protocolCopies[s][p] \in ProtocolRow /\ protocols[p] \in ProtocolRow
  BY <1>2 DEF Holds, ProtocolsInv, ProtocolsTypeOK
<1>4. /\ protocols'[p] = Flush(protocols[p], protocolCopies[s][p], now)
      /\ protocolCopies'[s][p] = now
  BY <1>1, <1>2 DEF ProtocolsInv, ProtocolsTypeOK
<1>5. now # NoCopy /\ protocolCopies[s][p] # NoCopy
  BY <1>3, ProtocolCopyAssumption
<1> QED BY <1>2, <1>3, <1>4, <1>5 DEF ByStaleCopy

ScoreAgrees(row) == row.score \in {NoScore, RiskScore(row)}

\* Commits that break the agreement of score and evidence, or end a disabling,
\* are those of a session whose copy was not the row.
LEMMA ProtocolBroken ==
  ASSUME ProtocolsInv, NEW s \in Sessions, NEW q \in Protocols,
         Holds(protocolCopies, s, q), NEW now \in ProtocolRow, CommitProtocol(s, q, now),
         ScoreAgrees(protocolCopies[s][q]) => ScoreAgrees(now),
         now.status # "DISABLED" => protocolCopies[s][q].status # "DISABLED",
         NEW p \in Protocols,
         \/ ScoreAgrees(protocols[p]) /\ ~ScoreAgrees(protocols'[p])
         \/ protocols[p].status = "DISABLED" /\ protocols'[p].status # "DISABLED"
  PROVE  ByStaleCopy(protocolCopies, protocolCopies', protocols, p)
<1> DEFINE old == protocolCopies[s][p]
           row == protocols[p]
<1>1. protocols'[p] # row
  OBVIOUS
<1>2. /\ p = q /\ old \in ProtocolRow /\ row \in ProtocolRow
      /\ protocols'[p] = Flush(row, old, now)
      /\ old # row /\ old # now => ByStaleCopy(protocolCopies, protocolCopies', protocols, p)
  BY <1>1, ProtocolCommitted
<1>3. ASSUME old = now PROVE FALSE
  <2>1. Flush(row, old, old) = row
    BY <1>2 DEF Flush, ProtocolRow
  <2> QED BY <1>1, <1>2, <1>3, <2>1
<1>4. ASSUME old = row PROVE FALSE
  <2>1. protocols'[p] = now
    BY <1>2, <1>4, ProtocolFlushSame
  <2> QED BY <1>2, <1>4, <2>1
<1> QED BY <1>2, <1>3, <1>4

LEMMA ProtocolBrokenStep ==
  ASSUME ProtocolsInv, [ProtocolsNext]_pvars, NEW p \in Protocols,
         \/ ScoreAgrees(protocols[p]) /\ ~ScoreAgrees(protocols'[p])
         \/ protocols[p].status = "DISABLED" /\ protocols'[p].status # "DISABLED"
  PROVE  ByStaleCopy(protocolCopies, protocolCopies', protocols, p)
<1> DEFINE Stale == ByStaleCopy(protocolCopies, protocolCopies', protocols, p)
<1>1. CASE protocols' = protocols
  BY <1>1
<1>2. ASSUME NEW s \in Sessions, NEW q \in Protocols, InsertProtocol(s, q) PROVE Stale
  <2>1. protocols'[p] = IF p = q THEN Registered ELSE protocols[p]
    BY <1>2 DEF InsertProtocol, ProtocolsInv, ProtocolsTypeOK
  <2>2. protocols[q].status = "ABSENT"
    BY <1>2 DEF InsertProtocol, Known
  <2> QED BY <2>1, <2>2, NoRowType DEF ScoreAgrees
<1>3. ASSUME NEW s \in Sessions, NEW q \in Protocols, NEW u \in Updates,
             UpdateEvidence(s, q, u)
      PROVE  Stale
  <2> DEFINE now == Updated(protocolCopies[s][q], u)
  <2>1. Holds(protocolCopies, s, q) /\ CommitProtocol(s, q, now)
    BY <1>3 DEF UpdateEvidence
  <2>2. protocolCopies[s][q] \in ProtocolRow
    BY <2>1 DEF Holds, ProtocolsInv, ProtocolsTypeOK
  <2>3. now \in ProtocolRow /\ ScoreAgrees(now) /\ now.status = protocolCopies[s][q].status
    BY <2>2, UpdatedRow DEF ScoreAgrees
  <2> HIDE DEF now
  <2> QED BY <2>1, <2>3, ProtocolBroken
<1>4. ASSUME NEW s \in Sessions, NEW q \in Protocols, NEW status \in Statuses,
             Holds(protocolCopies, s, q),
             CommitProtocol(s, q, [protocolCopies[s][q] EXCEPT !.status = status]),
             status = "DISABLED" \/ protocolCopies[s][q].status # "DISABLED"
      PROVE  Stale
  <2> DEFINE now == [protocolCopies[s][q] EXCEPT !.status = status]
  <2>1. protocolCopies[s][q] \in ProtocolRow
    BY <1>4 DEF Holds, ProtocolsInv, ProtocolsTypeOK
  <2>2. /\ now \in ProtocolRow /\ now.status = status
        /\ now.score = protocolCopies[s][q].score
        /\ now.audits = protocolCopies[s][q].audits
        /\ now.incidents = protocolCopies[s][q].incidents
        /\ now.age = protocolCopies[s][q].age /\ now.tvl = protocolCopies[s][q].tvl
    BY <2>1 DEF ProtocolRow, Statuses
  <2>3. CommitProtocol(s, q, now)
    BY <1>4
  <2> HIDE DEF now
  <2>4. ScoreAgrees(protocolCopies[s][q]) => ScoreAgrees(now)
    BY <2>2 DEF ScoreAgrees, RiskScore
  <2> QED BY <1>4, <2>2, <2>3, <2>4, ProtocolBroken
<1>5. ASSUME NEW s \in Sessions, NEW q \in Protocols,
             \/ EvaluateForPaperEligibility(s, q) \/ FlagForReview(s, q)
             \/ ClearReview(s, q) \/ DisableProtocol(s, q)
      PROVE  Stale
  BY <1>4, <1>5
  DEF EvaluateForPaperEligibility, MayBecomeEligible, FlagForReview, ClearReview,
      DisableProtocol, Statuses
<1> QED
  BY <1>1, <1>2, <1>3, <1>5
  DEF ProtocolsNext, pvars, LookForProtocol, ForgetProtocols, FindProtocol, LoadProtocol

(***************************************************************************)
(* Wallets.                                                                *)
(***************************************************************************)

\* A request under way has a row to insert, at an address nobody it saw has.
WalletsInv ==
  /\ WalletsTypeOK
  /\ \A s \in Sessions :
        /\ requests[s].at # "idle" =>
              requests[s].wallet \in Wallet /\ requests[s].row \in WalletRow
        /\ requests[s].at = "adding" =>
              \A x \in requests[s].saw : x[2] # requests[s].row.address
        /\ requests[s].at = "added" => requests[s].wallet \in OnFile
  /\ \A s \in Sessions, w \in Wallet : walletCopies[s][w] # NoCopy => w \in OnFile

LEMMA WalletsInitInv == WalletsInit => WalletsInv
BY DEF WalletsInit, WalletsInv, WalletsTypeOK, IdleRequest, Request, OnFile, NoCopies

LEMMA WalletFlush ==
  ASSUME NEW row \in WalletRow, NEW loaded \in WalletRow, NEW now \in WalletRow
  PROVE  /\ Flush(row, loaded, now) \in WalletRow
         /\ Flush(row, loaded, now).address =
               IF now.address # loaded.address THEN now.address ELSE row.address
BY DEF Flush, WalletRow

\* A commit touches no request, and neither adds nor removes a wallet.
LEMMA WalletCommit ==
  ASSUME WalletsInv, NEW s \in Sessions, NEW w \in Wallet, Holds(walletCopies, s, w),
         NEW now \in WalletRow, CommitWallet(s, w, now)
  PROVE  /\ wallets \in [Wallet -> WalletRow \cup {NoWallet}]
         /\ walletCopies[s][w] \in WalletRow /\ wallets[w] \in WalletRow
         /\ wallets' = [wallets EXCEPT ![w] = Flush(wallets[w], walletCopies[s][w], now)]
         /\ wallets' \in [Wallet -> WalletRow \cup {NoWallet}]
         /\ walletCopies'[s][w] = now
         /\ OnFile' = OnFile
         /\ addressLog' \in [Wallet -> Seq(Addresses)] => WalletsInv'
<1>1. w \in OnFile /\ walletCopies[s][w] \in WalletRow /\ wallets[w] \in WalletRow
  BY DEF WalletsInv, WalletsTypeOK, Holds, OnFile
<1>2. /\ wallets' = [wallets EXCEPT ![w] = Flush(wallets[w], walletCopies[s][w], now)]
      /\ walletCopies' = [walletCopies EXCEPT ![s][w] = now]
      /\ added' = added /\ requests' = requests
  BY DEF CommitWallet, Write, Keep
<1>3. Flush(wallets[w], walletCopies[s][w], now) \in WalletRow
  BY <1>1, WalletFlush
<1>4. OnFile' = OnFile
  BY <1>1, <1>2, <1>3, WalletRowAssumption DEF WalletsInv, WalletsTypeOK, OnFile
<1>5. /\ wallets' \in [Wallet -> WalletRow \cup {NoWallet}]
      /\ walletCopies' \in [Sessions -> [Wallet -> WalletRow \cup {NoCopy}]]
  BY <1>2, <1>3 DEF WalletsInv, WalletsTypeOK
<1>6. ASSUME addressLog' \in [Wallet -> Seq(Addresses)] PROVE WalletsInv'
  <2>1. \A r \in Sessions, x \in Wallet :
           walletCopies'[r][x] # NoCopy => x \in OnFile
    BY <1>1, <1>2 DEF WalletsInv, WalletsTypeOK
  <2> QED BY <1>2, <1>4, <1>5, <1>6, <2>1 DEF WalletsInv, WalletsTypeOK
<1>7. /\ wallets \in [Wallet -> WalletRow \cup {NoWallet}]
      /\ walletCopies'[s][w] = now
  BY <1>2 DEF WalletsInv, WalletsTypeOK
<1> QED BY <1>1, <1>2, <1>4, <1>5, <1>6, <1>7

\* The rows SetActive and UpdateAddress commit.
LEMMA ChangedWallet ==
  ASSUME NEW row \in WalletRow
  PROVE  /\ \A active \in BOOLEAN : /\ [row EXCEPT !.active = active] \in WalletRow
                                    /\ [row EXCEPT !.active = active].address = row.address
         /\ \A a \in Addresses : /\ [row EXCEPT !.address = a] \in WalletRow
                                 /\ [row EXCEPT !.address = a].address = a
BY DEF WalletRow

LEMMA Logged ==
  ASSUME NEW log \in Seq(Addresses), NEW a \in Addresses
  PROVE  /\ Append(log, a) \in Seq(Addresses) /\ Append(log, a) # log
         /\ Append(log, a)[Len(Append(log, a))] = a
<1>1. /\ Len(Append(log, a)) = Len(log) + 1 /\ Len(log) \in Nat
      /\ Append(log, a)[Len(log) + 1] = a /\ Append(log, a) \in Seq(Addresses)
  OBVIOUS
<1> QED BY <1>1

LEMMA WalletsStepInv == WalletsInv /\ [WalletsNext]_wvars => WalletsInv'
<1> SUFFICES ASSUME WalletsInv, [WalletsNext]_wvars PROVE WalletsInv'
  OBVIOUS
<1> USE WalletsAssumption, KindsAssumption, WalletRowAssumption
<1>1. CASE UNCHANGED wvars
  BY <1>1 DEF wvars, WalletsInv, WalletsTypeOK, OnFile
<1>2. ASSUME NEW s \in Sessions, NEW w \in Wallet, NEW kind \in Kinds, NEW a \in Addresses,
             LookForAddress(s, w, kind, a)
      PROVE  WalletsInv'
  <2> DEFINE row == [type |-> kind.type, watchOnly |-> kind.watchOnly, address |-> a,
                     active |-> TRUE]
             r == [at |-> "adding", wallet |-> w, saw |-> Seen, row |-> row]
  <2>1. row \in WalletRow /\ row.address = a
    BY DEF WalletRow
  <2>2. \A x \in Seen : x \in Wallet \X Addresses /\ x[2] # a
    BY <1>2 DEF Seen, LookForAddress, Taking, AtAddress, OnFile, WalletsInv, WalletsTypeOK,
                WalletRow
  <2>3. r \in Request
    BY <2>1, <2>2 DEF Request
  <2>4. /\ requests' = [requests EXCEPT ![s] = r]
        /\ UNCHANGED <<wallets, added, addressLog, walletCopies, OnFile>>
    BY <1>2 DEF LookForAddress, OnFile
  <2>5. /\ r.at = "adding" /\ r.wallet = w /\ r.row \in WalletRow
        /\ \A x \in r.saw : x[2] # r.row.address
    BY <2>1, <2>2
  <2> HIDE DEF r
  <2> QED BY <2>3, <2>4, <2>5 DEF WalletsInv, WalletsTypeOK
<1>3. ASSUME NEW s \in Sessions, InsertWallet(s) PROVE WalletsInv'
  <2> DEFINE r == requests[s]
             w == r.wallet
  <2>1. w \in Wallet /\ r.row \in WalletRow /\ r \in Request /\ w \notin OnFile
    BY <1>3 DEF InsertWallet, WalletsInv, WalletsTypeOK
  <2>2. /\ wallets' = [wallets EXCEPT ![w] = r.row]
        /\ walletCopies' = [walletCopies EXCEPT ![s][w] = r.row]
        /\ requests' = [requests EXCEPT ![s] = [r EXCEPT !.at = "added"]]
        /\ UNCHANGED <<added, addressLog>>
    BY <1>3 DEF InsertWallet, Keep, WalletsInv, WalletsTypeOK
  <2>3. OnFile' = OnFile \cup {w}
    BY <2>1, <2>2 DEF OnFile, WalletsInv, WalletsTypeOK
  <2>4. /\ [r EXCEPT !.at = "added"] \in Request
        /\ [r EXCEPT !.at = "added"].at = "added"
        /\ [r EXCEPT !.at = "added"].wallet = w
        /\ [r EXCEPT !.at = "added"].row = r.row
    BY <2>1 DEF Request
  <2>5. WalletsTypeOK'
    BY <2>1, <2>2, <2>3, <2>4 DEF WalletsInv, WalletsTypeOK
  <2>6. \A q \in Sessions : requests'[q] = IF q = s THEN [r EXCEPT !.at = "added"]
                                           ELSE requests[q]
    BY <2>2 DEF WalletsInv, WalletsTypeOK
  <2>7. \A q \in Sessions, x \in Wallet : walletCopies'[q][x] # NoCopy => x \in OnFile'
    BY <2>2, <2>3 DEF WalletsInv, WalletsTypeOK
  <2> HIDE DEF r
  <2> QED BY <2>1, <2>3, <2>4, <2>5, <2>6, <2>7 DEF WalletsInv
<1>4. ASSUME NEW s \in Sessions, RecordAdded(s) PROVE WalletsInv'
  <2>1. /\ requests' = [requests EXCEPT ![s] = IdleRequest]
        /\ added' = added \cup {requests[s].wallet}
        /\ UNCHANGED <<wallets, addressLog, walletCopies, OnFile>>
        /\ requests[s].wallet \in OnFile
    BY <1>4 DEF RecordAdded, OnFile, WalletsInv
  <2>2. IdleRequest \in Request /\ IdleRequest.at = "idle"
    BY DEF IdleRequest, Request
  <2> QED BY <2>1, <2>2 DEF WalletsInv, WalletsTypeOK
<1>5. ASSUME NEW s \in Sessions, ForgetWallets(s) PROVE WalletsInv'
  <2>1. /\ requests' = [requests EXCEPT ![s] = IdleRequest]
        /\ walletCopies' = [walletCopies EXCEPT ![s] = [x \in Wallet |-> NoCopy]]
        /\ UNCHANGED <<wallets, added, addressLog, OnFile>>
    BY <1>5 DEF ForgetWallets, Forget, OnFile, WalletsInv, WalletsTypeOK
  <2>2. IdleRequest \in Request /\ IdleRequest.at = "idle"
    BY DEF IdleRequest, Request
  <2> QED BY <2>1, <2>2 DEF WalletsInv, WalletsTypeOK
<1>6. ASSUME NEW s \in Sessions, NEW w \in Wallet, LoadWallet(s, w) PROVE WalletsInv'
  BY <1>6 DEF LoadWallet, Keep, OnFile, WalletsInv, WalletsTypeOK
<1>7. ASSUME NEW s \in Sessions, NEW w \in Wallet, NEW active \in BOOLEAN,
             SetActive(s, w, active)
      PROVE  WalletsInv'
  <2>1. Holds(walletCopies, s, w) /\ addressLog' = addressLog
    BY <1>7 DEF SetActive
  <2>2. [walletCopies[s][w] EXCEPT !.active = active] \in WalletRow
    BY <2>1, ChangedWallet DEF Holds, WalletsInv, WalletsTypeOK
  <2> QED BY <1>7, <2>1, <2>2, WalletCommit DEF SetActive, WalletsInv, WalletsTypeOK
<1>8. ASSUME NEW s \in Sessions, NEW w \in Wallet, NEW a \in Addresses, NEW extra \in BOOLEAN,
             UpdateAddress(s, w, a, extra)
      PROVE  WalletsInv'
  <2>1. Holds(walletCopies, s, w) /\ addressLog' = [addressLog EXCEPT ![w] = Append(@, a)]
    BY <1>8 DEF UpdateAddress, Named
  <2>2. addressLog' \in [Wallet -> Seq(Addresses)]
    BY <2>1, Logged DEF WalletsInv, WalletsTypeOK
  <2>3. [walletCopies[s][w] EXCEPT !.address = a] \in WalletRow
    BY <2>1, ChangedWallet DEF Holds, WalletsInv, WalletsTypeOK
  <2> QED BY <1>8, <2>1, <2>2, <2>3, WalletCommit DEF UpdateAddress
<1> QED BY <1>1, <1>2, <1>3, <1>4, <1>5, <1>6, <1>7, <1>8 DEF WalletsNext

DuplicateByRace(w, v) ==
  wallets[v].address = wallets'[w].address
     => \E s \in Sessions : /\ requests[s].wallet = w
                            /\ <<v, wallets[v].address>> \notin requests[s].saw

LEMMA DuplicateStep ==
  ASSUME WalletsInv, [WalletsNext]_wvars,
         NEW w \in OnFile' \ OnFile, NEW v \in OnFile
  PROVE  DuplicateByRace(w, v)
<1> USE KindsAssumption
<1>1. CASE UNCHANGED wallets
  BY <1>1 DEF OnFile
<1>2. ASSUME NEW s \in Sessions, InsertWallet(s) PROVE DuplicateByRace(w, v)
  <2>1. /\ requests[s].wallet \in Wallet
        /\ wallets' = [wallets EXCEPT ![requests[s].wallet] = requests[s].row]
        /\ \A x \in requests[s].saw : x[2] # requests[s].row.address
    BY <1>2 DEF InsertWallet, WalletsInv
  <2>2. requests[s].wallet = w /\ wallets'[w] = requests[s].row
    BY <2>1 DEF OnFile, WalletsInv, WalletsTypeOK
  <2> QED BY <2>1, <2>2 DEF DuplicateByRace
<1>3. ASSUME NEW s \in Sessions, NEW x \in Wallet, NEW now \in WalletRow,
             Holds(walletCopies, s, x), CommitWallet(s, x, now)
      PROVE  FALSE
  BY <1>3, WalletCommit
<1>4. ASSUME NEW s \in Sessions, NEW x \in Wallet, NEW active \in BOOLEAN,
             SetActive(s, x, active)
      PROVE  FALSE
  <2>1. [walletCopies[s][x] EXCEPT !.active = active] \in WalletRow
    <3>1. walletCopies[s][x] \in WalletRow
      BY <1>4 DEF SetActive, Holds, WalletsInv, WalletsTypeOK
    <3> QED BY <3>1, ChangedWallet
  <2> QED BY <1>3, <1>4, <2>1 DEF SetActive
<1>5. ASSUME NEW s \in Sessions, NEW x \in Wallet, NEW a \in Addresses,
             NEW extra \in BOOLEAN, UpdateAddress(s, x, a, extra)
      PROVE  FALSE
  <2>1. [walletCopies[s][x] EXCEPT !.address = a] \in WalletRow
    <3>1. Holds(walletCopies, s, x)
      BY <1>5 DEF UpdateAddress
    <3>2. walletCopies[s][x] \in WalletRow
      BY <3>1 DEF Holds, WalletsInv, WalletsTypeOK
    <3> QED BY <3>2, ChangedWallet
  <2> QED BY <1>3, <1>5, <2>1 DEF UpdateAddress
<1> QED
  BY <1>1, <1>2, <1>4, <1>5
  DEF WalletsNext, wvars, LookForAddress, RecordAdded, ForgetWallets, LoadWallet

LogAgrees(row, log) == log # <<>> => log[Len(log)] = row.address

AddressByRace(w) ==
  /\ wallets'[w].address # wallets[w].address => addressLog'[w] # addressLog[w]
  /\ LogAgrees(wallets[w], addressLog[w]) /\ ~LogAgrees(wallets'[w], addressLog'[w])
       => \E s \in Sessions :
             /\ walletCopies[s][w] \notin {NoCopy, wallets[w]}
             /\ walletCopies'[s][w].address = addressLog'[w][Len(addressLog'[w])]

LEMMA AddressStep ==
  ASSUME WalletsInv, [WalletsNext]_wvars, NEW w \in OnFile
  PROVE  AddressByRace(w)
<1> USE KindsAssumption
<1>1. CASE wallets'[w] = wallets[w] /\ addressLog'[w] = addressLog[w]
  BY <1>1 DEF AddressByRace
<1>2. ASSUME NEW s \in Sessions, InsertWallet(s) PROVE AddressByRace(w)
  <2>1. wallets'[w] = wallets[w] /\ addressLog'[w] = addressLog[w]
    BY <1>2 DEF InsertWallet, OnFile, WalletsInv, WalletsTypeOK
  <2> QED BY <1>1, <2>1
<1>3. ASSUME NEW s \in Sessions, NEW x \in Wallet, NEW active \in BOOLEAN,
             SetActive(s, x, active)
      PROVE  AddressByRace(w)
  <2> DEFINE old == walletCopies[s][x]
             now == [old EXCEPT !.active = active]
  <2>1. Holds(walletCopies, s, x) /\ CommitWallet(s, x, now) /\ addressLog' = addressLog
    BY <1>3 DEF SetActive
  <2>2. old \in WalletRow
    BY <2>1 DEF Holds, WalletsInv, WalletsTypeOK
  <2>3. now \in WalletRow /\ now.address = old.address
    BY <2>2, ChangedWallet
  <2> HIDE DEF now
  <2>4. /\ wallets' = [wallets EXCEPT ![x] = Flush(wallets[x], old, now)]
        /\ wallets[x] \in WalletRow /\ wallets \in [Wallet -> WalletRow \cup {NoWallet}]
    BY <2>1, <2>3, WalletCommit
  <2>5. wallets'[x].address = wallets[x].address
    BY <2>2, <2>3, <2>4, WalletFlush
  <2>6. wallets'[w].address = wallets[w].address
    BY <2>4, <2>5 DEF OnFile
  <2> QED BY <2>1, <2>6 DEF AddressByRace, LogAgrees
<1>4. ASSUME NEW s \in Sessions, NEW x \in Wallet, NEW a \in Addresses,
             NEW extra \in BOOLEAN, UpdateAddress(s, x, a, extra)
      PROVE  AddressByRace(w)
  <2> DEFINE old == walletCopies[s][x]
             now == [old EXCEPT !.address = a]
  <2>1. /\ Holds(walletCopies, s, x) /\ CommitWallet(s, x, now)
        /\ addressLog' = [addressLog EXCEPT ![x] = Append(@, a)]
    BY <1>4 DEF UpdateAddress, Named
  <2>2. old \in WalletRow
    BY <2>1 DEF Holds, WalletsInv, WalletsTypeOK
  <2>3. now \in WalletRow /\ now.address = a
    BY <2>2, ChangedWallet
  <2> HIDE DEF now
  <2>4. /\ wallets' = [wallets EXCEPT ![x] = Flush(wallets[x], old, now)]
        /\ wallets[x] \in WalletRow /\ wallets \in [Wallet -> WalletRow \cup {NoWallet}]
        /\ walletCopies'[s][x] = now
    BY <2>1, <2>3, WalletCommit
  <2>5. wallets'[x].address = IF a # old.address THEN a ELSE wallets[x].address
    BY <2>2, <2>3, <2>4, WalletFlush
  <2>6. CASE w # x
    <3>1. wallets'[w] = wallets[w] /\ addressLog'[w] = addressLog[w]
      BY <2>1, <2>4, <2>6 DEF OnFile, WalletsInv, WalletsTypeOK
    <3> QED BY <1>1, <3>1
  <2>7. CASE w = x
    <3>1. addressLog[w] \in Seq(Addresses) /\ addressLog'[w] = Append(addressLog[w], a)
      BY <2>1, <2>7 DEF WalletsInv, WalletsTypeOK
    <3>2. /\ addressLog'[w] # addressLog[w]
          /\ addressLog'[w][Len(addressLog'[w])] = a
      BY <3>1, Logged
    <3>3. CASE a # old.address
      BY <2>5, <2>7, <3>2, <3>3 DEF AddressByRace, LogAgrees
    <3>4. CASE a = old.address /\ old # wallets[w]
      <4>1. old # NoCopy /\ walletCopies'[s][w].address = a
        BY <2>1, <2>3, <2>4, <2>7 DEF Holds
      <4> QED BY <2>7, <3>2, <3>4, <4>1 DEF AddressByRace
    <3>5. CASE a = old.address /\ old = wallets[w]
      BY <2>5, <2>7, <3>2, <3>5 DEF AddressByRace, LogAgrees
    <3> QED BY <3>3, <3>4, <3>5
  <2> QED BY <2>6, <2>7
<1> QED
  BY <1>1, <1>2, <1>3, <1>4
  DEF WalletsNext, wvars, LookForAddress, RecordAdded, ForgetWallets, LoadWallet

(***************************************************************************)
(* Launches.                                                               *)
(***************************************************************************)

\* Who found no row for a creator saw none with its address, and a row that
\* has an address keeps it.
MonitorInv ==
  /\ creators \in [Creators -> CreatorAddresses \cup {NoCreator}]
  /\ monitors \in [Monitors -> Monitor]
  /\ \A s \in Monitors : monitors[s].at = "new" =>
        \A d \in monitors[s].saw :
           creators[d] # NoCreator /\ creators[d] # monitors[s].address

LEMMA MonitorInitInv == MonitorInit => MonitorInv
BY DEF MonitorInit, MonitorInv, IdleMonitor, Monitor, MonitorStages

\* A step of one monitor that leaves the creators alone.
LEMMA MonitorBecomes ==
  ASSUME MonitorInv, NEW s \in Monitors, NEW m \in Monitor, Becomes(s, m),
         creators' = creators,
         m.at = "new" => \A d \in m.saw : creators[d] # NoCreator /\ creators[d] # m.address
  PROVE  MonitorInv'
BY DEF Becomes, MonitorInv

LEMMA IdleMonitorType == IdleMonitor \in Monitor /\ IdleMonitor.at = "idle"
BY DEF IdleMonitor, Monitor, MonitorStages

LEMMA MonitorStepInv == MonitorInv /\ [MonitorNext]_mvars => MonitorInv'
<1> SUFFICES ASSUME MonitorInv, [MonitorNext]_mvars PROVE MonitorInv'
  OBVIOUS
<1> USE MonitorAssumption
<1>1. CASE UNCHANGED <<creators, monitors>>
  BY <1>1 DEF MonitorInv
<1>2. ASSUME NEW s \in Monitors, NEW m \in Mints, NEW a \in CreatorAddresses,
             NEW liquid \in BOOLEAN, LookForCreator(s, m, a, liquid)
      PROVE  MonitorInv'
  <2> DEFINE new == RowsAt(a) = {}
             at == IF new THEN "new" ELSE "found"
             found == IF new THEN NoCreator ELSE CHOOSE c \in RowsAt(a) : TRUE
             saw == {c \in Creators : creators[c] # NoCreator}
             x == [IdleMonitor EXCEPT !.at = at, !.creator = found,
                                      !.mint = m, !.address = a, !.liquid = liquid,
                                      !.saw = saw]
  <2>1. /\ found \in Creators \cup {NoCreator} /\ at \in {"new", "found"}
        /\ at = "new" => new
    BY DEF RowsAt
  <2>2. Becomes(s, x) /\ creators' = creators
    BY <1>2 DEF LookForCreator, Matching
  <2> HIDE DEF found, at
  <2>3. x \in Monitor /\ x.at = at /\ x.saw = saw /\ x.address = a
    BY <2>1 DEF Monitor, MonitorStages, IdleMonitor
  <2>4. x.at = "new" => \A d \in x.saw : creators[d] # NoCreator /\ creators[d] # x.address
    BY <2>1, <2>3 DEF RowsAt
  <2> HIDE DEF x
  <2> QED BY <2>2, <2>3, <2>4, MonitorBecomes
<1>3. ASSUME NEW s \in Monitors, NEW c \in Creators, InsertCreator(s, c) PROVE MonitorInv'
  <2> DEFINE x == [monitors[s] EXCEPT !.at = "found", !.creator = c]
  <2>1. x \in Monitor /\ x.at = "found"
    BY DEF MonitorInv, Monitor, MonitorStages
  <2>2. /\ monitors' = [monitors EXCEPT ![s] = x]
        /\ creators' = [creators EXCEPT ![c] = monitors[s].address]
        /\ creators[c] = NoCreator
    BY <1>3 DEF InsertCreator, Becomes
  <2> HIDE DEF x
  <2>3. monitors' \in [Monitors -> Monitor] /\ monitors[s] \in Monitor
    BY <2>1, <2>2 DEF MonitorInv
  <2>4. creators' \in [Creators -> CreatorAddresses \cup {NoCreator}]
    BY <2>2, <2>3 DEF MonitorInv, Monitor
  <2>5. ASSUME NEW r \in Monitors, monitors'[r].at = "new", NEW d \in monitors'[r].saw
        PROVE  creators'[d] # NoCreator /\ creators'[d] # monitors'[r].address
    <3>1. monitors'[r] = monitors[r]
      BY <2>1, <2>2, <2>5 DEF MonitorInv
    <3>2. d \in Creators /\ creators[d] # NoCreator /\ creators[d] # monitors[r].address
      BY <2>5, <3>1 DEF MonitorInv, Monitor
    <3> QED BY <2>2, <3>1, <3>2 DEF MonitorInv
  <2> QED BY <2>3, <2>4, <2>5 DEF MonitorInv
<1>4. ASSUME NEW s \in Monitors, CountLaunches(s) PROVE MonitorInv'
  <2> DEFINE count == Cardinality(TokensOf(monitors[s].creator))
             x == [monitors[s] EXCEPT !.at = "counted", !.prior = count]
  <2>1. count \in Nat
    BY FS_Subset, FS_CardinalityType DEF TokensOf
  <2> HIDE DEF count
  <2>2. x \in Monitor /\ x.at = "counted"
    BY <2>1 DEF MonitorInv, Monitor, MonitorStages
  <2>3. Becomes(s, x) /\ creators' = creators
    BY <1>4 DEF CountLaunches, count
  <2> HIDE DEF x
  <2> QED BY <2>2, <2>3, MonitorBecomes
<1>5. ASSUME NEW s \in Monitors, NEW at \in {"registered", "watched", "suggesting"}
      PROVE  /\ [monitors[s] EXCEPT !.at = at] \in Monitor
             /\ [monitors[s] EXCEPT !.at = at].at = at
  BY DEF MonitorInv, Monitor, MonitorStages
<1>6. ASSUME NEW s \in Monitors,
             \/ RegisterToken(s) \/ RegisterOpportunity(s)
             \/ LookForWallet(s) \/ Suggest(s) \/ EvaluationFails(s)
      PROVE  MonitorInv'
  <2>1. creators' = creators
    BY <1>6 DEF RegisterToken, RegisterOpportunity, LookForWallet, Suggest, EvaluationFails
  <2>2. \/ Becomes(s, IdleMonitor)
        \/ \E at \in {"registered", "watched", "suggesting"} :
              Becomes(s, [monitors[s] EXCEPT !.at = at])
    BY <1>6 DEF RegisterToken, RegisterOpportunity, LookForWallet, Suggest, EvaluationFails
  <2>3. CASE Becomes(s, IdleMonitor)
    BY <2>1, <2>3, IdleMonitorType, MonitorBecomes
  <2>4. ASSUME NEW at \in {"registered", "watched", "suggesting"},
               Becomes(s, [monitors[s] EXCEPT !.at = at])
        PROVE  MonitorInv'
    <3> DEFINE x == [monitors[s] EXCEPT !.at = at]
    <3>1. x \in Monitor /\ x.at # "new" /\ Becomes(s, x)
      BY <1>5, <2>4
    <3> HIDE DEF x
    <3> QED BY <2>1, <3>1, MonitorBecomes
  <2> QED BY <2>2, <2>3, <2>4
<1> QED
  BY <1>1, <1>2, <1>3, <1>4, <1>6
  DEF MonitorNext, mvars, AnswerSuggestion, SwitchWallet

LEMMA CreatorStep ==
  ASSUME MonitorInv, [MonitorNext]_mvars, NEW c \in Creators, NEW d \in Creators,
         creators[c] = NoCreator, creators'[c] # NoCreator, creators[d] = creators'[c]
  PROVE  \E s \in Monitors : monitors'[s].creator = c /\ d \notin monitors[s].saw
<1>1. creators' # creators
  OBVIOUS
<1>2. PICK s \in Monitors, e \in Creators : InsertCreator(s, e)
  BY <1>1 DEF MonitorNext, mvars, LookForCreator, CountLaunches, RegisterToken,
              RegisterOpportunity, LookForWallet, Suggest, EvaluationFails,
              AnswerSuggestion, SwitchWallet
<1>3. e = c /\ creators'[c] = monitors[s].address /\ monitors[s].at = "new"
  BY <1>2 DEF InsertCreator, MonitorInv
<1>4. monitors'[s].creator = c
  BY <1>2, <1>3 DEF InsertCreator, Becomes, MonitorInv, Monitor
<1> QED BY <1>3, <1>4 DEF MonitorInv

(***************************************************************************)
(* Launches that no flag marks.  A row counts its own launches, so what    *)
(* escapes it is bounded by its tokens and the monitors that count at the  *)
(* same time.  Of the rows of one address one is older than the others:    *)
(* another is inserted by a monitor that had found none, and with two rows *)
(* the look-up fails, so each of the others ever gets one launch, of a     *)
(* monitor that is not among those of the older row.                       *)
(***************************************************************************)

\* Who has found no row for address a and has not inserted one.
Newcomers(a) == {s \in Monitors : monitors[s].at = "new" /\ monitors[s].address = a}

\* Who is at work on a launch of row c, and the launches of c, theirs included.
Holders(c) == {s \in Monitors : /\ monitors[s].at \in {"found", "counted", "registered"}
                                /\ monitors[s].creator = c}
Launches(c) == TokensOf(c) \cup {monitors[s].mint : s \in Holders(c)}

\* The launches of row c that are logged without the flag, or will be.
Escaped(c) ==
  {m \in Mints :
     \/ tokens[m] = c /\ \E o \in opportunities : o.mint = m /\ ~o.flagged
     \/ \E s \in Holders(c) : /\ monitors[s].mint = m /\ monitors[s].at # "found"
                              /\ ~HighVelocity(monitors[s].prior)}

\* A launch has one monitor, one registration and one opportunity.
AtLaunch(s) ==
  /\ monitors[s].at = "idle" => monitors[s].mint = NoCreator
  /\ monitors[s].at # "idle" =>
       /\ monitors[s].mint \in Mints /\ monitors[s].mint # NoCreator
       /\ monitors[s].address \in CreatorAddresses
       /\ \A r \in Monitors \ {s} : monitors[r].mint # monitors[s].mint
  /\ monitors[s].at \in {"new", "found", "counted"} =>
       tokens[monitors[s].mint] = NoCreator
  /\ monitors[s].at \in {"found", "counted", "registered"} =>
       /\ monitors[s].creator \in Creators
       /\ creators[monitors[s].creator] = monitors[s].address
  /\ monitors[s].at = "registered" =>
       /\ tokens[monitors[s].mint] = monitors[s].creator
       /\ \A o \in opportunities : o.mint # monitors[s].mint

LaunchesOnce ==
  /\ tokens \in [Mints -> Creators \cup {NoCreator}]
  /\ opportunities \subseteq Opportunity
  /\ \A o, p \in opportunities : o.mint = p.mint => o = p
  /\ \A o \in opportunities : tokens[o.mint] # NoCreator
  /\ \A m \in Mints : tokens[m] # NoCreator => creators[tokens[m]] # NoCreator
  /\ \A s \in Monitors : AtLaunch(s)

\* Row c is the older one of address a.
Bounded(a, c) ==
  LET busy == Cardinality(RowsAt(a)) + Cardinality(Newcomers(a)) IN
  /\ busy + Cardinality(Holders(c)) <= Cardinality(Monitors) + 1
  /\ busy + Cardinality(Escaped(c)) <= MaxPrior + Cardinality(Monitors) + 1
  /\ \A d \in RowsAt(a) \ {c} : \A m, n \in Launches(d) : m = n

BoundedAt(a) == RowsAt(a) # {} => \E c \in RowsAt(a) : Bounded(a, c)

VelocityInv == MonitorInv /\ LaunchesOnce /\ \A a \in CreatorAddresses : BoundedAt(a)

LEMMA InitVelocity == MonitorInit => VelocityInv
<1> SUFFICES ASSUME MonitorInit PROVE VelocityInv
  OBVIOUS
<1>1. MonitorInv
  BY MonitorInitInv
<1>2. LaunchesOnce
  BY DEF MonitorInit, LaunchesOnce, AtLaunch, IdleMonitor
<1>3. \A a \in CreatorAddresses : BoundedAt(a)
  BY MonitorAssumption DEF MonitorInit, BoundedAt, RowsAt
<1> QED BY <1>1, <1>2, <1>3 DEF VelocityInv

\* The counts are numbers.
LEMMA MonitorCounts ==
  ASSUME NEW a, NEW c
  PROVE  /\ IsFiniteSet(RowsAt(a)) /\ Cardinality(RowsAt(a)) \in Nat
         /\ IsFiniteSet(Newcomers(a)) /\ Cardinality(Newcomers(a)) \in Nat
         /\ IsFiniteSet(Holders(c)) /\ Cardinality(Holders(c)) \in Nat
         /\ IsFiniteSet(Escaped(c)) /\ Cardinality(Escaped(c)) \in Nat
         /\ IsFiniteSet(TokensOf(c)) /\ Cardinality(TokensOf(c)) \in Nat
         /\ Cardinality(Monitors) \in Nat
<1>1. /\ RowsAt(a) \in SUBSET Creators /\ Newcomers(a) \in SUBSET Monitors
      /\ Holders(c) \in SUBSET Monitors /\ Escaped(c) \in SUBSET Mints
      /\ TokensOf(c) \in SUBSET Mints
  BY DEF RowsAt, Newcomers, Holders, Escaped, TokensOf
<1> QED BY <1>1, MonitorAssumption, FS_Subset, FS_CardinalityType

\* What no monitor does both is done by at most all of them.
LEMMA ApartMonitors ==
  ASSUME NEW N \in SUBSET Monitors, NEW H \in SUBSET Monitors, N \cap H = {}
  PROVE  Cardinality(N) + Cardinality(H) <= Cardinality(Monitors)
<1>1. /\ IsFiniteSet(N) /\ Cardinality(N) \in Nat
      /\ IsFiniteSet(H) /\ Cardinality(H) \in Nat
      /\ Cardinality(Monitors) \in Nat
  BY MonitorAssumption, FS_Subset, FS_CardinalityType
<1>2. Cardinality(N \cup H) = Cardinality(N) + Cardinality(H) - Cardinality(N \cap H)
  BY <1>1, FS_Union
<1>3. Cardinality(N \cap H) = 0
  BY FS_EmptySet
<1>4. Cardinality(N \cup H) <= Cardinality(Monitors)
  BY MonitorAssumption, FS_Subset
<1> QED BY <1>1, <1>2, <1>3, <1>4

\* A step after which an address has no more rows, newcomers, holders, launches.
LEMMA BoundedShrinks ==
  ASSUME NEW a, NEW c \in RowsAt(a), Bounded(a, c), RowsAt(a)' = RowsAt(a),
         Newcomers(a)' \subseteq Newcomers(a), Holders(c)' \subseteq Holders(c),
         Escaped(c)' \subseteq Escaped(c),
         \A d \in RowsAt(a) \ {c} : Launches(d)' \subseteq Launches(d)
  PROVE  Bounded(a, c)'
<1> USE MonitorAssumption
<1>1. /\ Cardinality(Newcomers(a)') <= Cardinality(Newcomers(a))
      /\ Cardinality(Holders(c)') <= Cardinality(Holders(c))
      /\ Cardinality(Escaped(c)') <= Cardinality(Escaped(c))
      /\ Cardinality(Newcomers(a)') \in Nat /\ Cardinality(Holders(c)') \in Nat
      /\ Cardinality(Escaped(c)') \in Nat
  BY MonitorCounts, FS_Subset, FS_CardinalityType
<1>2. \A d \in RowsAt(a)' \ {c} : \A m, n \in Launches(d)' : m = n
  BY DEF Bounded
<1> QED BY <1>1, <1>2, MonitorCounts DEF Bounded

\* The launches that escape the flags are those of the older row and at most
\* one of each other row.
LEMMA BoundedVelocity ==
  ASSUME VelocityInv, NEW a \in CreatorAddresses
  PROVE  Cardinality({o \in opportunities : ~o.flagged /\ tokens[o.mint] \in RowsAt(a)})
           <= MaxPrior + Cardinality(Monitors)
<1> DEFINE O == {o \in opportunities : ~o.flagged /\ tokens[o.mint] \in RowsAt(a)}
<1> USE MonitorAssumption
<1>1. CASE RowsAt(a) = {}
  BY <1>1, MonitorCounts, FS_EmptySet
<1>2. CASE RowsAt(a) # {}
  <2>1. PICK c \in RowsAt(a) : Bounded(a, c)
    BY <1>2 DEF VelocityInv, BoundedAt
  <2> DEFINE others == RowsAt(a) \ {c}
             late == {m \in Mints : tokens[m] \in others}
             f == [o \in O |-> o.mint]
             g == [m \in late |-> tokens[m]]
  <2>2. /\ O \subseteq opportunities
        /\ \A o \in O : o.mint \in Escaped(c) \cup late
    BY DEF VelocityInv, LaunchesOnce, Opportunity, Escaped
  <2>3. f \in Injection(O, Escaped(c) \cup late)
    <3>1. f \in [O -> Escaped(c) \cup late]
      BY <2>2
    <3>2. \A o, p \in O : f[o] = f[p] => o = p
      BY <2>2 DEF VelocityInv, LaunchesOnce
    <3> HIDE DEF O, late
    <3> QED BY <3>1, <3>2 DEF Injection, IsInjective
  <2>4. g \in Injection(late, others)
    <3>1. g \in [late -> others]
      OBVIOUS
    <3>2. \A m, n \in late : g[m] = g[n] => m = n
      BY <2>1 DEF Bounded, Launches, TokensOf
    <3> QED BY <3>1, <3>2 DEF Injection, IsInjective
  <2>5. /\ IsFiniteSet(others) /\ Cardinality(others) = Cardinality(RowsAt(a)) - 1
    BY MonitorCounts, FS_RemoveElement
  <2> HIDE DEF O, others, late, f, g
  <2>6. IsFiniteSet(late) /\ Cardinality(late) <= Cardinality(others)
    BY <2>4, <2>5, FS_Injection
  <2>7. Cardinality(late) \in Nat
    BY <2>6, FS_CardinalityType
  <2>8. /\ IsFiniteSet(Escaped(c) \cup late)
        /\ Cardinality(Escaped(c) \cup late) <= Cardinality(Escaped(c)) + Cardinality(late)
    <3>1. IsFiniteSet(Escaped(c)) /\ Cardinality(Escaped(c)) \in Nat
      BY MonitorCounts
    <3> DEFINE E == Escaped(c)
    <3> HIDE DEF E
    <3>2. /\ IsFiniteSet(E \cup late)
          /\ Cardinality(E \cup late)
               = Cardinality(E) + Cardinality(late) - Cardinality(E \cap late)
      BY <2>6, <3>1, FS_Union DEF E
    <3>3. (E \cap late) \in SUBSET late
      OBVIOUS
    <3>4. Cardinality(E \cap late) \in Nat
      BY <2>6, <3>3, FS_Subset, FS_CardinalityType
    <3> QED BY <2>7, <3>1, <3>2, <3>4 DEF E
  <2>9. IsFiniteSet(O) /\ Cardinality(O) <= Cardinality(Escaped(c) \cup late)
    BY <2>3, <2>8, FS_Injection
  <2>10. /\ Cardinality(O) \in Nat /\ Cardinality(Escaped(c) \cup late) \in Nat
    BY <2>8, <2>9, FS_CardinalityType
  <2>11. Cardinality(RowsAt(a)) + Cardinality(Newcomers(a)) + Cardinality(Escaped(c))
           <= MaxPrior + Cardinality(Monitors) + 1
    BY <2>1 DEF Bounded
  <2>12. Cardinality(O) <= MaxPrior + Cardinality(Monitors)
    BY <2>5, <2>6, <2>7, <2>8, <2>9, <2>10, <2>11, MonitorCounts
  <2> QED BY <2>12 DEF O
<1> QED BY <1>1, <1>2

(***************************************************************************)
(* Launches stay launches of one monitor.                                  *)
(***************************************************************************)
LEMMA LookLaunches ==
  ASSUME MonitorInv, LaunchesOnce, NEW s \in Monitors, NEW m \in Mints,
         NEW a \in CreatorAddresses, NEW liquid \in BOOLEAN,
         LookForCreator(s, m, a, liquid)
  PROVE  /\ LaunchesOnce'
         /\ monitors' \in [Monitors -> Monitor]
         /\ \A r \in Monitors \ {s} : monitors'[r] = monitors[r]
         /\ monitors'[s].address = a
         /\ \/ monitors'[s].at = "new" /\ RowsAt(a) = {}
            \/ monitors'[s].at = "found" /\ monitors'[s].creator \in RowsAt(a)
<1> DEFINE new == RowsAt(a) = {}
           at == IF new THEN "new" ELSE "found"
           row == IF new THEN NoCreator ELSE CHOOSE c \in RowsAt(a) : TRUE
           x == [IdleMonitor EXCEPT !.at = at, !.creator = row, !.mint = m, !.address = a,
                   !.liquid = liquid, !.saw = {c \in Creators : creators[c] # NoCreator}]
<1>1. /\ monitors' = [monitors EXCEPT ![s] = x]
      /\ FreshMint(m)
      /\ UNCHANGED <<creators, tokens, opportunities>> /\ monitors[s].at = "idle"
  BY DEF LookForCreator, Matching, Becomes
<1>2. /\ (at = "new" /\ new) \/ (at = "found" /\ row \in RowsAt(a))
      /\ row \in Creators \cup {NoCreator}
  BY DEF RowsAt
<1> HIDE DEF at, row
<1>3. /\ x.at = at /\ x.creator = row /\ x.mint = m /\ x.address = a
      /\ x \in Monitor
  BY <1>2 DEF IdleMonitor, Monitor, MonitorStages
<1> HIDE DEF x
<1>4. /\ monitors'[s] = x /\ monitors' \in [Monitors -> Monitor]
      /\ \A r \in Monitors \ {s} : monitors'[r] = monitors[r]
  BY <1>1, <1>3 DEF MonitorInv
<1>5. m # NoCreator
  BY <1>1 DEF FreshMint, LaunchesOnce, AtLaunch
<1>6. ASSUME NEW r \in Monitors PROVE AtLaunch(r)'
  <2>1. CASE r = s
    BY <1>1, <1>2, <1>3, <1>4, <1>5, <2>1 DEF FreshMint, AtLaunch, RowsAt, LaunchesOnce
  <2>2. CASE r # s
    BY <1>1, <1>3, <1>4, <2>2 DEF FreshMint, AtLaunch, LaunchesOnce
  <2> QED BY <2>1, <2>2
<1>7. LaunchesOnce'
  BY <1>1, <1>6 DEF LaunchesOnce
<1> QED BY <1>1, <1>2, <1>3, <1>4, <1>7

LEMMA AtMostOne ==
  ASSUME NEW S, IsFiniteSet(S), Cardinality(S) <= 1, NEW c \in S
  PROVE  S = {c}
<1>1. IsFiniteSet(S \ {c}) /\ Cardinality(S \ {c}) = Cardinality(S) - 1
  BY FS_RemoveElement
<1>2. Cardinality(S) \in Nat /\ Cardinality(S \ {c}) \in Nat
  BY <1>1, FS_CardinalityType
<1>3. Cardinality(S \ {c}) = 0
  BY <1>1, <1>2
<1>4. S \ {c} = {}
  BY <1>1, <1>3, FS_EmptySet
<1> QED BY <1>4

LEMMA LookBounded ==
  ASSUME VelocityInv, NEW s \in Monitors, NEW m \in Mints, NEW a \in CreatorAddresses,
         NEW liquid \in BOOLEAN, LookForCreator(s, m, a, liquid),
         NEW b \in CreatorAddresses
  PROVE  BoundedAt(b)'
<1> USE MonitorAssumption
<1>1. /\ MonitorInv /\ LaunchesOnce
      /\ UNCHANGED <<creators, tokens, opportunities>>
      /\ monitors[s].at = "idle" /\ Cardinality(RowsAt(a)) <= 1
  BY DEF VelocityInv, LookForCreator, Matching
<1>2. /\ monitors' \in [Monitors -> Monitor]
      /\ \A r \in Monitors \ {s} : monitors'[r] = monitors[r]
      /\ monitors'[s].address = a
      /\ \/ monitors'[s].at = "new" /\ RowsAt(a) = {}
         \/ monitors'[s].at = "found" /\ monitors'[s].creator \in RowsAt(a)
  BY <1>1, LookLaunches
<1>3. RowsAt(b)' = RowsAt(b)
  BY <1>1 DEF RowsAt
<1>4. SUFFICES ASSUME RowsAt(b) # {} PROVE \E c \in RowsAt(b) : Bounded(b, c)'
  BY <1>3 DEF BoundedAt
<1>5. PICK c \in RowsAt(b) : Bounded(b, c)
  BY <1>4 DEF VelocityInv, BoundedAt
<1>6. /\ Newcomers(b)' \subseteq Newcomers(b) /\ Escaped(c)' \subseteq Escaped(c)
  BY <1>1, <1>2, <1>4 DEF Newcomers, Escaped, Holders
<1>7. CASE b # a
  <2>1. \A d \in RowsAt(b) : Holders(d)' \subseteq Holders(d)
    BY <1>2, <1>7 DEF Holders, RowsAt
  <2>2. \A d \in RowsAt(b) : Launches(d)' \subseteq Launches(d)
    <3>1. ASSUME NEW d \in RowsAt(b), NEW n \in Launches(d)', n \notin TokensOf(d)
          PROVE  n \in Launches(d)
      <4>1. TokensOf(d)' = TokensOf(d)
        BY <1>1 DEF TokensOf
      <4>2. PICK r \in Holders(d)' : n = monitors'[r].mint
        BY <3>1, <4>1 DEF Launches
      <4>3. r \in Holders(d) /\ monitors'[r] = monitors[r]
        BY <1>1, <1>2, <2>1, <4>2 DEF Holders
      <4> QED BY <4>2, <4>3 DEF Launches
    <3> QED BY <3>1 DEF Launches
  <2> QED BY <1>3, <1>5, <1>6, <2>1, <2>2, BoundedShrinks
<1>8. CASE b = a
  <2>1. RowsAt(a) = {c}
    BY <1>1, <1>5, <1>8, MonitorCounts, AtMostOne
  <2>2. Cardinality(RowsAt(b)') = 1
    BY <1>3, <1>8, <2>1, FS_Singleton
  <2>3. Cardinality(Newcomers(b)') + Cardinality(Holders(c)') <= Cardinality(Monitors)
    <3>1. /\ Newcomers(b)' \in SUBSET Monitors /\ Holders(c)' \in SUBSET Monitors
          /\ Newcomers(b)' \cap Holders(c)' = {}
      BY DEF Newcomers, Holders
    <3> QED BY <3>1, ApartMonitors
  <2>4. /\ Cardinality(Newcomers(b)') <= Cardinality(Newcomers(b))
        /\ Cardinality(Escaped(c)') <= Cardinality(Escaped(c))
        /\ Cardinality(Newcomers(b)') \in Nat /\ Cardinality(Escaped(c)') \in Nat
    BY <1>6, MonitorCounts, FS_Subset, FS_CardinalityType
  <2>5. Cardinality(Holders(c)') \in Nat
    <3>1. Holders(c)' \in SUBSET Monitors
      BY DEF Holders
    <3> QED BY <3>1, FS_Subset, FS_CardinalityType
  <2>6. RowsAt(b)' \ {c} = {}
    BY <1>3, <1>8, <2>1
  <2>7. /\ Cardinality(RowsAt(b)) = 1
        /\ Cardinality(RowsAt(b)) + Cardinality(Newcomers(b)) + Cardinality(Escaped(c))
           <= MaxPrior + Cardinality(Monitors) + 1
    BY <1>5, <1>8, <2>1, FS_Singleton DEF Bounded
  <2>8. /\ Cardinality(RowsAt(b)') + Cardinality(Newcomers(b)') + Cardinality(Holders(c)')
           <= Cardinality(Monitors) + 1
        /\ Cardinality(RowsAt(b)') + Cardinality(Newcomers(b)') + Cardinality(Escaped(c)')
           <= MaxPrior + Cardinality(Monitors) + 1
    <3>1. /\ Cardinality(Newcomers(b)) \in Nat /\ Cardinality(Escaped(c)) \in Nat
          /\ Cardinality(Monitors) \in Nat
      BY MonitorCounts
    <3> QED BY <2>2, <2>3, <2>4, <2>5, <2>7, <3>1
  <2>9. \A d \in RowsAt(b)' \ {c} : \A p, n \in Launches(d)' : p = n
    BY <2>6
  <2> QED BY <1>5, <2>8, <2>9 DEF Bounded
<1> QED BY <1>7, <1>8

LEMMA InsertLaunches ==
  ASSUME MonitorInv, LaunchesOnce, NEW s \in Monitors, NEW c \in Creators,
         InsertCreator(s, c), NEW a, a = monitors[s].address
  PROVE  /\ LaunchesOnce'
         /\ monitors' \in [Monitors -> Monitor]
         /\ \A r \in Monitors \ {s} : monitors'[r] = monitors[r]
         /\ monitors[s].at = "new" /\ monitors'[s].at = "found"
         /\ monitors'[s].creator = c /\ monitors'[s].mint = monitors[s].mint
         /\ a \in CreatorAddresses /\ RowsAt(a)' = RowsAt(a) \cup {c}
         /\ creators[c] = NoCreator /\ UNCHANGED <<tokens, opportunities>>
         /\ \A b \in CreatorAddresses \ {a} : RowsAt(b)' = RowsAt(b)
<1> USE MonitorAssumption
<1> DEFINE x == [monitors[s] EXCEPT !.at = "found", !.creator = c]
<1>1. /\ monitors' = [monitors EXCEPT ![s] = x]
      /\ creators' = [creators EXCEPT ![c] = monitors[s].address]
      /\ UNCHANGED <<tokens, opportunities>>
      /\ monitors[s].at = "new" /\ creators[c] = NoCreator
  BY DEF InsertCreator, Becomes
<1>2. /\ x \in Monitor /\ x.at = "found" /\ x.creator = c /\ x.mint = monitors[s].mint
      /\ x.address = monitors[s].address
  BY DEF MonitorInv, Monitor, MonitorStages
<1> HIDE DEF x
<1>3. /\ monitors'[s] = x /\ monitors' \in [Monitors -> Monitor]
      /\ \A r \in Monitors \ {s} : monitors'[r] = monitors[r]
  BY <1>1, <1>2 DEF MonitorInv
<1>4. /\ creators'[c] = monitors[s].address
      /\ \A d \in Creators \ {c} : creators'[d] = creators[d]
      /\ monitors[s].address \in CreatorAddresses
  BY <1>1 DEF MonitorInv, LaunchesOnce, AtLaunch
<1>5. ASSUME NEW r \in Monitors PROVE AtLaunch(r)'
  <2>1. CASE r = s
    BY <1>1, <1>2, <1>3, <1>4, <2>1 DEF AtLaunch, LaunchesOnce
  <2>2. CASE r # s
    BY <1>1, <1>2, <1>3, <1>4, <2>2 DEF AtLaunch, LaunchesOnce, MonitorInv, Monitor
  <2> QED BY <2>1, <2>2
<1>6. \A m \in Mints : tokens[m] # NoCreator => creators'[tokens[m]] # NoCreator
  BY <1>1, <1>4 DEF LaunchesOnce
<1>7. LaunchesOnce'
  BY <1>1, <1>5, <1>6 DEF LaunchesOnce
<1>8. /\ RowsAt(a)' = RowsAt(a) \cup {c}
      /\ \A b \in CreatorAddresses \ {a} : RowsAt(b)' = RowsAt(b)
  BY <1>1, <1>4 DEF RowsAt
<1> QED BY <1>1, <1>2, <1>3, <1>4, <1>7, <1>8

LEMMA InsertBounded ==
  ASSUME VelocityInv, NEW s \in Monitors, NEW row \in Creators, InsertCreator(s, row),
         NEW b \in CreatorAddresses
  PROVE  BoundedAt(b)'
<1> USE MonitorAssumption
<1>1. MonitorInv /\ LaunchesOnce
  BY DEF VelocityInv
<1>2. PICK a : a = monitors[s].address
  OBVIOUS
<1>3. /\ monitors' \in [Monitors -> Monitor]
      /\ \A r \in Monitors \ {s} : monitors'[r] = monitors[r]
      /\ monitors[s].at = "new" /\ monitors'[s].at = "found"
      /\ monitors'[s].creator = row /\ monitors'[s].mint = monitors[s].mint
      /\ a \in CreatorAddresses /\ RowsAt(a)' = RowsAt(a) \cup {row}
      /\ creators[row] = NoCreator /\ UNCHANGED <<tokens, opportunities>>
      /\ \A d \in CreatorAddresses \ {a} : RowsAt(d)' = RowsAt(d)
  BY <1>1, <1>2, InsertLaunches
\* Nobody holds the new row but its inserter, and it has no launch but that.
<1>4. /\ \A d \in Creators \ {row} : Holders(d)' = Holders(d) /\ Launches(d)' = Launches(d)
                                       /\ Escaped(d)' = Escaped(d)
  <2>1. ASSUME NEW d \in Creators, d # row PROVE Holders(d)' = Holders(d)
    BY <1>3, <2>1 DEF Holders
  <2>2. ASSUME NEW d \in Creators, d # row
        PROVE  Launches(d)' = Launches(d) /\ Escaped(d)' = Escaped(d)
    <3>1. Holders(d)' = Holders(d) /\ TokensOf(d)' = TokensOf(d)
      BY <1>3, <2>1, <2>2 DEF TokensOf
    <3>2. \A r \in Holders(d) : monitors'[r] = monitors[r]
      BY <1>3 DEF Holders
    <3>3. Launches(d)' = Launches(d)
      BY <3>1, <3>2 DEF Launches
    <3>4. Escaped(d)' = Escaped(d)
      BY <1>3, <3>1, <3>2 DEF Escaped
    <3> QED BY <3>3, <3>4
  <2> QED BY <2>1, <2>2
<1>5. /\ row \notin RowsAt(a) /\ TokensOf(row)' = {} /\ Holders(row)' \subseteq {s}
  <2>1. row \notin RowsAt(a)
    BY <1>3 DEF RowsAt
  <2>2. TokensOf(row)' = {}
    BY <1>1, <1>3 DEF TokensOf, LaunchesOnce
  <2>3. ASSUME NEW r \in Monitors, r # s, r \in Holders(row)' PROVE FALSE
    BY <1>1, <1>3, <2>3 DEF Holders, LaunchesOnce, AtLaunch
  <2>4. Holders(row)' \subseteq Monitors
    BY DEF Holders
  <2> QED BY <2>1, <2>2, <2>3, <2>4
<1>6. /\ Launches(row)' \subseteq {monitors'[s].mint}
      /\ Escaped(row)' = {}
  <2>1. Launches(row)' \subseteq {monitors'[s].mint}
    BY <1>5 DEF Launches
  <2>2. Escaped(row)' = {}
    BY <1>3, <1>5 DEF Escaped, TokensOf
  <2> QED BY <2>1, <2>2
<1>7. CASE b # a
  <2>1. /\ RowsAt(b)' = RowsAt(b) /\ Newcomers(b)' \subseteq Newcomers(b)
        /\ row \notin RowsAt(b)
    BY <1>3, <1>7 DEF Newcomers, RowsAt
  <2>2. SUFFICES ASSUME RowsAt(b) # {} PROVE \E c \in RowsAt(b) : Bounded(b, c)'
    BY <2>1 DEF BoundedAt
  <2>3. PICK c \in RowsAt(b) : Bounded(b, c)
    BY <2>2 DEF VelocityInv, BoundedAt
  <2>4. RowsAt(b) \subseteq Creators \ {row}
    BY <2>1 DEF RowsAt
  <2> QED BY <1>4, <2>1, <2>3, <2>4, BoundedShrinks
<1>8. CASE b = a
  <2>1. /\ Newcomers(b)' = Newcomers(b) \ {s} /\ s \in Newcomers(b)
        /\ Newcomers(b)' \in SUBSET Monitors
    BY <1>2, <1>3, <1>8 DEF Newcomers
  <2>2. /\ Cardinality(Newcomers(b)') = Cardinality(Newcomers(b)) - 1
        /\ Cardinality(RowsAt(b)') = Cardinality(RowsAt(b)) + 1
    <3>1. PICK N, R : N = Newcomers(b) /\ R = RowsAt(b)
      OBVIOUS
    <3>2. IsFiniteSet(N) /\ IsFiniteSet(R)
      BY <3>1, MonitorCounts
    <3>3. Cardinality(N \ {s}) = IF s \in N THEN Cardinality(N) - 1 ELSE Cardinality(N)
      BY <3>2, FS_RemoveElement
    <3>4. Cardinality(R \cup {row})
            = IF row \in R THEN Cardinality(R) ELSE Cardinality(R) + 1
      BY <3>2, FS_AddElement
    <3>5. /\ Newcomers(b)' = N \ {s} /\ s \in N
          /\ RowsAt(b)' = R \cup {row} /\ row \notin R
      BY <1>3, <1>5, <1>8, <2>1, <3>1
    <3> QED BY <3>1, <3>3, <3>4, <3>5
  <2>3. CASE RowsAt(a) = {}
    <3>1. RowsAt(b)' = {row} /\ Cardinality(RowsAt(b)') = 1
      BY <1>3, <1>8, <2>3, FS_Singleton
    <3>2. Cardinality(Newcomers(b)') + Cardinality(Holders(row)') <= Cardinality(Monitors)
      <4>1. /\ Holders(row)' \in SUBSET Monitors
            /\ Newcomers(b)' \cap Holders(row)' = {}
        BY DEF Newcomers, Holders
      <4> QED BY <2>1, <4>1, ApartMonitors
    <3>3. Cardinality(Newcomers(b)') <= Cardinality(Monitors)
      BY <2>1, FS_Subset
    <3>4. Cardinality(Escaped(row)') = 0
      BY <1>6, FS_EmptySet
    <3>5. /\ Cardinality(Newcomers(b)') \in Nat /\ Cardinality(Holders(row)') \in Nat
          /\ Cardinality(Monitors) \in Nat
      <4>1. Holders(row)' \in SUBSET Monitors
        BY DEF Holders
      <4> QED BY <2>1, <4>1, FS_Subset, FS_CardinalityType
    <3>6. /\ Cardinality(RowsAt(b)') + Cardinality(Newcomers(b)') + Cardinality(Holders(row)')
               <= Cardinality(Monitors) + 1
          /\ Cardinality(RowsAt(b)') + Cardinality(Newcomers(b)') + Cardinality(Escaped(row)')
               <= MaxPrior + Cardinality(Monitors) + 1
      BY <3>1, <3>2, <3>3, <3>4, <3>5
    <3>7. \A d \in RowsAt(b)' \ {row} : \A m, n \in Launches(d)' : m = n
      BY <3>1
    <3> QED BY <3>1, <3>6, <3>7 DEF Bounded, BoundedAt
  <2>4. CASE RowsAt(a) # {}
    <3>1. PICK c \in RowsAt(b) : Bounded(b, c)
      BY <1>8, <2>4 DEF VelocityInv, BoundedAt
    <3>2. c \in Creators \ {row} /\ c \in RowsAt(b)'
      BY <1>3, <1>5, <1>8 DEF RowsAt
    <3>3. Holders(c)' = Holders(c) /\ Escaped(c)' = Escaped(c)
      BY <1>4, <3>2
    <3>4. /\ Cardinality(RowsAt(b)) \in Nat /\ Cardinality(Newcomers(b)) \in Nat
          /\ Cardinality(Holders(c)) \in Nat /\ Cardinality(Escaped(c)) \in Nat
          /\ Cardinality(Monitors) \in Nat
      BY MonitorCounts
    <3>5. /\ Cardinality(RowsAt(b)') + Cardinality(Newcomers(b)') + Cardinality(Holders(c)')
               <= Cardinality(Monitors) + 1
          /\ Cardinality(RowsAt(b)') + Cardinality(Newcomers(b)') + Cardinality(Escaped(c)')
               <= MaxPrior + Cardinality(Monitors) + 1
      BY <2>2, <3>1, <3>3, <3>4 DEF Bounded
    <3>6. ASSUME NEW d \in RowsAt(b)', d # c, NEW m \in Launches(d)', NEW n \in Launches(d)'
          PROVE  m = n
      <4>1. CASE d = row
        BY <1>6, <3>6, <4>1
      <4>2. CASE d # row
        <5>1. d \in RowsAt(b) /\ d \in Creators \ {row}
          BY <1>3, <1>8, <3>6, <4>2 DEF RowsAt
        <5> QED BY <1>4, <3>1, <3>6, <5>1 DEF Bounded
      <4> QED BY <4>1, <4>2
    <3>7. Bounded(b, c)'
      BY <3>5, <3>6 DEF Bounded
    <3> QED BY <3>2, <3>7 DEF BoundedAt
  <2> QED BY <2>3, <2>4
<1> QED BY <1>7, <1>8

\* A step of one monitor through the stages of its launch.
LEMMA LaunchMoves ==
  ASSUME MonitorInv, LaunchesOnce, NEW s \in Monitors,
         NEW at \in MonitorStages \ {"idle", "new", "found"},
         NEW prior \in Nat,
         Becomes(s, [monitors[s] EXCEPT !.at = at, !.prior = prior])
  PROVE  /\ monitors' \in [Monitors -> Monitor]
         /\ \A r \in Monitors \ {s} : monitors'[r] = monitors[r]
         /\ monitors'[s].at = at /\ monitors'[s].prior = prior
         /\ monitors'[s].mint = monitors[s].mint
         /\ monitors'[s].creator = monitors[s].creator
         /\ monitors'[s].address = monitors[s].address
<1> DEFINE x == [monitors[s] EXCEPT !.at = at, !.prior = prior]
<1>1. /\ x \in Monitor /\ x.at = at /\ x.prior = prior /\ x.mint = monitors[s].mint
      /\ x.creator = monitors[s].creator /\ x.address = monitors[s].address
  BY DEF MonitorInv, Monitor, MonitorStages
<1>2. monitors' = [monitors EXCEPT ![s] = x]
  BY DEF Becomes
<1> HIDE DEF x
<1> QED BY <1>1, <1>2 DEF MonitorInv

\* The launches of a row and what escapes it, when no launch is counted.
LEMMA NothingCounted ==
  ASSUME LaunchesOnce, NEW s \in Monitors, UNCHANGED creators,
         \A r \in Monitors \ {s} : monitors'[r] = monitors[r],
         \A m \in Mints : tokens'[m] # tokens[m] =>
            /\ monitors[s].at = "counted" /\ m = monitors[s].mint
            /\ tokens'[m] = monitors[s].creator,
         \A o \in opportunities' \ opportunities :
            /\ monitors[s].at = "registered" /\ o.mint = monitors[s].mint
            /\ o.flagged = HighVelocity(monitors[s].prior),
         monitors'[s].at # "new",
         monitors'[s].at \in {"found", "counted", "registered"} =>
            /\ monitors[s].at \in {"found", "counted", "registered"}
            /\ monitors'[s].creator = monitors[s].creator
            /\ monitors'[s].mint = monitors[s].mint
            /\ monitors'[s].at # "found" => \/ HighVelocity(monitors'[s].prior)
                                            \/ /\ monitors[s].at # "found"
                                               /\ monitors'[s].prior = monitors[s].prior
  PROVE  \A a \in CreatorAddresses : BoundedAt(a) => BoundedAt(a)'
<1>1. \A a : RowsAt(a)' = RowsAt(a) /\ Newcomers(a)' \subseteq Newcomers(a)
  BY DEF RowsAt, Newcomers
<1>2. ASSUME NEW c \in Creators PROVE Holders(c)' \subseteq Holders(c)
  BY DEF Holders
<1>3. ASSUME NEW c \in Creators, NEW m \in Launches(c)' PROVE m \in Launches(c)
  <2>1. CASE m \in Mints /\ tokens'[m] = c
    <3>1. CASE tokens[m] = c
      BY <2>1, <3>1 DEF Launches, TokensOf
    <3>2. CASE tokens[m] # c
      <4>1. s \in Holders(c) /\ m = monitors[s].mint
        BY <2>1, <3>2 DEF Holders
      <4> QED BY <4>1 DEF Launches
    <3> QED BY <3>1, <3>2
  <2>2. CASE \E r \in Holders(c)' : m = monitors'[r].mint
    <3>1. PICK r \in Holders(c)' : m = monitors'[r].mint
      BY <2>2
    <3>2. r \in Holders(c) /\ m = monitors[r].mint
      BY <1>2, <3>1 DEF Holders
    <3> QED BY <3>2 DEF Launches
  <2> QED BY <1>3, <2>1, <2>2 DEF Launches, TokensOf
<1>4. ASSUME NEW c \in Creators, NEW m \in Escaped(c)' PROVE m \in Escaped(c)
  <2>1. CASE \E r \in Holders(c)' : /\ monitors'[r].mint = m /\ monitors'[r].at # "found"
                                    /\ ~HighVelocity(monitors'[r].prior)
    <3>1. PICK r \in Holders(c)' : /\ monitors'[r].mint = m /\ monitors'[r].at # "found"
                                   /\ ~HighVelocity(monitors'[r].prior)
      BY <2>1
    <3>2. /\ r \in Holders(c) /\ monitors[r].mint = m /\ monitors[r].at # "found"
          /\ ~HighVelocity(monitors[r].prior)
      BY <1>2, <3>1 DEF Holders
    <3> QED BY <1>4, <3>2 DEF Escaped
  <2>2. CASE tokens'[m] = c /\ \E o \in opportunities' : o.mint = m /\ ~o.flagged
    <3>1. PICK o \in opportunities' : o.mint = m /\ ~o.flagged
      BY <2>2
    <3>2. m \in Mints
      BY <1>4 DEF Escaped
    <3>3. CASE o \in opportunities
      BY <2>2, <3>1, <3>2, <3>3 DEF Escaped, LaunchesOnce, AtLaunch
    <3>4. CASE o \notin opportunities
      <4>1. /\ monitors[s].at = "registered" /\ m = monitors[s].mint
            /\ ~HighVelocity(monitors[s].prior)
        BY <3>1, <3>4
      <4>2. monitors[s].creator = c
        BY <2>2, <3>2, <4>1 DEF LaunchesOnce, AtLaunch
      <4> QED BY <3>2, <4>1, <4>2 DEF Escaped, Holders
    <3> QED BY <3>3, <3>4
  <2> QED BY <1>4, <2>1, <2>2 DEF Escaped
<1>5. SUFFICES ASSUME NEW a \in CreatorAddresses, BoundedAt(a), RowsAt(a) # {}
               PROVE  \E c \in RowsAt(a) : Bounded(a, c)'
  BY <1>1 DEF BoundedAt
<1>6. PICK c \in RowsAt(a) : Bounded(a, c)
  BY <1>5 DEF BoundedAt
<1>7. RowsAt(a) \subseteq Creators
  BY DEF RowsAt
<1> QED BY <1>1, <1>2, <1>3, <1>4, <1>6, <1>7, BoundedShrinks

\* A row that counts few launches bounds those that escape it by what it counted
\* and who counts with it.
LEMMA FewCounted ==
  ASSUME MonitorInv, LaunchesOnce, NEW s \in Monitors, CountLaunches(s), NEW c,
         c = monitors[s].creator, ~HighVelocity(Cardinality(TokensOf(c)))
  PROVE  /\ Holders(c)' = Holders(c)
         /\ Cardinality(Escaped(c)') <= MaxPrior + Cardinality(Holders(c))
         /\ Cardinality(Escaped(c)') \in Nat
<1> USE MonitorAssumption
<1>1. /\ monitors[s].at = "found" /\ UNCHANGED <<creators, tokens, opportunities>>
      /\ Becomes(s, [monitors[s] EXCEPT !.at = "counted",
                       !.prior = Cardinality(TokensOf(monitors[s].creator))])
  BY DEF CountLaunches
<1>2. Cardinality(TokensOf(monitors[s].creator)) \in Nat
  BY MonitorCounts
<1>3. /\ \A r \in Monitors \ {s} : monitors'[r] = monitors[r]
      /\ monitors'[s].at = "counted" /\ monitors'[s].mint = monitors[s].mint
      /\ monitors'[s].creator = monitors[s].creator
  BY <1>1, <1>2, LaunchMoves DEF MonitorStages
<1>4. Holders(c)' = Holders(c)
  BY <1>1, <1>3 DEF Holders
<1>5. ASSUME NEW m \in Escaped(c)' PROVE m \in Launches(c)
  <2>1. CASE tokens'[m] = c
    BY <1>1, <1>5, <2>1 DEF Launches, TokensOf, Escaped
  <2>2. CASE \E r \in Holders(c)' : monitors'[r].mint = m
    <3>1. PICK r \in Holders(c) : monitors'[r].mint = m
      BY <1>4, <2>2
    <3>2. monitors[r].mint = m
      BY <1>3, <3>1 DEF Holders
    <3> QED BY <3>1, <3>2 DEF Launches
  <2> QED BY <1>5, <2>1, <2>2 DEF Escaped
<1> DEFINE mints == {monitors[r].mint : r \in Holders(c)}
           f == [r \in Holders(c) |-> monitors[r].mint]
<1>6. f \in Surjection(Holders(c), mints)
  BY DEF Surjection
<1>7. PICK H : H = Holders(c)
  OBVIOUS
<1>8. IsFiniteSet(H) /\ Cardinality(H) \in Nat /\ f \in Surjection(H, mints)
  BY <1>6, <1>7, MonitorCounts
<1> HIDE DEF mints, f
<1>9. IsFiniteSet(mints) /\ Cardinality(mints) <= Cardinality(H)
  BY <1>8, FS_Surjection
<1>10. PICK T : T = TokensOf(c)
  OBVIOUS
<1>11. IsFiniteSet(T) /\ Cardinality(T) \in Nat /\ Cardinality(T) <= MaxPrior
  BY <1>10, MonitorCounts DEF HighVelocity
<1>12. /\ IsFiniteSet(T \cup mints)
       /\ Cardinality(T \cup mints) = Cardinality(T) + Cardinality(mints)
                                        - Cardinality(T \cap mints)
  BY <1>9, <1>11, FS_Union
<1>13. Cardinality(T \cap mints) \in Nat /\ Cardinality(mints) \in Nat
  <2>1. (T \cap mints) \in SUBSET T
    OBVIOUS
  <2> QED BY <1>9, <1>11, <2>1, FS_Subset, FS_CardinalityType
<1>14. Cardinality(T \cup mints) <= MaxPrior + Cardinality(H)
  BY <1>8, <1>9, <1>11, <1>12, <1>13
<1>15. Escaped(c)' \in SUBSET (T \cup mints)
  BY <1>5, <1>10 DEF Launches, mints
<1>16. /\ Cardinality(Escaped(c)') <= Cardinality(T \cup mints)
       /\ Cardinality(Escaped(c)') \in Nat /\ Cardinality(T \cup mints) \in Nat
  BY <1>12, <1>15, FS_Subset, FS_CardinalityType
<1> QED BY <1>4, <1>7, <1>8, <1>14, <1>16

LEMMA CountBounded ==
  ASSUME VelocityInv, NEW s \in Monitors, CountLaunches(s), NEW a \in CreatorAddresses
  PROVE  LaunchesOnce' /\ BoundedAt(a)'
<1> USE MonitorAssumption
<1>1. /\ MonitorInv /\ LaunchesOnce /\ BoundedAt(a)
      /\ monitors[s].at = "found" /\ UNCHANGED <<creators, tokens, opportunities>>
      /\ Becomes(s, [monitors[s] EXCEPT !.at = "counted",
                       !.prior = Cardinality(TokensOf(monitors[s].creator))])
  BY DEF VelocityInv, CountLaunches
<1>2. PICK row : row = monitors[s].creator
  OBVIOUS
<1>3. Cardinality(TokensOf(row)) \in Nat
  BY MonitorCounts
<1>4. /\ \A r \in Monitors \ {s} : monitors'[r] = monitors[r]
      /\ monitors'[s].at = "counted" /\ monitors'[s].mint = monitors[s].mint
      /\ monitors'[s].creator = row /\ monitors'[s].address = monitors[s].address
      /\ monitors'[s].prior = Cardinality(TokensOf(row))
  BY <1>1, <1>2, <1>3, LaunchMoves DEF MonitorStages
<1>5. LaunchesOnce'
  <2>1. ASSUME NEW r \in Monitors PROVE AtLaunch(r)'
    <3>1. CASE r = s
      BY <1>1, <1>2, <1>4, <3>1 DEF AtLaunch, LaunchesOnce
    <3>2. CASE r # s
      BY <1>1, <1>4, <3>2 DEF AtLaunch, LaunchesOnce
    <3> QED BY <3>1, <3>2
  <2> QED BY <1>1, <2>1 DEF LaunchesOnce
<1>6. CASE HighVelocity(Cardinality(TokensOf(row)))
  BY <1>1, <1>2, <1>4, <1>5, <1>6, NothingCounted
<1>7. CASE ~HighVelocity(Cardinality(TokensOf(row)))
  <2>1. /\ Holders(row)' = Holders(row)
        /\ Cardinality(Escaped(row)') <= MaxPrior + Cardinality(Holders(row))
        /\ Cardinality(Escaped(row)') \in Nat
    BY <1>1, <1>2, <1>7, FewCounted
  <2>2. /\ RowsAt(a)' = RowsAt(a) /\ Newcomers(a)' = Newcomers(a)
        /\ RowsAt(a) \subseteq Creators
    BY <1>1, <1>4 DEF RowsAt, Newcomers
  <2>3. ASSUME NEW d \in Creators
        PROVE  Holders(d)' \subseteq Holders(d) /\ Launches(d)' \subseteq Launches(d)
    <3>1. Holders(d)' = Holders(d) /\ TokensOf(d)' = TokensOf(d)
      BY <1>1, <1>2, <1>4 DEF Holders, TokensOf
    <3>2. \A r \in Holders(d) : monitors'[r].mint = monitors[r].mint
      BY <1>4 DEF Holders
    <3>3. Launches(d)' = Launches(d)
      BY <3>1, <3>2 DEF Launches
    <3> QED BY <3>1, <3>3
  <2>4. SUFFICES ASSUME RowsAt(a) # {} PROVE \E c \in RowsAt(a) : Bounded(a, c)'
    BY <1>5, <2>2 DEF BoundedAt
  <2>5. PICK c \in RowsAt(a) : Bounded(a, c)
    BY <1>1, <2>4 DEF BoundedAt
  <2>6. CASE c # row
    <3>1. Escaped(c)' \subseteq Escaped(c)
      BY <1>1, <1>2, <1>4, <2>6 DEF Escaped, Holders
    <3> QED BY <2>2, <2>3, <2>5, <3>1, BoundedShrinks
  <2>7. CASE c = row
    <3>1. /\ Cardinality(RowsAt(a)) \in Nat /\ Cardinality(Newcomers(a)) \in Nat
          /\ Cardinality(Holders(c)) \in Nat /\ Cardinality(Monitors) \in Nat
      BY MonitorCounts
    <3>2. /\ Cardinality(RowsAt(a)') + Cardinality(Newcomers(a)') + Cardinality(Holders(c)')
               <= Cardinality(Monitors) + 1
          /\ Cardinality(RowsAt(a)') + Cardinality(Newcomers(a)') + Cardinality(Escaped(c)')
               <= MaxPrior + Cardinality(Monitors) + 1
      BY <2>1, <2>2, <2>5, <2>7, <3>1 DEF Bounded
    <3>3. \A d \in RowsAt(a)' \ {c} : \A m, n \in Launches(d)' : m = n
      BY <2>2, <2>3, <2>5 DEF Bounded
    <3> QED BY <2>5, <3>2, <3>3 DEF Bounded
  <2> QED BY <2>6, <2>7
<1> QED BY <1>5, <1>6, <1>7

\* RegisterToken, and the opportunity of a launch that goes on to be watched,
\* move the monitor one stage on; the rest end its launch.
LEMMA MovesLaunches ==
  ASSUME MonitorInv, LaunchesOnce, NEW s \in Monitors,
         \/ RegisterToken(s) \/ RegisterOpportunity(s)
         \/ LookForWallet(s) \/ Suggest(s) \/ EvaluationFails(s)
  PROVE  LaunchesOnce' /\ \A a \in CreatorAddresses : BoundedAt(a) => BoundedAt(a)'
<1> USE MonitorAssumption
<1> DEFINE Left == monitors' = [monitors EXCEPT ![s] = IdleMonitor]
           Moved(at) == /\ \A r \in Monitors \ {s} : monitors'[r] = monitors[r]
                        /\ monitors'[s].at = at
                        /\ monitors'[s].prior = monitors[s].prior
                        /\ monitors'[s].mint = monitors[s].mint
                        /\ monitors'[s].creator = monitors[s].creator
                        /\ monitors'[s].address = monitors[s].address
<1>1. ASSUME NEW at \in MonitorStages \ {"idle", "new", "found"},
             Becomes(s, [monitors[s] EXCEPT !.at = at])
      PROVE  Moved(at)
  <2> DEFINE x == [monitors[s] EXCEPT !.at = at]
  <2>1. /\ x.at = at /\ x.prior = monitors[s].prior /\ x.mint = monitors[s].mint
        /\ x.creator = monitors[s].creator /\ x.address = monitors[s].address
    BY DEF MonitorInv, Monitor, MonitorStages
  <2>2. monitors' = [monitors EXCEPT ![s] = x]
    BY <1>1 DEF Becomes
  <2> HIDE DEF x
  <2> QED BY <2>1, <2>2 DEF MonitorInv
<1>2. ASSUME Left
      PROVE  /\ \A r \in Monitors \ {s} : monitors'[r] = monitors[r]
             /\ monitors'[s].at = "idle" /\ monitors'[s].mint = NoCreator
  BY <1>2 DEF IdleMonitor, MonitorInv
<1>3. CASE RegisterToken(s)
  <2>1. /\ monitors[s].at = "counted" /\ UNCHANGED <<creators, opportunities>>
        /\ tokens' = [tokens EXCEPT ![monitors[s].mint] = monitors[s].creator]
        /\ Moved("registered")
    BY <1>1, <1>3 DEF RegisterToken, MonitorStages
  <2>2. /\ monitors[s].mint \in Mints /\ monitors[s].creator \in Creators
        /\ creators[monitors[s].creator] # NoCreator /\ tokens[monitors[s].mint] = NoCreator
        /\ tokens \in [Mints -> Creators \cup {NoCreator}]
        /\ \A r \in Monitors \ {s} : monitors[r].mint # monitors[s].mint
        /\ \A o \in opportunities : o.mint # monitors[s].mint
    BY <2>1 DEF LaunchesOnce, AtLaunch
  <2>3. /\ tokens' \in [Mints -> Creators \cup {NoCreator}]
        /\ tokens'[monitors[s].mint] = monitors[s].creator
        /\ \A m \in Mints \ {monitors[s].mint} : tokens'[m] = tokens[m]
    BY <2>1, <2>2
  <2>4. ASSUME NEW r \in Monitors PROVE AtLaunch(r)'
    <3>1. CASE r = s
      BY <2>1, <2>2, <2>3, <3>1 DEF AtLaunch, LaunchesOnce
    <3>2. CASE r # s
      BY <2>1, <2>2, <2>3, <3>2 DEF AtLaunch, LaunchesOnce
    <3> QED BY <3>1, <3>2
  <2>5. \A o \in opportunities : tokens'[o.mint] # NoCreator
    BY <2>2, <2>3 DEF LaunchesOnce, Opportunity
  <2>6. LaunchesOnce'
    BY <2>1, <2>2, <2>3, <2>4, <2>5 DEF LaunchesOnce
  <2> QED BY <2>1, <2>3, <2>6, NothingCounted
<1>4. CASE RegisterOpportunity(s)
  <2> DEFINE new == [mint |-> monitors[s].mint, flagged |-> HighVelocity(monitors[s].prior),
                     action |-> Decided(monitors[s].liquid)]
  <2>1. /\ monitors[s].at = "registered" /\ UNCHANGED <<creators, tokens>>
        /\ opportunities' = opportunities \cup {new}
        /\ Left \/ Moved("watched")
    BY <1>1, <1>4 DEF RegisterOpportunity, Becomes, MonitorStages
  <2>2. /\ new \in Opportunity /\ new.mint = monitors[s].mint
        /\ new.flagged = HighVelocity(monitors[s].prior)
    BY <2>1 DEF Opportunity, LaunchesOnce, AtLaunch, HighVelocity, Decided
  <2> HIDE DEF new
  <2>3. /\ \A r \in Monitors \ {s} : monitors'[r] = monitors[r]
        /\ \/ monitors'[s].at = "idle" /\ monitors'[s].mint = NoCreator
           \/ Moved("watched")
    BY <1>2, <2>1
  <2>4. ASSUME NEW r \in Monitors PROVE AtLaunch(r)'
    <3>1. CASE r = s
      BY <2>1, <2>2, <2>3, <3>1 DEF AtLaunch, LaunchesOnce
    <3>2. CASE r # s
      BY <2>1, <2>2, <2>3, <3>2 DEF AtLaunch, LaunchesOnce
    <3> QED BY <3>1, <3>2
  <2>5. /\ opportunities' \subseteq Opportunity
        /\ \A o, p \in opportunities' : o.mint = p.mint => o = p
        /\ \A o \in opportunities' : tokens[o.mint] # NoCreator
    BY <2>1, <2>2 DEF LaunchesOnce, AtLaunch
  <2>6. LaunchesOnce'
    BY <2>1, <2>4, <2>5 DEF LaunchesOnce
  <2> QED BY <2>1, <2>2, <2>3, <2>6, NothingCounted
<1>5. CASE LookForWallet(s) \/ Suggest(s) \/ EvaluationFails(s)
  <2>1. /\ UNCHANGED <<creators, tokens, opportunities>>
        /\ Left \/ Moved("suggesting")
        /\ monitors[s].at # "idle"
    BY <1>1, <1>5 DEF LookForWallet, Suggest, EvaluationFails, Becomes, MonitorStages
  <2>2. /\ \A r \in Monitors \ {s} : monitors'[r] = monitors[r]
        /\ \/ monitors'[s].at = "idle" /\ monitors'[s].mint = NoCreator
           \/ Moved("suggesting")
    BY <1>2, <2>1
  <2>3. ASSUME NEW r \in Monitors PROVE AtLaunch(r)'
    <3>1. CASE r = s
      BY <2>1, <2>2, <3>1 DEF AtLaunch, LaunchesOnce
    <3>2. CASE r # s
      BY <2>1, <2>2, <3>2 DEF AtLaunch, LaunchesOnce
    <3> QED BY <3>1, <3>2
  <2>4. LaunchesOnce'
    BY <2>1, <2>3 DEF LaunchesOnce
  <2> QED BY <2>1, <2>2, <2>4, NothingCounted
<1> QED BY <1>3, <1>4, <1>5

LEMMA VelocityStep == VelocityInv /\ [MonitorNext]_mvars => VelocityInv'
<1> SUFFICES ASSUME VelocityInv, [MonitorNext]_mvars PROVE VelocityInv'
  OBVIOUS
<1>1. MonitorInv /\ LaunchesOnce /\ MonitorInv'
  BY MonitorStepInv DEF VelocityInv
<1>2. SUFFICES LaunchesOnce' /\ \A a \in CreatorAddresses : BoundedAt(a)'
  BY <1>1 DEF VelocityInv
<1>3. CASE UNCHANGED <<creators, tokens, opportunities, monitors>>
  <2>1. LaunchesOnce'
    BY <1>1, <1>3 DEF LaunchesOnce, AtLaunch
  <2>2. ASSUME NEW a \in CreatorAddresses PROVE BoundedAt(a)'
    <3>1. RowsAt(a)' = RowsAt(a) /\ Newcomers(a)' = Newcomers(a)
      BY <1>3 DEF RowsAt, Newcomers
    <3>2. \A c : /\ Holders(c)' = Holders(c) /\ Escaped(c)' = Escaped(c)
                 /\ Launches(c)' = Launches(c)
      BY <1>3 DEF Holders, Escaped, Launches, TokensOf
    <3> QED BY <3>1, <3>2 DEF VelocityInv, BoundedAt, Bounded
  <2> QED BY <2>1, <2>2
<1>4. ASSUME NEW s \in Monitors, NEW m \in Mints, NEW a \in CreatorAddresses,
             NEW liquid \in BOOLEAN, LookForCreator(s, m, a, liquid)
      PROVE  LaunchesOnce' /\ \A b \in CreatorAddresses : BoundedAt(b)'
  BY <1>1, <1>4, LookLaunches, LookBounded
<1>5. ASSUME NEW s \in Monitors, NEW c \in Creators, InsertCreator(s, c)
      PROVE  LaunchesOnce' /\ \A b \in CreatorAddresses : BoundedAt(b)'
  <2>1. PICK a : a = monitors[s].address
    OBVIOUS
  <2>2. LaunchesOnce'
    BY <1>1, <1>5, <2>1, InsertLaunches
  <2> QED BY <1>5, <2>2, InsertBounded
<1>6. ASSUME NEW s \in Monitors, CountLaunches(s)
      PROVE  LaunchesOnce' /\ \A b \in CreatorAddresses : BoundedAt(b)'
  <2>1. LaunchesOnce'
    <3>1. CASE CreatorAddresses # {}
      BY <1>6, <3>1, CountBounded
    <3>2. CASE CreatorAddresses = {}
      BY <1>1, <1>6, <3>2 DEF CountLaunches, LaunchesOnce, AtLaunch
    <3> QED BY <3>1, <3>2
  <2> QED BY <1>6, <2>1, CountBounded
<1>7. ASSUME NEW s \in Monitors,
             \/ RegisterToken(s) \/ RegisterOpportunity(s)
             \/ LookForWallet(s) \/ Suggest(s) \/ EvaluationFails(s)
      PROVE  LaunchesOnce' /\ \A a \in CreatorAddresses : BoundedAt(a)'
  <2>1. LaunchesOnce' /\ \A a \in CreatorAddresses : BoundedAt(a) => BoundedAt(a)'
    BY <1>1, <1>7, MovesLaunches
  <2> QED BY <2>1 DEF VelocityInv
<1> QED
  BY <1>3, <1>4, <1>5, <1>6, <1>7
  DEF MonitorNext, mvars, AnswerSuggestion, SwitchWallet

(***************************************************************************)
(* The parts together.                                                     *)
(***************************************************************************)
ResearchInv == VersionsInv /\ LadderInv /\ ProtocolsInv /\ WalletsInv /\ MonitorInv

\* A step of the whole is a step of each part or leaves it alone.
LEMMA PartSteps ==
  [ResearchNext]_rvars =>
     /\ [VersionsNext]_svars /\ [LadderNext]_tvars /\ [ProtocolsNext]_pvars
     /\ [WalletsNext]_wvars /\ [MonitorNext]_mvars
BY DEF ResearchNext, rvars

\* What the sessions and monitors hold is as sound as what the tables say:
\* the inductive invariant of the research side, which the theorems below use.
THEOREM ResearchSound == ResearchSpec => []ResearchInv
<1>1. ResearchInit => ResearchInv
  BY VersionsInitInv, LadderInitInv, ProtocolsInitInv, WalletsInitInv, MonitorInitInv
  DEF ResearchInit, ResearchInv
<1>2. ResearchInv /\ [ResearchNext]_rvars => ResearchInv'
  BY PartSteps, VersionsStepInv, LadderStepInv, ProtocolsStepInv, WalletsStepInv,
     MonitorStepInv
  DEF ResearchInv
<1> QED BY <1>1, <1>2, PTL DEF ResearchSpec

\* No version is in PAPER or beyond without a TEST backtest, no thesis is
\* validated or approved without test capital and a report that passed, no
\* protocol is eligible without a score or a review, for any number of
\* sessions with rows as old as one likes.
THEOREM Standing == ResearchSpec => []EarnedStanding
<1>1. ResearchInv => EarnedStanding
  <2> SUFFICES ASSUME ResearchInv PROVE EarnedStanding
    OBVIOUS
  <2>1. EvidenceOnRecord
    BY DEF ResearchInv, VersionsInv, VersionSound, EvidenceOnRecord, Tests, Judged
  <2>2. ApprovedWasTested
    BY DEF ResearchInv, LadderInv, ThesisSound, ApprovedWasTested, Funded
  <2>3. EligibleWasVetted
    BY DEF ResearchInv, ProtocolsInv, ProtocolSound, EligibleWasVetted
  <2> QED BY <2>1, <2>2, <2>3 DEF EarnedStanding
<1> QED BY <1>1, ResearchSound, PTL

\* A disabled version, thesis or protocol is brought back by no method but only
\* by a session that had loaded it before it was disabled.
THEOREM Disabled == ResearchSpec => DisabledStands
<1> DEFINE VersionBack(v) ==
             versions[v].state = "DISABLED" /\ versions'[v].state # "DISABLED"
                => ByStaleCopy(versionCopies, versionCopies', versions, v)
           ThesisBack(t) ==
             theses[t].state = "DISABLED" /\ theses'[t].state # "DISABLED"
                => ByStaleCopy(thesisCopies, thesisCopies', theses, t)
           ProtocolBack(p) ==
             protocols[p].status = "DISABLED" /\ protocols'[p].status # "DISABLED"
                => ByStaleCopy(protocolCopies, protocolCopies', protocols, p)
<1>1. ResearchInv /\ [ResearchNext]_rvars => [\A v \in Versions : VersionBack(v)]_svars
  BY PartSteps, VersionDisableStep DEF ResearchInv
<1>2. ResearchInv /\ [ResearchNext]_rvars => [\A t \in Theses : ThesisBack(t)]_tvars
  BY PartSteps, ThesisDisableStep DEF ResearchInv
<1>3. ResearchInv /\ [ResearchNext]_rvars => [\A p \in Protocols : ProtocolBack(p)]_pvars
  BY PartSteps, ProtocolBrokenStep DEF ResearchInv
<1> QED
  BY <1>1, <1>2, <1>3, ResearchSound, PTL
  DEF ResearchSpec, DisabledStands, VersionDisableStands, ThesisDisableStands,
      ProtocolDisableStands

\* A protocol's score parts from its evidence only at the hand of a session
\* that computed it from an older row.
THEOREM ScoreStale == ResearchSpec => ScoreStaleOnlyByRace
<1> DEFINE Step ==
      \A p \in Protocols :
         LET Agrees(row) == row.score \in {NoScore, RiskScore(row)}
         IN Agrees(protocols[p]) /\ ~Agrees(protocols'[p])
              => ByStaleCopy(protocolCopies, protocolCopies', protocols, p)
<1>1. ResearchInv /\ [ResearchNext]_rvars => [Step]_pvars
  BY PartSteps, ProtocolBrokenStep DEF ResearchInv, ScoreAgrees
<1> QED BY <1>1, ResearchSound, PTL DEF ResearchSpec, ScoreStaleOnlyByRace

\* Two wallets get one address only when the second request had looked before
\* the first wallet was there with it.
THEOREM Duplicates == ResearchSpec => DuplicateOnlyByRace
<1>1. ResearchInv /\ [ResearchNext]_rvars =>
         [\A w \in OnFile' \ OnFile, v \in OnFile :
             wallets[v].address = wallets'[w].address
                => \E s \in Sessions :
                      /\ requests[s].wallet = w
                      /\ <<v, wallets[v].address>> \notin requests[s].saw]_wvars
  BY PartSteps, DuplicateStep DEF ResearchInv, DuplicateByRace
<1> QED BY <1>1, ResearchSound, PTL DEF ResearchSpec, DuplicateOnlyByRace

\* Every change of a wallet's address has its audit row, and the last of them
\* names the address there is unless a session with an older row wrote it.
THEOREM AddressesLogged == ResearchSpec => AddressOnRecord
<1> DEFINE Step ==
      \A w \in OnFile :
         LET Agrees(row, log) == log # <<>> => log[Len(log)] = row.address
         IN /\ wallets'[w].address # wallets[w].address
                 => addressLog'[w] # addressLog[w]
            /\ Agrees(wallets[w], addressLog[w])
                 /\ ~Agrees(wallets'[w], addressLog'[w])
               => \E s \in Sessions :
                     /\ walletCopies[s][w] \notin {NoCopy, wallets[w]}
                     /\ walletCopies'[s][w].address = addressLog'[w][Len(addressLog'[w])]
<1>1. ResearchInv /\ [ResearchNext]_rvars => [Step]_wvars
  BY PartSteps, AddressStep DEF ResearchInv, AddressByRace, LogAgrees
<1> QED BY <1>1, ResearchSound, PTL DEF ResearchSpec, AddressOnRecord

\* A creator gets a second row only from a monitor that had looked before the
\* first was there, in whatever way the cycles overlap or fail.
THEOREM CreatorsDoubled == ResearchSpec => CreatorDoubledOnlyByRace
<1>1. ResearchInv /\ [ResearchNext]_rvars =>
         [\A c, d \in Creators :
             /\ creators[c] = NoCreator /\ creators'[c] # NoCreator
             /\ creators[d] = creators'[c]
             => \E s \in Monitors :
                   monitors'[s].creator = c /\ d \notin monitors[s].saw]_mvars
  BY PartSteps, CreatorStep DEF ResearchInv
<1> QED BY <1>1, ResearchSound, PTL DEF ResearchSpec, CreatorDoubledOnlyByRace

\* However many monitors evaluate launches at the same time and fail, and
\* whether or not a creator comes to have two rows, at most MaxPrior of a
\* creator's launches and one more for each monitor are logged without the
\* flag.
THEOREM VelocityCaught == ResearchSpec => []VelocityFlagged
<1>1. ResearchInit => VelocityInv
  BY InitVelocity DEF ResearchInit
<1>2. VelocityInv /\ [ResearchNext]_rvars => VelocityInv'
  BY PartSteps, VelocityStep
<1>3. VelocityInv => VelocityFlagged
  BY BoundedVelocity DEF VelocityFlagged
<1> QED BY <1>1, <1>2, <1>3, PTL DEF ResearchSpec

\* What a monitor registers, suggests or is told of is of its own launch.
Recorded == /\ tokens \in [Mints -> Creators \cup {NoCreator}]
            /\ opportunities \subseteq Opportunity
            /\ openWallets \subseteq WatchWallets
            /\ suggestions \in [Mints -> SuggestionStatus \cup {"NONE"}]

LEMMA MonitorRecorded ==
  ASSUME MonitorInv, LaunchesOnce, Recorded, [MonitorNext]_mvars
  PROVE  Recorded'
<1> USE DEF Recorded
<1>1. ASSUME NEW s \in Monitors, RegisterToken(s) PROVE Recorded'
  BY <1>1 DEF RegisterToken, intake, MonitorInv, Monitor
<1>2. ASSUME NEW s \in Monitors, RegisterOpportunity(s) PROVE Recorded'
  <2>1. monitors[s].mint \in Mints /\ monitors[s].liquid \in BOOLEAN
    BY <1>2 DEF RegisterOpportunity, LaunchesOnce, AtLaunch, MonitorInv, Monitor
  <2>2. [mint |-> monitors[s].mint, flagged |-> HighVelocity(monitors[s].prior),
         action |-> Decided(monitors[s].liquid)] \in Opportunity
    BY <2>1 DEF Opportunity, HighVelocity, Decided
  <2> QED BY <1>2, <2>2 DEF RegisterOpportunity, intake
<1>3. ASSUME NEW s \in Monitors, Suggest(s) PROVE Recorded'
  BY <1>3 DEF Suggest, SuggestionStatus
<1>4. ASSUME NEW m \in Mints, NEW x \in {"DISMISSED", "DONE_MANUALLY"}, AnswerSuggestion(m, x)
      PROVE  Recorded'
  BY <1>4 DEF AnswerSuggestion, SuggestionStatus
<1>5. ASSUME NEW w \in WatchWallets, SwitchWallet(w) PROVE Recorded'
  BY <1>5 DEF SwitchWallet
<1>6. ASSUME UNCHANGED <<tokens, opportunities, intake>> PROVE Recorded'
  BY <1>6 DEF intake
<1>7. ASSUME NEW s \in Monitors,
             \/ \E m \in Mints, a \in CreatorAddresses, liquid \in BOOLEAN :
                   LookForCreator(s, m, a, liquid)
             \/ \E c \in Creators : InsertCreator(s, c)
             \/ CountLaunches(s) \/ LookForWallet(s) \/ EvaluationFails(s)
      PROVE  Recorded'
  <2>1. CASE \E m \in Mints, a \in CreatorAddresses, liquid \in BOOLEAN :
               LookForCreator(s, m, a, liquid)
    BY <1>6, <2>1 DEF LookForCreator
  <2>2. CASE \E c \in Creators : InsertCreator(s, c)
    BY <1>6, <2>2 DEF InsertCreator
  <2>3. CASE CountLaunches(s) \/ LookForWallet(s) \/ EvaluationFails(s)
    BY <1>6, <2>3 DEF CountLaunches, LookForWallet, EvaluationFails, intake
  <2> QED BY <1>7, <2>1, <2>2, <2>3
<1>8. CASE UNCHANGED mvars
  BY <1>6, <1>8 DEF mvars, intake
<1> HIDE DEF Recorded
<1> QED BY <1>1, <1>2, <1>3, <1>4, <1>5, <1>7, <1>8 DEF MonitorNext

\* The type invariants of the five parts, whatever overlaps or fails.
THEOREM ResearchTyped ==
  ResearchSpec => [](/\ VersionsTypeOK /\ LadderTypeOK /\ ProtocolsTypeOK
                     /\ WalletsTypeOK /\ MonitorTypeOK)
<1>1. ResearchInit => VelocityInv /\ Recorded
  BY InitVelocity DEF ResearchInit, MonitorInit, Recorded
<1>2. VelocityInv /\ Recorded /\ [ResearchNext]_rvars => VelocityInv' /\ Recorded'
  BY PartSteps, VelocityStep, MonitorRecorded DEF VelocityInv
<1>3. ResearchInv /\ Recorded =>
        /\ VersionsTypeOK /\ LadderTypeOK /\ ProtocolsTypeOK
        /\ WalletsTypeOK /\ MonitorTypeOK
  BY DEF ResearchInv, VersionsInv, LadderInv, ProtocolsInv, WalletsInv, MonitorInv,
         Recorded, MonitorTypeOK
<1> QED BY <1>1, <1>2, <1>3, ResearchSound, PTL DEF ResearchSpec
=============================================================================
