--------------------------- MODULE LaunchMonitor ---------------------------
(***************************************************************************)
(* PumpFunMonitor.evaluate: a launch's creator is looked up or inserted,   *)
(* its earlier launches are counted, the token is registered, and the      *)
(* decision is logged as an opportunity; then TradeSuggestionEngine points *)
(* the user's wallet at a launch to WATCH, and the user answers.  A        *)
(* monitor belongs to a cycle, which evaluates one launch as it does by    *)
(* default, and cycles overlap: the loop's and those of POST               *)
(* /api/system/run-cycle.                                                  *)
(*                                                                         *)
(* The synthetic launches draw their creator from fifty addresses and give *)
(* every token a fresh mint.  A creator's risk notes, which nothing        *)
(* writes, are left out.                                                   *)
(***************************************************************************)
EXTENDS Integers, FiniteSets

CONSTANTS Monitors, Mints, Creators, CreatorAddresses, NoCreator,
          MaxPrior,      \* earlier launches that raise no flag
          WatchWallets   \* registered wallets of kind WATCH_ONLY

ASSUME MonitorAssumption ==
    /\ NoCreator \notin Creators \cup CreatorAddresses
    /\ MaxPrior \in Nat
    /\ IsFiniteSet(Mints) /\ IsFiniteSet(Creators) /\ IsFiniteSet(Monitors)

SuggestionStatus == {"PENDING", "DISMISSED", "DONE_MANUALLY"}
Opportunity == [mint : Mints, flagged : BOOLEAN, action : {"WATCH", "IGNORE"}]

VARIABLES creators,      \* address of each row of creators, NoCreator if none
          tokens,        \* creator row of each registered token
          opportunities, \* rows of opportunities
          openWallets,   \* the active ones among WatchWallets
          suggestions,   \* trade_suggestions: the status of each launch's row
          monitors       \* the launch each monitor evaluates

mvars == <<creators, tokens, opportunities, openWallets, suggestions, monitors>>
intake == <<openWallets, suggestions>>

RowsAt(a) == {c \in Creators : creators[c] = a}
TokensOf(c) == {m \in Mints : tokens[m] = c}

MonitorStages == {"idle", "new", "found", "counted", "registered", "watched", "suggesting"}

\* "saw" are the creators there when the monitor looked.
IdleMonitor == [at |-> "idle", mint |-> NoCreator, address |-> NoCreator,
                liquid |-> FALSE, creator |-> NoCreator, prior |-> 0, saw |-> {}]
Monitor == [at : MonitorStages, mint : Mints \cup {NoCreator},
            address : CreatorAddresses \cup {NoCreator}, liquid : BOOLEAN,
            creator : Creators \cup {NoCreator}, prior : Nat, saw : SUBSET Creators]

MonitorInit ==
    /\ creators = [c \in Creators |-> NoCreator]
    /\ tokens = [m \in Mints |-> NoCreator]
    /\ opportunities = {}
    /\ openWallets = WatchWallets
    /\ suggestions = [m \in Mints |-> "NONE"]
    /\ monitors = [s \in Monitors |-> IdleMonitor]

Becomes(s, m) == monitors' = [monitors EXCEPT ![s] = m]

FreshMint(m) == tokens[m] = NoCreator /\ \A s \in Monitors : monitors[s].mint # m

WithTokensAt(a) == {c \in RowsAt(a) : TokensOf(c) # {}}

\* The rows that match the launch's creator.
Matching(a) == RowsAt(a)

\* scalar_one_or_none: one row, none, or MultipleResultsFound, an exception
\* that ends the cycle before it has done anything.
LookForCreator(s, m, a, liquid) ==
    /\ monitors[s].at = "idle"
    /\ FreshMint(m)
    /\ Cardinality(Matching(a)) <= 1
    /\ Becomes(s, [IdleMonitor EXCEPT
                     !.at = IF Matching(a) = {} THEN "new" ELSE "found",
                     !.creator = IF Matching(a) = {} THEN NoCreator
                                 ELSE CHOOSE c \in Matching(a) : TRUE,
                     !.mint = m, !.address = a, !.liquid = liquid,
                     !.saw = {c \in Creators : creators[c] # NoCreator}])
    /\ UNCHANGED <<creators, tokens, opportunities, intake>>

InsertCreator(s, c) ==
    /\ monitors[s].at = "new"
    /\ creators[c] = NoCreator
    /\ creators' = [creators EXCEPT ![c] = monitors[s].address]
    /\ Becomes(s, [monitors[s] EXCEPT !.at = "found", !.creator = c])
    /\ UNCHANGED <<tokens, opportunities, intake>>

CountLaunches(s) ==
    /\ monitors[s].at = "found"
    /\ Becomes(s, [monitors[s] EXCEPT !.at = "counted",
                     !.prior = Cardinality(TokensOf(monitors[s].creator))])
    /\ UNCHANGED <<creators, tokens, opportunities, intake>>

RegisterToken(s) ==
    /\ monitors[s].at = "counted"
    /\ tokens' = [tokens EXCEPT ![monitors[s].mint] = monitors[s].creator]
    /\ Becomes(s, [monitors[s] EXCEPT !.at = "registered"])
    /\ UNCHANGED <<creators, opportunities, intake>>

FlagsOneLate(prior) == prior > MaxPrior + 1

\* creator_high_launch_velocity.
HighVelocity(prior) == prior > MaxPrior

\* _decide: the velocity raises the score of a launch and not its action.
Decided(liquid) == IF liquid THEN "WATCH" ELSE "IGNORE"

RegisterOpportunity(s) ==
    LET x == monitors[s] IN
    /\ x.at = "registered"
    /\ opportunities' = opportunities \cup
          {[mint |-> x.mint, flagged |-> HighVelocity(x.prior), action |-> Decided(x.liquid)]}
    /\ Becomes(s, IF Decided(x.liquid) = "WATCH" THEN [x EXCEPT !.at = "watched"]
                  ELSE IdleMonitor)
    /\ UNCHANGED <<creators, tokens, intake>>

\* suggest_from_decision: any active watch-only wallet, or no suggestion.
LookForWallet(s) ==
    /\ monitors[s].at = "watched"
    /\ Becomes(s, IF openWallets = {} THEN IdleMonitor
                  ELSE [monitors[s] EXCEPT !.at = "suggesting"])
    /\ UNCHANGED <<creators, tokens, opportunities, intake>>

Suggest(s) ==
    /\ monitors[s].at = "suggesting"
    /\ suggestions' = [suggestions EXCEPT ![monitors[s].mint] = "PENDING"]
    /\ Becomes(s, IdleMonitor)
    /\ UNCHANGED <<creators, tokens, opportunities, openWallets>>

\* dismiss and mark-done, whatever the status was.
AnswerSuggestion(m, status) ==
    /\ suggestions[m] # "NONE"
    /\ suggestions' = [suggestions EXCEPT ![m] = status]
    /\ UNCHANGED <<creators, tokens, opportunities, openWallets, monitors>>

\* WalletManager.set_active.
SwitchWallet(w) ==
    /\ openWallets' \in {openWallets \cup {w}, openWallets \ {w}}
    /\ UNCHANGED <<creators, tokens, opportunities, suggestions, monitors>>

\* A locked database or the end of the process, between two commits.
EvaluationFails(s) ==
    /\ monitors[s].at # "idle"
    /\ Becomes(s, IdleMonitor)
    /\ UNCHANGED <<creators, tokens, opportunities, intake>>

MonitorNext ==
    \/ \E m \in Mints, status \in {"DISMISSED", "DONE_MANUALLY"} :
          AnswerSuggestion(m, status)
    \/ \E w \in WatchWallets : SwitchWallet(w)
    \/ \E s \in Monitors :
        \/ \E m \in Mints, a \in CreatorAddresses, liquid \in BOOLEAN :
              LookForCreator(s, m, a, liquid)
        \/ \E c \in Creators : InsertCreator(s, c)
        \/ CountLaunches(s) \/ RegisterToken(s) \/ RegisterOpportunity(s)
        \/ LookForWallet(s) \/ Suggest(s) \/ EvaluationFails(s)

MonitorSpec == MonitorInit /\ [][MonitorNext]_mvars

(***************************************************************************)
(* Properties.                                                             *)
(***************************************************************************)
MonitorTypeOK ==
    /\ creators \in [Creators -> CreatorAddresses \cup {NoCreator}]
    /\ tokens \in [Mints -> Creators \cup {NoCreator}]
    /\ opportunities \subseteq Opportunity
    /\ openWallets \subseteq WatchWallets
    /\ suggestions \in [Mints -> SuggestionStatus \cup {"NONE"}]
    /\ monitors \in [Monitors -> Monitor]

\* A second row for a creator's address, after which scalar_one_or_none makes
\* every later cycle that draws this creator fail, needs a monitor that had
\* looked before the first row was committed: no failure or restart of a
\* single cycle brings it about (adapters/pumpfun/monitor.py:101-109).
CreatorDoubledOnlyByRace ==
    [][\A c, d \in Creators :
         /\ creators[c] = NoCreator /\ creators'[c] # NoCreator
         /\ creators[d] = creators'[c]
         => \E s \in Monitors : monitors'[s].creator = c /\ d \notin monitors[s].saw]_mvars

\* However cycles overlap or fail, and whether or not a creator has two rows,
\* at most one launch per other cycle escapes the count that flags its creator
\* (adapters/pumpfun/monitor.py:111-113, :151-153).
VelocityFlagged ==
    \A a \in CreatorAddresses :
        Cardinality({o \in opportunities :
                       ~o.flagged /\ tokens[o.mint] \in RowsAt(a)})
          <= MaxPrior + Cardinality(Monitors)
=============================================================================
