------------------------------ MODULE Lineage -------------------------------
(***************************************************************************)
(* The family of bots: LineageEngine behind POST /api/bots/mother and      *)
(* POST /api/bots/sons, and BotResurrectionEngine, each call in a session  *)
(* of its own and every commit a step of its own.                          *)
(*                                                                         *)
(* A bot's row is committed first and its lineage row in a second commit;  *)
(* a resurrected bot's version in a third.  The checks that precede them   *)
(* are queries of other moments.  A living bot's state, its money, and the *)
(* name a caller chooses are left out; of a resurrected bot's name only    *)
(* the number after "-R" is kept.                                          *)
(***************************************************************************)
EXTENDS Integers, FiniteSets

CONSTANTS Bots,              \* identifiers of bots, each used once
          Sessions,          \* callers
          NoBot,
          MaxBots,           \* max_bots
          MaxGenerations     \* max_generations

ASSUME LineageAssumption ==
    /\ IsFiniteSet(Bots) /\ NoBot \notin Bots
    /\ MaxBots \in Nat \ {0} /\ MaxGenerations \in Nat

VARIABLES bots,      \* committed rows of bots
          lineage,   \* relationship_type of a bot's row of bot_lineage
          sess,      \* what each caller is doing
          torn       \* history: bots whose call failed after their row was committed

vars == <<bots, lineage, sess, torn>>

BotRow == [state : {"none", "alive", "DEAD"}, parent : Bots \cup {NoBot},
           generation : Nat, version : Nat, suffix : Nat]
NoRow == [state |-> "none", parent |-> NoBot, generation |-> 0, version |-> 1,
          suffix |-> 0]

Relationships == {"root", "child", "resurrection"}
Session == [pc : {"idle", "inserting", "spawning", "recording", "versioning"},
            relationship : Relationships, parent : Bots \cup {NoBot},
            suffix : Nat, version : Nat, bot : Bots \cup {NoBot}]
Idle == [pc |-> "idle", relationship |-> "root", parent |-> NoBot, suffix |-> 0,
         version |-> 1, bot |-> NoBot]

Init ==
    /\ bots = [b \in Bots |-> NoRow]
    /\ lineage = [b \in Bots |-> "none"]
    /\ sess = [s \in Sessions |-> Idle]
    /\ torn = {}

Existing == {b \in Bots : bots[b].state # "none"}
Roots == {b \in Existing : bots[b].generation = 0}

Become(s, x) == sess' = [sess EXCEPT ![s] = x]

\* create_mother_bot's handler: any row of generation 0 refuses it.
MayRootAlways == TRUE
MayRoot == Roots = {}

BeginMother(s) ==
    /\ sess[s].pc = "idle"
    /\ MayRoot
    /\ Become(s, [Idle EXCEPT !.pc = "inserting"])
    /\ UNCHANGED <<bots, lineage>>

\* spawn_son's handler loads a parent that is not dead.
BeginSpawn(s, p) ==
    /\ sess[s].pc = "idle"
    /\ bots[p].state = "alive"
    /\ Become(s, [Idle EXCEPT !.pc = "spawning", !.relationship = "child", !.parent = p])
    /\ UNCHANGED <<bots, lineage>>

\* resurrect a dead bot: its earlier resurrections are counted in bot_lineage, and
\* the version after the dead bot's is computed, before anything is written.
NextSuffixIsFirst(p) == 1
NextSuffix(p) == Cardinality({b \in Existing : /\ bots[b].parent = p
                                               /\ lineage[b] = "resurrection"}) + 1

NextVersionUnchanged(p) == bots[p].version
NextVersion(p) == bots[p].version + 1

BeginResurrect(s, p) ==
    /\ sess[s].pc = "idle"
    /\ bots[p].state = "DEAD"
    /\ Become(s, [Idle EXCEPT !.pc = "spawning", !.relationship = "resurrection",
                              !.parent = p, !.suffix = NextSuffix(p),
                              !.version = NextVersion(p)])
    /\ UNCHANGED <<bots, lineage>>

\* The growth limits of spawn_son, and its refusal when one is reached.
MayGrowPastGenerations(p) == Cardinality(Existing) < MaxBots
MayGrowOneTooMany(p) ==
    /\ bots[p].generation + 1 <= MaxGenerations
    /\ Cardinality(Existing) <= MaxBots
MayGrow(p) ==
    /\ bots[p].generation + 1 <= MaxGenerations
    /\ Cardinality(Existing) < MaxBots

CheckGrowth(s) ==
    /\ sess[s].pc = "spawning"
    /\ MayGrow(sess[s].parent)
    /\ Become(s, [sess[s] EXCEPT !.pc = "inserting"])
    /\ UNCHANGED <<bots, lineage>>

RefuseGrowth(s) ==
    /\ sess[s].pc = "spawning"
    /\ ~MayGrow(sess[s].parent)
    /\ Become(s, Idle)
    /\ UNCHANGED <<bots, lineage>>

Newborn(x) ==
    [NoRow EXCEPT !.state = "alive", !.parent = x.parent, !.suffix = x.suffix,
                  !.generation = IF x.relationship = "root" THEN 0
                                 ELSE bots[x.parent].generation + 1]

\* The first commit: the bot's row.
InsertBot(s, b) ==
    /\ sess[s].pc = "inserting"
    /\ bots[b].state = "none"
    /\ bots' = [bots EXCEPT ![b] = Newborn(sess[s])]
    /\ Become(s, [sess[s] EXCEPT !.pc = "recording", !.bot = b])
    /\ UNCHANGED lineage

\* The second: its lineage, with the lifecycle event and the audit row.
AfterRecording(x) ==
    IF x.relationship = "resurrection" THEN [x EXCEPT !.pc = "versioning"] ELSE Idle

RecordLineage(s) ==
    /\ sess[s].pc = "recording"
    /\ lineage' = [lineage EXCEPT ![sess[s].bot] = sess[s].relationship]
    /\ Become(s, AfterRecording(sess[s]))
    /\ UNCHANGED bots

\* resurrect's own commit.
SetVersion(s) ==
    /\ sess[s].pc = "versioning"
    /\ bots' = [bots EXCEPT ![sess[s].bot].version = sess[s].version]
    /\ Become(s, Idle)
    /\ UNCHANGED lineage

\* A locked database or the end of the process: the rest does not happen.
Abort(s) ==
    /\ sess[s].pc # "idle"
    /\ torn' = torn \cup ({sess[s].bot} \ {NoBot})
    /\ Become(s, Idle)
    /\ UNCHANGED <<bots, lineage>>

\* A son reaches its maximum loss.
Die(b) ==
    /\ bots[b].state = "alive" /\ bots[b].generation > 0
    /\ bots' = [bots EXCEPT ![b].state = "DEAD"]
    /\ UNCHANGED <<lineage, sess>>

Call(s) ==
    \/ BeginMother(s)
    \/ \E b \in Bots : BeginSpawn(s, b) \/ BeginResurrect(s, b) \/ InsertBot(s, b)
    \/ CheckGrowth(s) \/ RefuseGrowth(s) \/ RecordLineage(s) \/ SetVersion(s)

Next ==
    \/ UNCHANGED torn /\ ((\E s \in Sessions : Call(s)) \/ \E b \in Bots : Die(b))
    \/ \E s \in Sessions : Abort(s)

Spec == Init /\ [][Next]_vars

(***************************************************************************)
(* Properties.                                                             *)
(***************************************************************************)

\* Type invariant.
TypeOK ==
    /\ bots \in [Bots -> BotRow]
    /\ lineage \in [Bots -> {"none"} \cup Relationships]
    /\ sess \in [Sessions -> Session]
    /\ torn \subseteq Bots

\* Whatever overlaps or fails, a bot that is not a root is one generation below
\* a bot that exists, and none is below max_generations (spawn_son's limit,
\* engines/lineage_engine.py:81-85).
GenerationsBounded ==
    \A b \in Existing :
       /\ bots[b].parent = NoBot <=> bots[b].generation = 0
       /\ bots[b].generation > 0 =>
             /\ bots[b].parent \in Existing
             /\ bots[b].generation = bots[bots[b].parent].generation + 1
             /\ bots[b].generation <= MaxGenerations

\* There is one Mother Bot at most ("only one root bot is allowed",
\* api/routes/bots.py:52).
OneRoot == \A a, b \in Roots : a = b

\* There are never more than max_bots bots (docs/PHASES.md:72-73, "enforces
\* max_bots/max_generations").
BotsBounded == Cardinality(Existing) <= MaxBots

\* Both limits of the population, with calls one after another and failures
\* at every commit.
PopulationBounded == OneRoot /\ BotsBounded

\* A son whose call neither runs nor failed has its lineage row, and a resurrected
\* one the version after its predecessor's ("every Son is a real row with a
\* parent_id, generation and full lifecycle trail", engines/lineage_engine.py:1-4).
TrailComplete ==
    \A b \in Existing \ (Roots \cup torn) : (\A s \in Sessions : sess[s].bot # b) =>
       /\ lineage[b] # "none"
       /\ bots[b].suffix > 0 =>
             bots[b].version = bots[bots[b].parent].version + 1

\* Two resurrections of one bot that did not fail have different names (docs/PHASES.md:99-100,
\* "Son 017 -> Son 017-R1").
NamesDistinct ==
    \A a, b \in Existing \ torn :
       (a # b /\ bots[a].suffix > 0 /\ bots[a].parent = bots[b].parent)
          => bots[a].suffix # bots[b].suffix

\* What a call leaves behind of a son can be told from every other's: its
\* place in the lineage, its version and its name (engines/lineage_engine.py:94-129,
\* engines/resurrection_engine.py:37-80).
SonsRecorded == TrailComplete /\ NamesDistinct
=============================================================================
