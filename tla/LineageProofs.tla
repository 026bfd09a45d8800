---------------------------- MODULE LineageProofs ---------------------------
EXTENDS Lineage, FiniteSetTheorems, TLAPS

(***************************************************************************)
(* What a caller knows at each point of its call.                          *)
(***************************************************************************)
WellFormed(x) ==
  /\ x.relationship = "root" <=> x.parent = NoBot
  /\ x.pc = "spawning" => x.relationship # "root"
  /\ x.relationship # "root" => x.parent \in Existing
  /\ (x.pc = "inserting" /\ x.relationship # "root")
        => bots[x.parent].generation + 1 <= MaxGenerations
  /\ x.pc \in {"recording", "versioning"} => x.bot \in Existing
  /\ x.pc = "versioning" => x.relationship # "root"

IInv ==
  /\ TypeOK /\ GenerationsBounded
  /\ \A s \in Sessions : WellFormed(sess[s])
  /\ Existing # {} => Roots # {}

LEMMA IdleType == Idle \in Session /\ WellFormed(Idle)
BY DEF Idle, Session, Relationships, WellFormed

LEMMA InitIInv == Init => IInv
<1> SUFFICES ASSUME Init PROVE IInv
  OBVIOUS
<1>1. Existing = {}
  BY DEF Init, Existing, NoRow
<1>2. TypeOK
  BY IdleType DEF Init, TypeOK, BotRow, NoRow
<1> QED BY <1>1, <1>2, IdleType DEF Init, IInv, GenerationsBounded

(***************************************************************************)
(* A step that keeps what the lineage is made of.                          *)
(***************************************************************************)
Kept ==
  /\ bots' \in [Bots -> BotRow]
  /\ \A b \in Bots : /\ bots'[b].state = "none" <=> bots[b].state = "none"
                     /\ bots'[b].parent = bots[b].parent
                     /\ bots'[b].generation = bots[b].generation

LEMMA KeptSets ==
  ASSUME TypeOK, Kept
  PROVE  Existing' = Existing /\ Roots' = Roots /\ Existing \subseteq Bots
BY DEF Kept, Existing, Roots

LEMMA StepKept ==
  ASSUME IInv, Kept, lineage' \in [Bots -> {"none"} \cup Relationships],
         torn' \subseteq Bots,
         NEW s \in Sessions, NEW x \in Session, Become(s, x), WellFormed(x)
  PROVE  IInv'
<1>1. Existing' = Existing /\ Roots' = Roots /\ Existing \subseteq Bots
  BY KeptSets DEF IInv
<1>2. \A y \in Session : WellFormed(y) => WellFormed(y)'
  BY <1>1 DEF WellFormed, Kept
<1>3. /\ sess' \in [Sessions -> Session]
      /\ \A r \in Sessions : sess'[r] \in Session /\ (sess'[r] = x \/ sess'[r] = sess[r])
  BY DEF IInv, TypeOK, Become
<1>4. \A r \in Sessions : WellFormed(sess'[r])
  BY <1>3 DEF IInv
<1>5. \A r \in Sessions : WellFormed(sess[r])'
  BY <1>1, <1>3, <1>4 DEF WellFormed, Kept
<1>6. GenerationsBounded'
  BY <1>1 DEF IInv, GenerationsBounded, Kept
<1> QED BY <1>1, <1>3, <1>5, <1>6 DEF IInv, TypeOK, Kept

LEMMA NewbornType ==
  ASSUME IInv, NEW x \in Session, WellFormed(x), x.pc = "inserting"
  PROVE  /\ Newborn(x) \in BotRow /\ Newborn(x).state = "alive"
         /\ Newborn(x).parent = x.parent
         /\ x.relationship = "root" => Newborn(x).generation = 0
         /\ x.relationship # "root" =>
               Newborn(x).generation = bots[x.parent].generation + 1
<1>1. NoRow \in BotRow
  BY DEF NoRow, BotRow
<1> DEFINE g == IF x.relationship = "root" THEN 0 ELSE bots[x.parent].generation + 1
<1>2. g \in Nat
  BY DEF WellFormed, Existing, IInv, TypeOK, BotRow
<1>3. "alive" \in {"none", "alive", "DEAD"} /\ x.parent \in Bots \cup {NoBot} /\ x.suffix \in Nat
  BY DEF Session
<1> HIDE DEF g
<1>4. Newborn(x) = [NoRow EXCEPT !.state = "alive", !.parent = x.parent,
                                 !.suffix = x.suffix, !.generation = g]
  BY DEF Newborn, g
<1>5. /\ Newborn(x) \in BotRow /\ Newborn(x).state = "alive"
      /\ Newborn(x).parent = x.parent /\ Newborn(x).generation = g
  BY <1>1, <1>2, <1>3, <1>4 DEF BotRow
<1> QED BY <1>5 DEF g

\* A bot's row is inserted.
LEMMA InsertSets ==
  ASSUME IInv, NEW s \in Sessions, NEW b \in Bots, InsertBot(s, b)
  PROVE  /\ Newborn(sess[s]) \in BotRow
         /\ b \notin Existing
         /\ bots' = [bots EXCEPT ![b] = Newborn(sess[s])]
         /\ bots' \in [Bots -> BotRow]
         /\ bots'[b] = Newborn(sess[s]) /\ \A c \in Bots \ {b} : bots'[c] = bots[c]
         /\ Existing' = Existing \cup {b}
         /\ sess[s].relationship = "root" => Roots' = Roots \cup {b}
         /\ sess[s].relationship # "root" => Roots' = Roots
<1>1. sess[s] \in Session /\ WellFormed(sess[s]) /\ sess[s].pc = "inserting"
  BY DEF IInv, TypeOK, InsertBot
<1>2. /\ Newborn(sess[s]) \in BotRow /\ Newborn(sess[s]).state = "alive"
      /\ sess[s].relationship = "root" => Newborn(sess[s]).generation = 0
      /\ sess[s].relationship # "root" =>
            Newborn(sess[s]).generation = bots[sess[s].parent].generation + 1
  BY <1>1, NewbornType
<1>3. /\ b \notin Existing /\ bots' = [bots EXCEPT ![b] = Newborn(sess[s])]
  BY DEF InsertBot, Existing
<1>4. /\ bots' \in [Bots -> BotRow]
      /\ bots'[b] = Newborn(sess[s]) /\ \A c \in Bots \ {b} : bots'[c] = bots[c]
  BY <1>2, <1>3 DEF IInv, TypeOK
<1>5. Existing' = Existing \cup {b}
  BY <1>2, <1>4 DEF Existing
<1>6. sess[s].relationship # "root" => bots'[b].generation # 0
  BY <1>1, <1>2, <1>4 DEF WellFormed, IInv, TypeOK, BotRow, Existing
<1>7. \A c \in Existing : bots'[c] = bots[c] /\ c # b
  BY <1>3, <1>4 DEF Existing
<1>8. sess[s].relationship = "root" => Roots' = Roots \cup {b}
  BY <1>2, <1>4, <1>5, <1>7 DEF Roots
<1>9. sess[s].relationship # "root" => Roots' = Roots
  BY <1>5, <1>6, <1>7 DEF Roots
<1> QED BY <1>2, <1>3, <1>4, <1>5, <1>8, <1>9

LEMMA StepIInv == IInv /\ [Next]_vars => IInv'
<1> SUFFICES ASSUME IInv, [Next]_vars PROVE IInv'
  OBVIOUS
<1>1. /\ \A s \in Sessions : sess[s] \in Session /\ WellFormed(sess[s])
      /\ bots \in [Bots -> BotRow] /\ lineage \in [Bots -> {"none"} \cup Relationships]
      /\ Existing \subseteq Bots
  BY DEF IInv, TypeOK, Existing
<1>0. torn' \subseteq Bots
  BY <1>1 DEF Next, Abort, Session, vars, IInv, TypeOK
<1>2. UNCHANGED bots => Kept
  BY <1>1 DEF Kept
<1>3. ASSUME NEW s \in Sessions, BeginMother(s)
      PROVE  IInv'
  <2> DEFINE x == [Idle EXCEPT !.pc = "inserting"]
  <2>1. x \in Session /\ WellFormed(x)
    BY IdleType DEF Idle, Session, WellFormed
  <2> QED BY <1>1, <1>0, <1>2, <1>3, <2>1, StepKept DEF BeginMother
<1>4. ASSUME NEW s \in Sessions, NEW p \in Bots, BeginSpawn(s, p)
      PROVE  IInv'
  <2> DEFINE x == [Idle EXCEPT !.pc = "spawning", !.relationship = "child", !.parent = p]
  <2>1. x \in Session /\ p \in Existing /\ p # NoBot
    BY <1>4, LineageAssumption DEF Idle, Session, Relationships, BeginSpawn, Existing
  <2>2. WellFormed(x)
    BY <2>1 DEF WellFormed, Idle
  <2> QED BY <1>1, <1>0, <1>2, <1>4, <2>1, <2>2, StepKept DEF BeginSpawn
<1>5. ASSUME NEW s \in Sessions, NEW p \in Bots, BeginResurrect(s, p)
      PROVE  IInv'
  <2> DEFINE n == NextSuffix(p)
             v == NextVersion(p)
             x == [Idle EXCEPT !.pc = "spawning", !.relationship = "resurrection",
                               !.parent = p, !.suffix = n, !.version = v]
  <2>0. v \in Nat
    BY <1>1 DEF NextVersion, BotRow
  <2>1. n \in Nat
    <3> DEFINE S == {b \in Existing : /\ bots[b].parent = p
                                      /\ lineage[b] = "resurrection"}
    <3>1. IsFiniteSet(S)
      BY <1>1, LineageAssumption, FS_Subset
    <3>2. Cardinality(S) \in Nat
      BY <3>1, FS_CardinalityType
    <3> QED BY <3>2 DEF NextSuffix
  <2> HIDE DEF n, v
  <2>2. x \in Session /\ p \in Existing /\ p # NoBot
    BY <1>5, <2>0, <2>1, LineageAssumption DEF Idle, Session, Relationships, BeginResurrect,
                                         Existing
  <2>3. WellFormed(x)
    BY <2>2 DEF WellFormed, Idle
  <2>4. Become(s, x) /\ UNCHANGED <<bots, lineage>>
    BY <1>5 DEF BeginResurrect, n, v
  <2> QED BY <1>0, <1>1, <1>2, <2>2, <2>3, <2>4, StepKept
<1>6. ASSUME NEW s \in Sessions, CheckGrowth(s)
      PROVE  IInv'
  <2> DEFINE x == [sess[s] EXCEPT !.pc = "inserting"]
  <2>1. x \in Session
    BY <1>1 DEF Session
  <2>2. WellFormed(x)
    BY <1>1, <1>6 DEF CheckGrowth, MayGrow, Session, WellFormed
  <2> QED BY <1>1, <1>0, <1>2, <1>6, <2>1, <2>2, StepKept DEF CheckGrowth
<1>7. ASSUME NEW s \in Sessions, RefuseGrowth(s) \/ Abort(s)
      PROVE  IInv'
  BY <1>1, <1>0, <1>2, <1>7, IdleType, StepKept DEF RefuseGrowth, Abort
<1>8. ASSUME NEW s \in Sessions, NEW b \in Bots, InsertBot(s, b)
      PROVE  IInv'
  <2> DEFINE x == sess[s]
  <2>1. /\ x.pc = "inserting" /\ x \in Session /\ WellFormed(x)
        /\ bots'[b].parent = x.parent
        /\ x.relationship = "root" => bots'[b].generation = 0
        /\ x.relationship # "root" => bots'[b].generation = bots[x.parent].generation + 1
    BY <1>1, <1>8, InsertSets, NewbornType DEF InsertBot
  <2>2. /\ b \notin Existing /\ bots' \in [Bots -> BotRow]
        /\ \A c \in Bots \ {b} : bots'[c] = bots[c]
        /\ Existing' = Existing \cup {b}
        /\ Roots \subseteq Roots'
        /\ x.relationship = "root" => b \in Roots'
    BY <1>8, InsertSets
  <2>3. GenerationsBounded'
    <3>1. ASSUME NEW c \in Existing
          PROVE  /\ bots'[c] = bots[c]
                 /\ bots[c].generation > 0 => bots'[bots[c].parent] = bots[bots[c].parent]
      <4>1. c # b /\ (bots[c].generation > 0 => bots[c].parent \in Existing)
        BY <2>2 DEF IInv, GenerationsBounded
      <4> QED BY <1>1, <2>2, <4>1
    <3>2. x.relationship # "root" =>
             /\ x.parent \in Existing /\ x.parent # NoBot /\ bots'[x.parent] = bots[x.parent]
             /\ bots[x.parent].generation \in Nat
             /\ bots[x.parent].generation + 1 <= MaxGenerations
      BY <1>1, <2>1, <3>1, LineageAssumption DEF WellFormed, BotRow
    <3>3. x.relationship = "root" => x.parent = NoBot
      BY <2>1 DEF WellFormed
    <3>4. ASSUME NEW c \in Existing'
          PROVE  /\ bots'[c].parent = NoBot <=> bots'[c].generation = 0
                 /\ bots'[c].generation > 0 =>
                       /\ bots'[c].parent \in Existing'
                       /\ bots'[c].generation = bots'[bots'[c].parent].generation + 1
                       /\ bots'[c].generation <= MaxGenerations
      <4>1. CASE c = b
        BY <2>1, <2>2, <3>2, <3>3, <4>1
      <4>2. CASE c \in Existing
        <5>1. /\ bots[c].parent = NoBot <=> bots[c].generation = 0
              /\ bots[c].generation > 0 =>
                    /\ bots[c].parent \in Existing
                    /\ bots[c].generation = bots[bots[c].parent].generation + 1
                    /\ bots[c].generation <= MaxGenerations
          BY <4>2 DEF IInv, GenerationsBounded
        <5> QED BY <2>2, <3>1, <4>2, <5>1
      <4> QED BY <2>2, <4>1, <4>2
    <3> QED BY <3>4 DEF GenerationsBounded
  <2>4. Roots' # {}
    <3>1. CASE x.relationship = "root"
      BY <2>2, <3>1
    <3>2. CASE x.relationship # "root"
      BY <2>1, <2>2, <3>2 DEF WellFormed, IInv
    <3> QED BY <3>1, <3>2
  <2>5. \A r \in Sessions : /\ sess'[r] \in Session
                            /\ r # s => sess'[r] = sess[r]
        /\ sess'[s] = [x EXCEPT !.pc = "recording", !.bot = b]
    BY <1>1, <1>8 DEF InsertBot, Become, IInv, TypeOK, Session
  <2>6. \A r \in Sessions : WellFormed(sess[r])'
    <3>1. ASSUME NEW y \in Session, WellFormed(y)
          PROVE  /\ y.relationship # "root" =>
                       y.parent \in Existing' /\ bots'[y.parent] = bots[y.parent]
                 /\ y.pc \in {"recording", "versioning"} => y.bot \in Existing'
      BY <1>1, <2>2, <3>1 DEF WellFormed
    <3>2. ASSUME NEW r \in Sessions, r # s
          PROVE  WellFormed(sess[r])'
      BY <1>1, <2>5, <3>1, <3>2 DEF WellFormed
    <3>3. WellFormed(sess[s])'
      <4>1. /\ sess'[s].pc = "recording" /\ sess'[s].bot = b /\ b \in Existing'
            /\ sess'[s].relationship = x.relationship /\ sess'[s].parent = x.parent
        BY <2>1, <2>2, <2>5 DEF Session
      <4>2. /\ x.relationship = "root" <=> x.parent = NoBot
            /\ x.relationship # "root" => x.parent \in Existing'
        BY <2>1, <3>1 DEF WellFormed
      <4> QED BY <4>1, <4>2 DEF WellFormed
    <3> QED BY <3>2, <3>3
  <2>7. sess' \in [Sessions -> Session]
    BY <1>8, <2>5 DEF InsertBot, Become, IInv, TypeOK
  <2> QED BY <1>0, <1>1, <1>8, <2>2, <2>3, <2>4, <2>6, <2>7 DEF InsertBot, IInv, TypeOK
<1>9. ASSUME NEW s \in Sessions, RecordLineage(s)
      PROVE  IInv'
  <2> DEFINE x == AfterRecording(sess[s])
  <2>1. x \in Session
    BY <1>1, IdleType DEF AfterRecording, Session
  <2>2. WellFormed(x)
    BY <1>1, <1>9, IdleType DEF RecordLineage, AfterRecording, Session, WellFormed
  <2>3. lineage' \in [Bots -> {"none"} \cup Relationships]
    BY <1>1, <1>9 DEF RecordLineage, Session
  <2> HIDE DEF x
  <2> QED BY <1>0, <1>2, <1>9, <2>1, <2>2, <2>3, StepKept DEF RecordLineage, x
<1>10. ASSUME NEW s \in Sessions, SetVersion(s)
       PROVE  IInv'
  <2> DEFINE b == sess[s].bot
             n == sess[s].version
  <2>1. b \in Bots /\ n \in Nat
    BY <1>1, <1>10 DEF SetVersion, WellFormed, Session, Existing
  <2> HIDE DEF n
  <2>2. bots' = [bots EXCEPT ![b] = [bots[b] EXCEPT !.version = n]]
    BY <1>1, <1>10, <2>1 DEF SetVersion, n
  <2>3. [bots[b] EXCEPT !.version = n] \in BotRow
    BY <1>1, <2>1 DEF BotRow
  <2>4. Kept
    BY <1>1, <2>1, <2>2, <2>3 DEF Kept, BotRow
  <2> QED BY <1>0, <1>1, <1>10, <2>4, IdleType, StepKept DEF SetVersion
<1>11. ASSUME NEW b \in Bots, Die(b)
       PROVE  IInv'
  <2>1. bots' = [bots EXCEPT ![b] = [bots[b] EXCEPT !.state = "DEAD"]]
    BY <1>1, <1>11 DEF Die
  <2>2. [bots[b] EXCEPT !.state = "DEAD"] \in BotRow
    BY <1>1 DEF BotRow
  <2>3. Kept
    BY <1>1, <1>11, <2>1, <2>2 DEF Kept, BotRow, Die
  <2>4. Existing' = Existing /\ Roots' = Roots
    BY <2>3, KeptSets DEF IInv
  <2>5. \A r \in Sessions : WellFormed(sess[r])'
    BY <1>1, <1>11, <2>3, <2>4 DEF WellFormed, Kept, Die
  <2>6. GenerationsBounded'
    BY <1>1, <2>3, <2>4 DEF IInv, GenerationsBounded, Kept
  <2> QED BY <1>0, <1>1, <1>11, <2>3, <2>4, <2>5, <2>6 DEF Die, IInv, TypeOK, Kept
<1>12. CASE UNCHANGED vars
  BY <1>12 DEF vars, IInv, TypeOK, GenerationsBounded, WellFormed, Existing, Roots
<1> QED
  BY <1>3, <1>4, <1>5, <1>6, <1>7, <1>8, <1>9, <1>10, <1>11, <1>12
     DEF Next, Call

\* However many callers spawn and resurrect at once, and wherever they fail, the
\* rows keep their types (all handlers).
THEOREM TypeCorrect == Spec => []TypeOK
<1>1. IInv => TypeOK
  BY DEF IInv
<1> QED BY <1>1, InitIInv, StepIInv, PTL DEF Spec

\* And every bot descends from existing ones, one generation at a time, down to
\* max_generations and no further (spawn_son, lines 81-85).
THEOREM GenerationLimit == Spec => []GenerationsBounded
<1>1. IInv => GenerationsBounded
  BY DEF IInv
<1> QED BY <1>1, InitIInv, StepIInv, PTL DEF Spec

(***************************************************************************)
(* One caller at a time: between a check and the row it allows, no other   *)
(* row appears.                                                            *)
(***************************************************************************)
Allowed(x) ==
  x.pc = "inserting" =>
     IF x.relationship = "root" THEN Roots = {} ELSE Cardinality(Existing) < MaxBots

SoloInv == OneRoot /\ BotsBounded /\ \A s \in Sessions : Allowed(sess[s])

LEMMA InitSolo == Init => SoloInv
<1> SUFFICES ASSUME Init PROVE SoloInv
  OBVIOUS
<1>1. Existing = {} /\ Roots = {}
  BY DEF Init, Existing, Roots, NoRow
<1>2. Cardinality(Existing) = 0
  BY <1>1, FS_EmptySet
<1> QED BY <1>1, <1>2, LineageAssumption DEF SoloInv, OneRoot, BotsBounded, Allowed, Init, Idle

LEMMA StepSolo ==
  ASSUME \A s, r \in Sessions : s = r, IInv, SoloInv, [Next]_vars
  PROVE  SoloInv'
<1>1. /\ sess \in [Sessions -> Session] /\ \A s \in Sessions : sess[s] \in Session
      /\ bots \in [Bots -> BotRow] /\ TypeOK /\ IInv /\ Existing \subseteq Bots
      /\ \A s \in Sessions : WellFormed(sess[s])
  BY DEF IInv, TypeOK, Existing
<1>2. Cardinality(Existing) \in Nat /\ IsFiniteSet(Existing)
  BY <1>1, LineageAssumption, FS_Subset, FS_CardinalityType
\* A step after which nobody is about to insert, and no row is new.
<1>3. ASSUME Kept, \A s \in Sessions : sess'[s].pc = "inserting" => Allowed(sess'[s])
      PROVE  SoloInv'
  <2>1. Existing' = Existing /\ Roots' = Roots
    BY <1>1, <1>3, KeptSets
  <2> QED BY <1>3, <2>1 DEF SoloInv, OneRoot, BotsBounded, Allowed
<1>4. UNCHANGED bots => Kept
  BY <1>1 DEF Kept
<1>5. ASSUME NEW s \in Sessions, BeginMother(s)
      PROVE  SoloInv'
  <2>1. sess'[s].relationship = "root" /\ Roots = {}
    BY <1>1, <1>5 DEF BeginMother, MayRoot, Become, Idle
  <2> QED BY <1>3, <1>4, <1>5, <2>1 DEF BeginMother, Allowed
<1>6. ASSUME NEW s \in Sessions, CheckGrowth(s)
      PROVE  SoloInv'
  <2>1. /\ sess'[s].relationship # "root" /\ Cardinality(Existing) < MaxBots
    BY <1>1, <1>6 DEF CheckGrowth, MayGrow, Become, Session, WellFormed
  <2> QED BY <1>3, <1>4, <1>6, <2>1 DEF CheckGrowth, Allowed
<1>7. ASSUME NEW s \in Sessions, NEW b \in Bots, BeginSpawn(s, b) \/ BeginResurrect(s, b)
      PROVE  SoloInv'
  <2>1. sess'[s].pc = "spawning"
    BY <1>1, <1>7 DEF BeginSpawn, BeginResurrect, Become, Idle
  <2> QED BY <1>3, <1>4, <1>7, <2>1 DEF BeginSpawn, BeginResurrect
<1>8. ASSUME NEW s \in Sessions, RefuseGrowth(s) \/ Abort(s)
      PROVE  SoloInv'
  <2>1. sess'[s].pc = "idle"
    BY <1>1, <1>8 DEF RefuseGrowth, Abort, Become, Idle
  <2> QED BY <1>3, <1>4, <1>8, <2>1 DEF RefuseGrowth, Abort
<1>9. ASSUME NEW s \in Sessions, RecordLineage(s)
      PROVE  SoloInv'
  <2>1. sess'[s].pc \in {"versioning", "idle"}
    BY <1>1, <1>9 DEF RecordLineage, AfterRecording, Become, Idle, Session
  <2> QED BY <1>3, <1>4, <1>9, <2>1 DEF RecordLineage
<1>10. ASSUME NEW s \in Sessions, SetVersion(s)
       PROVE  SoloInv'
  <2> DEFINE n == sess[s].version
  <2>1. sess[s].bot \in Bots /\ n \in Nat
    BY <1>1, <1>10 DEF SetVersion, WellFormed, Session
  <2> HIDE DEF n
  <2>2. [bots[sess[s].bot] EXCEPT !.version = n] \in BotRow
    BY <1>1, <2>1 DEF BotRow
  <2>3. Kept
    BY <1>1, <1>10, <2>1, <2>2 DEF SetVersion, Kept, BotRow, n
  <2>4. sess'[s].pc = "idle"
    BY <1>1, <1>10 DEF SetVersion, Become, Idle
  <2> QED BY <1>3, <2>3, <2>4
<1>11. ASSUME NEW b \in Bots, Die(b)
       PROVE  SoloInv'
  <2>1. [bots[b] EXCEPT !.state = "DEAD"] \in BotRow
    BY <1>1 DEF BotRow
  <2>2. Kept
    BY <1>1, <1>11, <2>1 DEF Die, Kept, BotRow
  <2> QED BY <1>3, <1>11, <2>2 DEF Die, SoloInv
<1>12. ASSUME NEW s \in Sessions, NEW b \in Bots, InsertBot(s, b)
       PROVE  SoloInv'
  <2>1. /\ b \notin Existing /\ Existing' = Existing \cup {b}
        /\ sess[s].relationship = "root" => Roots' = Roots \cup {b}
        /\ sess[s].relationship # "root" => Roots' = Roots
    BY <1>1, <1>12, InsertSets
  <2>2. Allowed(sess[s]) /\ sess[s].pc = "inserting"
    BY <1>12 DEF SoloInv, InsertBot
  <2>3. Cardinality(Existing') = Cardinality(Existing) + 1
    BY <1>2, <2>1, FS_AddElement
  <2>4. Cardinality(Existing) < MaxBots
    <3>1. CASE sess[s].relationship = "root"
      <4>1. Existing = {}
        BY <2>2, <3>1 DEF Allowed, IInv
      <4> QED BY <4>1, FS_EmptySet, LineageAssumption
    <3>2. CASE sess[s].relationship # "root"
      BY <2>2, <3>2 DEF Allowed
    <3> QED BY <3>1, <3>2
  <2>5. BotsBounded'
    BY <1>2, <2>3, <2>4, LineageAssumption DEF BotsBounded
  <2>6. OneRoot'
    <3>1. CASE sess[s].relationship = "root"
      BY <2>1, <2>2, <3>1 DEF Allowed, OneRoot
    <3>2. CASE sess[s].relationship # "root"
      BY <2>1, <3>2 DEF SoloInv, OneRoot
    <3> QED BY <3>1, <3>2
  <2>7. sess'[s].pc = "recording"
    BY <1>1, <1>12 DEF InsertBot, Become, Session
  <2> QED BY <2>5, <2>6, <2>7 DEF SoloInv, Allowed
<1>13. CASE UNCHANGED vars
  BY <1>13 DEF vars, SoloInv, OneRoot, BotsBounded, Allowed, Existing, Roots
<1> QED
  BY <1>5, <1>6, <1>7, <1>8, <1>9, <1>10, <1>11, <1>12, <1>13 DEF Next, Call

THEOREM SoloInvariance ==
  ASSUME \A s, r \in Sessions : s = r
  PROVE  Spec => []SoloInv
<1>1. IInv /\ SoloInv /\ [Next]_vars => SoloInv'
  BY StepSolo
<1> QED BY <1>1, InitIInv, InitSolo, StepIInv, PTL DEF Spec

\* With one caller at a time there is one Mother Bot at most, whatever fails
\* (the check of create_mother_bot's handler, lines 48-53).
THEOREM SerialRoot ==
  ASSUME \A s, r \in Sessions : s = r
  PROVE  Spec => []OneRoot
<1>1. SoloInv => OneRoot
  BY DEF SoloInv
<1> QED BY <1>1, SoloInvariance, PTL

\* And never more bots than max_bots, resurrected ones included (spawn_son,
\* lines 86-87).
THEOREM SerialGrowth ==
  ASSUME \A s, r \in Sessions : s = r
  PROVE  Spec => []BotsBounded
<1>1. SoloInv => BotsBounded
  BY DEF SoloInv
<1> QED BY <1>1, SoloInvariance, PTL

\* Both limits together.
THEOREM SerialPopulation ==
  ASSUME \A s, r \in Sessions : s = r
  PROVE  Spec => []PopulationBounded
<1>1. SoloInv => PopulationBounded
  BY DEF SoloInv, PopulationBounded
<1> QED BY <1>1, SoloInvariance, PTL

(***************************************************************************)
(* The trail of the sons, with one caller at a time.                       *)
(***************************************************************************)
Resurrected(rows, lin, p) ==
  {b \in Bots : rows[b].state # "none" /\ rows[b].parent = p /\ lin[b] = "resurrection"}
Count(rows, lin, p) == Cardinality(Resurrected(rows, lin, p))

\* What a call has yet to write is missing, the number it took is the next one as
\* long as its lineage row is not there, and the version it took the next one still.
Traced(x, rows, lin) ==
  /\ x.relationship # "resurrection" => x.suffix = 0
  /\ x.relationship = "resurrection" =>
        x.parent \in Bots /\ x.version = rows[x.parent].version + 1
  /\ x.pc \notin {"recording", "versioning"} => x.bot = NoBot
  /\ x.relationship = "resurrection" /\ x.pc # "versioning" =>
        x.suffix = Count(rows, lin, x.parent) + 1
  /\ x.pc \in {"recording", "versioning"} =>
        /\ rows[x.bot].suffix = x.suffix /\ rows[x.bot].parent = x.parent
        /\ \A b \in Bots : rows[b].state # "none" => rows[b].parent # x.bot
  /\ x.pc = "recording" => lin[x.bot] = "none"
  /\ x.pc = "versioning" => x.relationship = "resurrection" /\ lin[x.bot] # "none"

Recording(x) == IF x.pc = "recording" THEN {x.bot} ELSE {}

\* The number in the name of a recorded resurrection is at most that of the
\* recorded resurrections of the same bot.
Numbered(rows, lin, failed, busy) ==
  \A b \in Bots \ (failed \cup busy) :
     rows[b].state # "none" /\ rows[b].suffix > 0
        => rows[b].suffix <= Count(rows, lin, rows[b].parent)

TrailInv ==
  /\ TrailComplete /\ NamesDistinct
  /\ \A b \in Bots : bots[b].state = "none" => lineage[b] = "none"
  /\ \A s \in Sessions : /\ Traced(sess[s], bots, lineage)
                         /\ Numbered(bots, lineage, torn, Recording(sess[s]))

LEMMA InitTrail == Init => TrailInv
<1> SUFFICES ASSUME Init PROVE TrailInv
  OBVIOUS
<1>1. \A b \in Bots : bots[b].state = "none" /\ lineage[b] = "none"
  BY DEF Init, NoRow
<1>2. Existing = {}
  BY <1>1 DEF Existing
<1>3. \A s \in Sessions : Traced(sess[s], bots, lineage)
  BY DEF Init, Idle, Traced
<1> QED
  BY <1>1, <1>2, <1>3 DEF TrailInv, TrailComplete, NamesDistinct, Numbered, Init

\* A step that leaves the trail as it is.
SameTrail ==
  /\ lineage' = lineage
  /\ \A b \in Bots : /\ bots'[b].state = "none" <=> bots[b].state = "none"
                     /\ bots'[b].parent = bots[b].parent
                     /\ bots'[b].generation = bots[b].generation
                     /\ bots'[b].version = bots[b].version
                     /\ bots'[b].suffix = bots[b].suffix

LEMMA QuietTrail ==
  ASSUME IInv, TrailInv, SameTrail, torn \subseteq torn',
         \A s \in Sessions :
            /\ Traced(sess'[s], bots, lineage)
            /\ sess'[s].pc \in {"recording", "versioning"} => sess'[s].bot \in Bots
            /\ \/ sess[s].bot \in torn' \cup {NoBot}
               \/ sess'[s].bot = sess[s].bot /\ Recording(sess'[s]) = Recording(sess[s])
  PROVE  TrailInv'
<1> USE LineageAssumption
<1>1. \A p : Count(bots', lineage', p) = Count(bots, lineage, p)
  <2>1. \A p : Resurrected(bots', lineage', p) = Resurrected(bots, lineage, p)
    BY DEF Resurrected, SameTrail
  <2> QED BY <2>1 DEF Count
<1>2. \A s \in Sessions : Traced(sess'[s], bots', lineage')
  BY <1>1 DEF Traced, SameTrail
<1>3. ASSUME NEW s \in Sessions
      PROVE  Numbered(bots', lineage', torn', Recording(sess'[s]))
  <2>1. \A b \in Bots \ (torn' \cup Recording(sess'[s])) :
           b \notin torn \cup Recording(sess[s])
    BY DEF Recording
  <2>2. Numbered(bots, lineage, torn, Recording(sess[s]))
    BY DEF TrailInv
  <2> QED BY <1>1, <2>1, <2>2 DEF Numbered, SameTrail
<1>4. Existing' = Existing /\ Roots' = Roots
  BY DEF Existing, Roots, SameTrail
<1>5. TrailComplete'
  <2> SUFFICES ASSUME NEW b \in Existing \ (Roots \cup torn'),
                      \A s \in Sessions : sess'[s].bot # b
               PROVE  /\ lineage'[b] # "none"
                      /\ bots'[b].suffix > 0 =>
                            bots'[b].version = bots'[bots'[b].parent].version + 1
    BY <1>4 DEF TrailComplete
  <2>1. b \in Bots /\ \A s \in Sessions : sess[s].bot # b
    BY DEF Existing
  <2>2. bots[b].parent \in Bots
    BY DEF IInv, GenerationsBounded, TypeOK, BotRow, Existing, Roots
  <2> QED BY <2>1, <2>2 DEF TrailInv, TrailComplete, SameTrail
<1>6. NamesDistinct'
  BY <1>4 DEF TrailInv, NamesDistinct, SameTrail, Existing
<1> QED BY <1>2, <1>3, <1>5, <1>6 DEF TrailInv, SameTrail

\* The steps that write neither a row of bots nor one of bot_lineage.
LEMMA QuietSteps ==
  ASSUME IInv, TrailInv, NEW s \in Sessions, \A r \in Sessions : r = s,
         \/ BeginMother(s) \/ CheckGrowth(s) \/ RefuseGrowth(s) \/ Abort(s)
         \/ \E p \in Bots : BeginSpawn(s, p) \/ BeginResurrect(s, p),
         torn \subseteq torn', Abort(s) \/ torn' = torn
  PROVE  TrailInv'
<1> USE LineageAssumption
<1>1. /\ sess[s] \in Session /\ sess \in [Sessions -> Session]
      /\ WellFormed(sess[s]) /\ Traced(sess[s], bots, lineage)
  BY DEF IInv, TypeOK, TrailInv
<1>2. bots' = bots /\ lineage' = lineage /\ SameTrail
  BY DEF BeginMother, CheckGrowth, RefuseGrowth, Abort, BeginSpawn, BeginResurrect, SameTrail
<1>3. Traced(Idle, bots, lineage) /\ Idle.pc = "idle"
  BY DEF Traced, Idle
<1>4. ASSUME Traced(sess'[s], bots, lineage),
             sess'[s].pc \notin {"recording", "versioning"},
             sess[s].bot \in torn' \cup {NoBot}
      PROVE  TrailInv'
  BY <1>2, <1>4, QuietTrail
<1>5. sess[s].pc \notin {"recording", "versioning"} => sess[s].bot = NoBot
  BY <1>1 DEF Traced
<1>6. CASE BeginMother(s)
  <2>1. sess'[s] = [Idle EXCEPT !.pc = "inserting"] /\ sess[s].pc = "idle"
    BY <1>1, <1>6 DEF BeginMother, Become
  <2>2. Traced(sess'[s], bots, lineage) /\ sess'[s].pc = "inserting"
    BY <2>1 DEF Traced, Idle
  <2> QED BY <1>4, <1>5, <2>1, <2>2
<1>7. CASE CheckGrowth(s)
  <2>1. sess'[s] = [sess[s] EXCEPT !.pc = "inserting"] /\ sess[s].pc = "spawning"
    BY <1>1, <1>7 DEF CheckGrowth, Become
  <2>2. Traced(sess'[s], bots, lineage) /\ sess'[s].pc = "inserting"
    BY <1>1, <2>1 DEF Traced, Session
  <2> QED BY <1>4, <1>5, <2>1, <2>2
<1>8. CASE RefuseGrowth(s)
  <2>1. sess'[s] = Idle /\ sess[s].pc = "spawning"
    BY <1>1, <1>8 DEF RefuseGrowth, Become
  <2> QED BY <1>3, <1>4, <1>5, <2>1
<1>9. CASE Abort(s)
  <2>1. sess'[s] = Idle /\ sess[s].bot \in torn' \cup {NoBot}
    BY <1>1, <1>9 DEF Abort, Become
  <2> QED BY <1>3, <1>4, <2>1
<1>10. ASSUME NEW p \in Bots, BeginSpawn(s, p)
       PROVE  TrailInv'
  <2>1. /\ sess[s].pc = "idle"
        /\ sess'[s] = [Idle EXCEPT !.pc = "spawning", !.relationship = "child", !.parent = p]
    BY <1>1, <1>10 DEF BeginSpawn, Become
  <2>2. Traced(sess'[s], bots, lineage) /\ sess'[s].pc = "spawning"
    BY <2>1 DEF Traced, Idle
  <2> QED BY <1>4, <1>5, <2>1, <2>2
<1>11. ASSUME NEW p \in Bots, BeginResurrect(s, p)
       PROVE  TrailInv'
  <2>1. NextSuffix(p) = Count(bots, lineage, p) + 1
    <3>1. {b \in Existing : bots[b].parent = p /\ lineage[b] = "resurrection"}
            = Resurrected(bots, lineage, p)
      BY DEF Existing, Resurrected
    <3> QED BY <3>1 DEF NextSuffix, Count
  <2>2. /\ sess[s].pc = "idle"
        /\ sess'[s] = [Idle EXCEPT !.pc = "spawning", !.relationship = "resurrection",
                                   !.parent = p, !.suffix = NextSuffix(p),
                                   !.version = NextVersion(p)]
    BY <1>1, <1>11 DEF BeginResurrect, Become
  <2>3. Traced(sess'[s], bots, lineage) /\ sess'[s].pc = "spawning"
    BY <2>1, <2>2 DEF Traced, Idle, NextVersion
  <2> QED BY <1>4, <1>5, <2>2, <2>3
<1> QED BY <1>6, <1>7, <1>8, <1>9, <1>10, <1>11

LEMMA CountType ==
  ASSUME TypeOK, NEW p
  PROVE  /\ IsFiniteSet(Resurrected(bots, lineage, p)) /\ Count(bots, lineage, p) \in Nat
<1>1. Resurrected(bots, lineage, p) \subseteq Bots
  BY DEF Resurrected
<1> QED BY <1>1, LineageAssumption, FS_Subset, FS_CardinalityType DEF Count

\* A new row: nobody descends from it, and its number is above the others'.
LEMMA InsertTrail ==
  ASSUME IInv, TrailInv, NEW s \in Sessions, \A r \in Sessions : r = s,
         NEW b \in Bots, InsertBot(s, b), torn' = torn
  PROVE  TrailInv'
<1> DEFINE x == sess[s]
<1>1. /\ x \in Session /\ WellFormed(x) /\ Traced(x, bots, lineage) /\ x.pc = "inserting"
      /\ sess \in [Sessions -> Session] /\ lineage' = lineage
      /\ bots \in [Bots -> BotRow] /\ Existing \subseteq Bots
  BY DEF IInv, TypeOK, TrailInv, InsertBot, Existing
<1>2. /\ sess'[s].pc = "recording" /\ sess'[s].bot = b /\ sess'[s].suffix = x.suffix
      /\ sess'[s].parent = x.parent /\ sess'[s].relationship = x.relationship
  BY <1>1 DEF InsertBot, Become, Session
<1>3. /\ b \notin Existing /\ Existing' = Existing \cup {b} /\ Roots \subseteq Roots'
      /\ \A c \in Bots \ {b} : bots'[c] = bots[c]
      /\ bots'[b] = Newborn(x)
  BY InsertSets
<1>4. bots'[b].parent = x.parent /\ bots'[b].suffix = x.suffix /\ bots'[b].state = "alive"
  BY <1>3 DEF Newborn, NoRow
<1>5. lineage[b] = "none"
  BY <1>3 DEF TrailInv, Existing
<1>6. \A p : Count(bots', lineage', p) = Count(bots, lineage, p)
  <2>1. \A p : Resurrected(bots', lineage', p) = Resurrected(bots, lineage, p)
    BY <1>1, <1>3, <1>5 DEF Resurrected
  <2> QED BY <2>1 DEF Count
<1>7. \A c \in Existing : /\ bots'[c] = bots[c] /\ c # b
                          /\ bots[c].parent # b
                          /\ bots[c].parent \in Existing \cup {NoBot}
                          /\ c \notin Roots =>
                                /\ bots[c].parent \in Existing
                                /\ bots'[bots[c].parent] = bots[bots[c].parent]
  <2> SUFFICES ASSUME NEW c \in Existing
               PROVE  /\ bots'[c] = bots[c] /\ c # b
                      /\ bots[c].parent # b
                      /\ bots[c].parent \in Existing \cup {NoBot}
                      /\ c \notin Roots =>
                            /\ bots[c].parent \in Existing
                            /\ bots'[bots[c].parent] = bots[bots[c].parent]
    OBVIOUS
  <2>1. c \in Bots /\ c # b /\ bots[c].generation \in Nat
    BY <1>1, <1>3 DEF BotRow
  <2>2. /\ bots[c].generation = 0 => bots[c].parent = NoBot
        /\ bots[c].generation > 0 => bots[c].parent \in Existing
    BY DEF IInv, GenerationsBounded
  <2>3. bots[c].generation = 0 => c \in Roots
    BY DEF Roots
  <2>4. \A d \in Existing : bots'[d] = bots[d] /\ d # b
    BY <1>1, <1>3
  <2> QED BY <2>1, <2>2, <2>3, <2>4, LineageAssumption
<1>8. Traced(sess'[s], bots', lineage')
  <2>1. x.parent # b
    BY <1>1, <1>3, LineageAssumption DEF WellFormed
  <2>2. \A c \in Bots : bots'[c].state # "none" => bots'[c].parent # b
    BY <1>3, <1>4, <1>7, <2>1 DEF Existing
  <2>3. x.relationship = "resurrection" =>
           /\ x.parent \in Bots /\ sess'[s].version = x.version
           /\ x.version = bots'[x.parent].version + 1
    BY <1>1, <1>3, <2>1 DEF Traced, InsertBot, Become, Session
  <2> QED BY <1>1, <1>2, <1>4, <1>5, <1>6, <2>2, <2>3 DEF Traced
<1>9. \A c \in Existing \ torn : bots[c].suffix > 0
         => bots[c].suffix <= Count(bots, lineage, bots[c].parent)
  <2>1. Numbered(bots, lineage, torn, {})
    BY <1>1 DEF TrailInv, Recording
  <2> QED BY <2>1 DEF Numbered, Existing
<1>10. Numbered(bots', lineage', torn', Recording(sess'[s]))
  BY <1>2, <1>3, <1>6, <1>7, <1>9 DEF Numbered, Recording, Existing
<1>11. TrailComplete'
  <2> SUFFICES ASSUME NEW c \in Existing' \ (Roots' \cup torn'),
                      \A r \in Sessions : sess'[r].bot # c
               PROVE  /\ lineage'[c] # "none"
                      /\ bots'[c].suffix > 0 =>
                            bots'[c].version = bots'[bots'[c].parent].version + 1
    BY DEF TrailComplete
  <2>1. c \in Existing \ (Roots \cup torn)
    BY <1>2, <1>3
  <2>2. \A r \in Sessions : sess[r].bot # c
    BY <1>1, <2>1, LineageAssumption DEF Traced
  <2>3. /\ lineage[c] # "none"
        /\ bots[c].suffix > 0 => bots[c].version = bots[bots[c].parent].version + 1
    BY <2>1, <2>2 DEF TrailInv, TrailComplete
  <2> QED BY <1>1, <1>7, <2>1, <2>3
<1>12. NamesDistinct'
  <2>1. x.suffix > 0 => x.suffix = Count(bots, lineage, x.parent) + 1
    BY <1>1 DEF Traced, Session
  <2>2. ASSUME NEW c \in Existing \ torn, bots[c].parent = x.parent,
               bots[c].suffix > 0 \/ x.suffix > 0
        PROVE  bots[c].suffix # x.suffix
    <3>1. Count(bots, lineage, x.parent) \in Nat /\ bots[c].suffix \in Nat /\ x.suffix \in Nat
      BY <1>1, CountType DEF IInv, BotRow, Session
    <3> QED BY <1>9, <2>1, <2>2, <3>1
  <2>3. \A a, c \in Existing \ torn :
           (a # c /\ bots[a].suffix > 0 /\ bots[a].parent = bots[c].parent)
              => bots[a].suffix # bots[c].suffix
    BY DEF TrailInv, NamesDistinct
  <2> QED BY <1>3, <1>4, <1>7, <2>2, <2>3 DEF NamesDistinct
<1>13. \A c \in Bots : bots'[c].state = "none" => lineage'[c] = "none"
  BY <1>1, <1>3, <1>4 DEF TrailInv
<1> QED BY <1>8, <1>10, <1>11, <1>12, <1>13 DEF TrailInv

\* A lineage row: the bot is now counted among the resurrections of its parent.
LEMMA RecordTrail ==
  ASSUME IInv, TrailInv, NEW s \in Sessions, \A r \in Sessions : r = s,
         RecordLineage(s), torn' = torn
  PROVE  TrailInv'
<1> DEFINE x == sess[s]
           b == x.bot
<1>1. /\ x \in Session /\ WellFormed(x) /\ Traced(x, bots, lineage) /\ x.pc = "recording"
      /\ sess \in [Sessions -> Session] /\ bots' = bots
      /\ lineage \in [Bots -> {"none"} \cup Relationships]
      /\ bots \in [Bots -> BotRow] /\ Existing \subseteq Bots
  BY DEF IInv, TypeOK, TrailInv, RecordLineage, Existing
<1>2. /\ b \in Existing /\ b \in Bots /\ b # NoBot /\ lineage[b] = "none"
      /\ bots[b].suffix = x.suffix /\ bots[b].parent = x.parent
      /\ x.relationship # "resurrection" => x.suffix = 0
  BY <1>1, LineageAssumption DEF WellFormed, Traced
<1>3. /\ lineage'[b] = x.relationship /\ x.relationship # "none"
      /\ \A c \in Bots \ {b} : lineage'[c] = lineage[c]
  BY <1>1, <1>2 DEF RecordLineage, Session, Relationships
<1>4. sess'[s] = AfterRecording(x)
  BY <1>1 DEF RecordLineage, Become
<1>5. /\ x.relationship = "resurrection" =>
            /\ sess'[s].pc = "versioning" /\ sess'[s].bot = b /\ sess'[s].suffix = x.suffix
            /\ sess'[s].parent = x.parent /\ sess'[s].relationship = "resurrection"
            /\ sess'[s].version = x.version
      /\ x.relationship # "resurrection" => sess'[s] = Idle
  BY <1>1, <1>4 DEF AfterRecording, Session
<1>6. \A p : Count(bots, lineage, p) \in Nat
  BY CountType DEF IInv
<1>7. /\ x.relationship = "resurrection" =>
            Count(bots', lineage', x.parent) = Count(bots, lineage, x.parent) + 1
      /\ \A p : p # x.parent \/ x.relationship # "resurrection" =>
            Count(bots', lineage', p) = Count(bots, lineage, p)
  <2>1. ASSUME NEW p, p # x.parent \/ x.relationship # "resurrection"
        PROVE  Resurrected(bots', lineage', p) = Resurrected(bots, lineage, p)
    BY <1>1, <1>2, <1>3, <2>1 DEF Resurrected
  <2>2. ASSUME x.relationship = "resurrection"
        PROVE  Count(bots', lineage', x.parent) = Count(bots, lineage, x.parent) + 1
    <3> DEFINE R == Resurrected(bots, lineage, x.parent)
    <3>1. Resurrected(bots', lineage', x.parent) = R \cup {b} /\ b \notin R
      BY <1>1, <1>2, <1>3, <2>2 DEF Resurrected, Existing
    <3>2. IsFiniteSet(R)
      BY CountType DEF IInv
    <3> HIDE DEF R
    <3>3. Cardinality(R \cup {b}) = Cardinality(R) + 1
      BY <3>1, <3>2, FS_AddElement
    <3> QED BY <3>1, <3>3 DEF Count, R
  <2> QED BY <2>1, <2>2 DEF Count
<1>8. Traced(sess'[s], bots', lineage')
  <2>1. CASE x.relationship = "resurrection"
    BY <1>1, <1>2, <1>3, <1>5, <2>1 DEF Traced
  <2>2. CASE x.relationship # "resurrection"
    BY <1>5, <2>2 DEF Traced, Idle
  <2> QED BY <2>1, <2>2
<1>9. Numbered(bots', lineage', torn', Recording(sess'[s]))
  <2> SUFFICES ASSUME NEW c \in Bots, c \notin torn, bots[c].state # "none",
                      bots[c].suffix > 0
               PROVE  bots[c].suffix <= Count(bots', lineage', bots[c].parent)
    BY <1>1 DEF Numbered
  <2>1. CASE c = b
    <3>1. x.relationship = "resurrection" /\ x.suffix = Count(bots, lineage, x.parent) + 1
      BY <1>1, <1>2, <2>1 DEF Traced
    <3> QED BY <1>2, <1>6, <1>7, <2>1, <3>1
  <2>2. CASE c # b
    <3>1. bots[c].suffix <= Count(bots, lineage, bots[c].parent)
      BY <1>1, <2>2 DEF TrailInv, Numbered, Recording
    <3>2. bots[c].suffix \in Nat
      BY <1>1 DEF BotRow
    <3> QED BY <1>6, <1>7, <3>1, <3>2
  <2> QED BY <2>1, <2>2
<1>10. Existing' = Existing /\ Roots' = Roots
  BY <1>1 DEF Existing, Roots
<1>11. TrailComplete'
  <2> SUFFICES ASSUME NEW c \in Existing \ (Roots \cup torn),
                      \A r \in Sessions : sess'[r].bot # c
               PROVE  /\ lineage'[c] # "none"
                      /\ bots[c].suffix > 0 =>
                            bots[c].version = bots[bots[c].parent].version + 1
    BY <1>1, <1>10 DEF TrailComplete
  <2>1. CASE c = b
    BY <1>2, <1>3, <1>5, <2>1
  <2>2. CASE c # b
    <3>1. \A r \in Sessions : sess[r].bot # c
      BY <2>2
    <3> QED BY <1>1, <1>3, <2>2, <3>1 DEF TrailInv, TrailComplete
  <2> QED BY <2>1, <2>2
<1>12. NamesDistinct'
  BY <1>1, <1>10 DEF TrailInv, NamesDistinct
<1>13. \A c \in Bots : bots'[c].state = "none" => lineage'[c] = "none"
  BY <1>1, <1>2, <1>3 DEF TrailInv, Existing
<1> QED BY <1>8, <1>9, <1>11, <1>12, <1>13 DEF TrailInv

\* The version: nobody descends from the new bot yet.
LEMMA VersionTrail ==
  ASSUME IInv, TrailInv, NEW s \in Sessions, \A r \in Sessions : r = s,
         SetVersion(s), torn' = torn
  PROVE  TrailInv'
<1> DEFINE x == sess[s]
           b == x.bot
           n == bots[x.parent].version + 1
<1>1. /\ x \in Session /\ WellFormed(x) /\ Traced(x, bots, lineage) /\ x.pc = "versioning"
      /\ sess \in [Sessions -> Session] /\ lineage' = lineage
      /\ bots \in [Bots -> BotRow] /\ Existing \subseteq Bots
  BY DEF IInv, TypeOK, TrailInv, SetVersion, Existing
<1>2. /\ b \in Existing /\ b \in Bots /\ lineage[b] # "none"
      /\ x.parent \in Bots /\ bots[b].parent = x.parent
      /\ \A c \in Existing : bots[c].parent # b
  BY <1>1 DEF WellFormed, Traced, Existing
<1>3. sess'[s] = Idle
  BY <1>1 DEF SetVersion, Become
<1>4. bots' = [bots EXCEPT ![b].version = n]
  <2>1. x.version = n
    BY <1>1 DEF Traced
  <2> QED BY <2>1 DEF SetVersion
<1>5. /\ bots'[b].version = n
      /\ \A c \in Bots \ {b} : bots'[c] = bots[c]
      /\ \A c \in Bots : /\ bots'[c].state = bots[c].state
                         /\ bots'[c].parent = bots[c].parent
                         /\ bots'[c].generation = bots[c].generation
                         /\ bots'[c].suffix = bots[c].suffix
  BY <1>1, <1>2, <1>4 DEF BotRow
<1>6. \A p : Count(bots', lineage', p) = Count(bots, lineage, p)
  <2>1. \A p : Resurrected(bots', lineage', p) = Resurrected(bots, lineage, p)
    BY <1>1, <1>5 DEF Resurrected
  <2> QED BY <2>1 DEF Count
<1>7. Traced(sess'[s], bots', lineage')
  BY <1>3 DEF Traced, Idle
<1>8. Numbered(bots', lineage', torn', Recording(sess'[s]))
  <2>1. Numbered(bots, lineage, torn, Recording(x)) /\ Recording(x) = {}
    BY <1>1 DEF TrailInv, Recording
  <2> QED BY <1>5, <1>6, <2>1 DEF Numbered
<1>9. Existing' = Existing /\ Roots' = Roots
  BY <1>5 DEF Existing, Roots
<1>10. TrailComplete'
  <2> SUFFICES ASSUME NEW c \in Existing \ (Roots \cup torn)
               PROVE  /\ lineage[c] # "none"
                      /\ bots[c].suffix > 0 =>
                            bots'[c].version = bots'[bots[c].parent].version + 1
    BY <1>1, <1>5, <1>9 DEF TrailComplete
  <2>0. bots[c].parent \in Bots \ {b}
    BY <1>1, <1>2 DEF IInv, GenerationsBounded, Roots, BotRow
  <2>1. bots'[bots[c].parent] = bots[bots[c].parent]
    BY <1>5, <2>0
  <2>2. CASE c = b
    BY <1>2, <1>5, <2>1, <2>2
  <2>3. CASE c # b
    <3>1. \A r \in Sessions : sess[r].bot # c
      BY <2>3
    <3> QED BY <1>1, <1>5, <2>1, <2>3, <3>1 DEF TrailInv, TrailComplete
  <2> QED BY <2>2, <2>3
<1>11. NamesDistinct'
  BY <1>1, <1>5, <1>9 DEF TrailInv, NamesDistinct
<1>12. \A c \in Bots : bots'[c].state = "none" => lineage'[c] = "none"
  BY <1>1, <1>5 DEF TrailInv
<1> QED BY <1>7, <1>8, <1>10, <1>11, <1>12 DEF TrailInv

LEMMA StepTrail ==
  ASSUME \A s, r \in Sessions : s = r, IInv, TrailInv, [Next]_vars
  PROVE  TrailInv'
<1>1. ASSUME NEW b \in Bots, Die(b), torn' = torn
      PROVE  TrailInv'
  <2>1. bots \in [Bots -> BotRow] /\ \A r \in Sessions : WellFormed(sess[r])
    BY DEF IInv, TypeOK
  <2>2. SameTrail /\ sess' = sess
    BY <1>1, <2>1 DEF Die, SameTrail, BotRow
  <2>3. \A r \in Sessions : /\ Traced(sess[r], bots, lineage)
                            /\ sess[r].pc \in {"recording", "versioning"} => sess[r].bot \in Bots
    BY <2>1 DEF TrailInv, WellFormed, Existing
  <2> QED BY <1>1, <2>2, <2>3, QuietTrail
<1>2. CASE UNCHANGED vars
  BY <1>2 DEF vars, TrailInv, TrailComplete, NamesDistinct, Existing, Roots
<1>3. CASE Next
  BY <1>1, <1>3, QuietSteps, InsertTrail, RecordTrail, VersionTrail DEF Next, Call, Abort
<1> QED BY <1>2, <1>3

\* With one caller at a time, whatever fails, every son whose call did not fail has
\* its lineage row, a resurrected one the version after its predecessor's and a
\* number of its own (spawn_son, lines 94-129; resurrect, lines 37-80).
THEOREM SerialTrail ==
  ASSUME \A s, r \in Sessions : s = r
  PROVE  Spec => []SonsRecorded
<1>1. IInv /\ TrailInv /\ [Next]_vars => TrailInv'
  BY StepTrail
<1>2. TrailInv => SonsRecorded
  BY DEF TrailInv, SonsRecorded
<1> QED BY <1>1, <1>2, InitIInv, InitTrail, StepIInv, PTL DEF Spec
=============================================================================
