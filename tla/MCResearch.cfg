SPECIFICATION ResearchSpec
\* Theses, mints and audit rows run out.
CHECK_DEADLOCK FALSE
CONSTANTS
  s1 = s1
  s2 = s2
  v1 = v1
  th1 = th1
  p1 = p1
  w1 = w1
  w2 = w2
  a1 = a1
  a2 = a2
  m1 = m1
  m2 = m2
  m3 = m3
  c1 = c1
  c2 = c2
  NoCopy = NoCopy
  NotGiven = NotGiven
  NoScore = NoScore
  NoWallet = NoWallet
  NoCreator = NoCreator
  Sessions = {s1, s2}
  Monitors = {s1, s2}
  Versions = {v1}
  Theses = {th1}
  TestCapital = 5
  Ladder <- FiveDollarLadder
  MinOperations = 2
  MaxDrawdown = 20
  Reports <- ReportsAround
  MaxStarts = 2
  Protocols = {p1}
  Updates <- SomeUpdates
  Baseline = 50
  PerAudit = 10
  MaxAudit = 20
  PerIncident = 15
  FullAge = 10
  MaxAge = 15
  FullTvl = 10
  MaxTvl = 15
  EligibleMax = 60
  Wallet = {w1, w2}
  Addresses = {a1, a2}
  Kinds <- Receiving
  MaxChanges = 2
  Mints = {m1, m2, m3}
  Creators = {c1, c2}
  CreatorAddresses = {a1, a2}
  MaxPrior = 0
  WatchWallets = {w1}
SYMMETRY Symmetry
INVARIANT EarnedStanding
INVARIANT VelocityFlagged
PROPERTY ScoreStaleOnlyByRace
PROPERTY DisabledStands
PROPERTY DuplicateOnlyByRace
PROPERTY AddressOnRecord
PROPERTY CreatorDoubledOnlyByRace
