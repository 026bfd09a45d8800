SPECIFICATION Spec
CONSTANTS
  b1 = b1
  b2 = b2
  b3 = b3
  b4 = b4
  b5 = b5
  s1 = s1
  s2 = s2
  NoBot = NoBot
  Bots = {b1, b2, b3, b4, b5}
  Sessions = {s1}
  MaxBots = 4
  MaxGenerations = 2
SYMMETRY Symmetry
CHECK_DEADLOCK FALSE
INVARIANT GenerationsBounded
INVARIANT PopulationBounded
INVARIANT SonsRecorded
