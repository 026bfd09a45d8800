SPECIFICATION Spec
CONSTANTS
  b1 = b1
  b2 = b2
  t1 = t1
  t2 = t2
  s1 = s1
  s2 = s2
  Mother = Mother
  NoBot = NoBot
  NoThesis = NoThesis
  Sons = {b1, b2}
  Theses = {t1, t2}
  Sessions = {s1, s2}
  Payments <- PaymentPairs
  TestCapital = 5
  MotherCapital = 9
  LoanPct = 60
SYMMETRY Symmetry
CHECK_DEADLOCK FALSE
INVARIANT ExposureBounded
INVARIANT PatrimonyKept
INVARIANT BooksOfLoans
INVARIANT MotherSolvent
PROPERTY DeathUndoneOnlyByRace
