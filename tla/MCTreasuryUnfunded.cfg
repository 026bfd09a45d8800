SPECIFICATION Spec
CONSTANTS
  b1 = b1
  b2 = b2
  t1 = t1
  t2 = t2
  s1 = s1
  s2 = s2
  Mother = Mother
  NoBot = NoBot
  NoThesis = NoThesis
  Sons = {b1}
  Theses = {t1}
  Sessions = {s1}
  Payments <- NoPayments
  TestCapital = 5
  MotherCapital = 20
  LoanPct = 20
SYMMETRY Symmetry
CHECK_DEADLOCK FALSE
INVARIANT TradeableIsFunded
