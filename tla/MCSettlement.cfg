SPECIFICATION Spec
CONSTANTS
  b1 = b1
  b2 = b2
  d1 = d1
  d2 = d2
  s1 = s1
  Mother = Mother
  NoBot = NoBot
  NoDay = NoDay
  Sons = {b1}
  Days = {d1, d2}
  Sessions = {s1}
  Calls <- DayCalls
  RetainPct = 50
  ReservePct = 20
  ReturnPct = 20
  Capital = 10
  Borrowed = 150
  MaxFailures = 1
SYMMETRY Symmetry
CHECK_DEADLOCK FALSE
INVARIANT ReserveMirrored
INVARIANT BooksAgree
INVARIANT MoneyConserved
