SPECIFICATION SpecRetrying
CONSTANTS
  b1 = b1
  b2 = b2
  tA = tA
  tB = tB
  k1 = k1
  k2 = k2
  k3 = k3
  k4 = k4
  s1 = s1
  s2 = s2
  s3 = s3
  NoKey = NoKey
  NoOrder = NoOrder
  NoToken = NoToken
  NoPosition = NoPosition
  NotLoaded = NotLoaded
  SlipPct = 1
  FeePct = 1
  Bots = {b1, b2}
  Tokens = {tA}
  Keys = {k1, k2, k3}
  Sessions = {s1, s2}
  Orders <- OrdersSerial
  InitialCapital = 30000
  MaxLoss = 299
  MaxPosition = 10000
  MinWallet = 5000
  MaxDailyLoss = 1000
  MaxTrades = 10
  MaxLosses = 5
  SystemStates = {"ONLINE", "PAUSED"}
  MaxDay = 1
SYMMETRY SessionSymmetry
INVARIANT LedgerAgrees
INVARIANT PositionsAgree
PROPERTY DeadBotFrozen
PROPERTY Promise
