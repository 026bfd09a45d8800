SPECIFICATION SpecReliable
CONSTANTS
  b1 = b1
  b2 = b2
  tA = tA
  tB = tB
  k1 = k1
  k2 = k2
  k3 = k3
  k4 = k4
  s1 = s1
  s2 = s2
  s3 = s3
  NoKey = NoKey
  NoOrder = NoOrder
  NoToken = NoToken
  NoPosition = NoPosition
  NotLoaded = NotLoaded
  SlipPct = 1
  FeePct = 1
  Bots = {b1}
  Tokens = {tA, tB}
  Keys = {k1, k2, k3}
  Sessions = {s1}
  Orders <- OrdersTwoTokens
  InitialCapital = 30000
  MaxLoss = 5000
  MaxPosition = 10000
  MinWallet = 5000
  MaxDailyLoss = 1000
  MaxTrades = 10
  MaxLosses = 1
  SystemStates = {"ONLINE"}
  MaxDay = 1
SYMMETRY KeySymmetry
INVARIANT NeverTrapped
