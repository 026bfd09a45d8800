SPECIFICATION CycleSpecReliable
\* The launches run out.
CHECK_DEADLOCK FALSE
CONSTANTS
  b1 = b1
  b2 = b2
  tA = tA
  tB = tB
  tC = tC
  s1 = s1
  s2 = s2
  op = op
  NoKey = NoKey
  NoOrder = NoOrder
  NoToken = NoToken
  NoPosition = NoPosition
  NotLoaded = NotLoaded
  SlipPct = 1
  FeePct = 1
  EntryPriceOfLaunch = 10000
  ExitPrices = {10000, 20000}
  PerCycle = 2
  TradeKey <- KeyOf
  Buckets = {"low"}
  BucketOf <- OneBand
  MinSamples = 1
  Operators = {op}
  NoRequest = NoRequest
  Keys <- AllKeys
  Orders <- AllOrders
  Bots = {b1}
  Tokens = {tA, tB, tC}
  Sessions = {s1, s2}
  InitialCapital = 30000
  MaxLoss = 299
  MaxPosition = 10000
  MinWallet = 5000
  MaxDailyLoss = 5000
  MaxTrades = 6
  MaxLosses = 5
  SystemStates = {"ONLINE", "EMERGENCY_STOP"}
  MaxDay = 0
SYMMETRY FullSymmetry
INVARIANT LearnsFromTrades
INVARIANT SuggestionsBounded
PROPERTY RevivedOnlyByRace
