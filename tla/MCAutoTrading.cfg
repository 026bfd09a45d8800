SPECIFICATION AutoSpec
CONSTANTS
  b1 = b1
  b2 = b2
  tA = tA
  tB = tB
  tick = tick
  hand = hand
  op = op
  NoKey = NoKey
  NoOrder = NoOrder
  NoToken = NoToken
  NoPosition = NoPosition
  NotLoaded = NotLoaded
  SlipPct = 1
  FeePct = 1
  EntryPriceOfLaunch = 10000
  ExitPrices = {20000}
  PerCycle = 1
  TradeKey <- KeyOf
  Buckets = {"low"}
  BucketOf <- OneBand
  MinSamples = 1
  Operators = {op}
  NoRequest = NoRequest
  Ticker = tick
  Tasks = {1, 2}
  NoTask = 0
  EnabledAtStart = FALSE
  Keys <- AllKeys
  Orders <- AllOrders
  Bots = {b1}
  Tokens = {tA, tB}
  Sessions = {tick, hand}
  InitialCapital = 30000
  MaxLoss = 299
  MaxPosition = 10000
  MinWallet = 5000
  MaxDailyLoss = 5000
  MaxTrades = 2
  MaxLosses = 5
  SystemStates = {"ONLINE", "EMERGENCY_STOP"}
  MaxDay = 0
INVARIANT KillStopsTrading
INVARIANT TradesPerDayBounded
INVARIANT LoopMatchesSwitch
PROPERTY CycleEnds
PROPERTY StopIsHeard
PROPERTY LoopKeepsTicking
