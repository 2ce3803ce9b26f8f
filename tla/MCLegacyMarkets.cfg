SPECIFICATION Spec
CONSTANTS
  p = p
  q = q
  jar = jar
  gold = gold
  silver = silver
  None = None
  Party = {p, q}
  Admin = p
  Jar = jar
  Token = {gold, silver}
  Amounts = {7, 20}
  Supply <- MCSupply
  Bps = 20
  MaxTime = 5
  Configs <- MCConfigs
  MinLiquidity = 5
  Precision = 100
  PoolFees = {0, 3}
  DefaultFee = 1
  MaxPoolFee = 4
  MinBet = 5
  BetFees = {1}
  MaxBetFee = 2
  CloseTimes = {1}
  Margins <- MCMargins
  Prices = {10, 16}
  Sizes = {10}
  MinSize = 5
  PriceUnit = 10
  Terms = {1}
  StopPrices = {0, 10, 20}
  Trails = {5}
  Spreads = {2}
  MaxSpread = 4
  TradeFee = 1
  MidPrices = {10, 15}
  MakerUnit = 10
  MaxTrades = {20}
  Withdrawals <- MCWithdrawals
  Curves <- MCCurves
  MaxCurveFee = 2
  CurveUnit = 10
  Steps = 20
  Programs <- MCPrograms
  MaxVesting = 4
  Year = 2
  MinBoost = 10
  MaxBoost = 30
  BoostUnit = 10
  BoostLocks = {1, 3}
  RoundTimes = {1}
  RetroTimes <- MCRetroTimes
  Criteria <- MCCriteria
  VoteScale = 10
  RootUnit = 10
  Baskets <- MCBaskets
  SharePrice = 10
  MinDeposit = 7
  FeedPrices = {10, 13}
  Windows = {1, 3}
  MinWindow = 1
  MaxWindow = 4
  Rings = {2, 3}
  MinRing = 2
  MaxRing = 3
  Intervals = {0}
  VolUnit = 10
  Tips <- MCTips
  MaxCalls <- Calls
  MaxOpen = 1
INVARIANTS
  MarketsAccounted
  ClaimsBacked
  FeedsTrue
PROPERTIES
  PricesMonotone
CHECK_DEADLOCK FALSE
