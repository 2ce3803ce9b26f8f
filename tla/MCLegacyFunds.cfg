SPECIFICATION Spec
CONSTANTS
  p = p
  q = q
  jar = jar
  gold = gold
  silver = silver
  bronze = bronze
  high = high
  None = None
  Everywhere = Everywhere
  Party = {p, q}
  Admin = p
  Jar = jar
  Token = {gold, silver}
  Amounts = {20, 40}
  Supply <- MCSupply
  Bps = 20
  MaxTime = 3
  Configs <- MCConfigs
  Keepers = {q}
  BlockTimes = {0, 1}
  HalfLife = 4
  StreakWindow = 1
  MaxStreak = 3
  StreakBonus = 2
  TipperUnit = 10
  CreatorUnit = 5
  Goals = {20}
  RewardPct = 5
  Congestion <- Rates
  Shares = {7}
  Conditions <- MCConditions
  Ops <- MCOps
  FeeRates = {0, 3}
  MaxFeeBps = 2
  MinTips = {0, 40}
  Breakers <- MCBreakers
  Terms <- MCTerms
  Loans = {1, 2}
  Day = 2
  MinWithdrawal = 40
  Limits <- MCLimits
  Grants <- MCGrants
  Signatures <- MCSignatures
  Delays = {1, 2}
  RefundWindows = {1, 2}
  StreamRates = {10}
  AuctionTimes = {1}
  Reserves = {0, 30}
  Tier = {bronze, high}
  FirstTier = bronze
  TierPrices = {10, 30}
  Intervals = {2}
  MinInterval = 2
  Policies <- MCPolicies
  MaxPremiumBps = 1
  MaxTipPremium = 2
  ClaimLimits = {1}
  MaxCalls <- Calls
INVARIANTS
  FundsInv
  JarAccounted
  RegistersAgree
  PaidWithinRights
PROPERTIES
  RatesLimited
CHECK_DEADLOCK FALSE
