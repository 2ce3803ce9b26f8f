SPECIFICATION Spec
CONSTANTS
  p = p
  q = q
  jar = jar
  gold = gold
  None = None
  Party = {p, q}
  Admin = p
  Jar = jar
  Token = {gold}
  Amounts = {7, 20}
  Supply <- MCSupply
  Bps = 20
  MaxTime = 6
  Configs <- MCConfigs
  Spans <- MCSpans
  DefaultBreaker <- MCBreaker
  BreakerConfigs <- MCBreakers
  Limits = {0, 5}
  Forget = 3
  StatusInterval = 1
  Severities = {"Low", "Critical"}
  Rates = {2, 8, 110}
  Full = 10000
  Nonces = {0, 1, 2}
  DisputeWindows = {1}
  MetaWindow = 2
  Validity = {1, 3}
  ChallengePeriod = 1
  Roots = {1, 2}
  MaxBatch = 2
  Phases <- MCPhases
  Values = {1, 2}
  Salts = {1}
  Nullifiers = {1, 2}
  Supplies = {3, 5}
  Lots = {1, 2}
  BuyoutPrices = {0, 2}
  Splits <- MCSplits
  MaxNestDepth = 2
  AddressHash <- MCHash
  ShardCounts = {1, 2}
  DefaultShardCount = 2
  MaxShardCount = 2
  Threshold = 30
  BranchingFactor = 2
  MaxLeaves = 3
  LeafKeys = {1, 2, 3}
  Lifetimes = {None, 1}
  HalfLife = 2
  ScoreUnit = 2
  Mints <- MCSigned
  BatchAmounts <- MCSigned
  HistorySize = 3
  Weights = {1, 2}
  ApprovalPercent = 66
  TimelockDelay = 1
  RevocationDelay = 1
  MaxRequest = 2
  Roles = {1, 2}
  MaxCalls <- FractionCalls
  MaxOpen = 1
INVARIANT BuyoutTakesAll
CHECK_DEADLOCK FALSE
