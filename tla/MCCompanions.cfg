SPECIFICATION Spec
CONSTANTS
  I128Max = 7
  Trader = {ann, bob}
  Contract = contract
  Token = {xlm, usd}
  Amounts = {0, 2}
  LimitPrices = {2}
  Prices = {0, 1, 2, 3}
  Supply = 4
  MaxOrders = 3
  Holder = {ann}
  Kinds = {call, put}
  Strikes = {1, 2}
  Quantities = {0, 1, 2}
  Expiries = {1}
  Funds = 3
  MaxLedgerTime = 1
  MaxDerivs = 3
  User = {ann, bob}
  None = None
  Deltas = {1, 3, 4}
  Thresholds = {0, 1, 2}
  Scale = 2
  MaxInits = 2
  Call = {c1, c2}
  Sender = {ann}
  MaxTx = 2
  Window = 1
  Threshold = 2
  MaxTime = 1
  MaxChecks = 5
  MaxResets = 1
  MaxEdits = 2
  InstanceKeys = {admin}
  PersistentKeys = {ann}
  Value = {v, w}
  Modes = {TRUE, FALSE}
  Encrypt = FALSE
  SameDir = TRUE
  MaxBackups = 2
  MaxChanges = 3
  MaxFaults = 1
  MaxCrashes = 1
  Settings = {fee}
  Records = {tips}
  ZeroValue = zero
  Live = live
  Expired = expired
  Cancelled = cancelled
  Missing = Missing
  MaxCommands = 4
  MaxUserCalls = 1
  MaxBadCalls = 2
INVARIANTS
  CompanionsTypeOK
  ContractsInStep
  MonitorHolds
  BackupsUsable
PROPERTIES
  FilledAtLimitOrBetter
  NeverHalfImported
  BackedUpAtLast
CHECK_DEADLOCK FALSE
