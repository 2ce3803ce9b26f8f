\* Delayed payout addresses and operator allowances against the clock and the
\* circuit breaker.
SPECIFICATION Spec
CONSTANTS
  Address = {jar, cat, dan, opr}
  Signer = {cat, opr}
  AdminCandidates = {}
  CollectorCandidates = {}
  None = None
  Wasm = {w0}
  Hashes = {}
  Timelocks = {1}
  TransferExpiry = 2
  U32 = 16
  MaxLedger = 3
  Guardians = {opr}
  PauseCalls = {{"tips"}, {"withdrawals"}}
  Durations = {}
  DefaultPauseDuration = 1
  Jar = jar
  Creator = {cat}
  Token = {usd}
  Payees = {dan}
  Delegates = {opr}
  Amounts = {1, 2}
  FeeRates = {}
  Expiries = {1}
  LegacyAmounts = {2}
  Supply = 1
  PayoutDelay = 2
  MaxTokens = 1
  BpsDenominator = 10
  MaxFeeBps = 2
  I128Max = 2
INVARIANTS
  OperatorWithinGrant
PROPERTIES
  PayoutDelayed
  PausedMeansFrozen
