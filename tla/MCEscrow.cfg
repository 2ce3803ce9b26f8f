\* Tips, fees, withdrawals, the allowlist and the v1 migration of two creators and a
\* fee collector who share one token account; time, delegation and the breaker stand
\* still.
SPECIFICATION Spec
CONSTANTS
  Address = {jar, cat, dan}
  Signer = {cat, dan}
  AdminCandidates = {}
  CollectorCandidates = {cat, dan}
  None = None
  Wasm = {w0}
  Hashes = {}
  Timelocks = {1}
  TransferExpiry = 2
  U32 = 16
  MaxLedger = 0
  Guardians = {}
  PauseCalls = {}
  Durations = {}
  DefaultPauseDuration = 2
  Jar = jar
  Creator = {cat, dan}
  Token = {usd}
  Payees = {}
  Delegates = {}
  Amounts = {0, 3}
  FeeRates = {0, 1, 2}
  Expiries = {}
  LegacyAmounts = {1, 2}
  Supply = 3
  PayoutDelay = 2
  MaxTokens = 1
  BpsDenominator = 2
  MaxFeeBps = 1
  I128Max = 4
SYMMETRY JarSymmetry
INVARIANTS
  TypeOK
  Solvent
  OwedWithinTotal
  FundsReachable
PROPERTIES
  TotalsNeverFall
  BalanceFallsOnlyByPayout
