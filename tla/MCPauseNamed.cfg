\* A pause call next to an expired guardian pause.
SPECIFICATION PauseSpec
CONSTANTS
  Address = {ann, bob, gus}
  Signer = {ann, bob, gus}
  AdminCandidates = {bob}
  CollectorCandidates = {}
  None = None
  Wasm = {w0}
  Hashes = {}
  Timelocks = {1}
  TransferExpiry = 2
  U32 = 16
  MaxLedger = 6
  Guardians = {ann, gus}
  PauseCalls = {{"tips"}, {"withdrawals"}, {"tips", "withdrawals"}}
  Durations = {0, 1, 3}
  DefaultPauseDuration = 2
PROPERTY
  PausesNamedFlagsOnly
