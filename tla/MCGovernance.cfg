\* Admin and collector rotation, time-locked upgrades and both kinds of pause.
SPECIFICATION PauseSpec
CONSTANTS
  Address = {ann, bob}
  Signer = {ann, bob}
  AdminCandidates = {ann, bob}
  CollectorCandidates = {bob}
  None = None
  Wasm = {w0, w1}
  Hashes = {w1}
  Timelocks = {0, 2}
  TransferExpiry = 1
  U32 = 16
  MaxLedger = 3
  Guardians = {bob}
  PauseCalls = {{"tips"}, {"withdrawals"}, {"tips", "withdrawals"}}
  Durations = {0, 2}
  DefaultPauseDuration = 1
INVARIANTS
  GovTypeOK
  NoStaleAdminOffer
  AdminPauseHolds
PROPERTIES
  UpgradeTimelocked
  AdminHandover
  CollectorHandover
  PauseEndsOnlyByAdminOrExpiry
