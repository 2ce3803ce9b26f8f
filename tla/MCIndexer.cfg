\* Listener and replays over the same tables, with failing calls and a crash.
SPECIFICATION IndexerSpec
CONSTANTS
  None = None
  MaxEvents = 3
  EventsPerLedger = 1
  Unparsable = {2}
  PageSize = 2
  MaxRetries = 1
  StartLedger = None
  FromCursors = {None, 0}
  FromLedgers = {None}
  ToLedgers = {2, None}
  Persists = {TRUE, FALSE}
  MaxFaults = 2
  MaxCrashes = 1
CHECK_DEADLOCK FALSE
INVARIANTS
  IndexerTypeOK
  NothingSkipped
  DropsCostRetries
PROPERTY
  EventuallyIndexed
