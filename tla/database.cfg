\* Two e-mails, two workers, two connections or one, two attempts, two faults; an old
\* process and two new ones, two faults of their starts and two stops.
SPECIFICATION PartsSpec
CONSTANTS
  Entries = {e1, e2}
  Workers = {w1, w2}
  Connections = 2
  MaxAttempts = 2
  MaxFaults = 2
  None = None
  Procs = {"old", "new1", "new2"}
  Latest = 3
  Applied0 = 0
  Knows <- KnownBy
  max_deliver <- Deliveries
  Rows = {"r1"}
  MaxStartFaults = 2
  MaxStops = 2
  Envelopes <- AllEnvelopes
  EarlierEnvelopes <- WithoutDefaulted
  HeaderMaps <- Spellings
  Lowercase <- InLowercase
CHECK_DEADLOCK FALSE
INVARIANTS ReleasesAgree ReadAsWritten
PROPERTIES KeepsPort QueueIsSound DatabaseServes
